----------------------------- MODULE Leaderboard -----------------------------
(***************************************************************************)
(* One request of the leaderboard (apps/python/api/app/leaderboard.py).    *)
(* The nodes are read one after the other, each in a transaction of its    *)
(* own, and the local variables of the loop outlive its iterations.        *)
(*                                                                         *)
(* Standard errors and times are weighted like the means and left out.     *)
(* Fractions are kept as a sum and its divisor; weights are multiplied by  *)
(* the number of subtasks, by which the code divides that of mmlu.         *)
(***************************************************************************)
EXTENDS Integers, FiniteSets, SequencesExt

CONSTANTS
  Nodes,       (* A document for each address and service                  *)
  Addressings, (* The addresses they may have                              *)
  Metrics,     (* The metrics in the order they are shown, mmlu among them *)
  Subtasks,    (* The tasks mmlu is made of, in order                      *)
  Enough,      (* Fewer samples than this, or as many, are partial: 50     *)
  Rowings,     (* The samples they may have in the buffers of the tasks    *)
  Mean(_), ErrorRate(_)      (* What the buffer of each task says          *)

Tasks == (ToSet(Metrics) \ {"mmlu"}) \cup ToSet(Subtasks)

\* A task without a row has no samples to be counted either.
Absent == -1

ASSUME MetricsAssumption ==
  /\ Metrics \in Seq(STRING) /\ Subtasks \in Seq(STRING) /\ Subtasks # <<>>
  /\ \A i, j \in DOMAIN Metrics : Metrics[i] = Metrics[j] => i = j
  /\ \A i, j \in DOMAIN Subtasks : Subtasks[i] = Subtasks[j] => i = j
  /\ "mmlu" \in ToSet(Metrics) /\ ToSet(Metrics) \cap ToSet(Subtasks) = {}
ASSUME BuffersAssumption ==
  /\ IsFiniteSet(Nodes)
  /\ Rowings \subseteq [Nodes -> [Tasks -> Nat \cup {Absent}]]
  /\ \A t \in Tasks : Mean(t) \in Nat /\ ErrorRate(t) \in Nat
  /\ Enough \in Nat

VARIABLES
  address,     (* The address of each node                                 *)
  rows,        (* The samples each node has in the buffer of each task     *)
  others,      (* The nodes without a row of these that have other buffers *)
  ids,         (* The nodes not read yet                                   *)
  partial,     (* The flag of the loop, unset until it is assigned         *)
  leaderboard, (* The entries, by address                                  *)
  reply,       (* What the request is answered                             *)
  order,       (* History: the nodes in the order they were read           *)
  unread       (* History: the nodes with a query that failed for good     *)

vars == <<address, rows, others, ids, partial, leaderboard, reply, order, unread>>

NoRow(n) == \A t \in Tasks : rows[n][t] = Absent

Init ==
  /\ address \in Addressings
  /\ rows \in Rowings
  /\ others \in SUBSET {n \in Nodes : NoRow(n)}
  /\ ids = <<>> /\ order = <<>> /\ unread = {}
  /\ partial = "unset"
  /\ leaderboard = [a \in {} |-> 0]
  /\ reply = "none"

\* The ids come in no particular order.
GetAllNodesIds ==
  /\ reply = "none"
  /\ ids' \in SetToSeqs(Nodes)
  /\ reply' = "pending"
  /\ UNCHANGED <<address, rows, others, partial, leaderboard, order, unread>>

\* A query is tried ten times.  Nothing catches that of the ids.
IdsFail ==
  /\ reply = "none"
  /\ reply' = "error"
  /\ UNCHANGED <<address, rows, others, ids, partial, leaderboard, order, unread>>

Few(num) == num > 0 /\ num <= Enough

Have(row, tasks) == {t \in tasks : row[t] > 0}

Scores(row) == [t \in Tasks |-> Mean(t) * row[t]]
Errors(row) == [t \in Tasks |-> row[t] * ErrorRate(t)]

\* Errors and requests of tasks.
Qos(row, tasks) ==
  [errors |-> SumFunctionOnSet(Errors(row), Have(row, tasks)),
   requests |-> SumFunctionOnSet(row, Have(row, tasks))]

\* The subtasks before the first one without a row: there the loop stops.
SubtasksRead(row) ==
  LET missing == {i \in DOMAIN Subtasks : row[Subtasks[i]] = Absent} IN
  IF missing = {} THEN Subtasks ELSE SubSeq(Subtasks, 1, Min(missing) - 1)

(* Mutant: mmlu leaves the flag as it was. *)
MmluNotReset(row, flag) ==
  LET s == SubtasksRead(row) IN
  [partial |-> IF \E i \in DOMAIN s : Few(row[s[i]]) THEN "yes" ELSE flag,
   missing |-> s # Subtasks,
   sum |-> SumFunctionOnSet(Scores(row), Have(row, ToSet(s))),
   weight |-> SumFunctionOnSet(row, Have(row, ToSet(s))),
   qos |-> Qos(row, ToSet(s))]

(* Mutant: a subtask without a row is passed over. *)
MmluSkips(row, flag) ==
  LET have == Have(row, ToSet(Subtasks)) IN
  [partial |-> IF \E t \in have : Few(row[t]) THEN "yes" ELSE "no",
   missing |-> FALSE,
   sum |-> SumFunctionOnSet(Scores(row), have),
   weight |-> SumFunctionOnSet(row, have),
   qos |-> Qos(row, have)]

\* All the subtasks together, each sample of which weighs the same.
Mmlu(row, flag) ==
  LET s == SubtasksRead(row) IN
  [partial |-> IF \E i \in DOMAIN s : Few(row[s[i]]) THEN "yes" ELSE "no",
   missing |-> s # Subtasks,
   sum |-> SumFunctionOnSet(Scores(row), Have(row, ToSet(s))),
   weight |-> SumFunctionOnSet(row, Have(row, ToSet(s))),
   qos |-> Qos(row, ToSet(s))]

(* Mutant: the last sample that makes a metric whole is not waited for. *)
SingleTooSoon(row, metric, flag) ==
  LET w == IF row[metric] > 0 THEN Len(Subtasks) * row[metric] ELSE 0 IN
  [partial |-> IF Few(row[metric] + 1) THEN "yes" ELSE flag,
   missing |-> row[metric] = Absent,
   sum |-> Mean(metric) * w, weight |-> w, qos |-> Qos(row, {metric})]

\* A metric of one task.
Single(row, metric, flag) ==
  LET w == IF row[metric] > 0 THEN Len(Subtasks) * row[metric] ELSE 0 IN
  [partial |-> IF Few(row[metric]) THEN "yes" ELSE flag,
   missing |-> row[metric] = Absent,
   sum |-> Mean(metric) * w, weight |-> w, qos |-> Qos(row, {metric})]

Computed(row, metric, flag) ==
  IF metric = "mmlu" THEN Mmlu(row, flag) ELSE Single(row, metric, flag)

Status(c) ==
  CASE c.missing \/ c.weight = 0 -> "MISSING"
    [] ~c.missing /\ c.weight > 0 /\ c.partial = "yes" -> "PARTIAL"
    [] OTHER -> "OK"

\* What is there after no metric.
Blank(flag) ==
  [partial |-> flag, unbound |-> FALSE, status |-> [m \in ToSet(Metrics) |-> "none"],
   sum |-> 0, weight |-> 0, errors |-> 0, requests |-> 0, incomplete |-> FALSE]

\* One more metric of an entry.  The flag is read for a metric that is shown, an error
\* if nothing has assigned it.
AddMetric(row, e, metric) ==
  LET c == Computed(row, metric, e.partial)
      shown == Status(c) # "MISSING"
  IN IF e.unbound THEN e
     ELSE IF shown /\ c.partial = "unset" THEN [e EXCEPT !.unbound = TRUE]
     ELSE [e EXCEPT !.partial = c.partial, !.status[metric] = Status(c),
                    !.sum = IF shown THEN @ + c.sum ELSE @,
                    !.weight = IF shown THEN @ + c.weight ELSE @,
                    !.errors = @ + c.qos.errors, !.requests = @ + c.qos.requests,
                    !.incomplete = @ \/ ~shown]

Entry(row, flag) ==
  FoldLeft(LAMBDA e, m : AddMetric(row, e, m), Blank(flag), Metrics)

\* The first metric fails when no buffer gives the scores their columns.
NoScores(n) == NoRow(n) /\ n \notin others

Listing(n, e) ==
  [a \in {address[n]} \cup DOMAIN leaderboard |->
     IF a = address[n] THEN [node |-> n, entry |-> e] ELSE leaderboard[a]]

\* A node is left out when a query of it fails, when it has no scores or when the flag is
\* read before it is set.
AddNode ==
  LET n == Head(ids)
      e == Entry(rows[n], partial)
  IN
  /\ reply = "pending" /\ ids # <<>>
  /\ ids' = Tail(ids)
  /\ order' = Append(order, n)
  /\ \/ /\ unread' = unread \cup {n}
        /\ UNCHANGED <<partial, leaderboard>>
     \/ /\ NoScores(n)
        /\ UNCHANGED <<partial, leaderboard, unread>>
     \/ /\ ~NoScores(n)
        /\ partial' = e.partial
        /\ leaderboard' = IF e.unbound THEN leaderboard ELSE Listing(n, e)
        /\ UNCHANGED unread
  /\ UNCHANGED <<address, rows, others, reply>>

Reply ==
  /\ reply = "pending" /\ ids = <<>>
  /\ reply' = IF DOMAIN leaderboard = {} THEN "error" ELSE "ok"
  /\ UNCHANGED <<address, rows, others, ids, partial, leaderboard, order, unread>>

Next == GetAllNodesIds \/ IdsFail \/ AddNode \/ Reply

Spec == Init /\ [][Next]_vars

-----------------------------------------------------------------------------
(***************************************************************************)
(* Properties.                                                             *)
(***************************************************************************)
Listed == {leaderboard[a] : a \in DOMAIN leaderboard}

TasksOf(metric) == IF metric = "mmlu" THEN ToSet(Subtasks) ELSE {metric}

(* A metric of a task with few samples is never shown as whole, whatever   *)
(* the metrics and nodes before it left in the flag (leaderboard.py:146,   *)
(* 171, 242, 267).                                                         *)
PartialShown ==
  \A l \in Listed, m \in ToSet(Metrics) :
    (\E t \in TasksOf(m) : Few(rows[l.node][t])) => l.entry.status[m] # "OK"

Shown(e) == {m \in ToSet(Metrics) : e.status[m] # "MISSING"}

\* The samples of each task, and as often as each weighs.
Samples(row) == [t \in Tasks |-> IF row[t] = Absent THEN 0 ELSE row[t]]
Weights(row) ==
  [t \in Tasks |-> Samples(row)[t] * IF t \in ToSet(Subtasks) THEN 1 ELSE Len(Subtasks)]

SampleErrors(row) == [t \in Tasks |-> Samples(row)[t] * ErrorRate(t)]

\* mmlu reads its subtasks up to the first one without a row.
SubtasksMet(row) ==
  {Subtasks[i] : i \in {k \in DOMAIN Subtasks : \A j \in 1 .. k : row[Subtasks[j]] # Absent}}

(* The average is that of the samples of the metrics shown, where one of   *)
(* mmlu weighs its share of the subtasks: what a loop that stopped early    *)
(* had added to mmlu is not in it.  It is complete only if no metric is     *)
(* missing.  The error rate counts each request once, and those of the     *)
(* subtasks read although mmlu is not shown (leaderboard.py:145-213,       *)
(* 256-302).                                                               *)
TotalsOfShown ==
  \A l \in Listed :
    LET row == rows[l.node]
        e == l.entry
        tasks == UNION {TasksOf(m) : m \in Shown(e)}
        read == (ToSet(Metrics) \ {"mmlu"}) \cup SubtasksMet(row)
    IN
    /\ e.weight = SumFunctionOnSet(Weights(row), tasks)
    /\ e.sum = SumFunctionOnSet([t \in Tasks |-> Mean(t) * Weights(row)[t]], tasks)
    /\ e.incomplete <=> Shown(e) # ToSet(Metrics)
    /\ "mmlu" \in Shown(e) => \A t \in ToSet(Subtasks) : row[t] # Absent
    /\ e.requests = SumFunctionOnSet(Samples(row), read)
    /\ e.errors = SumFunctionOnSet(SampleErrors(row), read)

(* A node with scores is missing only if its queries failed; if no node    *)
(* read before it is listed, as only then can the flag be read before      *)
(* anything assigned it; or if a later one of its address, for another     *)
(* service, took its place (leaderboard.py:102-113, 146, 267, 316-322).    *)
LeftOutExplained ==
  LET listed == {l.node : l \in Listed} IN
  \A j \in DOMAIN order :
    ~NoScores(order[j]) /\ order[j] \notin listed =>
      \/ order[j] \in unread
      \/ \A i \in 1 .. j - 1 : order[i] \notin listed
      \/ \E k \in j + 1 .. Len(order) : address[order[k]] = address[order[j]]

-----------------------------------------------------------------------------
(* What the repository says and the code does not do.                       *)

(* A metric is partial only if a task of it has few samples: "This is a    *)
(* partial metric" (leaderboard.py:171-173).                               *)
PartialOnlyIfFew ==
  \A l \in Listed, m \in ToSet(Metrics) :
    l.entry.status[m] = "PARTIAL" => \E t \in TasksOf(m) : Few(rows[l.node][t])
=============================================================================
