----------------------------- MODULE Documents ------------------------------
(***************************************************************************)
(* How the documents of a dataset become the prompts of a task and the     *)
(* answers become scores (packages/python/lmeh, the lmeh activities of     *)
(* apps/python/sampler and apps/python/evaluator).                         *)
(*                                                                         *)
(* Registration copies every split of a dataset to one Postgres table and  *)
(* gives each record the next id.  The Sampler chooses ids of one split,   *)
(* loads their rows and stores an instance for each prompt of each row,    *)
(* under the id at the row's position.  The Evaluator loads the rows       *)
(* again, joins instances, prompts and responses, sets aside the documents *)
(* with an answer it cannot use, scores the others and stores one sample   *)
(* for each document scored and one for each answer set aside.  One        *)
(* attempt is made here, without errors of the databases: those and the    *)
(* attempts that follow are in Evaluation.                                 *)
(*                                                                         *)
(* Every task of utils/task_config.py that is configured with filters      *)
(* selects one of them, and the first metric alone is stored for a         *)
(* document of one prompt: there is one score for each document.           *)
(***************************************************************************)
EXTENDS Integers, FiniteSets, SequencesExt

CONSTANTS
  Splits,      (* The names of the splits, in the order of the dataset     *)
  Sizes,       (* How many records each split may have                     *)
  EvalSplit,   (* The split documents are sampled from                     *)
  ShotSplits,  (* The splits that are loaded whole for their examples      *)
  Prompts,     (* The prompts of each document are 1..Prompts              *)
  Quantities, Blacklists,    (* What may be asked for                      *)
  Responses,   (* The sequences of responses a prompt may have             *)
  Rotates,     (* Whether a scan of the table may begin in its middle      *)
  Attempts     (* At the registration (2 in register.py)                   *)

ASSUME SplitsAssumption ==
  /\ Splits \in Seq(STRING) /\ Splits # <<>>
  /\ \A i, j \in DOMAIN Splits : Splits[i] = Splits[j] => i = j
  /\ EvalSplit \in ToSet(Splits) /\ ShotSplits \subseteq ToSet(Splits)
ASSUME SizesAssumption == Sizes \subseteq [DOMAIN Splits -> Nat]
ASSUME BoundsAssumption == Prompts \in Nat \ {0} /\ Attempts \in Nat \ {0}

VARIABLES
  stage,       (* How far the task is                                      *)
  size,        (* The records of each split                                *)
  saver,       (* The iterator of the transfer                             *)
  table,       (* The rows of the table, in the order they were copied     *)
  tries,
  ids,         (* The ids sampled, as the task keeps them                  *)
  instances,   (* The instances of the task                                *)
  responses,   (* The responses to the prompt of each instance             *)
  inOrder,     (* Whether every scan returned the sampled rows by id       *)
  result       (* The scores and the number of samples, once stored        *)

vars == <<stage, size, saver, table, tries, ids, instances, responses, inOrder, result>>

\* A response is failed when the node or the relay refused it or it cannot be decoded.
\* One that is decoded may still have no choices, or none of the log probabilities that
\* its score is made of: scoring it raises.
Kinds == {"ok", "failed", "unscorable"}

ASSUME ResponsesAssumption == Responses \subseteq Seq(Kinds)

NoResult == [scores |-> <<>>, num |-> 0]

Init ==
  /\ stage = "new"
  /\ size \in Sizes
  /\ saver = [split |-> 1, pos |-> 1, id |-> 0, consumed |-> FALSE]
  /\ table = <<>>
  /\ tries = 0
  /\ ids = <<>> /\ instances = <<>> /\ responses = <<>>
  /\ inOrder = TRUE
  /\ result = NoResult

-----------------------------------------------------------------------------
(***************************************************************************)
(* Registration: register_task and SqlDatasetSaver.                        *)
(***************************************************************************)
\* The first record gives the columns, so a first split without records is an error.
Transfer ==
  /\ stage = "new"
  /\ tries < Attempts
  /\ tries' = tries + 1
  /\ saver' = [split |-> 1, pos |-> 1, id |-> 0, consumed |-> FALSE]
  /\ stage' = IF size[1] = 0 THEN "refused" ELSE "transfer"
  /\ UNCHANGED <<size, table, ids, instances, responses, inOrder, result>>

(* Mutant: the split after an empty one is not looked at. *)
NextPlaceOneSplit ==
  IF saver.pos < size[saver.split] THEN <<saver.split, saver.pos + 1>>
  ELSE IF saver.split < Len(Splits) /\ size[saver.split + 1] > 0
  THEN <<saver.split + 1, 1>> ELSE <<>>

\* Where the record after the last one returned is: in a later split when this one
\* is at its end, and past the splits without records.
NextPlace ==
  LET later == {s \in saver.split + 1 .. Len(Splits) : size[s] > 0} IN
  IF saver.pos < size[saver.split] THEN <<saver.split, saver.pos + 1>>
  ELSE IF later # {} THEN <<Min(later), 1>> ELSE <<>>

AtFirst == ~saver.consumed /\ saver.split = 1

Row(place) == [id |-> saver.id, split |-> Splits[place[1]], doc |-> place]

(* Mutant: ids begin again in each split. *)
CopyRecordPerSplit ==
  LET place == IF AtFirst THEN <<1, 1>> ELSE NextPlace IN
  /\ stage = "transfer"
  /\ place # <<>>
  /\ table' = Append(table, [Row(place) EXCEPT !.id = place[2] - 1])
  /\ saver' = [split |-> place[1], pos |-> place[2], id |-> saver.id + 1, consumed |-> TRUE]
  /\ UNCHANGED <<stage, size, tries, ids, instances, responses, inOrder, result>>

CopyRecord ==
  LET place == IF AtFirst THEN <<1, 1>> ELSE NextPlace IN
  /\ stage = "transfer"
  /\ place # <<>>
  /\ table' = Append(table, Row(place))
  /\ saver' = [split |-> place[1], pos |-> place[2], id |-> saver.id + 1, consumed |-> TRUE]
  /\ UNCHANGED <<stage, size, tries, ids, instances, responses, inOrder, result>>

Register ==
  /\ stage = "transfer"
  /\ ~AtFirst /\ NextPlace = <<>>
  /\ stage' = "registered"
  /\ UNCHANGED <<size, saver, table, tries, ids, instances, responses, inOrder, result>>

\* The table and the entry of the registry are of one transaction.
RegisterCrash ==
  /\ stage = "transfer"
  /\ stage' = "new"
  /\ table' = <<>>
  /\ UNCHANGED <<size, saver, tries, ids, instances, responses, inOrder, result>>

-----------------------------------------------------------------------------
(***************************************************************************)
(* Loading documents: load_from_sql.                                       *)
(***************************************************************************)
IdsOf(split) == {table[i].id : i \in {j \in DOMAIN table : table[j].split = split}}

\* get_max_min_ids, as the set of ids between the two.
SplitRange(split) == Min(IdsOf(split)) .. Max(IdsOf(split))

SplitExists(split) == IdsOf(split) # {}

\* get_split_from_ids: an id may be of one split only.
SplitFromIds(chosen) == {s \in ToSet(Splits) : SplitExists(s) /\ chosen \cap SplitRange(s) # {}}

Sorted(S) ==
  CHOOSE s \in [1..Cardinality(S) -> S] : \A i, j \in DOMAIN s : i < j => s[i] < s[j]

(* Mutant: what is drawn is not sorted. *)
UnsortedDraws(qty, blacklist) ==
  LET pool == SplitRange(EvalSplit) \ blacklist IN
  {s \in UNION {[1..n -> pool] : n \in {qty} \cap 1..Cardinality(pool)} :
     Cardinality(ToSet(s)) = qty}

\* generate_random_doc_ids: a quantity above the range, a blacklist that has none of
\* its ids or leaves too few of them is refused.
Draws(qty, blacklist) ==
  LET range == SplitRange(EvalSplit) IN
  IF blacklist # {} /\ blacklist \cap range = {} THEN {}
  ELSE {Sorted(S) : S \in {S \in SUBSET (range \ blacklist) : Cardinality(S) = qty}}

\* A request for every document (-1) drops its blacklist.
ChosenIds(qty, blacklist) ==
  IF qty < 0 THEN {Sorted(SplitRange(EvalSplit))} ELSE Draws(qty, blacklist)

\* get_SQL_where_clause.
Selected(row, chosen) ==
  \/ row.id \in ToSet(chosen)
  \/ \E s \in ShotSplits : row.id \in SplitRange(s)

Places(chosen) ==
  {i \in DOMAIN table : Selected(table[i], chosen) /\ table[i].split = EvalSplit}

\* The query names no order: a scan may begin at any row.
Scans == IF Rotates THEN DOMAIN table ELSE {1}

\* The documents of the evaluated split, read from the row k on and then those before.
Loaded(chosen, k) ==
  LET read == Sorted({i \in Places(chosen) : i >= k}) \o Sorted({i \in Places(chosen) : i < k})
  IN [j \in DOMAIN read |-> table[read[j]]]

Ascending(rows) == \A i, j \in DOMAIN rows : i < j => rows[i].id < rows[j].id

Loadable == \A s \in {EvalSplit} \cup ShotSplits : SplitExists(s)

(***************************************************************************)
(* The Sampler: generate_requests.                                         *)
(***************************************************************************)
\* build_all_requests: the id of a document is the one at its position.
Requests(docs, chosen) ==
  FlattenSeq([i \in DOMAIN docs |->
    [c \in 1..Prompts |-> [id |-> chosen[i], doc |-> docs[i].doc, idx |-> c]]])

Sample(qty, blacklist) ==
  /\ stage = "registered"
  /\ Loadable
  /\ \E chosen \in ChosenIds(qty, blacklist), k \in Scans :
       LET docs == Loaded(chosen, k) IN
       /\ docs # <<>> /\ Len(docs) <= Len(chosen)
       /\ ids' = chosen
       /\ instances' = Requests(docs, chosen)
       /\ inOrder' = Ascending(docs)
  /\ stage' = "sampled"
  /\ UNCHANGED <<size, saver, table, tries, responses, result>>

\* A split that is missing, a quantity that cannot be drawn, and more documents than
\* ids (a split that is evaluated and loaded whole) end the activity with an error.
Refuse(qty, blacklist) ==
  /\ stage = "registered"
  /\ Loadable => \A chosen \in ChosenIds(qty, blacklist) : Len(Loaded(chosen, 1)) > Len(chosen)
  /\ stage' = "refused"
  /\ UNCHANGED <<size, saver, table, tries, ids, instances, responses, inOrder, result>>

\* The Requester marks every prompt done; a response may be lost or saved twice.
Respond ==
  /\ stage = "sampled"
  /\ responses' \in [DOMAIN instances -> Responses]
  /\ stage' = "answered"
  /\ UNCHANGED <<size, saver, table, tries, ids, instances, inOrder, result>>

-----------------------------------------------------------------------------
(***************************************************************************)
(* The Evaluator: reconstruct_instances, build_all_requests and evaluate.  *)
(***************************************************************************)
\* retrieve_responses joins each response with its prompt and instance.
Answers ==
  UNION {{[id |-> instances[i].id, idx |-> instances[i].idx, nth |-> n, kind |-> responses[i][n]] :
            n \in DOMAIN responses[i]} : i \in DOMAIN instances}

Failures == {a \in Answers : a.kind = "failed"}
RemovedDocs == {a.id : a \in Failures}
Usable == {a \in Answers \ Failures : a.id \notin RemovedDocs}
Scorable == \A a \in Usable : a.kind # "unscorable"

\* Only when a document is set aside are the others named; all are kept otherwise.
KeptDocs == IF RemovedDocs = {} THEN {} ELSE {a.id : a \in Usable}

(* Mutant: documents that were set aside stay in the dataset. *)
EvalDocsAll(docs) == docs

(* Mutant: the documents kept are looked up by id and not by position. *)
EvalDocsFirst(docs) == SubSeq(docs, 1, IF KeptDocs = {} THEN Len(docs) ELSE Cardinality(KeptDocs))

\* The rows of the documents kept, found at the position of their ids.
EvalDocs(docs) ==
  IF KeptDocs = {} THEN docs
  ELSE LET kept == Sorted(KeptDocs)
       IN [i \in DOMAIN kept |-> docs[CHOOSE j \in DOMAIN ids : ids[j] = kept[i]]]

ListDocId == Sorted({a.id : a \in Usable})

\* The prompts of a document whose answers are scored, by index.
ScoredPrompts(id) ==
  LET of == {a \in Usable : a.id = id} IN
  [c \in 1..Prompts |-> Cardinality({a \in of : a.idx = c})]

Scores(docs) ==
  [i \in DOMAIN docs |-> [id |-> ListDocId[i], doc |-> docs[i].doc,
                          prompts |-> ScoredPrompts(ListDocId[i])]]

\* Each answer set aside is a sample of its own, of score 0.
FailureScores ==
  LET failed == SetToSeq(Failures) IN
  [i \in DOMAIN failed |-> [id |-> failed[i].id, doc |-> <<>>, prompts |-> <<>>]]

(* Mutant: documents are counted where answers are listed. *)
ResultByDocument(docs) ==
  [scores |-> Scores(docs) \o FailureScores, num |-> Len(docs) + Cardinality(RemovedDocs)]

Result(docs) ==
  [scores |-> Scores(docs) \o FailureScores, num |-> Len(docs) + Cardinality(Failures)]

\* Whether each prompt of the documents that are scored has one answer.
Filled(id) == \A c \in 1..Prompts : ScoredPrompts(id)[c] = 1

Evaluable(docs) == SplitFromIds(ToSet(ids)) = {EvalSplit} /\ Len(docs) <= Len(ListDocId)

\* Without an answer to score, the failures alone are stored.
StoreFailures ==
  /\ stage = "answered"
  /\ Usable = {} /\ Failures # {}
  /\ result' = Result(<<>>)
  /\ stage' = "stored"
  /\ UNCHANGED <<size, saver, table, tries, ids, instances, responses, inOrder>>

Evaluate(k) ==
  LET docs == EvalDocs(Loaded(ids, k)) IN
  /\ stage = "answered"
  /\ Usable # {}
  /\ Scorable /\ Evaluable(docs)
  /\ result' = Result(docs)
  /\ inOrder' = (inOrder /\ Ascending(Loaded(ids, k)))
  /\ stage' = "stored"
  /\ UNCHANGED <<size, saver, table, tries, ids, instances, responses>>

\* There is no answer at all, an answer cannot be scored, a document is left without any,
\* or the metrics (of lm_eval) raise on a document that has not one for each prompt.
\* Whatever is raised, mark_task_to_drop stores a result of no samples.
Drop(k) ==
  LET docs == EvalDocs(Loaded(ids, k)) IN
  /\ stage = "answered"
  /\ \/ Answers = {}
     \/ ~Scorable
     \/ Usable # {} /\ ~Evaluable(docs)
     \/ \E a \in Usable : ~Filled(a.id)
  /\ stage' = "dropped"
  /\ UNCHANGED <<size, saver, table, tries, ids, instances, responses, inOrder, result>>

Next ==
  \/ Transfer \/ CopyRecord \/ Register \/ RegisterCrash
  \/ \E qty \in Quantities, blacklist \in Blacklists :
       Sample(qty, blacklist) \/ Refuse(qty, blacklist)
  \/ Respond
  \/ StoreFailures
  \/ \E k \in Scans : Evaluate(k) \/ Drop(k)

Spec == Init /\ [][Next]_vars

-----------------------------------------------------------------------------
Registered == stage \notin {"new", "transfer", "refused"}

\* A registered table has every record of every split once, in order, whatever
\* splits are empty and whatever attempt failed before (SqlDatasetSaver.__anext__).
TransferComplete ==
  Registered =>
    [i \in DOMAIN table |-> table[i].doc] =
      FlattenSeq([s \in DOMAIN Splits |-> [n \in 1..size[s] |-> <<s, n>>]])

\* The ids between the least and the greatest of a split are those of its rows, and
\* of no other split's, so that any id drawn from a range is a document of the split
\* (get_max_min_ids, generate_random_doc_ids).
RangesExact ==
  Registered => \A s \in ToSet(Splits) : SplitExists(s) =>
    /\ SplitRange(s) = IdsOf(s)
    /\ \A r \in ToSet(Splits) \ {s} : IdsOf(r) \cap IdsOf(s) = {}

RowOf(id) == CHOOSE i \in DOMAIN table : table[i].id = id

\* A prompt is made from the document whose id its instance has, as long as Postgres
\* returned the rows by id (build_all_requests takes the id at the row's position).
PromptsOfTheirDocument ==
  inOrder => \A i \in DOMAIN instances : instances[i].doc = table[RowOf(instances[i].id)].doc

Scored == {i \in DOMAIN result.scores : result.scores[i].prompts # <<>>}

\* What is scored for an id are the answers to its prompts against its document, also
\* when documents were set aside and the positions of the others changed (the kept
\* ids of build_all_requests and the positions of evaluate).
ScoredAgainstTheirDocument ==
  inOrder => \A i \in Scored :
    result.scores[i].doc = table[RowOf(result.scores[i].id)].doc

Unanswered == {id \in ToSet(ids) : \A a \in Answers : a.id # id}

\* Every sampled document is in the result, except one no response was saved for, and
\* the number of samples is the number of scores (evaluate adds the answers that failed
\* to those it scored).  The Manager reads that many of them by index
\* (process_node_result.go), so a wrong count is a panic or a loss.
DocumentsAccounted ==
  stage = "stored" =>
    /\ ToSet(ids) = {result.scores[i].id : i \in DOMAIN result.scores} \cup Unanswered
    /\ result.num = Len(result.scores)

\* An evaluation is dropped, with every sample of the task, only when a prompt has no
\* response or several, or when an answer without choices or log probabilities is the
\* document's own and no failed one set the document aside before it was scored.  An
\* answer that is refused, cannot be decoded or is wrong drops nothing (mongodb.py:353,
\* 400-431, pocket_network.py:51-56, 572, evaluate.py:210-213).
DroppedExplained ==
  stage = "dropped" =>
    \/ \E i \in DOMAIN responses : Len(responses[i]) # 1
    \/ \E i \in DOMAIN responses :
         /\ responses[i] = <<"unscorable">>
         /\ \A j \in DOMAIN responses :
              instances[j].id = instances[i].id => responses[j] # <<"failed">>

-----------------------------------------------------------------------------
(* What the repository says and the code does not do.                       *)

\* "Kept only those docs_ids filled by all its instances/responses" (build_all_requests
\* of the Evaluator).
KeptDocsFilled == \A i \in Scored : \A c \in 1..Prompts : result.scores[i].prompts[c] > 0
=============================================================================
