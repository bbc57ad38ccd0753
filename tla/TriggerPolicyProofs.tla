------------------------ MODULE TriggerPolicyProofs -------------------------
(***************************************************************************)
(* What the trigger policy keeps within the limit of concurrent samples,   *)
(* for any limits and any number of tasks.                                 *)
(***************************************************************************)
EXTENDS TriggerPolicy, FiniteSetTheorems, TLAPS

\* A quantity that is within the limit or that no dataset can serve.
Bounded(qty) == qty <= MaxConcurrent \/ qty > DatasetSize

(* The uint32 difference is below the limit, or beyond any dataset. *)
LEMMA SubtractionBounded ==
  ASSUME NEW m \in 0 .. MaxConcurrent, NEW q \in 0 .. MaxConcurrent - 1
  PROVE Minus(m, q) \in Uint32 /\ Bounded(Minus(m, q))
  BY LimitsAssumption, SizesAssumption DEF LimitsAssumption, SizesAssumption, Minus, Uint32, Bounded

\* A trigger asks for no more than the limit, or for more than any dataset has.
LEMMA ReqNeededBounded ==
  ASSUME NEW samples \in 0 .. MinSamples, NEW q \in Uint32, MaxConcurrent > q
  PROVE ReqNeeded(samples, q) \in Uint32 /\ Bounded(ReqNeeded(samples, q))
  <1> USE LimitsAssumption, SizesAssumption DEF LimitsAssumption, SizesAssumption
  <1> DEFINE m == AtMost(Minus(MinSamples, samples), MaxConcurrent)
  <1>1. m \in 0 .. MaxConcurrent BY DEF AtMost, Minus
  <1>2. q \in 0 .. MaxConcurrent - 1 BY DEF Uint32
  <1> HIDE DEF m
  <1>3. Minus(m, q) \in Uint32 /\ Bounded(Minus(m, q)) BY <1>1, <1>2, SubtractionBounded
  <1>4. ReqNeeded(samples, q) = AtLeast(Minus(m, q), MinTrigger) BY DEF ReqNeeded, m
  <1>5. MinTrigger \in Uint32 /\ Bounded(MinTrigger) BY DEF Uint32, Bounded
  <1> QED BY <1>3, <1>4, <1>5 DEF AtLeast

-----------------------------------------------------------------------------
(***************************************************************************)
(* The inductive invariant: every quantity on its way to the Sampler is    *)
(* Bounded.                                                                *)
(***************************************************************************)
Limited ==
  /\ TypeOK
  /\ Bounded(manager.qty)
  /\ Bounded(sampler)
  /\ Bounded(terminated)
  /\ TaskWithinLimit

(* At first there is no task. *)
LEMMA LimitedInit == Init => Limited
  <1> USE LimitsAssumption, SizesAssumption, BoundsAssumption
      DEF LimitsAssumption, SizesAssumption, BoundsAssumption
  <1> SUFFICES ASSUME Init PROVE Limited OBVIOUS
  <1>1. 0 \in Uint32 /\ Bounded(0) BY DEF Uint32, Bounded
  <1>2. Free \in Task BY <1>1 DEF Free, Task
  <1> QED BY <1>1, <1>2 DEF Init, Limited, TypeOK, Idle, Free, TaskWithinLimit

(* A quantity within bounds makes a task within the limit. *)
LEMMA SavedLimited ==
  ASSUME Limited, NEW qty \in Uint32, Bounded(qty), Saved(qty)
  PROVE tasks' \in [Ids -> Task] /\ TaskWithinLimit'
  <1>1. CASE UNCHANGED tasks BY <1>1 DEF Limited, TypeOK, TaskWithinLimit
  <1>2. CASE NewTask(qty) /\ ~(qty > DatasetSize)
    <2>1. PICK t \in Ids : tasks' = [tasks EXCEPT ![t] = [status |-> "pending", qty |-> qty, height |-> 0]]
      BY <1>2 DEF NewTask, With
    <2>2. [status |-> "pending", qty |-> qty, height |-> 0] \in Task
      BY BoundsAssumption DEF BoundsAssumption, Task
    <2>3. qty <= MaxConcurrent BY <1>2 DEF Bounded
    <2> QED BY <2>1, <2>2, <2>3 DEF Limited, TypeOK, TaskWithinLimit
  <1> QED BY <1>1, <1>2 DEF Saved

(* Every step keeps tasks within the limit. *)
LEMMA LimitedStep == ASSUME Limited, [Next]_vars PROVE Limited'
  <1> USE LimitsAssumption, SizesAssumption, BoundsAssumption
      DEF LimitsAssumption, SizesAssumption, BoundsAssumption
  <1>0. 0 \in Uint32 /\ Bounded(0) BY DEF Uint32, Bounded
  <1>a. Idle \in [pc: {"idle", "read", "trigger"}, samples: 0 .. MinSamples, qty: Uint32] /\ Idle.qty = 0
    BY <1>0 DEF Idle
  <1>1. CASE ReadRecord
    BY <1>1 DEF ReadRecord, Limited, TypeOK, TaskWithinLimit
  <1>2. CASE ReadQueue
    <2>1. ASSUME NEW q \in Uint32, MaxConcurrent > q
          PROVE LET trigger == Trigger(ReqNeeded(manager.samples, q))
                IN /\ trigger \in [pc: {"idle", "read", "trigger"}, samples: 0 .. MinSamples, qty: Uint32]
                   /\ Bounded(trigger.qty)
      <3> DEFINE req == ReqNeeded(manager.samples, q)
      <3>1. req \in Uint32 /\ Bounded(req)
        BY <2>1, ReqNeededBounded DEF Limited, TypeOK
      <3> HIDE DEF req
      <3>2. [pc |-> "trigger", samples |-> 0, qty |-> req]
              \in [pc: {"idle", "read", "trigger"}, samples: 0 .. MinSamples, qty: Uint32]
        BY <3>1
      <3> QED BY <1>0, <1>a, <3>1, <3>2 DEF Trigger, req
    <2>2. /\ manager' \in [pc: {"idle", "read", "trigger"}, samples: 0 .. MinSamples, qty: Uint32]
          /\ Bounded(manager'.qty)
      <3>1. PICK q \in Uint32 : manager' = IF MaxConcurrent > q
                                          THEN Trigger(ReqNeeded(manager.samples, q))
                                          ELSE Idle
        BY <1>2 DEF ReadQueue
      <3>2. CASE MaxConcurrent > q BY <2>1, <3>1, <3>2
      <3>3. CASE ~(MaxConcurrent > q) BY <1>0, <1>a, <3>1, <3>3
      <3> QED BY <3>2, <3>3
    <2>3. /\ UNCHANGED <<record, height, tasks, sampler, terminated, faults>>
          /\ slips' = slips \cup Unseen
      BY <1>2 DEF ReadQueue
    <2>4. slips' \in SUBSET {"raced", "blind", "repeated"}
      BY <2>3 DEF Unseen, Limited, TypeOK
    <2> QED BY <2>2, <2>3, <2>4 DEF Limited, TypeOK, TaskWithinLimit, Bounded
  <1>3. CASE TriggerSampler
    BY <1>0, <1>a, <1>3 DEF TriggerSampler, Restart, Limited, TypeOK, TaskWithinLimit, Bounded
  <1>4. CASE TriggerSamplerAgain
    BY <1>0, <1>4 DEF TriggerSamplerAgain, Fault, Restart, Limited, TypeOK, TaskWithinLimit, Bounded
  <1>5. CASE NodeManagerFails
    BY <1>0, <1>a, <1>5 DEF NodeManagerFails, Fault, Limited, TypeOK, TaskWithinLimit, Bounded
  <1>6. CASE SamplerCommits
    <2>1. tasks' \in [Ids -> Task] /\ TaskWithinLimit'
      BY <1>6, SavedLimited DEF SamplerCommits, Limited, TypeOK
    <2> QED BY <1>0, <1>6, <2>1 DEF SamplerCommits, Limited, TypeOK, Bounded
  <1>7. CASE SamplerRepeats
    <2>1. tasks' \in [Ids -> Task] /\ TaskWithinLimit'
      BY <1>7, SavedLimited DEF SamplerRepeats, Limited, TypeOK
    <2> QED BY <1>7, <2>1 DEF SamplerRepeats, Fault, Limited, TypeOK, Bounded
  <1>8. CASE SamplerFails
    BY <1>0, <1>8 DEF SamplerFails, Fault, Limited, TypeOK, TaskWithinLimit, Bounded
  <1>9. CASE TerminatedEnds
    <2>1. tasks' \in [Ids -> Task] /\ TaskWithinLimit'
      BY <1>9, SavedLimited DEF TerminatedEnds, Limited, TypeOK, TaskWithinLimit
    <2> QED BY <1>0, <1>9, <2>1 DEF TerminatedEnds, Limited, TypeOK, Bounded
  <1>10. ASSUME NEW t \in Ids, MarkDone(t) PROVE Limited'
    BY <1>10 DEF MarkDone, Limited, TypeOK, Task, TaskWithinLimit, Bounded
  <1>11. ASSUME NEW t \in Ids, AnalyzeResult(t) \/ AnalyzeFailedResult(t) PROVE Limited'
    <2>1. Free \in Task /\ Free.qty = 0 BY <1>0 DEF Free, Task
    <2>2. tasks' = [tasks EXCEPT ![t] = Free] BY <1>11 DEF AnalyzeResult, AnalyzeFailedResult
    <2>3. tasks' \in [Ids -> Task] /\ TaskWithinLimit'
      BY <2>1, <2>2 DEF Limited, TypeOK, TaskWithinLimit
    <2>4. record' \in [samples: 0 .. MinSamples, height: 0 .. MaxHeight]
      <3>1. CASE AnalyzeResult(t)
        <4>1. tasks[t] \in Task BY DEF Limited, TypeOK
        <4>2. AtMost(record.samples + tasks[t].qty, MinSamples) \in 0 .. MinSamples
          BY <4>1 DEF AtMost, Task, Uint32, Limited, TypeOK
        <4> QED BY <3>1, <4>1, <4>2 DEF AnalyzeResult, Task
      <3>2. CASE AnalyzeFailedResult(t) BY <3>2 DEF AnalyzeFailedResult, Limited, TypeOK
      <3> QED BY <1>11, <3>1, <3>2
    <2>5. UNCHANGED <<height, manager, sampler, terminated, slips>> /\ faults' \in 0 .. MaxFaults
      BY <1>11 DEF AnalyzeResult, AnalyzeFailedResult, Fault, Limited, TypeOK
    <2> QED BY <2>3, <2>4, <2>5 DEF Limited, TypeOK, Bounded
  <1>12. CASE Expire
    BY <1>12 DEF Expire, Fault, Limited, TypeOK, TaskWithinLimit, Bounded
  <1>13. CASE NewBlock
    BY <1>13 DEF NewBlock, Limited, TypeOK, TaskWithinLimit, Bounded
  <1>14. CASE UNCHANGED vars
    BY <1>14 DEF vars, Limited, TypeOK, TaskWithinLimit, Bounded
  <1> QED BY <1>1, <1>2, <1>3, <1>4, <1>5, <1>6, <1>7, <1>8, <1>9, <1>10, <1>11, <1>12, <1>13, <1>14
      DEF Next

\* The quantities on their way from a count of the queue to a Sampler are within
\* the limit or above what any dataset has.
THEOREM AlwaysLimited == Spec => []Limited
  BY LimitedInit, LimitedStep, PTL DEF Spec

\* Every state has the types TypeOK gives it, uint32 quantities included.
THEOREM TypeCorrect == Spec => []TypeOK
  <1>1. Limited => TypeOK BY DEF Limited
  <1> QED BY <1>1, AlwaysLimited, PTL

\* No task asks for more samples than may run at a time, whatever a trigger says.
THEOREM TasksWithinLimit == Spec => []TaskWithinLimit
  <1>1. Limited => TaskWithinLimit BY DEF Limited
  <1> QED BY <1>1, AlwaysLimited, PTL

-----------------------------------------------------------------------------
(***************************************************************************)
(* The sums of quantities, as counts of requests.                          *)
(***************************************************************************)
\* The requests of some tasks, numbered within each.
Units(f, S) == {u \in Ids \X (1 .. UintSize) : u[1] \in S /\ u[2] <= f[u[1]].qty}

SumOf(f, S) == MapThenSumSet(LAMBDA t : f[t].qty, S)

(* The units that tasks ask for are finitely many. *)
LEMMA UnitsFinite ==
  ASSUME NEW f, NEW S
  PROVE  IsFiniteSet(Units(f, S)) /\ Cardinality(Units(f, S)) \in Nat
<1>1. 1 \in Int /\ UintSize \in Int
  BY SizesAssumption DEF SizesAssumption
<1>2. IsFiniteSet(1 .. UintSize)
  BY <1>1, FS_Interval
<1>3. IsFiniteSet(Ids \X (1 .. UintSize))
  BY <1>2, BoundsAssumption, FS_Product DEF BoundsAssumption
<1>4. IsFiniteSet(Units(f, S))
  BY <1>3, FS_Subset DEF Units
<1> QED
  BY <1>4, FS_CardinalityType

\* A task more is its quantity more.
LEMMA UnitsOfTask ==
  ASSUME NEW f \in [Ids -> Task], NEW S \in SUBSET Ids, NEW t \in S
  PROVE  Cardinality(Units(f, S)) = f[t].qty + Cardinality(Units(f, S \ {t}))
<1> USE SizesAssumption, BoundsAssumption DEF SizesAssumption, BoundsAssumption
<1> DEFINE A == Units(f, S \ {t})
           B == {t} \X (1 .. f[t].qty)
<1>1. f[t].qty \in Nat /\ \A s \in Ids : f[s].qty \in 0 .. UintSize - 1
  BY DEF Task, Uint32
<1>3. IsFiniteSet(A) /\ IsFiniteSet(Units(f, S))
  BY UnitsFinite
<1>4. IsFiniteSet(B) /\ Cardinality(B) = f[t].qty
  <2>1. IsFiniteSet(1 .. f[t].qty) /\ Cardinality(1 .. f[t].qty) = f[t].qty
    <3>1. 1 \in Int /\ f[t].qty \in Int /\ f[t].qty >= 0
      BY <1>1
    <3>2. Cardinality(1 .. f[t].qty) = IF 1 > f[t].qty THEN 0 ELSE f[t].qty - 1 + 1
      BY <3>1, FS_Interval
    <3>3. IsFiniteSet(1 .. f[t].qty)
      BY <3>1, FS_Interval
    <3> QED
      BY <3>1, <3>2, <3>3
  <2>2. IsFiniteSet({t}) /\ Cardinality({t}) = 1
    BY FS_Singleton
  <2>3. IsFiniteSet(B) /\ Cardinality(B) = Cardinality({t}) * Cardinality(1 .. f[t].qty)
    BY <2>1, <2>2, FS_Product
  <2> QED
    BY <1>1, <2>1, <2>2, <2>3
<1>5. Units(f, S) = A \cup B
  <2>1. ASSUME NEW u \in Ids \X (1 .. UintSize)
        PROVE  u \in Units(f, S) <=> u \in A \/ u \in B
    <3>1. u = <<u[1], u[2]>> /\ u[1] \in Ids /\ u[2] \in 1 .. UintSize
      OBVIOUS
    <3>2. u \in B <=> u[1] = t /\ u[2] <= f[t].qty
      BY <1>1, <3>1
    <3> QED
      BY <3>1, <3>2 DEF Units
  <2>2. B \subseteq Ids \X (1 .. UintSize)
    BY <1>1
  <2> QED
    BY <2>1, <2>2 DEF Units
<1>6. A \cap B = {}
  BY DEF Units
<1> HIDE DEF A, B
<1>7. Cardinality(A) \in Nat /\ Cardinality(Units(f, S)) \in Nat
  BY UnitsFinite DEF A
<1>8. Cardinality(A \cup B) = Cardinality(A) + Cardinality(B) - Cardinality(A \cap B)
  BY <1>3, <1>4, FS_Union
<1>9. Cardinality(A \cap B) = 0
  BY <1>6, FS_EmptySet
<1> QED
  BY <1>1, <1>3, <1>4, <1>5, <1>7, <1>8, <1>9 DEF A

\* What the sum of quantities is: the count satisfies its equation, and nothing else does.
LEMMA SumCounts ==
  ASSUME NEW f \in [Ids -> Task], NEW S \in SUBSET Ids
  PROVE  SumOf(f, S) = Cardinality(Units(f, S))
<1> USE BoundsAssumption DEF BoundsAssumption
<1> DEFINE Pick(T) == CHOOSE t \in T : TRUE
           IsSum(g) == g = [T \in SUBSET S |-> IF T = {} THEN 0
                              ELSE f[Pick(T)].qty + g[T \ {Pick(T)}]]
           count == [T \in SUBSET S |-> Cardinality(Units(f, T))]
           sum == CHOOSE g : IsSum(g)
<1>1. SumOf(f, S) = sum[S]
  BY DEF SumOf, MapThenSumSet, MapThenFoldSet
<1>2. \A T \in SUBSET S : T # {} => Pick(T) \in T
  OBVIOUS
<1> HIDE DEF Pick
<1>3. IsSum(count)
  <2>1. Cardinality(Units(f, {})) = 0
    <3>1. Units(f, {}) = {} BY DEF Units
    <3> QED BY <3>1, FS_EmptySet
  <2>2. ASSUME NEW T \in SUBSET S, T # {}
        PROVE  count[T] = f[Pick(T)].qty + count[T \ {Pick(T)}]
    BY <1>2, <2>2, UnitsOfTask
  <2>3. \A T \in SUBSET S : count[T] = IF T = {} THEN 0
                              ELSE f[Pick(T)].qty + count[T \ {Pick(T)}]
    BY <2>1, <2>2
  <2> QED BY <2>3
<1>4. IsSum(sum)
  <2> HIDE DEF IsSum
  <2> QED BY <1>3
<1> HIDE DEF sum
<1>5. sum = count
  <2> DEFINE Bad == {T \in SUBSET S : sum[T] # count[T]}
  <2>1. IsFiniteSet(S)
    BY FS_Subset
  <2>2. IsWellFoundedOn(StrictSubsetOrdering(S), SUBSET S)
    BY <2>1, FS_StrictSubsetOrderingWellFounded, FS_FiniteSubsetsOfFinite
  <2>3. SUFFICES ASSUME Bad # {} PROVE FALSE
    <3>1. sum = [T \in SUBSET S |-> sum[T]] BY <1>4
    <3> QED BY <2>3, <3>1
  <2>4. \E T \in Bad : \A U \in Bad : ~ (<<U, T>> \in StrictSubsetOrdering(S))
    <3> DEFINE R == StrictSubsetOrdering(S)
    <3>1. Bad \subseteq SUBSET S /\ IsWellFoundedOn(R, SUBSET S) BY <2>2
    <3> HIDE DEF R, Bad
    <3>2. \E T \in Bad : \A U \in Bad : ~ (<<U, T>> \in R) BY <2>3, <3>1, WFMin
    <3> QED BY <3>2 DEF R
  <2>5. PICK T \in Bad : \A U \in Bad : ~ (<<U, T>> \in StrictSubsetOrdering(S))
    BY <2>4
  <2>6. T # {}
    BY <1>3, <1>4
  <2>7. <<T \ {Pick(T)}, T>> \in StrictSubsetOrdering(S)
    BY <1>2, <2>6 DEF StrictSubsetOrdering
  <2>8. sum[T \ {Pick(T)}] = count[T \ {Pick(T)}]
    BY <2>5, <2>7
  <2>9. sum[T] = f[Pick(T)].qty + sum[T \ {Pick(T)}] /\ count[T] = f[Pick(T)].qty + count[T \ {Pick(T)}]
    BY <1>3, <1>4, <2>6
  <2> QED
    BY <2>5, <2>8, <2>9
<1> QED
  BY <1>1, <1>5
\* What a queue holds: the requests of the tasks of a status.
Held(f, status) == {t \in Ids : f[t].status = status}
QtyOf(f, status) == Cardinality(Units(f, Held(f, status)))

(* The quantities of the tasks of a status are counted by their units. *)
LEMMA QtyCounts ==
  ASSUME NEW f \in [Ids -> Task], NEW status
  PROVE  /\ SumOf(f, Held(f, status)) = QtyOf(f, status)
         /\ QtyOf(f, status) \in Nat
<1>1. Held(f, status) \in SUBSET Ids
  BY DEF Held
<1> QED
  BY <1>1, SumCounts, UnitsFinite DEF QtyOf

\* A task that changes takes its quantity out of one queue and into another.
LEMMA QtyMoves ==
  ASSUME NEW f \in [Ids -> Task], NEW t \in Ids, NEW w \in Task, NEW status,
         NEW g \in [Ids -> Task], g[t] = w, \A s \in Ids \ {t} : g[s] = f[s]
  PROVE  QtyOf(g, status) + (IF f[t].status = status THEN f[t].qty ELSE 0)
           = QtyOf(f, status) + (IF w.status = status THEN w.qty ELSE 0)
<1> DEFINE rest == Held(f, status) \ {t}
<1>1. g \in [Ids -> Task] /\ g[t] = w /\ \A s \in Ids \ {t} : g[s] = f[s]
  OBVIOUS
<1>2. Held(f, status) \in SUBSET Ids /\ Held(g, status) \in SUBSET Ids
  BY DEF Held
<1>3. Held(g, status) \ {t} = rest
  BY <1>1 DEF Held
<1>4. Units(g, rest) = Units(f, rest)
  BY <1>1 DEF Units, Held
<1>5. QtyOf(f, status) = Cardinality(Units(f, rest)) + (IF f[t].status = status THEN f[t].qty ELSE 0)
  <2>1. Cardinality(Units(f, rest)) \in Nat /\ f[t].qty \in Nat
    BY UnitsFinite DEF Task, Uint32
  <2>2. CASE f[t].status = status
    BY <1>2, <2>1, <2>2, UnitsOfTask DEF QtyOf, Held
  <2>3. CASE f[t].status # status
    <3>1. rest = Held(f, status) BY <2>3 DEF Held
    <3> HIDE DEF rest
    <3> QED BY <2>1, <2>3, <3>1 DEF QtyOf
  <2> QED BY <2>2, <2>3
<1>6. QtyOf(g, status) = Cardinality(Units(g, rest)) + (IF w.status = status THEN w.qty ELSE 0)
  <2>1. Cardinality(Units(g, rest)) \in Nat /\ w.qty \in Nat
    BY UnitsFinite DEF Task, Uint32
  <2>2. CASE w.status = status
    <3>1. t \in Held(g, status) BY <1>1, <2>2 DEF Held
    <3>2. Cardinality(Units(g, Held(g, status))) = g[t].qty + Cardinality(Units(g, Held(g, status) \ {t}))
      BY <1>1, <1>2, <3>1, UnitsOfTask
    <3>3. Cardinality(Units(g, Held(g, status))) = w.qty + Cardinality(Units(g, rest))
      BY <1>1, <1>3, <3>2
    <3> HIDE DEF rest
    <3> QED BY <2>1, <2>2, <3>3 DEF QtyOf
  <2>3. CASE w.status # status
    <3>1. rest = Held(g, status) BY <1>1, <1>3, <2>3 DEF Held
    <3> HIDE DEF rest
    <3> QED BY <2>1, <2>3, <3>1 DEF QtyOf
  <2> QED BY <2>2, <2>3
<1>7. Cardinality(Units(f, rest)) \in Nat /\ f[t].qty \in Nat /\ w.qty \in Nat
  BY UnitsFinite DEF Task, Uint32
<1> HIDE DEF rest
<1> QED
  BY <1>4, <1>5, <1>6, <1>7

-----------------------------------------------------------------------------
(***************************************************************************)
(* What is in the queue, on the way to it and in the record.               *)
(***************************************************************************)
\* What a Sampler commits of the quantity it is started with.
Served(qty) == IF qty > DatasetSize THEN 0 ELSE qty

Triggered == IF manager.pc = "trigger" THEN Served(manager.qty) ELSE 0

\* What is in the queue or will be, if no trigger is to come.
Pending == Qty("pending") + Served(sampler) + Triggered

\* What the record has or will have.
Asked == record.samples + Qty("done") + Pending

\* No Sampler but the one that the last trigger is about to start, or has.
OneSampler == terminated = 0 /\ (manager.pc = "trigger" => sampler = 0)

\* The inductive invariants: counted before anything else was under way, a queue and
\* what was asked for upon the count stay within the limit, and so do, with the samples
\* of the record, those to be analyzed.
QueueBound ==
  slips \cap {"raced", "repeated"} = {} => OneSampler /\ Pending <= MaxConcurrent

RequestsBound == slips = {} => Asked <= MinSamples

(* Qty is that count, before a step and after it. *)
LEMMA QtyIs ==
  ASSUME NEW status
  PROVE  Qty(status) = SumOf(tasks, Held(tasks, status)) /\ Qty(status)' = SumOf(tasks', Held(tasks', status))
  BY DEF Qty, With, SumOf, Held, MapThenSumSet, MapThenFoldSet

(* Qty is a number. *)
LEMMA QtyNat ==
  ASSUME Limited, NEW status
  PROVE  Qty(status) = QtyOf(tasks, status) /\ Qty(status) \in Nat
  BY QtyIs, QtyCounts DEF Limited, TypeOK

(* Qty is a number after a step. *)
LEMMA QtyNext ==
  ASSUME tasks' \in [Ids -> Task], NEW status
  PROVE  Qty(status)' = QtyOf(tasks', status) /\ Qty(status)' \in Nat
  BY QtyIs, QtyCounts

(* Qty stays while the tasks do. *)
LEMMA QtyKept ==
  ASSUME Limited, UNCHANGED tasks, NEW status
  PROVE  Qty(status)' = Qty(status)
  BY QtyNat, QtyNext DEF Limited, TypeOK

(* One task moves Qty by what it asks for. *)
LEMMA QtyMoved ==
  ASSUME Limited, NEW t \in Ids, NEW w \in Task, tasks' = [tasks EXCEPT ![t] = w], NEW status
  PROVE  Qty(status)' + (IF tasks[t].status = status THEN tasks[t].qty ELSE 0)
           = Qty(status) + (IF w.status = status THEN w.qty ELSE 0)
<1>1. tasks \in [Ids -> Task] /\ tasks' \in [Ids -> Task]
  BY DEF Limited, TypeOK
<1>2. Qty(status) = QtyOf(tasks, status) /\ Qty(status)' = QtyOf(tasks', status)
  BY <1>1, QtyNat, QtyNext
<1>3. tasks'[t] = w /\ \A s \in Ids \ {t} : tasks'[s] = tasks[s]
  BY <1>1
<1>4. QtyOf(tasks', status) + (IF tasks[t].status = status THEN tasks[t].qty ELSE 0)
        = QtyOf(tasks, status) + (IF w.status = status THEN w.qty ELSE 0)
  BY ONLY <1>1, <1>3, QtyMoves, t \in Ids, w \in Task
<1> QED
  BY <1>2, <1>4

\* A Sampler adds what it was asked for, or nothing.
LEMMA SavedQty ==
  ASSUME Limited, NEW qty \in Uint32, Saved(qty)
  PROVE  /\ Qty("pending")' <= Qty("pending") + Served(qty)
         /\ Qty("done")' = Qty("done")
         /\ Qty("pending")' \in Nat
<1>1. Qty("pending") \in Nat /\ Qty("done") \in Nat /\ Served(qty) \in Nat
  BY QtyNat DEF Served, Uint32
<1>2. CASE UNCHANGED tasks
  BY <1>1, <1>2, QtyKept
<1>3. CASE NewTask(qty) /\ ~(qty > DatasetSize)
  <2> DEFINE w == [status |-> "pending", qty |-> qty, height |-> 0]
  <2>1. PICK t \in Ids : tasks[t].status = "free" /\ tasks' = [tasks EXCEPT ![t] = w]
    BY <1>3 DEF NewTask, With
  <2>2. w \in Task /\ w.status = "pending" /\ w.qty = qty /\ Served(qty) = qty
    BY <1>3, BoundsAssumption DEF BoundsAssumption, Task, Served
  <2> HIDE DEF w
  <2>3. tasks' \in [Ids -> Task]
    BY <2>1, <2>2 DEF Limited, TypeOK
  <2>4. Qty("pending")' \in Nat /\ Qty("done")' \in Nat
    BY <2>3, QtyNext
  <2>5. \A s : Qty(s)' + (IF tasks[t].status = s THEN tasks[t].qty ELSE 0)
               = Qty(s) + (IF w.status = s THEN w.qty ELSE 0)
    BY <2>1, <2>2, QtyMoved
  <2> HIDE DEF Qty
  <2>6. Qty("pending")' + 0 = Qty("pending") + qty
    BY <2>1, <2>2, <2>5
  <2>7. Qty("done")' + 0 = Qty("done") + 0
    BY <2>1, <2>2, <2>5
  <2> QED
    BY <1>1, <2>2, <2>4, <2>6, <2>7
<1> QED
  BY <1>2, <1>3 DEF Saved

(* What is served is a number. *)
LEMMA ServedNat == \A qty \in Uint32 : Served(qty) \in Nat
  BY DEF Served, Uint32

\* A trigger fills the room the queue leaves: a subtraction that wrapped around is
\* more than any dataset can serve.
LEMMA TriggerFits ==
  ASSUME NEW samples \in 0 .. MinSamples, NEW q \in Uint32, MaxConcurrent > q, MinTrigger <= 1
  PROVE  /\ q + Served(ReqNeeded(samples, q)) <= MaxConcurrent
         /\ MinTrigger = 0 /\ samples + q <= MinSamples =>
              samples + q + Served(ReqNeeded(samples, q)) <= MinSamples
<1> USE LimitsAssumption, SizesAssumption DEF LimitsAssumption, SizesAssumption
<1> DEFINE m == AtMost(Minus(MinSamples, samples), MaxConcurrent)
<1>1. m \in 0 .. MaxConcurrent /\ m <= MinSamples - samples
  BY DEF AtMost, Minus
<1>2. q \in 0 .. MaxConcurrent - 1
  BY DEF Uint32
<1>3. ReqNeeded(samples, q) = AtLeast(Minus(m, q), MinTrigger)
  BY DEF ReqNeeded
<1> HIDE DEF m
<1>4. CASE m >= q
  <2>1. Minus(m, q) = m - q
    BY <1>4 DEF Minus
  <2> QED
    BY <1>1, <1>2, <1>3, <2>1 DEF AtLeast, Served
<1>5. CASE ~(m >= q)
  <2>1. Minus(m, q) = m + UintSize - q
    BY <1>5 DEF Minus
  <2>2. Minus(m, q) > DatasetSize /\ Minus(m, q) >= MinTrigger
    BY <1>1, <1>2, <2>1
  <2>3. Served(ReqNeeded(samples, q)) = 0
    BY <1>1, <1>2, <1>3, <2>1, <2>2 DEF AtLeast, Served
  <2> QED
    BY <1>2, <2>3
<1> QED
  BY <1>1, <1>2, <1>4, <1>5

\* What a count of the queue leads to.
LEMMA ReadQueueServes ==
  ASSUME Limited, ReadQueue
  PROVE  \E q \in Uint32 :
           /\ q = Qty("pending")
           /\ manager' = IF MaxConcurrent > q THEN Trigger(ReqNeeded(manager.samples, q)) ELSE Idle
           /\ IF MaxConcurrent > q
              THEN (IF manager'.pc = "trigger" THEN Served(manager'.qty) ELSE 0)
                     <= Served(ReqNeeded(manager.samples, q))
              ELSE manager'.pc # "trigger"
<1>1. PICK q \in {Qty("pending")} \cap Uint32 :
        manager' = IF MaxConcurrent > q THEN Trigger(ReqNeeded(manager.samples, q)) ELSE Idle
  BY DEF ReadQueue
<1>2. manager.samples \in 0 .. MinSamples
  BY DEF Limited, TypeOK
<1>3. CASE MaxConcurrent > q
  <2> DEFINE r == ReqNeeded(manager.samples, q)
  <2>1. r \in Uint32 /\ Served(r) \in Nat
    BY <1>2, <1>3, ReqNeededBounded, ServedNat
  <2>2. manager' = Trigger(r)
    BY <1>1, <1>3
  <2> HIDE DEF r
  <2>3. (IF manager'.pc = "trigger" THEN Served(manager'.qty) ELSE 0) <= Served(r)
    BY <2>1, <2>2 DEF Trigger, Idle
  <2> QED
    BY <1>1, <1>3, <2>3 DEF r
<1>4. CASE ~(MaxConcurrent > q)
  BY <1>1, <1>4 DEF Idle
<1> QED
  BY <1>3, <1>4

\* The numbers the bounds are about.
LEMMA Numbers ==
  ASSUME Limited
  PROVE  /\ Qty("pending") \in Nat /\ Qty("done") \in Nat /\ record.samples \in 0 .. MinSamples
         /\ Served(sampler) \in Nat /\ Triggered \in Nat
         /\ sampler \in Uint32 /\ terminated \in Uint32 /\ Served(0) = 0
  BY QtyNat, ServedNat, SizesAssumption
     DEF SizesAssumption, Limited, TypeOK, Triggered, Served

(***************************************************************************)
(* Every step leaves no more in the queue, the record and on the way than  *)
(* there was, but for a count of the queue that led to a trigger.          *)
(***************************************************************************)
NoMore ==
  /\ slips \subseteq slips'
  /\ OneSampler => OneSampler'
  /\ OneSampler => Pending' <= Pending /\ Asked' <= Asked

Slip(kind) == kind \in slips'

\* Steps that leave the tasks alone.
LEMMA StepsBesideQueue ==
  ASSUME Limited, Limited',
         \/ ReadRecord \/ TriggerSampler \/ NodeManagerFails
         \/ SamplerFails \/ Expire \/ NewBlock \/ UNCHANGED vars
  PROVE  NoMore
<1>0. UNCHANGED tasks
  BY DEF ReadRecord, TriggerSampler, NodeManagerFails, SamplerFails, Expire, NewBlock, vars
<1>1. Qty("pending")' = Qty("pending") /\ Qty("done")' = Qty("done")
  BY <1>0, QtyKept
<1>2. /\ Qty("pending") \in Nat /\ Qty("done") \in Nat /\ record.samples \in 0 .. MinSamples
      /\ Served(sampler) \in Nat /\ Triggered \in Nat /\ Served(0) = 0
  BY Numbers
<1>3. record'.samples \in Nat
  BY DEF Limited, TypeOK
<1> HIDE DEF Qty
<1>4. CASE ReadRecord
  <2>1. Triggered' = 0 /\ UNCHANGED <<record, sampler, terminated, slips>> /\ manager'.pc # "trigger"
    BY <1>4 DEF ReadRecord, Triggered, Limited, TypeOK
  <2> QED BY <1>1, <1>2, <2>1 DEF NoMore, OneSampler, Pending, Asked
<1>5. CASE TriggerSampler
  <2>1. /\ manager'.pc # "trigger" /\ manager.pc = "trigger" /\ UNCHANGED <<record, slips>>
        /\ sampler' = manager.qty
        /\ sampler = 0 => terminated' = terminated
    BY <1>5 DEF TriggerSampler, Restart, Idle
  <2>2. Triggered' = 0 /\ Served(sampler') = Triggered
    BY <2>1 DEF Triggered
  <2>3. CASE OneSampler
    <3>1. sampler = 0 /\ terminated' = 0 BY <2>1, <2>3 DEF OneSampler
    <3> QED BY <1>1, <1>2, <2>1, <2>2, <3>1 DEF NoMore, OneSampler, Pending, Asked
  <2> QED BY <2>1, <2>3 DEF NoMore
<1>6. CASE NodeManagerFails
  <2>1. Triggered' = 0 /\ UNCHANGED <<record, sampler, terminated, slips>> /\ manager'.pc # "trigger"
    BY <1>6 DEF NodeManagerFails, Triggered, Idle
  <2> QED BY <1>1, <1>2, <2>1 DEF NoMore, OneSampler, Pending, Asked
<1>7. CASE SamplerFails
  <2>1. sampler' = 0 /\ UNCHANGED <<record, manager, terminated, slips>> /\ Triggered' = Triggered
    BY <1>7 DEF SamplerFails, Triggered
  <2> QED BY <1>1, <1>2, <2>1 DEF NoMore, OneSampler, Pending, Asked
<1>8. CASE Expire
  <2>1. record'.samples <= record.samples
    BY <1>8 DEF Expire, Limited, TypeOK
  <2>2. UNCHANGED <<manager, sampler, terminated, slips>> /\ Triggered' = Triggered
    BY <1>8 DEF Expire, Triggered
  <2> QED BY <1>1, <1>2, <1>3, <2>1, <2>2 DEF NoMore, OneSampler, Pending, Asked
<1>9. CASE NewBlock \/ UNCHANGED vars
  <2>1. UNCHANGED <<record, manager, sampler, terminated, slips>> /\ Triggered' = Triggered
    BY <1>9 DEF NewBlock, vars, Triggered
  <2> QED BY <1>1, <1>2, <2>1 DEF NoMore, OneSampler, Pending, Asked
<1> QED
  BY <1>4, <1>5, <1>6, <1>7, <1>8, <1>9

\* Steps of the tasks.
LEMMA StepsOfQueue ==
  ASSUME Limited, Limited',
         \/ SamplerCommits \/ TerminatedEnds
         \/ \E t \in Ids : MarkDone(t) \/ AnalyzeResult(t) \/ AnalyzeFailedResult(t)
  PROVE  NoMore
<1>1. Qty("pending")' \in Nat /\ Qty("done")' \in Nat
  BY QtyNext DEF Limited, TypeOK
<1>2. /\ Qty("pending") \in Nat /\ Qty("done") \in Nat /\ record.samples \in 0 .. MinSamples
      /\ Served(sampler) \in Nat /\ Triggered \in Nat /\ Served(0) = 0
      /\ sampler \in Uint32 /\ terminated \in Uint32
  BY Numbers
<1>3. CASE SamplerCommits
  <2>1. /\ Saved(sampler) /\ sampler' = 0 /\ UNCHANGED <<record, manager, terminated, slips>>
        /\ Triggered' = Triggered
    BY <1>3 DEF SamplerCommits, Triggered
  <2>2. Qty("pending")' <= Qty("pending") + Served(sampler) /\ Qty("done")' = Qty("done")
    BY <1>2, <2>1, SavedQty
  <2> HIDE DEF Qty
  <2> QED BY <1>1, <1>2, <2>1, <2>2 DEF NoMore, OneSampler, Pending, Asked
<1>4. CASE TerminatedEnds
  <2>1. terminated # 0 /\ UNCHANGED slips
    BY <1>4 DEF TerminatedEnds
  <2> QED BY <2>1 DEF NoMore, OneSampler
<1>5. ASSUME NEW t \in Ids, MarkDone(t) \/ AnalyzeResult(t) \/ AnalyzeFailedResult(t)
      PROVE  NoMore
  <2>1. UNCHANGED <<manager, sampler, terminated, slips>> /\ Triggered' = Triggered
    BY <1>5 DEF MarkDone, AnalyzeResult, AnalyzeFailedResult, Triggered
  <2>2. tasks[t] \in Task /\ tasks[t].qty \in Nat
    BY DEF Limited, TypeOK, Task, Uint32
  <2>3. CASE MarkDone(t)
    <3> DEFINE w == [tasks[t] EXCEPT !.status = "done", !.height = height]
    <3>1. w \in Task /\ w.status = "done" /\ w.qty = tasks[t].qty
      BY <2>2 DEF Task, Limited, TypeOK
    <3>2. tasks[t].status = "pending" /\ tasks' = [tasks EXCEPT ![t] = w] /\ UNCHANGED record
      BY <2>3 DEF MarkDone, Limited, TypeOK
    <3> HIDE DEF w
    <3>3. \A s : Qty(s)' + (IF tasks[t].status = s THEN tasks[t].qty ELSE 0)
                 = Qty(s) + (IF w.status = s THEN w.qty ELSE 0)
      BY <3>1, <3>2, QtyMoved
    <3> HIDE DEF Qty
    <3>4. Qty("pending")' + tasks[t].qty = Qty("pending") + 0
      BY <3>1, <3>2, <3>3
    <3>5. Qty("done")' + 0 = Qty("done") + tasks[t].qty
      BY <3>1, <3>2, <3>3
    <3> QED BY <1>1, <1>2, <2>1, <2>2, <3>2, <3>4, <3>5 DEF NoMore, OneSampler, Pending, Asked
  <2>4. CASE AnalyzeResult(t) \/ AnalyzeFailedResult(t)
    <3>1. Free \in Task /\ Free.status = "free" /\ Free.qty = 0
      <4>1. 0 \in Uint32
        BY LimitsAssumption, SizesAssumption DEF LimitsAssumption, SizesAssumption, Uint32
      <4> QED
        BY <4>1, BoundsAssumption DEF BoundsAssumption, Free, Task
    <3>2. tasks[t].status = "done" /\ tasks' = [tasks EXCEPT ![t] = Free]
      BY <2>4 DEF AnalyzeResult, AnalyzeFailedResult
    <3>3. \A s : Qty(s)' + (IF tasks[t].status = s THEN tasks[t].qty ELSE 0)
                 = Qty(s) + (IF Free.status = s THEN Free.qty ELSE 0)
      BY <3>1, <3>2, QtyMoved
    <3>4. record'.samples \in Nat /\ record'.samples <= record.samples + tasks[t].qty
      BY <1>2, <2>2, <2>4, LimitsAssumption
         DEF LimitsAssumption, AnalyzeResult, AnalyzeFailedResult, AtMost
    <3> HIDE DEF Qty
    <3>5. Qty("pending")' + 0 = Qty("pending") + 0
      BY <3>1, <3>2, <3>3
    <3>6. Qty("done")' + tasks[t].qty = Qty("done") + 0
      BY <3>1, <3>2, <3>3
    <3> QED BY <1>1, <1>2, <2>1, <2>2, <3>4, <3>5, <3>6 DEF NoMore, OneSampler, Pending, Asked
  <2> QED BY <1>5, <2>3, <2>4
<1> QED
  BY <1>3, <1>4, <1>5

\* A step that repeats what was done is told by the history.
LEMMA StepsRepeated ==
  ASSUME TriggerSamplerAgain \/ SamplerRepeats
  PROVE  Slip("repeated")
  BY DEF TriggerSamplerAgain, SamplerRepeats, Slip

\* A count of the queue.
LEMMA StepCounts ==
  ASSUME Limited, Limited', ReadQueue, MinTrigger <= 1, ~Slip("raced")
  PROVE  /\ slips \subseteq slips' /\ OneSampler'
         /\ Qty("pending") <= MaxConcurrent => Pending' <= MaxConcurrent
         /\ ~Slip("blind") /\ MinTrigger = 0 /\ Asked <= MinSamples => Asked' <= MinSamples
<1>1. UNCHANGED <<record, tasks, sampler, terminated>> /\ slips' = slips \cup Unseen
  BY DEF ReadQueue
<1>2. sampler = 0 /\ terminated = 0
  BY <1>1 DEF Slip, Unseen
<1>3. Qty("pending")' = Qty("pending") /\ Qty("done")' = Qty("done")
  BY <1>1, QtyKept
<1>4. /\ Qty("pending") \in Nat /\ Qty("done") \in Nat /\ record.samples \in 0 .. MinSamples
      /\ Served(sampler) = 0 /\ Triggered \in Nat
  BY <1>2, Numbers
<1>5. Triggered' = (IF manager'.pc = "trigger" THEN Served(manager'.qty) ELSE 0) /\ Triggered' \in Nat
  BY ServedNat DEF Triggered, Limited, TypeOK
<1>6. PICK q \in Uint32 :
        /\ q = Qty("pending")
        /\ IF MaxConcurrent > q THEN Triggered' <= Served(ReqNeeded(manager.samples, q))
           ELSE manager'.pc # "trigger"
  BY <1>5, ReadQueueServes
<1>7. manager.samples \in 0 .. MinSamples
  BY DEF Limited, TypeOK
<1>8. q \in Nat
  BY DEF Uint32
<1>9. Pending' = q + 0 + Triggered' /\ Asked' = record.samples + Qty("done") + Pending'
  BY <1>1, <1>3, <1>4, <1>6 DEF Pending, Asked
<1>10. ~Slip("blind") => record.samples = manager.samples /\ Qty("done") = 0
  <2> SUFFICES ASSUME ~Slip("blind") PROVE record.samples = manager.samples /\ Qty("done") = 0
    OBVIOUS
  <2>1. With("done") = {} /\ record.samples = manager.samples
    BY <1>1 DEF Slip, Unseen
  <2>2. Units(tasks, Held(tasks, "done")) = {}
    BY <2>1 DEF Units, Held, With
  <2>3. QtyOf(tasks, "done") = 0
    BY <2>2, FS_EmptySet DEF QtyOf
  <2> QED BY <2>1, <2>3, QtyNat
<1> HIDE DEF Qty
<1>11. CASE MaxConcurrent > q
  <2>1. /\ q + Served(ReqNeeded(manager.samples, q)) <= MaxConcurrent
        /\ MinTrigger = 0 /\ manager.samples + q <= MinSamples =>
             manager.samples + q + Served(ReqNeeded(manager.samples, q)) <= MinSamples
        /\ Served(ReqNeeded(manager.samples, q)) \in Nat
    BY <1>7, <1>11, TriggerFits, ReqNeededBounded, ServedNat
  <2>2. Pending' <= MaxConcurrent
    BY <1>5, <1>6, <1>8, <1>9, <1>11, <2>1, LimitsAssumption DEF LimitsAssumption
  <2>3. ASSUME ~Slip("blind"), MinTrigger = 0, Asked <= MinSamples PROVE Asked' <= MinSamples
    <3>1. record.samples + q <= MinSamples
      BY <1>4, <1>6, <1>10, <2>3, LimitsAssumption DEF LimitsAssumption, Pending, Asked
    <3> QED
      BY <1>4, <1>5, <1>6, <1>8, <1>9, <1>10, <1>11, <2>1, <2>3, <3>1, LimitsAssumption DEF LimitsAssumption
  <2> QED BY <1>1, <1>2, <2>2, <2>3 DEF OneSampler
<1>12. CASE ~(MaxConcurrent > q)
  <2>1. Triggered' = 0
    BY <1>5, <1>6, <1>12
  <2>2. Pending' = q /\ Asked' <= Asked
    BY <1>4, <1>6, <1>8, <1>9, <2>1 DEF Pending, Asked
  <2>3. Asked \in Nat /\ Asked' \in Nat
    BY <1>4, <1>8, <1>9, <2>1 DEF Pending, Asked
  <2> QED BY <1>1, <1>2, <1>6, <2>2, <2>3, LimitsAssumption DEF OneSampler, LimitsAssumption
<1> QED BY <1>11, <1>12

-----------------------------------------------------------------------------
(***************************************************************************)
(* The bounds.                                                             *)
(***************************************************************************)
LEMMA SumsNat ==
  ASSUME Limited
  PROVE  Pending \in Nat /\ Asked \in Nat /\ Qty("pending") <= Pending
<1>1. /\ Qty("pending") \in Nat /\ Qty("done") \in Nat /\ record.samples \in Nat
      /\ Served(sampler) \in Nat /\ Triggered \in Nat
  BY Numbers
<1> HIDE DEF Qty, Triggered, Served
<1> QED
  BY <1>1 DEF Pending, Asked

(* A step adds nothing to the queue, or repeats a request, or reads the queue. *)
LEMMA StepCases ==
  ASSUME Limited, Limited', [Next]_vars
  PROVE  NoMore \/ Slip("repeated") \/ ReadQueue
<1>1. CASE TriggerSamplerAgain \/ SamplerRepeats
  BY <1>1, StepsRepeated
<1>2. CASE \/ SamplerCommits \/ TerminatedEnds
          \/ \E t \in Ids : MarkDone(t) \/ AnalyzeResult(t) \/ AnalyzeFailedResult(t)
  BY <1>2, StepsOfQueue
<1>3. CASE \/ ReadRecord \/ TriggerSampler \/ NodeManagerFails
          \/ SamplerFails \/ Expire \/ NewBlock \/ UNCHANGED vars
  BY <1>3, StepsBesideQueue
<1> QED
  BY <1>1, <1>2, <1>3 DEF Next

(* Every step keeps the queue within the limit, or a slip behind. *)
LEMMA QueueBoundStep ==
  ASSUME MinTrigger <= 1, Limited, Limited', QueueBound, [Next]_vars
  PROVE  QueueBound'
<1> SUFFICES ASSUME slips' \cap {"raced", "repeated"} = {}
             PROVE  OneSampler' /\ Pending' <= MaxConcurrent
  BY DEF QueueBound
<1>1. Pending \in Nat /\ Pending' \in Nat /\ Qty("pending") <= Pending /\ Qty("pending") \in Nat
  <2>1. Pending' \in Nat
    <3>1. /\ Qty("pending")' \in Nat /\ Served(sampler') \in Nat /\ Triggered' \in Nat
      BY QtyNext, ServedNat, SizesAssumption
         DEF SizesAssumption, Limited, TypeOK, Triggered
    <3> HIDE DEF Qty, Triggered, Served
    <3> QED BY <3>1 DEF Pending
  <2> QED BY <2>1, SumsNat, Numbers
<1>2. MaxConcurrent \in Nat
  BY LimitsAssumption DEF LimitsAssumption
<1>3. CASE NoMore
  <2>1. slips \cap {"raced", "repeated"} = {} /\ (OneSampler => OneSampler' /\ Pending' <= Pending)
    BY <1>3 DEF NoMore
  <2> HIDE DEF OneSampler, Pending
  <2> QED BY <1>1, <1>2, <2>1 DEF QueueBound
<1>4. CASE ReadQueue
  <2>1. ~Slip("raced")
    BY DEF Slip
  <2>2. /\ slips \subseteq slips' /\ OneSampler'
        /\ Qty("pending") <= MaxConcurrent => Pending' <= MaxConcurrent
    BY <1>4, <2>1, StepCounts
  <2>3. Pending <= MaxConcurrent
    BY <2>2 DEF QueueBound
  <2> HIDE DEF OneSampler, Pending, Qty
  <2> QED BY <1>1, <1>2, <2>2, <2>3
<1>5. ~Slip("repeated")
  BY DEF Slip
<1> QED
  BY <1>3, <1>4, <1>5, StepCases

(* Every step asks for what the buffer lacks, or leaves a slip behind. *)
LEMMA RequestsBoundStep ==
  ASSUME MinTrigger = 0, Limited, Limited', QueueBound, RequestsBound, [Next]_vars
  PROVE  RequestsBound'
<1> SUFFICES ASSUME slips' = {}
             PROVE  Asked' <= MinSamples
  BY DEF RequestsBound
<1>1. Asked \in Nat /\ Asked' \in Nat
  <2>1. Asked' \in Nat
    <3>1. /\ Qty("pending")' \in Nat /\ Qty("done")' \in Nat /\ record'.samples \in Nat
          /\ Served(sampler') \in Nat /\ Triggered' \in Nat
      BY QtyNext, ServedNat, SizesAssumption
         DEF SizesAssumption, Limited, TypeOK, Triggered
    <3> HIDE DEF Qty, Triggered, Served
    <3> QED BY <3>1 DEF Asked, Pending
  <2> QED BY <2>1, SumsNat
<1>2. MinSamples \in Nat /\ MinTrigger <= 1
  BY LimitsAssumption DEF LimitsAssumption
<1>3. CASE NoMore
  <2>1. slips = {} /\ (OneSampler => Asked' <= Asked)
    BY <1>3 DEF NoMore
  <2>2. OneSampler
    BY <2>1 DEF QueueBound
  <2> HIDE DEF OneSampler, Asked
  <2> QED BY <1>1, <1>2, <2>1, <2>2 DEF RequestsBound
<1>4. CASE ReadQueue
  <2>1. ~Slip("raced") /\ ~Slip("blind")
    BY DEF Slip
  <2>2. slips \subseteq slips' /\ (Asked <= MinSamples => Asked' <= MinSamples)
    BY <1>2, <1>4, <2>1, StepCounts
  <2> HIDE DEF Asked
  <2> QED BY <2>2 DEF RequestsBound
<1>5. ~Slip("repeated")
  BY DEF Slip
<1> QED
  BY <1>3, <1>4, <1>5, StepCases

(* At first nothing is asked for. *)
LEMMA BoundsInit == Init => QueueBound /\ RequestsBound
<1> SUFFICES ASSUME Init PROVE QueueBound /\ RequestsBound
  OBVIOUS
<1>1. tasks \in [Ids -> Task] /\ record.samples = 0 /\ Limited
  BY LimitedInit DEF Init, Limited, TypeOK
<1>2. \A s \in {"pending", "done"} : Qty(s) = 0
  <2> SUFFICES ASSUME NEW s \in {"pending", "done"} PROVE Qty(s) = 0
    OBVIOUS
  <2>1. Units(tasks, Held(tasks, s)) = {}
    BY DEF Init, Free, Units, Held
  <2>2. QtyOf(tasks, s) = 0
    BY <2>1, FS_EmptySet DEF QtyOf
  <2> QED BY <1>1, <2>2, QtyNat
<1>3. Served(sampler) = 0 /\ Triggered = 0 /\ OneSampler
  BY SizesAssumption DEF SizesAssumption, Init, Idle, Served, Triggered, OneSampler
<1> HIDE DEF Qty
<1>4. Pending = 0 /\ Asked = 0
  BY <1>1, <1>2, <1>3 DEF Pending, Asked
<1> QED
  BY <1>3, <1>4, LimitsAssumption DEF LimitsAssumption, QueueBound, RequestsBound

\* The requests in queue stay within the limit of concurrent samples, however the tasks
\* end, unless a trigger was repeated or a Sampler was about to commit when the queue
\* was counted.  A larger minimum is asked for whatever room is left; the
\* configurations of the repository have 0 and 1.
THEOREM QueueStaysWithinLimit ==
  ASSUME MinTrigger <= 1
  PROVE  Spec => []QueueWithinLimit
<1>1. Init => QueueBound
  BY BoundsInit
<1>2. Limited /\ Limited' /\ QueueBound /\ [Next]_vars => QueueBound'
  BY QueueBoundStep
<1>3. Limited /\ QueueBound => QueueWithinLimit
  <2> SUFFICES ASSUME Limited, QueueBound, slips \cap {"raced", "repeated"} = {}
               PROVE  Qty("pending") <= MaxConcurrent
    BY DEF QueueWithinLimit
  <2>1. Pending \in Nat /\ Qty("pending") \in Nat /\ Qty("pending") <= Pending /\ Pending <= MaxConcurrent
    BY SumsNat, Numbers DEF QueueBound
  <2> HIDE DEF Pending, Qty
  <2> QED BY <2>1, LimitsAssumption DEF LimitsAssumption
<1> QED
  BY <1>1, <1>2, <1>3, AlwaysLimited, PTL DEF Spec

\* Asked for only when samples are missing, requests never exceed what the buffer lacks,
\* and no recent sample is pushed out by them, unless a count missed some.
THEOREM RequestsAlwaysFit ==
  ASSUME MinTrigger = 0
  PROVE  Spec => []RequestsFit
<1>0. MinTrigger <= 1
  OBVIOUS
<1>1. Init => QueueBound /\ RequestsBound
  BY BoundsInit
<1>2. Limited /\ Limited' /\ QueueBound /\ RequestsBound /\ [Next]_vars => QueueBound' /\ RequestsBound'
  BY <1>0, QueueBoundStep, RequestsBoundStep
<1>3. Limited /\ RequestsBound => RequestsFit
  <2> SUFFICES ASSUME Limited, slips = {}, Asked <= MinSamples
               PROVE  record.samples + Qty("pending") + Qty("done") <= MinSamples
    BY DEF RequestsFit, RequestsBound
  <2>1. /\ Qty("pending") \in Nat /\ Qty("done") \in Nat /\ record.samples \in Nat
        /\ Served(sampler) \in Nat /\ Triggered \in Nat
    BY Numbers
  <2> HIDE DEF Qty, Triggered, Served
  <2> QED BY <2>1, LimitsAssumption DEF LimitsAssumption, Asked, Pending
<1> QED
  BY <1>1, <1>2, <1>3, AlwaysLimited, PTL DEF Spec
=============================================================================
