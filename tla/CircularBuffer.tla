--------------------------- MODULE CircularBuffer ---------------------------
(***************************************************************************)
(* The circular buffer that every task record of the Manager keeps its     *)
(* samples in: apps/go/manager/types/circular_buffer.go.  A buffer is a    *)
(* value; each operator below returns the buffer the Go method leaves      *)
(* behind.  times[i] is the insertion time of slot i, start and end bound  *)
(* the live window (both included) and num is the cached NumSamples.       *)
(*                                                                         *)
(* Time is a natural number and EpochStart marks a slot that holds no      *)
(* sample; no sample is ever inserted at EpochStart.                       *)
(***************************************************************************)
EXTENDS Integers, FiniteSets

CONSTANTS
  CircBufferLen, (* Number of slots: 50 for numerical tasks, 5 for signatures. *)
  MaxUint32,     (* math.MaxUint32, what 0 - 1 wraps to.                       *)
  MaxAge         (* Age, in clock ticks, at which a sample is dropped (TTL).   *)

ASSUME LengthAssumption == CircBufferLen \in Nat /\ CircBufferLen >= 2
ASSUME MaxUint32Assumption == MaxUint32 \in Nat /\ MaxUint32 > CircBufferLen
ASSUME MaxAgeAssumption == MaxAge \in Nat \ {0}

EpochStart == 0

Slots == 0 .. CircBufferLen - 1

Buffer == [times: [Slots -> Nat], num: 0 .. CircBufferLen, start: Slots, end: Slots]

EmptyBuffer ==
  [times |-> [i \in Slots |-> EpochStart], num |-> 0, start |-> 0, end |-> 0]

Written(b, i) == b.times[i] # EpochStart

Stale(b, i, now) == \/ ~Written(b, i)
                    \/ now - b.times[i] >= MaxAge

(***************************************************************************)
(* Index arithmetic on uint32 values.                                      *)
(***************************************************************************)
BufferLimitCheck(v) ==
  IF v = MaxUint32 THEN CircBufferLen - 1
  ELSE IF v >= CircBufferLen THEN 0 ELSE v

Ahead(i)  == BufferLimitCheck(i + 1)
Behind(i) == BufferLimitCheck(IF i = 0 THEN MaxUint32 ELSE i - 1)

(***************************************************************************)
(* NumSamples is recomputed from the indexes after every step.             *)
(***************************************************************************)
(* Mutant: the distance of the indexes is taken for the number of slots. *)
CountSamplesShort(b) ==
  IF b.start > b.end THEN CircBufferLen - (b.start - b.end) ELSE b.end - b.start

CountSamples(b) ==
  IF b.start > b.end
  THEN CircBufferLen - (b.start - b.end) + 1
  ELSE b.end - b.start + (IF Written(b, b.start) THEN 1 ELSE 0)

Recount(b) == [b EXCEPT !.num = CountSamples(b)]

(***************************************************************************)
(* StepIndex(1, marker, positive): moving the start back is refused, and   *)
(* so is every move that would shrink an empty buffer.                     *)
(***************************************************************************)
(* Mutant: the one sample is taken to be in the first slot. *)
StepStartUnguarded(b) ==
  IF b.num = 0 THEN b
  ELSE Recount(IF b.num = 1 THEN [b EXCEPT !.times[b.end] = EpochStart]
                            ELSE [b EXCEPT !.start = Ahead(b.start)])

(* Mutant: the last sample is never invalidated. *)
StepStartKeepsLast(b) ==
  IF b.num = 0 \/ (b.num = 1 /\ Written(b, b.start)) THEN b
  ELSE Recount([b EXCEPT !.start = Ahead(b.start)])

StepStart(b) ==
  IF b.num = 0 THEN b
  ELSE Recount(IF b.num = 1 /\ Written(b, b.start)
               THEN [b EXCEPT !.times[b.end] = EpochStart]
               ELSE [b EXCEPT !.start = Ahead(b.start)])

(* Mutant: the end runs into the start and does not push it. *)
StepEndOverruns(b) == Recount([b EXCEPT !.end = Ahead(b.end)])

StepEnd(b) ==
  LET next   == Ahead(b.end)
      pushed == IF next = b.start THEN StepStart(b) ELSE b
  IN  Recount([pushed EXCEPT !.end = next])

(* Mutant: NumSamples is left as it was. *)
StepEndBackUncounted(b) ==
  IF b.num = 0 THEN b
  ELSE IF b.num = 1 THEN [b EXCEPT !.times[b.start] = EpochStart]
                    ELSE [b EXCEPT !.end = Behind(b.end)]

StepEndBack(b) ==
  IF b.num = 0 THEN b
  ELSE Recount(IF b.num = 1
               THEN [b EXCEPT !.times[b.start] = EpochStart]
               ELSE [b EXCEPT !.end = Behind(b.end)])

(***************************************************************************)
(* What InsertSample of the task records does to the buffer.               *)
(***************************************************************************)
Insert(b, time) == LET s == StepEnd(b) IN [s EXCEPT !.times[s.end] = time]

(***************************************************************************)
(* GetBufferValidIndexes walks from start to end and keeps written slots.  *)
(***************************************************************************)
InWindow(b, i) ==
  IF b.start <= b.end THEN b.start <= i /\ i <= b.end
                      ELSE b.start <= i \/ i <= b.end

ValidIndexes(b) == {i \in Slots : InWindow(b, i) /\ Written(b, i)}

-----------------------------------------------------------------------------
(* What the properties of the components say of a buffer.                   *)

\* No slot of the window but its first is empty.
Contiguous(b) == \A i \in Slots : InWindow(b, i) /\ i # b.start => Written(b, i)

\* NumSamples counts the valid indexes, and the empty first slot of a window
\* that wraps.
Counted(b) ==
  LET wrapsEmpty == b.start > b.end /\ ~Written(b, b.start)
  IN  b.num = Cardinality(ValidIndexes(b)) + (IF wrapsEmpty THEN 1 ELSE 0)

\* A window without samples is one slot.
Collapsed(b) == b.num = 0 => b.start = b.end /\ ValidIndexes(b) = {}
=============================================================================
