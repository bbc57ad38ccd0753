------------------------ MODULE CircularBufferMoves ------------------------
(***************************************************************************)
(* A circular buffer under every sequence of the calls its unit tests make *)
(* (apps/go/manager/tests/circular_buffer_test.go): the end steps forward  *)
(* and the new slot is stamped, the end steps back, the start steps        *)
(* forward.  The Manager itself never steps the end back.                  *)
(***************************************************************************)
EXTENDS CircularBuffer

CONSTANT Times  (* The times slots are stamped with. *)

ASSUME TimesAssumption == Times \subseteq Nat \ {0}

VARIABLE ring  (* The buffer *)

MovesInit == ring = EmptyBuffer

Push(time) == ring' = Insert(ring, time)

PopEnd == ring' = StepEndBack(ring)

PopStart == ring' = StepStart(ring)

MovesNext ==
  \/ \E time \in Times : Push(time)
  \/ PopEnd
  \/ PopStart

MovesSpec == MovesInit /\ [][MovesNext]_ring

-----------------------------------------------------------------------------
(* The type invariant. *)
RingTypeOK == ring \in Buffer

(* Only the first slot of the window may be empty, wherever the markers     *)
(* were moved: the count by subtraction of the indexes relies on it.        *)
NoHoles == Contiguous(ring)

(* The cached NumSamples never misses a valid element, and is one too many  *)
(* only for a window that wraps around an empty first slot, where it is not *)
(* the number of valid samples it is said to be (circular_buffer.go:109,    *)
(* 122): GetNumSamplesIsValid of NumericalTask states that.                 *)
CountSound == Counted(ring)

(* StepIndex refuses to move when NumSamples is 0: were that ever the case  *)
(* of a window that still spans several slots, CycleIndexes would loop      *)
(* forever on the same stale start.                                         *)
EmptyMeansCollapsed == Collapsed(ring)

=============================================================================
