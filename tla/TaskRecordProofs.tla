--------------------------- MODULE TaskRecordProofs ---------------------------
(***************************************************************************)
(* The circular buffer and the records that keep their samples in it, for  *)
(* every length of the buffer: what every move of a marker preserves, what *)
(* the steps that numerical and signature tasks share do, and then each    *)
(* record.                                                                 *)
(*                                                                         *)
(* Sound is the inductive invariant of the buffer: the cached NumSamples   *)
(* is the function of the indexes that StepIndex computes, and only the    *)
(* first slot of the window may be empty.                                  *)
(***************************************************************************)
EXTENDS CircularBufferMoves, NumericalTask, SignatureTask, FiniteSetTheorems, TLAPS

Sound(b) ==
  /\ b \in Buffer
  /\ b.num = CountSamples(b)
  /\ Contiguous(b)

-----------------------------------------------------------------------------
(* Stepping an index goes around the slots, uint32 wrap included. *)
LEMMA AheadWraps ==
  ASSUME NEW i \in Slots
  PROVE  /\ Ahead(i) = IF i = CircBufferLen - 1 THEN 0 ELSE i + 1
         /\ Ahead(i) \in Slots
         /\ Ahead(i) # i
BY LengthAssumption, MaxUint32Assumption DEF Slots, Ahead, BufferLimitCheck

(* The slot behind the first is the last. *)
LEMMA BehindWraps ==
  ASSUME NEW i \in Slots
  PROVE  /\ Behind(i) = IF i = 0 THEN CircBufferLen - 1 ELSE i - 1
         /\ Behind(i) \in Slots
BY LengthAssumption, MaxUint32Assumption DEF Slots, Behind, BufferLimitCheck

(* The count is within the buffer, whatever the indexes are. *)
LEMMA CountRange ==
  ASSUME NEW b, b.start \in Slots, b.end \in Slots
  PROVE  CountSamples(b) \in 0 .. CircBufferLen
BY LengthAssumption DEF Slots, CountSamples

(* Recounting a well-formed buffer gives a well-formed buffer. *)
LEMMA RecountType ==
  ASSUME NEW b \in Buffer
  PROVE  /\ Recount(b) \in Buffer
         /\ Recount(b).times = b.times
         /\ Recount(b).start = b.start
         /\ Recount(b).end = b.end
         /\ Recount(b).num = CountSamples(Recount(b))
<1>1. CountSamples(b) \in 0 .. CircBufferLen
  BY CountRange DEF Buffer
<1> QED
  BY <1>1 DEF Buffer, Recount, CountSamples, Written

(* The initial buffer is sound. *)
LEMMA EmptySound == Sound(EmptyBuffer)
BY LengthAssumption
   DEF Sound, EmptyBuffer, Buffer, Slots, CountSamples, Written, EpochStart, Contiguous, InWindow

(* A window whose count is 0 or 1 is where StepIndex believes it is. *)
LEMMA CountOfOne ==
  ASSUME NEW b, Sound(b)
  PROVE  /\ b.num = 0 => b.start = b.end /\ ~Written(b, b.start)
         /\ b.num = 1 /\ Written(b, b.start) => b.start = b.end
         /\ b.num = 1 /\ ~Written(b, b.start) => b.end = b.start + 1
         /\ b.num > 1 => b.start # b.end
BY LengthAssumption, SMTT(30) DEF Sound, Buffer, Slots, CountSamples

(* Moving the start keeps a buffer sound. *)
LEMMA StepStartSound ==
  ASSUME NEW b, Sound(b)
  PROVE  Sound(StepStart(b))
<1>1. CASE b.num = 0
  BY <1>1 DEF StepStart
<1>2. CASE b.num = 1 /\ Written(b, b.start)
  <2> DEFINE c == [b EXCEPT !.times[b.end] = EpochStart]
  <2>1. /\ c \in Buffer
        /\ c.start = b.start /\ c.end = b.end
        /\ b.start = b.end
    BY <1>2, CountOfOne DEF Sound, Buffer, EpochStart
  <2>2. StepStart(b) = Recount(c)
    BY <1>2 DEF StepStart
  <2>3. Contiguous(Recount(c))
    BY <2>1, RecountType DEF Contiguous, InWindow, Slots, Buffer
  <2> QED
    BY <2>1, <2>2, <2>3, RecountType DEF Sound
<1>3. CASE b.num # 0 /\ ~(b.num = 1 /\ Written(b, b.start))
  <2> DEFINE c == [b EXCEPT !.start = Ahead(b.start)]
  <2>1. /\ c \in Buffer
        /\ c.start = Ahead(b.start) /\ c.end = b.end /\ c.times = b.times
    BY AheadWraps DEF Sound, Buffer
  <2>2. StepStart(b) = Recount(c)
    BY <1>3 DEF StepStart
  <2>3. b.start # b.end
    BY <1>3, CountOfOne DEF Sound, Buffer, Slots
  <2>4. \A i \in Slots : InWindow(Recount(c), i) => InWindow(b, i) /\ i # b.start
    <3> SUFFICES ASSUME NEW i \in Slots, InWindow(Recount(c), i)
                 PROVE  InWindow(b, i) /\ i # b.start
      OBVIOUS
    <3>1. b.start \in Slots /\ b.end \in Slots
      BY DEF Sound, Buffer
    <3>2. /\ Ahead(b.start) = IF b.start = CircBufferLen - 1 THEN 0 ELSE b.start + 1
          /\ Ahead(b.start) \in Slots
      BY <3>1, AheadWraps
    <3>3. Recount(c).start = Ahead(b.start) /\ Recount(c).end = b.end
      BY <2>1, RecountType
    <3> HIDE DEF c
    <3> QED
      BY <2>3, <3>1, <3>2, <3>3, LengthAssumption DEF InWindow, Slots
  <2>5. Contiguous(Recount(c))
    <3>1. Recount(c).times = b.times
      BY <2>1, RecountType
    <3> HIDE DEF c
    <3> QED
      BY <2>4, <3>1 DEF Contiguous, Written, Sound
  <2> QED
    BY <2>1, <2>2, <2>5, RecountType DEF Sound
<1> QED
  BY <1>1, <1>2, <1>3

(* Accepting a sample moves the end on, pushes the start when it meets it,   *)
(* and stamps the new last slot.                                             *)
LEMMA InsertFields ==
  ASSUME NEW b, Sound(b), NEW time \in Nat \ {0}
  PROVE  LET s == Insert(b, time)
         IN  /\ s \in Buffer
             /\ s.times = [b.times EXCEPT ![Ahead(b.end)] = time]
             /\ s.end = Ahead(b.end)
             /\ s.start = IF Ahead(b.end) = b.start THEN Ahead(b.start) ELSE b.start
             /\ s.start # s.end
             /\ s.num = CountSamples(s) /\ s.num > 0
<1> DEFINE next   == Ahead(b.end)
           pushed == IF next = b.start THEN StepStart(b) ELSE b
           moved  == [pushed EXCEPT !.end = next]
           r      == Recount(moved)
           s      == Insert(b, time)
<1>0. /\ b \in Buffer
      /\ b.start \in Slots /\ b.end \in Slots
      /\ next = IF b.end = CircBufferLen - 1 THEN 0 ELSE b.end + 1
      /\ next \in Slots /\ next # b.end
  BY AheadWraps DEF Sound, Buffer
<1>1. /\ pushed \in Buffer
      /\ pushed.times = b.times
      /\ pushed.start = IF next = b.start THEN Ahead(b.start) ELSE b.start
  <2>1. CASE next # b.start
    BY <2>1, <1>0
  <2>2. CASE next = b.start
    <3>1. b.start # b.end
      BY <2>2, <1>0
    <3>2. b.num # 0 /\ ~(b.num = 1 /\ Written(b, b.start))
      BY <3>1, CountOfOne
    <3>3. StepStart(b) = Recount([b EXCEPT !.start = Ahead(b.start)])
      BY <3>2 DEF StepStart
    <3>4. [b EXCEPT !.start = Ahead(b.start)] \in Buffer
      BY <1>0, AheadWraps DEF Buffer
    <3> QED
      BY <2>2, <3>3, <3>4, RecountType, <1>0 DEF Buffer
  <2> QED
    BY <2>1, <2>2
<1>2. /\ moved \in Buffer
      /\ moved.times = b.times /\ moved.start = pushed.start /\ moved.end = next
  <2> HIDE DEF next, pushed
  <2> QED
    BY <1>0, <1>1 DEF Buffer
<1>3. /\ r \in Buffer
      /\ r.times = b.times /\ r.start = pushed.start /\ r.end = next
      /\ r.num = CountSamples(r)
  BY <1>2, RecountType
<1>4. s = [r EXCEPT !.times[r.end] = time]
  BY DEF Insert, StepEnd
<1> HIDE DEF r, moved, pushed, next, s
<1>5. /\ s \in Buffer
      /\ s.times = [b.times EXCEPT ![next] = time]
      /\ s.start = pushed.start /\ s.end = next /\ s.num = r.num
  BY <1>0, <1>3, <1>4 DEF Buffer
<1>6. pushed.start \in Slots /\ pushed.start # next
  BY <1>0, <1>1, AheadWraps DEF Buffer
<1>7. s.num = CountSamples(s) /\ s.num > 0
  <2>1. s.start = r.start /\ s.end = r.end /\ s.start \in Slots /\ s.end \in Slots
    BY <1>0, <1>3, <1>5, <1>6
  <2>2. Written(s, s.start) <=> Written(r, r.start)
    BY <1>0, <1>3, <1>5, <1>6 DEF Written, Buffer
  <2>3. CountSamples(s) = CountSamples(r)
    BY <2>1, <2>2 DEF CountSamples
  <2>4. CountSamples(s) > 0
    BY <2>1, <1>5, <1>6, LengthAssumption DEF CountSamples, Slots
  <2> QED
    BY <1>3, <1>5, <2>3, <2>4
<1> QED
  BY <1>1, <1>5, <1>6, <1>7 DEF s, next

(* The window of a buffer that accepted a sample is the window it had, less  *)
(* its first slot when the buffer was full, and the new last slot.           *)
LEMMA InsertWindow ==
  ASSUME NEW b, Sound(b), NEW time \in Nat \ {0},
         NEW i \in Slots, InWindow(Insert(b, time), i), i # Ahead(b.end)
  PROVE  /\ InWindow(b, i)
         /\ i = b.start => Insert(b, time).start = b.start
<1> DEFINE s == Insert(b, time)
           next == Ahead(b.end)
<1>0. /\ b.start \in Slots /\ b.end \in Slots
      /\ next = IF b.end = CircBufferLen - 1 THEN 0 ELSE b.end + 1
      /\ Ahead(b.start) = IF b.start = CircBufferLen - 1 THEN 0 ELSE b.start + 1
  BY AheadWraps DEF Sound, Buffer
<1>1. /\ s.end = next
      /\ s.start = IF next = b.start THEN Ahead(b.start) ELSE b.start
  BY InsertFields
<1>2. InWindow(s, i) /\ i # next
  OBVIOUS
<1> HIDE DEF s, next
<1>3. CASE next = b.start
  BY <1>0, <1>1, <1>2, <1>3, LengthAssumption DEF InWindow, Slots
<1>4. CASE next # b.start
  BY <1>0, <1>1, <1>2, <1>4, LengthAssumption DEF InWindow, Slots, s
<1> QED
  BY <1>3, <1>4

(* Accepting a sample keeps a buffer sound, and its window is never empty.   *)
LEMMA InsertSound ==
  ASSUME NEW b, Sound(b), NEW time \in Nat \ {0}
  PROVE  Sound(Insert(b, time)) /\ Insert(b, time).num > 0
<1> DEFINE s == Insert(b, time)
           next == Ahead(b.end)
<1>0. b \in Buffer /\ next \in Slots
  BY AheadWraps DEF Sound, Buffer
<1>1. /\ s \in Buffer
      /\ s.times = [b.times EXCEPT ![next] = time]
      /\ s.start = IF next = b.start THEN Ahead(b.start) ELSE b.start
      /\ s.num = CountSamples(s) /\ s.num > 0
  BY InsertFields
<1>2. Contiguous(s)
  <2> SUFFICES ASSUME NEW i \in Slots, InWindow(s, i), i # s.start
               PROVE  Written(s, i)
    BY DEF Contiguous
  <2>1. CASE i = next
    BY <2>1, <1>0, <1>1 DEF Written, EpochStart, Buffer
  <2>2. CASE i # next
    <3>1. InWindow(b, i) /\ i # b.start
      BY <2>2, <1>1, InsertWindow
    <3>2. b.times[i] # EpochStart /\ s.times[i] = b.times[i]
      BY <3>1, <2>2, <1>0, <1>1 DEF Sound, Contiguous, Written, Buffer
    <3> QED
      BY <3>2 DEF Written
  <2> QED
    BY <2>1, <2>2
<1> QED
  BY <1>1, <1>2 DEF Sound

(* So does stepping the end back. *)
LEMMA StepEndBackSound ==
  ASSUME NEW b, Sound(b)
  PROVE  Sound(StepEndBack(b))
<1>0. b \in Buffer /\ b.start \in Slots /\ b.end \in Slots
  BY DEF Sound, Buffer
<1>1. CASE b.num = 0
  BY <1>1 DEF StepEndBack
<1>2. CASE b.num = 1
  <2> DEFINE c == [b EXCEPT !.times[b.start] = EpochStart]
  <2>1. /\ c \in Buffer
        /\ c.start = b.start /\ c.end = b.end
        /\ \A i \in Slots : i # b.start => c.times[i] = b.times[i]
    BY <1>0 DEF Buffer, EpochStart
  <2>2. StepEndBack(b) = Recount(c)
    BY <1>2 DEF StepEndBack
  <2>3. /\ Recount(c).times = c.times
        /\ Recount(c).start = b.start /\ Recount(c).end = b.end
    BY <2>1, RecountType
  <2> HIDE DEF c
  <2>4. Contiguous(Recount(c))
    BY <2>1, <2>3, <1>0 DEF Sound, Contiguous, InWindow, Written
  <2> QED
    BY <2>1, <2>2, <2>4, RecountType DEF Sound
<1>3. CASE b.num # 0 /\ b.num # 1
  <2> DEFINE c == [b EXCEPT !.end = Behind(b.end)]
  <2>1. /\ c \in Buffer
        /\ c.start = b.start /\ c.end = Behind(b.end) /\ c.times = b.times
    BY <1>0, BehindWraps DEF Buffer
  <2>2. StepEndBack(b) = Recount(c)
    BY <1>3 DEF StepEndBack
  <2>3. /\ Recount(c).times = b.times
        /\ Recount(c).start = b.start /\ Recount(c).end = Behind(b.end)
    BY <2>1, RecountType
  <2> HIDE DEF c
  <2>4. b.start # b.end
    BY <1>3, <1>0, CountOfOne DEF Buffer
  <2>5. Behind(b.end) = IF b.end = 0 THEN CircBufferLen - 1 ELSE b.end - 1
    BY <1>0, BehindWraps
  <2>6. \A i \in Slots : InWindow(Recount(c), i) => InWindow(b, i)
    BY <2>3, <2>4, <2>5, <1>0, LengthAssumption DEF InWindow, Slots
  <2>7. Contiguous(Recount(c))
    BY <2>3, <2>6 DEF Sound, Contiguous, Written
  <2> QED
    BY <2>1, <2>2, <2>7, RecountType DEF Sound
<1> QED
  BY <1>1, <1>2, <1>3

-----------------------------------------------------------------------------
(* The valid indexes of a sound buffer are one interval of slots, or two     *)
(* when the window wraps, less the first slot when it is empty.              *)
LEMMA SoundIndexes ==
  ASSUME NEW b, Sound(b)
  PROVE  LET first == IF Written(b, b.start) THEN b.start ELSE b.start + 1
         IN  ValidIndexes(b) = IF b.start <= b.end
                               THEN first .. b.end
                               ELSE (first .. CircBufferLen - 1) \cup (0 .. b.end)
<1>1. b.start \in Slots /\ b.end \in Slots
  BY DEF Sound, Buffer
<1>2. \A i \in Slots : InWindow(b, i) /\ i # b.start => Written(b, i)
  BY DEF Sound, Contiguous
<1>3. CASE Written(b, b.start)
  BY <1>1, <1>2, <1>3, LengthAssumption DEF ValidIndexes, InWindow, Slots
<1>4. CASE ~Written(b, b.start)
  BY <1>1, <1>2, <1>4, LengthAssumption DEF ValidIndexes, InWindow, Slots
<1> QED
  BY <1>3, <1>4

(* NumSamples of a sound buffer is the number of its valid indexes, and one  *)
(* more exactly when the window wraps around an empty first slot.            *)
LEMMA SoundCounted ==
  ASSUME NEW b, Sound(b)
  PROVE  Counted(b)
<1> DEFINE first == IF Written(b, b.start) THEN b.start ELSE b.start + 1
<1>1. /\ b.start \in Slots /\ b.end \in Slots
      /\ b.num = CountSamples(b)
  BY DEF Sound, Buffer
<1>2. ValidIndexes(b) = IF b.start <= b.end
                        THEN first .. b.end
                        ELSE (first .. CircBufferLen - 1) \cup (0 .. b.end)
  BY SoundIndexes
<1>3. first \in Int /\ b.end \in Int /\ CircBufferLen - 1 \in Int
  BY <1>1, LengthAssumption DEF Slots
<1>4. CASE b.start <= b.end
  <2>1. Cardinality(ValidIndexes(b)) = IF first > b.end THEN 0 ELSE b.end - first + 1
    BY <1>2, <1>3, <1>4, FS_Interval
  <2> QED
    BY <1>1, <1>4, <2>1 DEF Counted, CountSamples, Slots
<1>5. CASE ~(b.start <= b.end)
  <2> DEFINE high == first .. CircBufferLen - 1
             low  == 0 .. b.end
  <2>1. /\ IsFiniteSet(high) /\ IsFiniteSet(low)
        /\ Cardinality(high) = IF first > CircBufferLen - 1 THEN 0 ELSE CircBufferLen - 1 - first + 1
        /\ Cardinality(low) = IF 0 > b.end THEN 0 ELSE b.end - 0 + 1
    <3> HIDE DEF first
    <3>1. IsFiniteSet(high) /\ Cardinality(high) = IF first > CircBufferLen - 1 THEN 0 ELSE CircBufferLen - 1 - first + 1
      BY <1>3, FS_Interval
    <3>2. 0 \in Int
      OBVIOUS
    <3>3. IsFiniteSet(low) /\ Cardinality(low) = IF 0 > b.end THEN 0 ELSE b.end - 0 + 1
      BY <1>3, <3>2, FS_Interval
    <3> QED
      BY <3>1, <3>3
  <2>2. high \cap low = {}
    BY <1>1, <1>5, LengthAssumption DEF Slots
  <2>3. Cardinality(high \cup low) = Cardinality(high) + Cardinality(low)
    <3> HIDE DEF high, low
    <3>1. Cardinality({}) = 0
      BY FS_EmptySet
    <3>2. Cardinality(high) \in Nat /\ Cardinality(low) \in Nat
      BY <2>1, FS_CardinalityType
    <3> QED
      BY <2>1, <2>2, <3>1, <3>2, FS_Union
  <2>4. Cardinality(ValidIndexes(b)) = Cardinality(high) + Cardinality(low)
    BY <1>2, <1>5, <2>3
  <2> HIDE DEF high, low
  <2> QED
    BY <1>1, <1>5, <2>1, <2>4, LengthAssumption DEF Counted, CountSamples, Slots
<1> QED
  BY <1>4, <1>5

(* A sound buffer that counts no sample is one empty slot. *)
LEMMA SoundCollapsed ==
  ASSUME NEW b, Sound(b)
  PROVE  Collapsed(b)
<1>1. b.start \in Slots /\ b.end \in Slots
  BY DEF Sound, Buffer
<1>2. b.num = 0 => b.start = b.end /\ ~Written(b, b.start)
  BY CountOfOne
<1> QED
  BY <1>1, <1>2 DEF Collapsed, ValidIndexes, InWindow, Slots

-----------------------------------------------------------------------------
(***************************************************************************)
(* The buffer of a record and the times of its slots.                      *)
(***************************************************************************)
\* Slots are stamped with times that have come, in the order of the window.
Chronological(b, t) ==
  /\ \A i \in Slots : b.times[i] <= t
  /\ \A i, j \in ValidIndexes(b) :
       Position(b, i) <= Position(b, j) => b.times[i] <= b.times[j]

BufferInv ==
  /\ BufferTypeOK
  /\ Sound(buffer)
  /\ Chronological(buffer, now)
  /\ pc = "cycling" => Stale(buffer, buffer.start, now)

-----------------------------------------------------------------------------
(* Moving the start only takes slots off the old end of the window.         *)
LEMMA StepStartShrinks ==
  ASSUME NEW b, Sound(b)
  PROVE  LET c == StepStart(b)
         IN  /\ c.end = b.end
             /\ \A i \in Slots : c.times[i] = b.times[i] \/ c.times[i] = EpochStart
             /\ \A i \in ValidIndexes(c) : /\ i \in ValidIndexes(b)
                                           /\ c.times[i] = b.times[i]
             /\ \A i, j \in ValidIndexes(c) :
                  Position(c, i) <= Position(c, j) => Position(b, i) <= Position(b, j)
<1> DEFINE c == StepStart(b)
<1>0. /\ b \in Buffer /\ b.start \in Slots /\ b.end \in Slots
  BY DEF Sound, Buffer
<1>1. CASE b.num = 0
  <2>1. c = b
    BY <1>1 DEF StepStart
  <2> QED
    BY <2>1 DEF ValidIndexes
<1>2. CASE b.num = 1 /\ Written(b, b.start)
  <2> DEFINE d == [b EXCEPT !.times[b.end] = EpochStart]
  <2>1. /\ d \in Buffer
        /\ d.start = b.start /\ d.end = b.end /\ b.start = b.end
        /\ d.times = [b.times EXCEPT ![b.end] = EpochStart]
    BY <1>2, <1>0, CountOfOne DEF Buffer, EpochStart
  <2>2. c = Recount(d)
    BY <1>2 DEF StepStart
  <2>3. /\ c.start = b.start /\ c.end = b.end
        /\ c.times = [b.times EXCEPT ![b.end] = EpochStart]
    BY <2>1, <2>2, RecountType
  <2> HIDE DEF c, d
  <2>4. ValidIndexes(c) = {}
    <3>1. c.times[b.start] = EpochStart
      BY <2>1, <2>3, <1>0 DEF Buffer
    <3>2. \A i \in Slots : InWindow(c, i) => i = b.start
      BY <2>1, <2>3, <1>0 DEF InWindow, Slots
    <3> QED
      BY <3>1, <3>2 DEF ValidIndexes, Written
  <2>5. \A i \in Slots : c.times[i] = b.times[i] \/ c.times[i] = EpochStart
    BY <2>3, <1>0 DEF Buffer
  <2> QED
    BY <2>3, <2>4, <2>5 DEF c
<1>3. CASE b.num # 0 /\ ~(b.num = 1 /\ Written(b, b.start))
  <2> DEFINE d == [b EXCEPT !.start = Ahead(b.start)]
  <2>1. /\ d \in Buffer
        /\ d.start = Ahead(b.start) /\ d.end = b.end /\ d.times = b.times
    BY <1>0, AheadWraps DEF Buffer
  <2>2. c = Recount(d)
    BY <1>3 DEF StepStart
  <2>3. /\ c.start = Ahead(b.start) /\ c.end = b.end /\ c.times = b.times
    BY <2>1, <2>2, RecountType
  <2>4. b.start # b.end
    BY <1>3, <1>0, CountOfOne DEF Buffer, Slots
  <2>5. /\ Ahead(b.start) = IF b.start = CircBufferLen - 1 THEN 0 ELSE b.start + 1
        /\ Ahead(b.start) \in Slots
    BY <1>0, AheadWraps
  <2> HIDE DEF c, d
  <2>6. \A i \in Slots : InWindow(c, i) => InWindow(b, i) /\ i # b.start
    BY <2>3, <2>4, <2>5, <1>0, LengthAssumption DEF InWindow, Slots
  <2>7. \A i \in ValidIndexes(c) : i \in ValidIndexes(b) /\ i # b.start
    BY <2>3, <2>6 DEF ValidIndexes, Written
  <2>8. \A i \in Slots : i # b.start => Position(c, i) = Position(b, i) - 1
    BY <2>3, <2>5, <1>0, LengthAssumption DEF Position, Slots
  <2>9. \A i, j \in ValidIndexes(c) :
          Position(c, i) <= Position(c, j) => Position(b, i) <= Position(b, j)
    <3>1. \A i \in ValidIndexes(c) : /\ Position(c, i) = Position(b, i) - 1
                                     /\ Position(b, i) \in Int
      BY <2>7, <2>8, <1>0, LengthAssumption DEF ValidIndexes, Position, Slots
    <3> QED
      BY <3>1
  <2> QED
    BY <2>3, <2>7, <2>9 DEF c
<1> QED
  BY <1>1, <1>2, <1>3

(* A sample accepted now is the last of the window, and no older sample is   *)
(* stamped later than it.                                                    *)
LEMMA InsertOrder ==
  ASSUME NEW b, Sound(b), NEW t \in Nat \ {0}, Chronological(b, t)
  PROVE  Chronological(Insert(b, t), t)
<1> DEFINE s    == Insert(b, t)
           next == Ahead(b.end)
<1>0. /\ b \in Buffer /\ b.start \in Slots /\ b.end \in Slots
      /\ next \in Slots
      /\ Ahead(b.start) = IF b.start = CircBufferLen - 1 THEN 0 ELSE b.start + 1
      /\ Ahead(b.start) \in Slots
  BY AheadWraps DEF Sound, Buffer
<1>1. /\ s \in Buffer
      /\ s.times = [b.times EXCEPT ![next] = t]
      /\ s.end = next
      /\ s.start = IF next = b.start THEN Ahead(b.start) ELSE b.start
  BY InsertFields
<1>2. \A i \in Slots : InWindow(s, i) /\ i # next =>
        InWindow(b, i) /\ (i = b.start => s.start = b.start)
  BY InsertWindow
<1> HIDE DEF s, next
<1>3. s.times[next] = t /\ \A i \in Slots \ {next} : s.times[i] = b.times[i]
  BY <1>0, <1>1 DEF Buffer
<1>4. \A i \in Slots : s.times[i] <= t
  BY <1>3, <1>0 DEF Chronological, Slots
<1>5. ASSUME NEW i \in ValidIndexes(s), NEW j \in ValidIndexes(s),
             Position(s, i) <= Position(s, j)
      PROVE  s.times[i] <= s.times[j]
  <2>0. i \in Slots /\ j \in Slots /\ InWindow(s, i) /\ InWindow(s, j)
    BY DEF ValidIndexes
  <2>1. CASE j = next
    BY <2>0, <2>1, <1>3, <1>4
  <2>2. CASE j # next /\ i = next
    <3>1. Position(s, j) < Position(s, next)
      BY <2>0, <2>2, <1>0, <1>1, LengthAssumption DEF Position, InWindow, Slots
    <3>2. Position(s, j) \in Int /\ Position(s, next) \in Int
      BY <2>0, <1>0, <1>1, LengthAssumption DEF Position, Slots
    <3> QED
      BY <2>2, <3>1, <3>2, <1>5
  <2>3. CASE j # next /\ i # next
    <3>1. /\ s.times[i] = b.times[i] /\ s.times[j] = b.times[j]
          /\ i \in ValidIndexes(b) /\ j \in ValidIndexes(b)
      BY <2>0, <2>3, <1>2, <1>3 DEF ValidIndexes, Written
    <3>2. Position(b, i) <= Position(b, j)
      <4>1. CASE s.start = b.start
        BY <4>1, <1>5 DEF Position
      <4>2. CASE s.start # b.start
        <5>1. i # b.start /\ j # b.start /\ s.start = Ahead(b.start)
          BY <4>2, <2>0, <2>3, <1>1, <1>2
        <5> QED
          BY <5>1, <1>0, <2>0, <1>5, LengthAssumption DEF Position, Slots
      <4> QED
        BY <4>1, <4>2
    <3> QED
      BY <3>1, <3>2 DEF Chronological
  <2> QED
    BY <2>1, <2>2, <2>3
<1> QED
  BY <1>4, <1>5 DEF Chronological, s

(* The slots of the window a sample was accepted to were in the window before, *)
(* but for the last.                                                           *)
LEMMA InsertValid ==
  ASSUME NEW b, Sound(b), NEW t \in Nat \ {0},
         NEW i \in ValidIndexes(Insert(b, t)), i # Insert(b, t).end
  PROVE  i \in ValidIndexes(b)
<1> DEFINE s == Insert(b, t)
<1>1. /\ b \in Buffer
      /\ s.times = [b.times EXCEPT ![Ahead(b.end)] = t] /\ s.end = Ahead(b.end)
  BY InsertFields DEF Sound
<1>2. i \in Slots /\ i # Ahead(b.end) /\ s.times[i] = b.times[i] /\ s.times[i] # EpochStart
  BY <1>1 DEF ValidIndexes, Written, Buffer
<1>3. InWindow(b, i)
  BY <1>1, InsertWindow DEF ValidIndexes
<1> QED
  BY <1>2, <1>3 DEF ValidIndexes, Written

(* Dropping the first slot keeps the order of the ones that are left. *)
LEMMA StepStartOrder ==
  ASSUME NEW b, Sound(b), NEW t \in Nat, Chronological(b, t)
  PROVE  Chronological(StepStart(b), t)
<1> DEFINE c == StepStart(b)
<1>1. /\ \A i \in Slots : c.times[i] = b.times[i] \/ c.times[i] = EpochStart
      /\ \A i \in ValidIndexes(c) : i \in ValidIndexes(b) /\ c.times[i] = b.times[i]
      /\ \A i, j \in ValidIndexes(c) :
           Position(c, i) <= Position(c, j) => Position(b, i) <= Position(b, j)
  BY StepStartShrinks
<1> HIDE DEF c
<1>2. \A i \in Slots : c.times[i] <= t
  BY <1>1 DEF Chronological, EpochStart
<1>3. \A i, j \in ValidIndexes(c) :
        Position(c, i) <= Position(c, j) => c.times[i] <= c.times[j]
  BY <1>1 DEF Chronological
<1> QED
  BY <1>2, <1>3 DEF Chronological, c

(* When the first sample of the window is fresh, all of them are. *)
LEMMA FreshFromStart ==
  ASSUME NEW b, Sound(b), NEW t \in Nat, Chronological(b, t),
         ~Stale(b, b.start, t),
         NEW i \in ValidIndexes(b)
  PROVE  ~Stale(b, i, t)
<1>1. /\ b.start \in Slots /\ b.end \in Slots /\ i \in Slots
      /\ b.times[i] \in Nat /\ b.times[b.start] \in Nat
  BY DEF Sound, Buffer, ValidIndexes
<1>2. b.start \in ValidIndexes(b)
  BY <1>1 DEF ValidIndexes, InWindow, Stale, Slots
<1>3. Position(b, b.start) = 0 /\ Position(b, i) >= 0
  BY <1>1, LengthAssumption DEF Position, Slots
<1>4. b.times[b.start] <= b.times[i]
  BY <1>2, <1>3 DEF Chronological
<1> QED
  BY <1>1, <1>4, MaxAgeAssumption DEF Stale, ValidIndexes

-----------------------------------------------------------------------------
(* The inductive invariant holds at first and each shared step keeps it.    *)
LEMMA BufferInitInv == BufferInit => BufferInv
<1> SUFFICES ASSUME BufferInit
             PROVE  BufferInv
  OBVIOUS
<1>1. Sound(buffer)
  BY EmptySound DEF BufferInit
<1>2. BufferTypeOK
  BY <1>1, StatusesAssumption DEF BufferInit, BufferTypeOK, Sound, NoSample, Sample, Kept
<1>3. \A i \in Slots : buffer.times[i] = EpochStart
  BY DEF BufferInit, EmptyBuffer
<1>4. Chronological(buffer, now)
  BY <1>3 DEF BufferInit, Chronological, ValidIndexes, Written, EpochStart
<1> QED
  BY <1>1, <1>2, <1>4 DEF BufferInv, BufferInit

(* The clock keeps the invariant of the ring. *)
LEMMA BufferTickInv == BufferInv /\ BufferTick => BufferInv'
<1> SUFFICES ASSUME BufferInv, BufferTick
             PROVE  BufferInv'
  OBVIOUS
<1>1. BufferTypeOK'
  BY DEF BufferInv, BufferTypeOK, BufferTick
<1>2. Sound(buffer)'
  BY DEF BufferInv, BufferTick
<1>3. now \in Nat /\ now' = now + 1 /\ buffer' = buffer
  BY DEF BufferInv, BufferTypeOK, BufferTick
<1>4. \A i \in Slots : buffer.times[i] \in Nat
  BY DEF BufferInv, Sound, Buffer
<1>5. \A i \in Slots : buffer.times[i] <= now + 1
  BY <1>3, <1>4 DEF BufferInv, Chronological
<1>6. Chronological(buffer', now')
  BY <1>3, <1>5 DEF BufferInv, Chronological
<1>7. Stale(buffer, buffer.start, now) => Stale(buffer', buffer'.start, now')
  <2>1. buffer.start \in Slots
    BY DEF BufferInv, Sound, Buffer
  <2> QED
    BY <2>1, <1>3, <1>4, MaxAgeAssumption DEF Stale, Written
<1> QED
  BY <1>1, <1>2, <1>6, <1>7 DEF BufferInv, BufferTick

(* Storing a sample keeps the invariant of the ring, and the sample is at its end. *)
LEMMA StoreInv ==
  ASSUME NEW status \in Kept, BufferInv, Store(status), pc' \in {"idle", "inserting"}
  PROVE  BufferInv' /\ samples'[buffer'.end] = [id |-> total', status |-> status]
<1>1. /\ Sound(buffer) /\ now \in Nat \ {0} /\ total \in Nat
      /\ samples \in [Slots -> Sample]
      /\ Chronological(buffer, now)
      /\ buffer' = Insert(buffer, now) /\ now' = now /\ total' = total + 1
      /\ samples' = [samples EXCEPT ![buffer'.end] = [id |-> total', status |-> status]]
  BY DEF BufferInv, BufferTypeOK, Store
<1>2. Sound(buffer')
  BY <1>1, InsertSound
<1>3. Chronological(buffer', now')
  BY <1>1, InsertOrder
<1>4. buffer' \in Buffer /\ buffer'.end \in Slots
  BY <1>2 DEF Sound, Buffer
<1>5. BufferTypeOK'
  BY <1>1, <1>4 DEF BufferTypeOK, Sample
<1>6. samples'[buffer'.end] = [id |-> total', status |-> status]
  BY <1>1, <1>4
<1> QED
  BY <1>2, <1>3, <1>5, <1>6 DEF BufferInv

(* CycleIndexes keeps the invariant of the ring. *)
LEMMA BufferCycleInv == BufferInv /\ BufferCycle => BufferInv'
<1> SUFFICES ASSUME BufferInv, BufferCycle
             PROVE  BufferInv'
  OBVIOUS
<1>1. /\ Sound(buffer) /\ now \in Nat \ {0} /\ Chronological(buffer, now)
      /\ buffer' = StepStart(buffer) /\ now' = now
      /\ samples' = samples /\ total' = total
      /\ pc' \in {"idle", "cycling"}
  BY DEF BufferInv, BufferTypeOK, BufferCycle
<1>2. Sound(buffer')
  BY <1>1, StepStartSound
<1>3. Chronological(buffer', now')
  BY <1>1, StepStartOrder
<1>4. BufferTypeOK'
  BY <1>1, <1>2 DEF BufferInv, BufferTypeOK, Sound
<1>5. pc' = "cycling" => Stale(buffer', buffer'.start, now')
  BY <1>1 DEF BufferCycle
<1> QED
  BY <1>2, <1>3, <1>4, <1>5 DEF BufferInv

(* The end marker, and the sample in its slot, are not the cycle's to move. *)
LEMMA BufferCycleEnd ==
  BufferInv /\ BufferCycle => buffer'.end = buffer.end /\ samples' = samples
BY StepStartShrinks DEF BufferInv, BufferCycle

-----------------------------------------------------------------------------
(***************************************************************************)
(* The window of a sound buffer, slot by slot.                             *)
(***************************************************************************)
(* LiveSlot goes through the valid indexes once each, the end marker last.   *)
LEMMA LiveCovers ==
  ASSUME NEW b, Sound(b)
  PROVE  /\ LiveCount(b) \in 0 .. CircBufferLen
         /\ {LiveSlot(b, k) : k \in 1 .. LiveCount(b)} = ValidIndexes(b)
         /\ \A j, k \in 1 .. LiveCount(b) : LiveSlot(b, j) = LiveSlot(b, k) => j = k
         /\ LiveCount(b) # 0 => LiveSlot(b, LiveCount(b)) = b.end
<1>1. /\ b.start \in Slots /\ b.end \in Slots
      /\ Skipped(b) = IF Written(b, b.start) THEN 0 ELSE 1
  BY DEF Sound, Buffer, Skipped
<1>2. \A i \in Slots : InWindow(b, i) /\ i # b.start => Written(b, i)
  BY DEF Sound, Contiguous
<1>3. LiveCount(b) \in 0 .. CircBufferLen
  BY <1>1, LengthAssumption DEF LiveCount, Position, Slots
<1>4. \A k \in 1 .. LiveCount(b) : LiveSlot(b, k) \in ValidIndexes(b)
  <2> SUFFICES ASSUME NEW k \in 1 .. LiveCount(b)
               PROVE  LiveSlot(b, k) \in ValidIndexes(b)
    OBVIOUS
  <2>1. LiveSlot(b, k) \in Slots /\ InWindow(b, LiveSlot(b, k))
    BY <1>1, LengthAssumption DEF LiveSlot, LiveCount, Position, Slots, InWindow
  <2>2. LiveSlot(b, k) = b.start => Written(b, b.start)
    BY <1>1, LengthAssumption DEF LiveSlot, LiveCount, Position, Slots
  <2> QED
    BY <1>2, <2>1, <2>2 DEF ValidIndexes
<1>5. \A i \in ValidIndexes(b) : \E k \in 1 .. LiveCount(b) : LiveSlot(b, k) = i
  <2> SUFFICES ASSUME NEW i \in ValidIndexes(b)
               PROVE  \E k \in 1 .. LiveCount(b) : LiveSlot(b, k) = i
    OBVIOUS
  <2> DEFINE k == Position(b, i) + 1 - Skipped(b)
  <2>1. i \in Slots /\ InWindow(b, i) /\ (i = b.start => Skipped(b) = 0)
    BY <1>1 DEF ValidIndexes
  <2>2. k \in 1 .. LiveCount(b) /\ LiveSlot(b, k) = i
    BY <1>1, <2>1, LengthAssumption DEF LiveSlot, LiveCount, Position, Slots, InWindow
  <2> QED
    BY <2>2
<1>6. \A j, k \in 1 .. LiveCount(b) : LiveSlot(b, j) = LiveSlot(b, k) => j = k
  BY <1>1, LengthAssumption DEF LiveSlot, LiveCount, Position, Slots
<1>7. LiveCount(b) # 0 => LiveSlot(b, LiveCount(b)) = b.end
  BY <1>1, LengthAssumption DEF LiveSlot, LiveCount, Position, Slots
<1> QED
  BY <1>3, <1>4, <1>5, <1>6, <1>7

(* A sample accepted is one more at the end of the window, which loses its   *)
(* first when every slot held one.                                           *)
LEMMA InsertLive ==
  ASSUME NEW b, Sound(b), NEW time \in Nat \ {0}
  PROVE  LET s    == Insert(b, time)
             drop == IF LiveCount(b) = CircBufferLen THEN 1 ELSE 0
         IN  /\ LiveCount(s) = LiveCount(b) - drop + 1
             /\ LiveSlot(s, LiveCount(s)) = s.end
             /\ \A k \in 1 .. LiveCount(b) - drop :
                  /\ LiveSlot(s, k) = LiveSlot(b, k + drop)
                  /\ LiveSlot(s, k) \in Slots \ {s.end}
<1> DEFINE s    == Insert(b, time)
           next == Ahead(b.end)
           drop == IF LiveCount(b) = CircBufferLen THEN 1 ELSE 0
<1>0. /\ b \in Buffer /\ b.start \in Slots /\ b.end \in Slots
      /\ next = IF b.end = CircBufferLen - 1 THEN 0 ELSE b.end + 1
      /\ next \in Slots
      /\ Ahead(b.start) = IF b.start = CircBufferLen - 1 THEN 0 ELSE b.start + 1
      /\ Ahead(b.start) \in Slots /\ Ahead(b.start) # b.start
  BY AheadWraps DEF Sound, Buffer
<1>1. /\ s.times = [b.times EXCEPT ![next] = time] /\ s.end = next
      /\ s.start = IF next = b.start THEN Ahead(b.start) ELSE b.start
  BY InsertFields
<1>2. Skipped(b) \in {0, 1} /\ Skipped(s) \in {0, 1}
  BY DEF Skipped
<1>3. next # b.start => Skipped(s) = Skipped(b)
  BY <1>0, <1>1 DEF Skipped, Written, Buffer
<1>4. next = b.start => Skipped(s) = 0
  <2> SUFFICES ASSUME next = b.start
               PROVE  Skipped(s) = 0
    OBVIOUS
  <2>1. InWindow(b, Ahead(b.start))
    BY <1>0, LengthAssumption DEF InWindow, Slots
  <2>2. Written(b, Ahead(b.start))
    BY <1>0, <2>1 DEF Sound, Contiguous
  <2>3. s.start = Ahead(b.start) /\ s.start # next
    BY <1>0, <1>1
  <2>4. s.times[s.start] = b.times[s.start]
    BY <1>0, <1>1, <2>3 DEF Buffer
  <2> QED
    BY <2>2, <2>3, <2>4 DEF Skipped, Written
<1>5. LiveCount(b) = CircBufferLen <=> next = b.start /\ Skipped(b) = 0
  BY <1>0, <1>2, LengthAssumption DEF LiveCount, Position, Slots
<1>6. drop = IF next = b.start /\ Skipped(b) = 0 THEN 1 ELSE 0
  BY <1>5
<1> HIDE DEF s, next, drop
<1>7. CASE next = b.start
  <2>1. s.end = b.start /\ s.start = Ahead(b.start) /\ Skipped(s) = 0 /\ drop = 1 - Skipped(b)
    BY <1>1, <1>2, <1>4, <1>6, <1>7
  <2>2. LiveCount(s) = CircBufferLen /\ LiveCount(b) = CircBufferLen - Skipped(b)
    BY <1>0, <1>2, <1>7, <2>1, LengthAssumption DEF LiveCount, Position, Slots
  <2>3. LiveCount(s) = LiveCount(b) - drop + 1
    BY <1>2, <2>1, <2>2, LengthAssumption
  <2>4. LiveSlot(s, LiveCount(s)) = s.end
    BY <1>0, <1>2, <1>7, <2>1, <2>2, LengthAssumption DEF LiveSlot, Slots
  <2>5. ASSUME NEW k \in 1 .. LiveCount(b) - drop
        PROVE  LiveSlot(s, k) = LiveSlot(b, k + drop) /\ LiveSlot(s, k) \in Slots \ {s.end}
    <3>1. k \in Int /\ 1 <= k /\ k <= CircBufferLen - 1
      BY <2>5, <2>1, <2>2, <1>2, LengthAssumption
    <3> QED
      BY <1>0, <1>2, <1>7, <2>1, <3>1, LengthAssumption DEF LiveSlot, Slots
  <2> QED
    BY <2>3, <2>4, <2>5 DEF s, drop
<1>8. CASE next # b.start
  <2>1. s.start = b.start /\ s.end = next /\ Skipped(s) = Skipped(b) /\ drop = 0
    BY <1>1, <1>3, <1>6, <1>8
  <2>2. LiveCount(s) = LiveCount(b) + 1
    <3>1. Position(s, next) = Position(b, b.end) + 1 /\ Position(b, b.end) \in Int
      BY <1>0, <1>8, <2>1, LengthAssumption DEF Position, Slots
    <3> QED
      BY <1>2, <2>1, <3>1 DEF LiveCount
  <2>3. LiveSlot(s, LiveCount(s)) = s.end
    BY <1>0, <1>2, <1>8, <2>1, LengthAssumption DEF LiveCount, Position, LiveSlot, Slots
  <2>4. ASSUME NEW k \in 1 .. LiveCount(b) - drop
        PROVE  LiveSlot(s, k) = LiveSlot(b, k + drop) /\ LiveSlot(s, k) \in Slots \ {s.end}
    <3>1. k \in 1 .. LiveCount(b) /\ k + drop = k
      BY <2>1, <2>4, <1>0, <1>2, LengthAssumption DEF LiveCount, Position, Slots
    <3>2. LiveSlot(s, k) = LiveSlot(b, k)
      BY <2>1, <3>1 DEF LiveSlot
    <3>3. LiveSlot(b, k) \in Slots \ {next}
      BY <1>0, <1>2, <1>8, <3>1, LengthAssumption DEF LiveCount, Position, LiveSlot, Slots
    <3> QED
      BY <2>1, <3>1, <3>2, <3>3
  <2>5. LiveCount(b) \in Int
    BY <1>0, <1>2, LengthAssumption DEF LiveCount, Position, Slots
  <2> QED
    BY <2>1, <2>2, <2>3, <2>4, <2>5 DEF s, drop
<1> QED
  BY <1>7, <1>8

(* Moving the start takes the first sample off the window, or nothing when   *)
(* the first slot is empty.                                                  *)
LEMMA CycleLive ==
  ASSUME NEW b, Sound(b)
  PROVE  LET c    == StepStart(b)
             drop == IF Written(b, b.start) THEN 1 ELSE 0
         IN  /\ LiveCount(c) = LiveCount(b) - drop
             /\ \A k \in 1 .. LiveCount(c) :
                  /\ LiveSlot(c, k) = LiveSlot(b, k + drop)
                  /\ c.times[LiveSlot(c, k)] = b.times[LiveSlot(c, k)]
             /\ Written(b, b.start) => LiveCount(b) > 0 /\ LiveSlot(b, 1) = b.start
<1> DEFINE c    == StepStart(b)
           drop == IF Written(b, b.start) THEN 1 ELSE 0
<1>0. /\ b \in Buffer /\ b.start \in Slots /\ b.end \in Slots
      /\ Skipped(b) = 1 - drop /\ drop \in {0, 1}
  BY DEF Sound, Buffer, Skipped
<1>1. Written(b, b.start) => LiveCount(b) > 0 /\ LiveSlot(b, 1) = b.start
  BY <1>0, LengthAssumption DEF LiveCount, LiveSlot, Position, Slots, Skipped
<1>2. CASE b.num = 0
  <2>1. c = b /\ b.start = b.end /\ drop = 0
    BY <1>2, CountOfOne DEF StepStart
  <2>2. LiveCount(b) \in Int
    BY <1>0, LengthAssumption DEF LiveCount, Position, Slots
  <2>3. \A k \in 1 .. LiveCount(b) : k + 0 = k
    OBVIOUS
  <2> HIDE DEF c
  <2> QED
    BY <2>1, <2>2, <2>3, <1>1 DEF c
<1>3. CASE b.num = 1 /\ Written(b, b.start)
  <2> DEFINE d == [b EXCEPT !.times[b.end] = EpochStart]
  <2>1. /\ d \in Buffer
        /\ d.start = b.start /\ d.end = b.end /\ b.start = b.end
        /\ d.times = [b.times EXCEPT ![b.end] = EpochStart]
    BY <1>3, <1>0, CountOfOne DEF Buffer, EpochStart
  <2>2. c = Recount(d)
    BY <1>3 DEF StepStart
  <2>3. /\ c.start = b.start /\ c.end = b.end /\ ~Written(c, c.start)
    BY <2>1, <2>2, <1>0, RecountType DEF Written, Buffer
  <2> HIDE DEF c, d
  <2>4. LiveCount(c) = 0 /\ LiveCount(b) = 1
    BY <2>1, <2>3, <1>0, <1>3, LengthAssumption DEF LiveCount, Position, Slots, Skipped
  <2>5. drop = 1
    BY <1>3
  <2> HIDE DEF drop
  <2>6. LiveCount(c) = LiveCount(b) - drop
    BY <2>4, <2>5
  <2> QED
    BY <2>4, <2>6, <1>1 DEF c, drop
<1>4. CASE b.num # 0 /\ ~(b.num = 1 /\ Written(b, b.start))
  <2> DEFINE d == [b EXCEPT !.start = Ahead(b.start)]
  <2>1. /\ d \in Buffer
        /\ d.start = Ahead(b.start) /\ d.end = b.end /\ d.times = b.times
    BY <1>0, AheadWraps DEF Buffer
  <2>2. c = Recount(d)
    BY <1>4 DEF StepStart
  <2>3. c.start = Ahead(b.start) /\ c.end = b.end /\ c.times = b.times
    BY <2>1, <2>2, RecountType
  <2>4. b.start # b.end
    BY <1>4, <1>0, CountOfOne DEF Buffer, Slots
  <2>5. /\ Ahead(b.start) = IF b.start = CircBufferLen - 1 THEN 0 ELSE b.start + 1
        /\ Ahead(b.start) \in Slots /\ Ahead(b.start) # b.start
    BY <1>0, AheadWraps
  <2> HIDE DEF c, d
  <2>6. Skipped(c) = 0
    <3>1. InWindow(b, Ahead(b.start))
      BY <1>0, <2>4, <2>5, LengthAssumption DEF InWindow, Slots
    <3> QED
      BY <2>3, <2>5, <3>1 DEF Sound, Contiguous, Skipped, Written
  <2> HIDE DEF drop
  <2>7. LiveCount(c) = LiveCount(b) - drop
    BY <1>0, <2>3, <2>4, <2>5, <2>6, LengthAssumption DEF LiveCount, Position, Slots
  <2>8. \A k \in 1 .. LiveCount(c) : LiveSlot(c, k) = LiveSlot(b, k + drop)
    BY <1>0, <2>3, <2>4, <2>5, <2>6, LengthAssumption DEF LiveCount, LiveSlot, Position, Slots
  <2> QED
    BY <2>3, <2>7, <2>8, <1>1 DEF c, drop
<1> QED
  BY <1>2, <1>3, <1>4

-----------------------------------------------------------------------------
(***************************************************************************)
(* The steps of a record are steps of the first-in first-out window.       *)
(***************************************************************************)
(* The window has one sample per live slot. *)
LEMMA LiveIs ==
  ASSUME Sound(buffer)
  PROVE  /\ Len(Live) = LiveCount(buffer)
         /\ \A k \in 1 .. LiveCount(buffer) : Live[k] = LiveSample(k)
BY LiveCovers, LengthAssumption DEF Live

(* The empty record is the empty window. *)
LEMMA WindowInit == BufferInit => Window!Init
<1> SUFFICES ASSUME BufferInit
             PROVE  Window!Init
  OBVIOUS
<1>1. Sound(buffer) /\ LiveCount(buffer) = 0
  BY EmptySound, LengthAssumption
     DEF BufferInit, EmptyBuffer, LiveCount, Skipped, Position, Written, EpochStart, Slots
<1>2. Live = <<>>
  BY <1>1 DEF Live
<1> QED
  BY <1>2 DEF BufferInit, Window!Init

(* What leaves buffer, samples, clock and history alone leaves the window.  *)
LEMMA WindowStutter ==
  UNCHANGED <<buffer, samples, now, total>> => UNCHANGED Window!vars
<1> SUFFICES ASSUME UNCHANGED <<buffer, samples, now, total>>
             PROVE  UNCHANGED Window!vars
  OBVIOUS
<1>1. Live' = Live
  BY DEF Live, LiveSample
<1> QED
  BY <1>1 DEF Window!vars

(* Time passes for both. *)
LEMMA WindowTick == BufferInv /\ BufferTick => Window!Tick
<1> SUFFICES ASSUME BufferInv, BufferTick
             PROVE  Window!Tick
  OBVIOUS
<1>1. buffer' = buffer /\ samples' = samples /\ total' = total /\ now' = now + 1
  BY DEF BufferTick
<1>2. Live' = Live
  BY <1>1 DEF Live, LiveSample
<1> QED
  BY <1>1, <1>2 DEF Window!Tick

(* Storing a sample is accepting it: Store appends it, and drops the oldest  *)
(* exactly when the window is full.                                          *)
LEMMA WindowAccept ==
  ASSUME NEW status \in Kept, BufferInv, Store(status)
  PROVE  Window!Accept(status)
<1> DEFINE drop == IF LiveCount(buffer) = CircBufferLen THEN 1 ELSE 0
           n    == LiveCount(buffer)
           new  == [id |-> total', time |-> now, status |-> status]
           room == IF Len(Live) = CircBufferLen THEN Tail(Live) ELSE Live
<1>1. /\ Sound(buffer) /\ now \in Nat \ {0} /\ samples \in [Slots -> Sample]
      /\ buffer' = Insert(buffer, now) /\ now' = now /\ total' = total + 1
      /\ samples' = [samples EXCEPT ![buffer'.end] = [id |-> total', status |-> status]]
  BY DEF BufferInv, BufferTypeOK, Store
<1>2. n \in 0 .. CircBufferLen
  BY <1>1, LiveCovers
<1>3. /\ LiveCount(buffer') = n - drop + 1
      /\ LiveSlot(buffer', LiveCount(buffer')) = buffer'.end
      /\ \A k \in 1 .. n - drop :
           /\ LiveSlot(buffer', k) = LiveSlot(buffer, k + drop)
           /\ LiveSlot(buffer', k) \in Slots \ {buffer'.end}
  BY <1>1, InsertLive
<1>4. /\ buffer \in Buffer /\ buffer' \in Buffer /\ buffer'.end \in Slots
      /\ buffer'.times = [buffer.times EXCEPT ![buffer'.end] = now]
  <2>1. /\ buffer' \in Buffer /\ buffer'.end = Ahead(buffer.end)
        /\ buffer'.times = [buffer.times EXCEPT ![Ahead(buffer.end)] = now]
    BY <1>1, InsertFields
  <2>2. buffer \in Buffer /\ buffer'.end \in Slots
    BY <1>1, <2>1 DEF Sound, Buffer
  <2> QED
    BY <2>1, <2>2
<1>5. /\ samples'[buffer'.end] = [id |-> total', status |-> status]
      /\ buffer'.times[buffer'.end] = now
      /\ \A i \in Slots \ {buffer'.end} : /\ samples'[i] = samples[i]
                                          /\ buffer'.times[i] = buffer.times[i]
  BY <1>1, <1>4 DEF Buffer
<1> HIDE DEF n
<1>6. drop \in {0, 1} /\ (drop = 1 <=> n = CircBufferLen) /\ n - drop \in Nat /\ n \in Nat
  BY <1>2, LengthAssumption DEF n
<1> HIDE DEF drop
<1>7. Live' = [k \in 1 .. n - drop + 1 |-> IF k = n - drop + 1 THEN new ELSE Live[k + drop]]
  <2>1. Live' = [k \in 1 .. n - drop + 1 |-> LiveSample(k)']
    BY <1>3 DEF Live
  <2>2. ASSUME NEW k \in 1 .. n - drop
        PROVE  LiveSample(k)' = Live[k + drop]
    <3>1. k + drop \in 1 .. n
      BY <1>6
    <3>2. Live[k + drop] = LiveSample(k + drop)
      BY <1>1, <3>1, LiveIs DEF n
    <3>3. /\ LiveSlot(buffer', k) = LiveSlot(buffer, k + drop)
          /\ LiveSlot(buffer', k) \in Slots \ {buffer'.end}
      BY <1>3
    <3>4. /\ samples'[LiveSlot(buffer', k)] = samples[LiveSlot(buffer, k + drop)]
          /\ buffer'.times[LiveSlot(buffer', k)] = buffer.times[LiveSlot(buffer, k + drop)]
      BY <1>5, <3>3
    <3> QED
      BY <3>2, <3>4 DEF LiveSample
  <2>3. ASSUME NEW k \in Int, k = n - drop + 1
        PROVE  LiveSample(k)' = new
    <3>1. LiveSlot(buffer', k) = buffer'.end
      BY <1>3, <2>3
    <3> QED
      BY <1>5, <3>1, <1>1 DEF LiveSample
  <2>4. \A k \in 1 .. n - drop + 1 :
          LiveSample(k)' = IF k = n - drop + 1 THEN new ELSE Live[k + drop]
    <3> SUFFICES ASSUME NEW k \in 1 .. n - drop + 1
                 PROVE  LiveSample(k)' = IF k = n - drop + 1 THEN new ELSE Live[k + drop]
      OBVIOUS
    <3> HIDE DEF new
    <3>1. CASE k = n - drop + 1
      BY <2>3, <3>1
    <3>2. CASE k # n - drop + 1
      <4>1. k \in 1 .. n - drop
        BY <1>6, <3>2
      <4> QED
        BY <2>2, <3>2, <4>1
    <3> QED
      BY <3>1, <3>2
  <2> HIDE DEF new
  <2> QED
    BY <2>1, <2>4
<1>8. Len(Live) = n /\ Live = [k \in 1 .. n |-> LiveSample(k)] /\ Live \in Seq({LiveSample(k) : k \in 1 .. n})
  BY <1>1, <1>6, LiveIs DEF Live, n
<1>9. Len(room) = n - drop /\ room = [k \in 1 .. n - drop |-> Live[k + drop]]
  <2>1. CASE drop = 0
    BY <2>1, <1>6, <1>8
  <2>2. CASE drop = 1
    <3>1. Len(Live) = CircBufferLen /\ room = Tail(Live) /\ n > 0
      BY <2>2, <1>6, <1>8
    <3>2. Tail(Live) = [k \in 1 .. n - 1 |-> Live[k + 1]]
      BY <3>1, <1>6, <1>8
    <3> QED
      BY <2>2, <3>1, <3>2, <1>6
  <2> QED
    BY <2>1, <2>2, <1>6
<1>10. Live' = Append(room, new)
  <2> HIDE DEF room, new
  <2> QED
    BY <1>6, <1>7, <1>9
<1> QED
  BY <1>1, <1>10 DEF Window!Accept, room, new

(* A step of a cycle expires the oldest sample, or only skips an empty slot. *)
LEMMA WindowExpire ==
  BufferInv /\ BufferCycle => Window!Expire \/ UNCHANGED <<Live, total, now>>
<1> SUFFICES ASSUME BufferInv, BufferCycle
             PROVE  Window!Expire \/ UNCHANGED <<Live, total, now>>
  OBVIOUS
<1> DEFINE drop == IF Written(buffer, buffer.start) THEN 1 ELSE 0
           n    == LiveCount(buffer)
<1>1. /\ Sound(buffer) /\ now \in Nat \ {0}
      /\ buffer' = StepStart(buffer) /\ now' = now /\ samples' = samples /\ total' = total
      /\ Stale(buffer, buffer.start, now)
  BY DEF BufferInv, BufferTypeOK, BufferCycle
<1>2. n \in Nat /\ LiveCount(buffer') \in Nat
  <2>1. Sound(buffer')
    BY <1>1, StepStartSound
  <2> QED
    BY <1>1, <2>1, LiveCovers, LengthAssumption
<1>3. /\ LiveCount(buffer') = n - drop
      /\ \A k \in 1 .. LiveCount(buffer') :
           /\ LiveSlot(buffer', k) = LiveSlot(buffer, k + drop)
           /\ buffer'.times[LiveSlot(buffer', k)] = buffer.times[LiveSlot(buffer', k)]
      /\ Written(buffer, buffer.start) => n > 0 /\ LiveSlot(buffer, 1) = buffer.start
  BY <1>1, CycleLive
<1> HIDE DEF n
<1>4. Live' = [k \in 1 .. n - drop |-> Live[k + drop]]
  <2>1. Live' = [k \in 1 .. n - drop |-> LiveSample(k)']
    BY <1>3 DEF Live
  <2>2. ASSUME NEW k \in 1 .. n - drop
        PROVE  LiveSample(k)' = Live[k + drop]
    <3>1. k + drop \in 1 .. n
      BY <1>2
    <3>2. Live[k + drop] = LiveSample(k + drop)
      BY <1>1, <3>1, LiveIs DEF n
    <3>3. /\ LiveSlot(buffer', k) = LiveSlot(buffer, k + drop)
          /\ buffer'.times[LiveSlot(buffer', k)] = buffer.times[LiveSlot(buffer, k + drop)]
      BY <1>3
    <3> QED
      BY <1>1, <3>2, <3>3 DEF LiveSample
  <2> HIDE DEF drop
  <2> QED
    BY <2>1, <2>2
<1>5. Len(Live) = n /\ Live = [k \in 1 .. n |-> Live[k]]
  BY <1>1, <1>2, LiveIs DEF Live, n
<1>6. CASE ~Written(buffer, buffer.start)
  <2>1. Live' = [k \in 1 .. n |-> Live[k]]
    BY <1>2, <1>4, <1>6
  <2> QED
    BY <1>1, <1>5, <2>1
<1>7. CASE Written(buffer, buffer.start)
  <2>1. n > 0 /\ Live # <<>>
    BY <1>3, <1>5, <1>7, <1>2
  <2>2. Live' = Tail(Live)
    BY <1>2, <1>4, <1>5, <1>7, <2>1
  <2>3. Head(Live).time = buffer.times[buffer.start]
    <3>1. 1 \in 1 .. n /\ Head(Live) = Live[1]
      BY <1>2, <2>1
    <3>2. Live[1] = LiveSample(1)
      BY <1>1, <3>1, LiveIs DEF n
    <3> QED
      BY <1>3, <1>7, <3>1, <3>2 DEF LiveSample
  <2>4. now - Head(Live).time >= MaxAge
    BY <1>1, <1>7, <2>3 DEF Stale
  <2> QED
    BY <1>1, <2>1, <2>2, <2>4 DEF Window!Expire
<1> QED
  BY <1>6, <1>7

-----------------------------------------------------------------------------
(***************************************************************************)
(* The buffer under every sequence of moves of its markers.                *)
(***************************************************************************)
\* The inductive invariant.
MovesInv == Sound(ring)

(* Every step of StepIndex on either marker, in either direction it allows, *)
(* leaves a buffer whose NumSamples and window agree.                       *)
THEOREM AlwaysSound == MovesSpec => []MovesInv
<1>1. MovesInit => MovesInv
  BY EmptySound DEF MovesInit, MovesInv
<1>2. MovesInv /\ [MovesNext]_ring => MovesInv'
  <2> SUFFICES ASSUME MovesInv, [MovesNext]_ring
               PROVE  MovesInv'
    OBVIOUS
  <2>1. ASSUME NEW time \in Times, Push(time)
        PROVE  MovesInv'
    BY <2>1, InsertSound, TimesAssumption DEF Push, MovesInv
  <2>2. CASE PopEnd
    BY <2>2, StepEndBackSound DEF PopEnd, MovesInv
  <2>3. CASE PopStart
    BY <2>3, StepStartSound DEF PopStart, MovesInv
  <2>4. CASE UNCHANGED ring
    BY <2>4 DEF MovesInv
  <2> QED
    BY <2>1, <2>2, <2>3, <2>4 DEF MovesNext
<1> QED
  BY <1>1, <1>2, PTL DEF MovesSpec

(* The fields of the buffer stay in their ranges. *)
THEOREM RingTypeCorrect == MovesSpec => []RingTypeOK
<1>1. MovesInv => RingTypeOK
  BY DEF MovesInv, Sound, RingTypeOK
<1> QED
  BY <1>1, AlwaysSound, PTL

(* Only the first slot of the window can be empty. *)
THEOREM NoHolesEver == MovesSpec => []NoHoles
<1>1. MovesInv => NoHoles
  BY DEF MovesInv, Sound, NoHoles
<1> QED
  BY <1>1, AlwaysSound, PTL

(* The cached NumSamples is never below the number of valid indexes, and    *)
(* above it by one only when the window wraps around an empty first slot.   *)
THEOREM CountAlwaysSound == MovesSpec => []CountSound
<1>1. MovesInv => CountSound
  BY SoundCounted DEF MovesInv, CountSound
<1> QED
  BY <1>1, AlwaysSound, PTL

(* StepIndex only refuses to move the start of a window that is one empty   *)
(* slot, so CycleIndexes cannot loop on a start that never moves.           *)
THEOREM CyclesEnd == MovesSpec => []EmptyMeansCollapsed
<1>1. MovesInv => EmptyMeansCollapsed
  BY SoundCollapsed DEF MovesInv, EmptyMeansCollapsed
<1> QED
  BY <1>1, AlwaysSound, PTL

-----------------------------------------------------------------------------
(***************************************************************************)
(* The record of a numerical task.                                         *)
(***************************************************************************)
\* No two live slots hold the same sample, and ids are those given so far.
DistinctSamples(b, s, n) ==
  /\ \A i \in Slots : s[i].id <= n
  /\ \A i, j \in ValidIndexes(b) : s[i].id = s[j].id => i = j

\* The inductive invariant.
NumericalInv ==
  /\ BufferInv
  /\ TypeOK
  /\ DistinctSamples(buffer, samples, total)

-----------------------------------------------------------------------------
(* A new sample gets an id of its own. *)
LEMMA StoreDistinct ==
  ASSUME NEW status \in Kept, NumericalInv, Store(status)
  PROVE  DistinctSamples(buffer', samples', total')
<1>1. /\ Sound(buffer) /\ now \in Nat \ {0} /\ total \in Nat /\ total' = total + 1
      /\ samples \in [Slots -> Sample]
      /\ buffer' = Insert(buffer, now)
      /\ samples' = [samples EXCEPT ![buffer'.end] = [id |-> total', status |-> status]]
      /\ DistinctSamples(buffer, samples, total)
  BY DEF NumericalInv, BufferInv, BufferTypeOK, Store
<1>2. buffer'.end \in Slots
  BY <1>1, InsertFields DEF Buffer
<1>3. /\ samples'[buffer'.end].id = total + 1
      /\ \A i \in Slots \ {buffer'.end} : samples'[i] = samples[i]
  BY <1>1, <1>2
<1>4. \A i \in Slots : samples[i].id \in Nat /\ samples[i].id <= total
  BY <1>1 DEF DistinctSamples, Sample
<1>5. \A i \in Slots : samples'[i].id <= total'
  BY <1>1, <1>3, <1>4
<1>6. \A i \in ValidIndexes(buffer') : i # buffer'.end => i \in ValidIndexes(buffer)
  BY <1>1, InsertValid
<1>7. ASSUME NEW i \in ValidIndexes(buffer'), NEW j \in ValidIndexes(buffer'),
             samples'[i].id = samples'[j].id
      PROVE  i = j
  <2>0. i \in Slots /\ j \in Slots
    BY DEF ValidIndexes
  <2>1. CASE i # buffer'.end /\ j # buffer'.end
    BY <2>0, <2>1, <1>1, <1>3, <1>6, <1>7 DEF DistinctSamples
  <2>2. CASE i = buffer'.end \/ j = buffer'.end
    <3>1. \A k \in Slots \ {buffer'.end} : samples'[k].id # total + 1
      BY <1>1, <1>3, <1>4
    <3> QED
      BY <2>0, <2>2, <3>1, <1>3, <1>7
  <2> QED
    BY <2>1, <2>2
<1> QED
  BY <1>5, <1>7 DEF DistinctSamples

(* ProcessData puts ids of samples in the metrics. *)
LEMMA MetricsType ==
  ASSUME NumericalInv, ProcessData
  PROVE  metrics' \in [mean: SUBSET Nat, errors: SUBSET Nat]
<1>1. /\ samples \in [Slots -> Sample] /\ buffer.start \in Slots
      /\ ValidIndexes(buffer) \subseteq Slots
  BY DEF NumericalInv, BufferInv, BufferTypeOK, Buffer, ValidIndexes
<1>2. \A slots \in SUBSET Slots : Ids(slots) \subseteq Nat
  BY <1>1 DEF Ids, Sample
<1>3. AveragedIndexes \subseteq Slots /\ ErrorIndexes \subseteq Slots
  BY <1>1 DEF AveragedIndexes, OkIndexes, ErrorIndexes
<1>4. Ids(AveragedIndexes) \subseteq Nat /\ Ids(ErrorIndexes) \subseteq Nat
  BY <1>2, <1>3
<1> QED
  BY <1>4 DEF ProcessData

(* Every step of the record keeps the invariant. *)
LEMMA NumericalStep == NumericalInv /\ [Next]_vars => NumericalInv'
<1> SUFFICES ASSUME NumericalInv, [Next]_vars
             PROVE  NumericalInv'
  OBVIOUS
<1>0. BufferInv /\ TypeOK /\ DistinctSamples(buffer, samples, total)
  BY DEF NumericalInv
<1>1. CASE Tick
  <2>1. BufferInv'
    BY <1>0, <1>1, BufferTickInv DEF Tick
  <2>2. TypeOK' /\ DistinctSamples(buffer, samples, total)'
    BY <1>0, <1>1, <2>1 DEF Tick, BufferTick, TypeOK, BufferInv
  <2> QED
    BY <2>1, <2>2 DEF NumericalInv
<1>2. ASSUME NEW status \in Statuses, InsertSample(status)
      PROVE  NumericalInv'
  <2>1. CASE status \in Kept
    <3>1. Store(status) /\ pc' = "inserting" /\ metrics' = metrics
      BY <1>2, <2>1 DEF InsertSample
    <3>2. BufferInv'
      BY <1>0, <2>1, <3>1, StoreInv
    <3>3. DistinctSamples(buffer', samples', total')
      BY <2>1, <3>1, StoreDistinct
    <3> QED
      BY <1>0, <3>1, <3>2, <3>3 DEF NumericalInv, TypeOK, BufferInv
  <2>2. CASE status \notin Kept
    BY <1>0, <1>2, <2>2 DEF InsertSample, NumericalInv, TypeOK, BufferInv, BufferTypeOK
  <2> QED
    BY <2>1, <2>2
<1>3. CASE ProcessData
  <2>1. metrics' \in [mean: SUBSET Nat, errors: SUBSET Nat]
    BY <1>3, MetricsType
  <2> QED
    BY <1>0, <1>3, <2>1 DEF ProcessData, NumericalInv, TypeOK, BufferInv, BufferTypeOK
<1>4. CASE CycleIndexes
  <2>1. BufferInv'
    BY <1>0, <1>4, BufferCycleInv DEF CycleIndexes
  <2>2. \A i \in ValidIndexes(buffer') : i \in ValidIndexes(buffer)
    BY <1>0, <1>4, StepStartShrinks DEF CycleIndexes, BufferCycle, BufferInv
  <2>3. DistinctSamples(buffer', samples', total')
    BY <1>0, <1>4, <2>2 DEF CycleIndexes, BufferCycle, DistinctSamples
  <2> QED
    BY <1>0, <1>4, <2>1, <2>3 DEF CycleIndexes, NumericalInv, TypeOK, BufferInv
<1>5. CASE UNCHANGED vars
  BY <1>0, <1>5 DEF vars, NumericalInv, TypeOK, BufferInv, BufferTypeOK
<1> QED
  BY <1>1, <1>2, <1>3, <1>4, <1>5 DEF Next

(* NumericalInv: the ring of a numerical record (records/task.go,          *)
(* circular_buffer.go) holds its samples in order whatever is inserted and aged. *)
THEOREM NumericalAlways == Spec => []NumericalInv
<1>1. Init => NumericalInv
  <2> SUFFICES ASSUME Init
               PROVE  NumericalInv
    OBVIOUS
  <2>1. BufferInv
    BY BufferInitInv DEF Init
  <2>2. TypeOK
    BY <2>1 DEF Init, BufferInv, TypeOK
  <2>3. DistinctSamples(buffer, samples, total)
    BY DEF Init, BufferInit, EmptyBuffer, NoSample, DistinctSamples, ValidIndexes, Written
  <2> QED
    BY <2>1, <2>2, <2>3 DEF NumericalInv
<1> QED
  BY <1>1, NumericalStep, PTL DEF Spec

-----------------------------------------------------------------------------
(* The variables of the record stay in their ranges. *)
THEOREM NumericalTypeCorrect == Spec => []TypeOK
<1>1. NumericalInv => TypeOK
  BY DEF NumericalInv
<1> QED
  BY <1>1, NumericalAlways, PTL

(* A cycle that ends leaves no stale sample, but the one the two markers     *)
(* meet on: the window is in order of time, so behind a fresh first sample   *)
(* every sample is fresh.                                                    *)
THEOREM CycleCorrect == Spec => CycleKeepsOneStaleAtMost
<1>1. NumericalInv /\ NumericalInv' /\ [Next]_vars =>
        [ CycleIndexes /\ pc' = "idle" =>
            \A i \in ValidIndexes(buffer') :
              Stale(buffer', i, now) => buffer'.start = i /\ buffer'.end = i ]_vars
  <2> SUFFICES ASSUME NumericalInv', CycleIndexes, pc' = "idle",
                      NEW i \in ValidIndexes(buffer'), Stale(buffer', i, now)
               PROVE  buffer'.start = i /\ buffer'.end = i
    OBVIOUS
  <2>1. /\ Sound(buffer') /\ Chronological(buffer', now') /\ now' = now /\ now' \in Nat
        /\ buffer'.start = buffer'.end \/ ~Stale(buffer', buffer'.start, now)
    BY DEF NumericalInv, BufferInv, BufferTypeOK, CycleIndexes, BufferCycle
  <2>2. buffer'.start = buffer'.end
    BY <2>1, FreshFromStart
  <2> QED
    BY <2>1, <2>2 DEF ValidIndexes, InWindow, Sound, Buffer, Slots
<1> QED
  BY <1>1, NumericalAlways, PTL DEF Spec, CycleKeepsOneStaleAtMost

(* The metrics of processed data stand for every live sample exactly once.   *)
THEOREM MetricsCorrect == Spec => MetricsCoverWindow
<1>1. NumericalInv /\ [Next]_vars =>
        [ ProcessData /\ Cardinality(OkIndexes) # 1 =>
            /\ metrics'.mean \cup metrics'.errors = Ids(ValidIndexes(buffer))
            /\ metrics'.mean \cap metrics'.errors = {}
            /\ Cardinality(metrics'.mean \cup metrics'.errors)
                 = Cardinality(ValidIndexes(buffer)) ]_vars
  <2> SUFFICES ASSUME NumericalInv, ProcessData, Cardinality(OkIndexes) # 1
               PROVE  /\ metrics'.mean \cup metrics'.errors = Ids(ValidIndexes(buffer))
                      /\ metrics'.mean \cap metrics'.errors = {}
                      /\ Cardinality(metrics'.mean \cup metrics'.errors)
                           = Cardinality(ValidIndexes(buffer))
    OBVIOUS
  <2>1. metrics'.mean = Ids(OkIndexes) /\ metrics'.errors = Ids(ErrorIndexes)
    BY DEF ProcessData, AveragedIndexes
  <2>2. /\ OkIndexes \cup ErrorIndexes = ValidIndexes(buffer)
        /\ OkIndexes \cap ErrorIndexes = {}
    BY DEF OkIndexes, ErrorIndexes
  <2>3. \A i, j \in ValidIndexes(buffer) : samples[i].id = samples[j].id => i = j
    BY DEF NumericalInv, DistinctSamples
  <2>4. Ids(OkIndexes) \cup Ids(ErrorIndexes) = Ids(ValidIndexes(buffer))
    BY <2>2 DEF Ids
  <2>5. Ids(OkIndexes) \cap Ids(ErrorIndexes) = {}
    BY <2>2, <2>3 DEF Ids
  <2>6. Cardinality(Ids(ValidIndexes(buffer))) = Cardinality(ValidIndexes(buffer))
    <3> DEFINE id == [i \in ValidIndexes(buffer) |-> samples[i].id]
    <3>1. IsFiniteSet(ValidIndexes(buffer))
      <4>1. IsFiniteSet(Slots)
        BY FS_Interval, LengthAssumption DEF Slots
      <4> QED
        BY <4>1, FS_Subset DEF ValidIndexes
    <3>2. id \in Bijection(ValidIndexes(buffer), Ids(ValidIndexes(buffer)))
      BY <2>3 DEF Bijection, Injection, Surjection, IsInjective, Ids
    <3> QED
      BY <3>1, <3>2, FS_Bijection DEF ExistsBijection
  <2> QED
    BY <2>1, <2>4, <2>5, <2>6
<1> QED
  BY <1>1, NumericalAlways, PTL DEF Spec, MetricsCoverWindow

\* The window Live goes through is that of GetBufferValidIndexes, each slot once.
WindowIsValid ==
  /\ {LiveSlot(buffer, k) : k \in 1 .. LiveCount(buffer)} = ValidIndexes(buffer)
  /\ \A j, k \in 1 .. LiveCount(buffer) :
       LiveSlot(buffer, j) = LiveSlot(buffer, k) => j = k

(* The abstract window has the sample of every valid index and no other, so *)
(* the refinement below is about all that GetBufferValidIndexes returns.    *)
THEOREM WindowComplete == Spec => []WindowIsValid
<1>1. NumericalInv => WindowIsValid
  BY LiveCovers DEF NumericalInv, BufferInv, WindowIsValid
<1> QED
  BY <1>1, NumericalAlways, PTL

(* A numerical record implements the first-in first-out window: samples     *)
(* leave it from the old end only, for their age or for a newer one, and    *)
(* stepping an index is never seen as anything else.                        *)
THEOREM WindowImplemented == Spec => ImplementsWindow
<1>1. Init => Window!Init
  BY WindowInit DEF Init
<1>2. NumericalInv /\ [Next]_vars => [Window!Next]_(Window!vars)
  <2> SUFFICES ASSUME NumericalInv, [Next]_vars
               PROVE  [Window!Next]_(Window!vars)
    OBVIOUS
  <2>0. BufferInv
    BY DEF NumericalInv
  <2>1. CASE Tick
    BY <2>0, <2>1, WindowTick DEF Tick, Window!Next
  <2>2. ASSUME NEW status \in Statuses, InsertSample(status)
        PROVE  [Window!Next]_(Window!vars)
    <3>1. CASE status \in Kept
      BY <2>0, <2>2, <3>1, WindowAccept DEF InsertSample, Window!Next
    <3>2. CASE status \notin Kept
      <4>1. UNCHANGED <<buffer, samples, now, total>>
        BY <2>2, <3>2 DEF InsertSample
      <4> QED
        BY <4>1, WindowStutter
    <3> QED
      BY <3>1, <3>2
  <2>3. CASE ProcessData
    BY <2>3, WindowStutter DEF ProcessData
  <2>4. CASE CycleIndexes
    BY <2>0, <2>4, WindowExpire DEF CycleIndexes, Window!Next, Window!vars
  <2>5. CASE UNCHANGED vars
    BY <2>5, WindowStutter DEF vars
  <2> QED
    BY <2>1, <2>2, <2>3, <2>4, <2>5 DEF Next
<1> QED
  BY <1>1, <1>2, NumericalAlways, PTL DEF Spec, ImplementsWindow, Window!Spec

-----------------------------------------------------------------------------
(***************************************************************************)
(* The record of a signature task.                                         *)
(***************************************************************************)
\* The signature is read at the end of the buffer, where the newest sample
\* stays: a cycle never moves the end, and clearing its slot only clears
\* the time.
EndIsNewest == samples[buffer.end] = newest

\* The inductive invariant.
SignatureInv ==
  /\ BufferInv
  /\ SignatureTypeOK
  /\ EndIsNewest
  /\ SignatureIsNewest

-----------------------------------------------------------------------------
(* Processing the data of a record that ends on its newest sample makes it  *)
(* answer for that sample.                                                  *)
LEMMA ProcessDataNewest ==
  ASSUME NEW b, NEW s, NEW n \in Sample, s[b.end] = n, ProcessSignature(b, s)
  PROVE  /\ lastSignature' = (IF n.status = "Ok" THEN n.id ELSE 0)
         /\ errorCode' = n.status
         /\ lastSignature' \in Nat /\ errorCode' \in Kept
BY DEF ProcessSignature, Sample

(* Every step of the record keeps the invariant. *)
LEMMA SignatureStep == SignatureInv /\ [SignatureNext]_signatureVars => SignatureInv'
<1> SUFFICES ASSUME SignatureInv, [SignatureNext]_signatureVars
             PROVE  SignatureInv'
  OBVIOUS
<1>0. BufferInv /\ BufferTypeOK /\ SignatureTypeOK /\ EndIsNewest /\ SignatureIsNewest
  BY DEF SignatureInv, BufferInv
<1>1. CASE SignatureTick
  <2>1. BufferInv'
    BY <1>0, <1>1, BufferTickInv DEF SignatureTick
  <2> QED
    BY <1>0, <1>1, <2>1
       DEF SignatureTick, BufferTick, SignatureInv, SignatureTypeOK, BufferInv, EndIsNewest, SignatureIsNewest
<1>2. ASSUME NEW status \in Statuses, AnalyzeResult(status)
      PROVE  SignatureInv'
  <2>1. /\ status \in Kept /\ Store(status) /\ pc' = "idle"
        /\ newest' = [id |-> total', status |-> status]
        /\ total \in Nat /\ total' = total + 1
    BY <1>0, <1>2 DEF AnalyzeResult, Store, BufferTypeOK
  <2>2. BufferInv' /\ samples'[buffer'.end] = newest'
    BY <1>0, <2>1, StoreInv
  <2>3. newest' \in Sample
    BY <2>1 DEF Sample
  <2>4. /\ lastSignature' = (IF newest'.status = "Ok" THEN newest'.id ELSE 0)
        /\ errorCode' = newest'.status
        /\ lastSignature' \in Nat /\ errorCode' \in Kept
    BY <1>2, <2>2, <2>3, ProcessDataNewest DEF AnalyzeResult
  <2> QED
    BY <2>2, <2>3, <2>4 DEF SignatureInv, SignatureTypeOK, BufferInv, EndIsNewest, SignatureIsNewest
<1>3. CASE AnalyzeFailedResult
  <2>1. newest \in Sample /\ samples[buffer.end] = newest /\ ProcessSignature(buffer, samples)
    BY <1>0, <1>3 DEF AnalyzeFailedResult, SignatureTypeOK, EndIsNewest
  <2>2. /\ lastSignature' = (IF newest.status = "Ok" THEN newest.id ELSE 0)
        /\ errorCode' = newest.status
        /\ lastSignature' \in Nat /\ errorCode' \in Kept
    BY <2>1, ProcessDataNewest
  <2> QED
    BY <1>0, <1>3, <2>2
       DEF AnalyzeFailedResult, SignatureInv, SignatureTypeOK, BufferInv, BufferTypeOK, EndIsNewest,
           SignatureIsNewest
<1>4. CASE CycleSignatures
  <2>1. BufferInv' /\ buffer'.end = buffer.end /\ samples' = samples
    BY <1>0, <1>4, BufferCycleInv, BufferCycleEnd DEF CycleSignatures
  <2> QED
    BY <1>0, <1>4, <2>1
       DEF CycleSignatures, SignatureInv, SignatureTypeOK, BufferInv, EndIsNewest, SignatureIsNewest
<1>5. CASE UNCHANGED signatureVars
  BY <1>0, <1>5
     DEF signatureVars, SignatureInv, SignatureTypeOK, BufferInv, BufferTypeOK, EndIsNewest, SignatureIsNewest
<1> QED
  BY <1>1, <1>2, <1>3, <1>4, <1>5 DEF SignatureNext

(* SignatureInv: the same of the ring and the last signature of a          *)
(* signature record, whatever results, failures and cycles come.           *)
THEOREM SignatureAlways == SignatureSpec => []SignatureInv
<1>1. SignatureInit => SignatureInv
  <2> SUFFICES ASSUME SignatureInit
               PROVE  SignatureInv
    OBVIOUS
  <2>1. BufferInv
    BY BufferInitInv DEF SignatureInit
  <2>2. NoSample \in Sample
    BY StatusesAssumption DEF NoSample, Sample, Kept
  <2>3. EndIsNewest
    BY LengthAssumption DEF SignatureInit, BufferInit, EmptyBuffer, EndIsNewest, Slots
  <2> QED
    BY <2>1, <2>2, <2>3, StatusesAssumption
       DEF SignatureInit, SignatureInv, SignatureTypeOK, BufferInv, SignatureIsNewest, NoSample, Kept
<1> QED
  BY <1>1, SignatureStep, PTL DEF SignatureSpec

-----------------------------------------------------------------------------
(* The variables of the record stay in their ranges. *)
THEOREM SignatureTypeCorrect == SignatureSpec => []SignatureTypeOK
<1>1. SignatureInv => SignatureTypeOK
  BY DEF SignatureInv
<1> QED
  BY <1>1, SignatureAlways, PTL

(* The record always answers for the last sample stored, for every size of   *)
(* the buffer and every order of results, failed evaluations and cycles.     *)
THEOREM SignatureCorrect == SignatureSpec => []SignatureIsNewest
<1>1. SignatureInv => SignatureIsNewest
  BY DEF SignatureInv
<1> QED
  BY <1>1, SignatureAlways, PTL
(* A signature record implements the same window. *)
THEOREM SignatureWindowImplemented == SignatureSpec => SignatureImplementsWindow
<1>1. SignatureInit => Window!Init
  BY WindowInit DEF SignatureInit
<1>2. SignatureInv /\ [SignatureNext]_signatureVars => [Window!Next]_(Window!vars)
  <2> SUFFICES ASSUME SignatureInv, [SignatureNext]_signatureVars
               PROVE  [Window!Next]_(Window!vars)
    OBVIOUS
  <2>0. BufferInv
    BY DEF SignatureInv
  <2>1. CASE SignatureTick
    BY <2>0, <2>1, WindowTick DEF SignatureTick, Window!Next
  <2>2. ASSUME NEW status \in Statuses, AnalyzeResult(status)
        PROVE  [Window!Next]_(Window!vars)
    BY <2>0, <2>2, WindowAccept DEF AnalyzeResult, Window!Next
  <2>3. CASE AnalyzeFailedResult
    BY <2>3, WindowStutter DEF AnalyzeFailedResult
  <2>4. CASE CycleSignatures
    BY <2>0, <2>4, WindowExpire DEF CycleSignatures, Window!Next, Window!vars
  <2>5. CASE UNCHANGED signatureVars
    BY <2>5, WindowStutter DEF signatureVars
  <2> QED
    BY <2>1, <2>2, <2>3, <2>4, <2>5 DEF SignatureNext
<1> QED
  BY <1>1, <1>2, SignatureAlways, PTL DEF SignatureSpec, SignatureImplementsWindow, Window!Spec
=============================================================================
