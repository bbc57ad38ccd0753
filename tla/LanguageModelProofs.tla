------------------------ MODULE LanguageModelProofs -------------------------
(***************************************************************************)
(* What is asked of a model and what is scored of its answers, for any     *)
(* requests, limits and texts.                                             *)
(***************************************************************************)
EXTENDS LanguageModel, FiniteSetTheorems, SequenceTheorems, TLAPS

-----------------------------------------------------------------------------
(***************************************************************************)
(* Induction, by the least number that a claim fails for.                  *)
(***************************************************************************)
LEMMA LeastNumber ==
  ASSUME NEW T, T \subseteq Nat, T # {}
  PROVE  \E n \in T : \A m \in T : n <= m
<1> DEFINE R == {ss \in Nat \X Nat : ss[1] < ss[2]}
<1>1. IsWellFoundedOn(R, Nat)
  BY NatLessThanWellFounded DEF OpToRel
<1>2. \A m, n \in Nat : m < n => <<m, n>> \in R
  OBVIOUS
<1> HIDE DEF R
<1>3. PICK n \in T : \A m \in T : ~ (<<m, n>> \in R)
  BY <1>1, WFMin
<1>4. n \in Nat /\ \A m \in T : m \in Nat /\ ~ (m < n)
  BY <1>2, <1>3
<1> QED
  BY <1>4

(* A set of numbers that has 0, and n + 1 if it has n, has every number.    *)
LEMMA AllNumbers ==
  ASSUME NEW T, 0 \in T, \A n \in Nat : n \in T => n + 1 \in T
  PROVE  Nat \subseteq T
<1> SUFFICES ASSUME Nat \ T # {}
             PROVE  FALSE
  OBVIOUS
<1>1. PICK n \in Nat \ T : \A m \in Nat \ T : n <= m
  BY LeastNumber
<1> QED
  BY <1>1

-----------------------------------------------------------------------------
(***************************************************************************)
(* The order requests are encoded in and the way back.                     *)
(***************************************************************************)
(* Some order of the places is sorted: that of how many places come before. *)
LEMMA SortedExists ==
  ASSUME NEW n \in Nat, NEW keys \in [1 .. n -> Int]
  PROVE  \E order \in SetToSeqs(1 .. n) : IsSorted(order, LAMBDA i, j : keys[i] <= keys[j])
<1> DEFINE D == 1 .. n
           Before(i, j) == keys[i] < keys[j] \/ (keys[i] = keys[j] /\ i <= j)
           Down(j) == {i \in D : Before(i, j)}
           rank == [j \in D |-> Cardinality(Down(j))]
<1>1. IsFiniteSet(D) /\ Cardinality(D) = n
  BY FS_Interval
<1>2. \A j \in D : IsFiniteSet(Down(j)) /\ Down(j) \subseteq D /\ j \in Down(j)
  <2> TAKE j \in D
  <2>1. Down(j) \subseteq D /\ j \in Down(j)
    OBVIOUS
  <2> HIDE DEF Down, D
  <2> QED
    BY <1>1, <2>1, FS_Subset
<1>3. \A i, j \in D : Before(i, j) /\ i # j => rank[i] < rank[j]
  <2> SUFFICES ASSUME NEW i \in D, NEW j \in D, Before(i, j), i # j
               PROVE  rank[i] < rank[j]
    OBVIOUS
  <2>1. Down(i) \subseteq Down(j) /\ j \notin Down(i) /\ j \in Down(j)
    OBVIOUS
  <2> HIDE DEF Down, D, Before
  <2>2. Cardinality(Down(i)) <= Cardinality(Down(j)) /\ Cardinality(Down(i)) # Cardinality(Down(j))
    BY <1>2, <2>1, FS_Subset
  <2>3. Cardinality(Down(i)) \in Nat /\ Cardinality(Down(j)) \in Nat
    BY <1>2, FS_CardinalityType
  <2> QED
    BY <2>2, <2>3
<1>4. rank \in [D -> D]
  <2> SUFFICES ASSUME NEW j \in D
               PROVE  Cardinality(Down(j)) \in D
    OBVIOUS
  <2>1. IsFiniteSet(Down(j)) /\ Down(j) \subseteq D /\ Down(j) # {}
    BY <1>2
  <2> HIDE DEF Down
  <2>2. Cardinality(Down(j)) \in Nat /\ Cardinality(Down(j)) # 0
    BY <2>1, FS_CardinalityType, FS_EmptySet
  <2>3. Cardinality(Down(j)) <= n
    <3> HIDE DEF D
    <3> QED
      BY <1>1, <2>1, FS_Subset
  <2> QED
    BY <2>2, <2>3
<1>5. rank \in Injection(D, D)
  <2>1. \A i, j \in D : i # j => Before(i, j) \/ Before(j, i)
    OBVIOUS
  <2>2. \A i \in D : rank[i] \in Int
    BY <1>4
  <2>3. \A i, j \in D : i # j => rank[i] # rank[j]
    <3> HIDE DEF Before, rank, D
    <3> QED
      BY <1>3, <2>1, <2>2
  <2> HIDE DEF rank, D
  <2> QED
    BY <1>4, <2>3 DEF Injection, IsInjective
<1> HIDE DEF rank
<1>6. \A m \in D : \E i \in D : rank[i] = m
  <2> HIDE DEF D
  <2>1. rank \in Surjection(D, D)
    BY <1>1, <1>5, FS_Injection
  <2> QED
    BY <2>1 DEF Surjection
<1> DEFINE order == [m \in D |-> CHOOSE i \in D : rank[i] = m]
<1>7. \A m \in D : order[m] \in D /\ rank[order[m]] = m
  <2> HIDE DEF D
  <2> QED
    BY <1>6
<1>8. order \in SetToSeqs(D)
  <2>1. \A i, j \in D : i # j => order[i] # order[j]
    <3> HIDE DEF order, D
    <3> QED
      BY <1>7
  <2>2. order \in [D -> D]
    BY <1>7
  <2> HIDE DEF order
  <2> QED
    BY <1>1, <2>1, <2>2 DEF SetToSeqs
<1>9. \A i, j \in D : i < j => keys[order[i]] <= keys[order[j]]
  <2> SUFFICES ASSUME NEW i \in D, NEW j \in D, i < j, ~(keys[order[i]] <= keys[order[j]])
               PROVE  FALSE
    OBVIOUS
  <2>1. order[i] \in D /\ order[j] \in D /\ rank[order[i]] = i /\ rank[order[j]] = j
    BY <1>7
  <2> HIDE DEF order
  <2>2. Before(order[j], order[i]) /\ order[i] # order[j]
    BY <2>1
  <2>3. rank[order[j]] < rank[order[i]]
    BY <1>3, <2>1, <2>2
  <2> QED
    BY <2>1, <2>3
<1>10. Len(order) = n
  OBVIOUS
<1> HIDE DEF order
<1>11. IsSorted(order, LAMBDA i, j : keys[i] <= keys[j])
  BY <1>9, <1>10 DEF IsSorted
<1> QED
  BY <1>8, <1>11

(* Reordering loses no request and repeats none. *)
LEMMA ReorderedIs ==
  ASSUME NEW n \in Nat, NEW keys \in [1 .. n -> Int]
  PROVE  /\ Reordered(keys) \in [1 .. n -> 1 .. n]
         /\ \A i, j \in 1 .. n : Reordered(keys)[i] = Reordered(keys)[j] => i = j
         /\ \A i \in 1 .. n : \E j \in 1 .. n : Reordered(keys)[j] = i
<1> DEFINE D == 1 .. n
           order == Reordered(keys)
           Fits(o) == IsSorted(o, LAMBDA i, j : keys[i] <= keys[j])
<1>1. IsFiniteSet(D) /\ Cardinality(D) = n
  BY FS_Interval
<1>2. order \in SetToSeqs(D)
  <2>1. \E o \in SetToSeqs(D) : Fits(o)
    BY SortedExists
  <2>2. order = CHOOSE o \in SetToSeqs(D) : Fits(o)
    BY DEF Reordered
  <2> HIDE DEF Fits, D, order
  <2> QED
    BY <2>1, <2>2
<1> HIDE DEF order, D
<1>3. order \in [D -> D] /\ \A i, j \in D : i # j => order[i] # order[j]
  <2>1. D = 1 .. Cardinality(D)
    BY <1>1 DEF D
  <2> QED
    BY <1>2, <2>1 DEF SetToSeqs
<1>4. order \in Surjection(D, D)
  BY <1>1, <1>3, FS_Injection DEF Injection, IsInjective
<1> QED
  BY <1>3, <1>4 DEF Surjection, D, order

(* Each result comes back to the place of the request it is the result of. *)
LEMMA BackInPlace ==
  ASSUME NEW n \in Nat, NEW keys \in [1 .. n -> Int],
         NEW value, NEW results, Len(results) = n, \A j \in 1 .. n : results[j] = value[Reordered(keys)[j]]
  PROVE  GetOriginal(Reordered(keys), results) = [i \in 1 .. n |-> value[i]]
<1> DEFINE order == Reordered(keys)
<1>1. order \in [1 .. n -> 1 .. n] /\ (\A i \in 1 .. n : \E j \in 1 .. n : order[j] = i)
  BY ONLY ReorderedIs, n \in Nat, keys \in [1 .. n -> Int]
<1> HIDE DEF order
<1>2. DOMAIN order = 1 .. n
  BY <1>1
<1>3. GetOriginal(order, results) = [i \in 1 .. n |-> results[CHOOSE j \in 1 .. n : order[j] = i]]
  BY <1>2 DEF GetOriginal
<1>4. \A i \in 1 .. n : results[CHOOSE j \in 1 .. n : order[j] = i] = value[i]
  <2> TAKE i \in 1 .. n
  <2> DEFINE j == CHOOSE k \in 1 .. n : order[k] = i
  <2>1. j \in 1 .. n /\ order[j] = i
    BY <1>1
  <2> HIDE DEF j
  <2>2. results[j] = value[i]
    BY <2>1 DEF order
  <2> QED
    BY <2>2 DEF j
<1>5. GetOriginal(order, results) = [i \in 1 .. n |-> value[i]]
  BY <1>3, <1>4
<1> QED
  BY <1>5 DEF order

-----------------------------------------------------------------------------
(***************************************************************************)
(* Python's slices.                                                        *)
(***************************************************************************)
LEMMA MaxOfZero ==
  ASSUME NEW x \in Int
  PROVE  Max({0, x}) = IF x > 0 THEN x ELSE 0
<1> DEFINE m == IF x > 0 THEN x ELSE 0
<1>1. m \in {0, x} /\ \A y \in {0, x} : m >= y
  OBVIOUS
<1>2. \A z \in {0, x} : (\A y \in {0, x} : z >= y) => z = m
  OBVIOUS
<1>3. Max({0, x}) = CHOOSE z \in {0, x} : \A y \in {0, x} : z >= y
  BY DEF Max
<1> HIDE DEF m
<1> QED
  BY <1>1, <1>2, <1>3 DEF m

(* What is left of a sequence without its first elements. *)
LEMMA TailEnd ==
  ASSUME NEW S, NEW s \in Seq(S), NEW a \in Nat
  PROVE  LET t == SubSeq(s, a + 1, Len(s))
         IN  /\ t \in Seq(S)
             /\ Len(t) = IF a < Len(s) THEN Len(s) - a ELSE 0
             /\ \A k \in 1 .. Len(t) : a + k \in 1 .. Len(s) /\ t[k] = s[a + k]
             /\ IsSuffix(t, s)
             /\ a = 0 => t = s
<1> DEFINE t == SubSeq(s, a + 1, Len(s))
<1>0. Len(s) \in Nat /\ \A i \in a + 1 .. Len(s) : s[i] \in S
  OBVIOUS
<1>1. /\ t \in Seq(S)
      /\ Len(t) = IF a + 1 <= Len(s) THEN Len(s) - (a + 1) + 1 ELSE 0
      /\ \A i \in 1 .. Len(s) - (a + 1) + 1 : t[i] = s[a + 1 + i - 1]
  <2>1. a + 1 \in Int /\ Len(s) \in Int
    BY <1>0
  <2> QED
    BY <1>0, <2>1, SubSeqProperties
<1> HIDE DEF t
<1>2. Len(t) = IF a < Len(s) THEN Len(s) - a ELSE 0
  BY <1>0, <1>1
<1>3. \A k \in 1 .. Len(t) : a + k \in 1 .. Len(s) /\ t[k] = s[a + k]
  <2> TAKE k \in 1 .. Len(t)
  <2>1. a < Len(s) /\ k \in 1 .. Len(s) - (a + 1) + 1 /\ a + 1 + k - 1 = a + k
    BY <1>0, <1>2
  <2> QED
    BY <1>0, <1>1, <2>1
<1>4. IsSuffix(t, s)
  <2>1. Len(t) \in Nat /\ Len(t) <= Len(s)
    BY <1>0, <1>2
  <2>2. /\ Reverse(s) \in Seq(S) /\ Len(Reverse(s)) = Len(s)
        /\ \A k \in 1 .. Len(s) : Reverse(s)[k] = s[Len(s) - k + 1]
    BY <1>0 DEF Reverse
  <2>3. /\ Reverse(t) \in Seq(S) /\ Len(Reverse(t)) = Len(t)
        /\ \A k \in 1 .. Len(t) : Reverse(t)[k] = t[Len(t) - k + 1]
    BY <1>1, <2>1 DEF Reverse
  <2>4. \A k \in 1 .. Len(t) : Reverse(t)[k] = Reverse(s)[k]
    <3> TAKE k \in 1 .. Len(t)
    <3>1. Len(t) - k + 1 \in 1 .. Len(t) /\ a + (Len(t) - k + 1) = Len(s) - k + 1 /\ k \in 1 .. Len(s)
      BY <1>0, <1>2, <2>1
    <3> QED
      BY <1>3, <2>2, <2>3, <3>1
  <2> DEFINE r == Reverse(t)
             q == Reverse(s)
  <2> HIDE DEF r, q
  <2>5. SubSeq(r, 1, Len(r)) = SubSeq(q, 1, Len(r))
    <3>1. /\ SubSeq(r, 1, Len(r)) = [k \in 1 .. Len(r) |-> r[k]]
          /\ SubSeq(q, 1, Len(r)) = [k \in 1 .. Len(r) |-> q[k]]
      BY <2>1, <2>3 DEF r, q
    <3> QED
      BY <2>3, <2>4, <3>1 DEF r, q
  <2> QED
    BY <2>1, <2>2, <2>3, <2>5 DEF IsSuffix, IsPrefix, r, q
<1>5. a = 0 => t = s
  BY SubSeqFull DEF t
<1> QED
  BY <1>1, <1>2, <1>3, <1>4, <1>5 DEF t

(* The last n elements of a sequence, all of them if it has no more. *)
LEMMA LastOfIs ==
  ASSUME NEW S, NEW s \in Seq(S), NEW n \in Int
  PROVE  /\ LastOf(s, n) \in Seq(S)
         /\ IsSuffix(LastOf(s, n), s)
         /\ n > 0 => Len(LastOf(s, n)) <= n
         /\ n > 0 /\ Len(s) <= n => LastOf(s, n) = s
<1> DEFINE a == IF n <= 0 THEN -n ELSE IF Len(s) > n THEN Len(s) - n ELSE 0
<1>1. Len(s) \in Nat /\ a \in Nat
  OBVIOUS
<1>2. LastOf(s, n) = SubSeq(s, a + 1, Len(s))
  <2>1. Max({0, Len(s) + -n}) = IF Len(s) + -n > 0 THEN Len(s) + -n ELSE 0
    BY <1>1, MaxOfZero
  <2>2. (IF -n >= 0 THEN -n ELSE Max({0, Len(s) + -n})) = a
    BY <1>1, <2>1
  <2> HIDE DEF a
  <2> QED
    BY <2>2 DEF LastOf, From
<1>3. LET t == SubSeq(s, a + 1, Len(s))
      IN  /\ t \in Seq(S)
          /\ Len(t) = IF a < Len(s) THEN Len(s) - a ELSE 0
          /\ IsSuffix(t, s)
          /\ a = 0 => t = s
  <2> HIDE DEF a
  <2> QED
    BY <1>1, TailEnd
<1>4. n > 0 => (a < Len(s) => Len(s) - a <= n) /\ (Len(s) <= n => a = 0)
  BY <1>1
<1> HIDE DEF a
<1> QED
  BY <1>1, <1>2, <1>3, <1>4

-----------------------------------------------------------------------------
(***************************************************************************)
(* The inductive invariant: whatever order they were encoded, answered and *)
(* evaluated in, the prompt, the response and the value at a place are     *)
(* those of the request at that place.                                     *)
(***************************************************************************)
Token == Nat \X {"prefix", "ctx", "cont"} \X Nat

Size == Len(task.requests)

Tasks ==
  [kind : Kinds, requests : Batches, limits : Limits, args : Arguments,
   hashes : Hashes, timeouts : TimeoutConfigs]

Asked(i) == IF Pairs THEN PairPrompt(i) ELSE TextPrompt(i)

PromptMade(i) ==
  \E t : prompts[i] =
    [ids |-> Asked(i).ids, ctxlen |-> Asked(i).ctxlen, context |-> Asked(i).context,
     continuation |-> Asked(i).continuation, max |-> Asked(i).max, stop |-> Asked(i).stop,
     timeout |-> t]

PromptsMade ==
  /\ task.kind # "loglikelihood_rolling"
  /\ DOMAIN prompts = 1 .. Size
  /\ \A i \in 1 .. Size : PromptMade(i)

ResponsesMade ==
  /\ DOMAIN responses = 1 .. Size
  /\ \A i \in 1 .. Size : IF Pairs THEN responses[i] = Echo(prompts[i]) ELSE responses[i] \in Texts

ValuesMade ==
  /\ DOMAIN values = 1 .. Size
  /\ \A i \in 1 .. Size : values[i] = IF Pairs THEN PairValue(i) ELSE TextValue(i)

Inv ==
  /\ task \in Tasks
  /\ stage \in {"new", "loaded", "encoded", "saved", "answered", "evaluated", "failed"}
  /\ prompts = <<>> \/ PromptsMade
  /\ stage \in {"encoded", "saved", "answered", "evaluated"} => PromptsMade
  /\ stage \in {"answered", "evaluated"} => ResponsesMade
  /\ stage = "evaluated" => ValuesMade

(* A request is made of tokens, its context of one at least for a pair. *)
LEMMA Encoded ==
  ASSUME task \in Tasks, NEW i \in 1 .. Size
  PROVE  /\ Context(i) \in Seq(Token) /\ Continuation(i) \in Seq(Token)
         /\ Pairs => Len(Context(i)) > 0
         /\ Context(i) \o Continuation(i) \in Seq(Token)
         /\ Len(Context(i) \o Continuation(i)) = Len(Context(i)) + Len(Continuation(i))
<1>1. /\ task.requests \in Seq([ctx : Nat, cont : Nat])
      /\ task.requests[i] \in [ctx : Nat, cont : Nat] /\ i \in Nat
  <2>1. task.requests \in Seq([ctx : Nat, cont : Nat])
    BY TasksAssumption DEF Tasks
  <2>2. task.requests[i] \in [ctx : Nat, cont : Nat]
    BY <2>1, ElementOfSeq DEF Size
  <2>3. i \in Nat
    OBVIOUS
  <2> QED
    BY <2>1, <2>2, <2>3
<1> DEFINE c == task.requests[i].ctx
           d == task.requests[i].cont
<1>2. c \in Nat /\ d \in Nat
  BY <1>1
<1>3. Continuation(i) \in Seq(Token) /\ Len(Continuation(i)) = d
  <2>1. Continuation(i) = [k \in 1 .. d |-> <<i, "cont", k>>]
    BY DEF Continuation
  <2>2. \A k \in 1 .. d : <<i, "cont", k>> \in Token
    BY <1>1, <1>2 DEF Token
  <2> HIDE DEF d, Token
  <2>3. Continuation(i) \in [1 .. d -> Token]
    BY <2>1, <2>2
  <2> QED
    BY <1>2, <2>1, <2>3, SeqDef
<1>4. Context(i) \in Seq(Token) /\ (Pairs => Len(Context(i)) > 0)
  <2>1. CASE Pairs /\ c = 0
    <3>1. Context(i) = <<<<i, "prefix", 0>>>>
      BY <2>1 DEF Context, Pairs
    <3>2. <<i, "prefix", 0>> \in Token
      BY <1>1 DEF Token
    <3> HIDE DEF Token
    <3> QED
      BY <3>1, <3>2
  <2>2. CASE ~(Pairs /\ c = 0)
    <3>1. Context(i) = [k \in 1 .. c |-> <<i, "ctx", k>>]
      BY <2>2 DEF Context, Pairs
    <3>2. \A k \in 1 .. c : <<i, "ctx", k>> \in Token
      BY <1>1, <1>2 DEF Token
    <3> HIDE DEF c, Token
    <3>3. Context(i) \in [1 .. c -> Token] /\ Len(Context(i)) = c
      BY <1>2, <3>1, <3>2
    <3> QED
      BY <1>2, <2>2, <3>3, SeqDef
  <2> QED
    BY <2>1, <2>2
<1> QED
  BY <1>3, <1>4, ConcatProperties

(* Lengths are at least one. *)
LEMMA LengthsPositive ==
  ASSUME task \in Tasks
  PROVE  /\ MaxLength \in Nat \ {0}
         /\ MaxGenTokens \in Nat \ {0}
         /\ Size \in Nat /\ DOMAIN task.requests = 1 .. Size
<1>1. /\ task.limits \in [manual : Nat, config : Nat, tokenizer : Nat]
      /\ task.args \in [max : Nat, until : Seq(Seq(Symbols))]
      /\ task.requests \in Seq([ctx : Nat, cont : Nat])
  BY TasksAssumption DEF Tasks
<1> QED
  BY <1>1, LengthsAssumption DEF MaxLength, MaxGenTokens, Size

(* Encoding the pairs of a task puts the prompt of each request in its place. *)
LEMMA PairsMade ==
  ASSUME Inv, Loglikelihood
  PROVE  PromptsMade'
<1> DEFINE n == Size
           keys == [i \in 1 .. n |-> -Len(Context(i) \o Continuation(i))]
           made == [j \in 1 .. n |-> PairPrompt(PairsOrder[j])]
<1>0. task \in Tasks /\ task' = task /\ task.kind = "loglikelihood" /\ Pairs
  BY DEF Inv, Loglikelihood, Pairs
<1>1. n \in Nat /\ DOMAIN task.requests = 1 .. n
  BY <1>0, LengthsPositive
<1>2. keys \in [1 .. n -> Int]
  <2>1. \A i \in 1 .. n : Len(Context(i) \o Continuation(i)) \in Int
    BY <1>0, Encoded
  <2> QED
    BY <2>1
<1>3. PairsOrder = Reordered(keys)
  BY <1>1 DEF PairsOrder
<1>4. prompts' = GetOriginal(Reordered(keys), made)
  BY <1>1, <1>3 DEF Loglikelihood
<1> HIDE DEF keys, n
<1> DEFINE asked == [i \in 1 .. n |-> PairPrompt(i)]
<1>5. Len(made) = n /\ \A j \in 1 .. n : made[j] = asked[Reordered(keys)[j]]
  <2>1. \A j \in 1 .. n : Reordered(keys)[j] \in 1 .. n
    BY <1>1, <1>2, ReorderedIs
  <2>2. \A j \in 1 .. n : PairPrompt(Reordered(keys)[j]) = asked[Reordered(keys)[j]]
    BY <2>1
  <2> QED
    BY <1>1, <1>3, <2>2
<1>6. prompts' = asked
  <2>1. asked = [i \in 1 .. n |-> asked[i]]
    OBVIOUS
  <2> HIDE DEF asked, made
  <2>2. n \in Nat /\ keys \in [1 .. n -> Int]
    BY <1>1, <1>2
  <2>3. ASSUME NEW value, NEW results,
               Len(results) = n, \A j \in 1 .. n : results[j] = value[Reordered(keys)[j]]
        PROVE  GetOriginal(Reordered(keys), results) = [i \in 1 .. n |-> value[i]]
    BY <2>2, <2>3, BackInPlace
  <2>4. GetOriginal(Reordered(keys), made) = [i \in 1 .. n |-> asked[i]]
    BY <1>5, <2>3
  <2> QED
    BY <1>4, <2>1, <2>4
<1> HIDE DEF made
<1>7. (DOMAIN prompts' = 1 .. n) /\ \A i \in 1 .. n : prompts'[i] = PairPrompt(i)
  BY <1>6
<1> HIDE DEF asked
<1>8. \A i \in 1 .. n : PromptMade(i)'
  <2> TAKE i \in 1 .. n
  <2>1. Asked(i)' = PairPrompt(i)
    BY <1>0 DEF Asked, Pairs, PairPrompt, Context, Continuation, MaxLength
  <2> QED
    BY <1>7, <2>1 DEF PromptMade, PairPrompt
<1> QED
  BY <1>0, <1>7, <1>8 DEF PromptsMade, n, Size

(* So does encoding the texts of a task. *)
LEMMA TextsMade ==
  ASSUME Inv, GenerateUntil
  PROVE  PromptsMade'
<1> DEFINE n == Size
           keys == [i \in 1 .. n |-> Len(Context(i))]
           made == [j \in 1 .. n |-> TextPrompt(TextsOrder[j])]
<1>0. task \in Tasks /\ task' = task /\ task.kind = "generate_until" /\ ~Pairs
  BY DEF Inv, GenerateUntil, Pairs
<1>1. n \in Nat /\ DOMAIN task.requests = 1 .. n
  BY <1>0, LengthsPositive
<1>2. keys \in [1 .. n -> Int]
  <2>1. \A i \in 1 .. n : Len(Context(i)) \in Int
    BY <1>0, Encoded
  <2> QED
    BY <2>1
<1>3. TextsOrder = Reordered(keys)
  BY <1>1 DEF TextsOrder
<1>4. prompts' = GetOriginal(Reordered(keys), made)
  BY <1>1, <1>3 DEF GenerateUntil
<1> HIDE DEF keys, n
<1> DEFINE asked == [i \in 1 .. n |-> TextPrompt(i)]
<1>5. Len(made) = n /\ \A j \in 1 .. n : made[j] = asked[Reordered(keys)[j]]
  <2>1. \A j \in 1 .. n : Reordered(keys)[j] \in 1 .. n
    BY <1>1, <1>2, ReorderedIs
  <2>2. \A j \in 1 .. n : TextPrompt(Reordered(keys)[j]) = asked[Reordered(keys)[j]]
    BY <2>1
  <2> QED
    BY <1>1, <1>3, <2>2
<1>6. prompts' = asked
  <2>1. asked = [i \in 1 .. n |-> asked[i]]
    OBVIOUS
  <2> HIDE DEF asked, made
  <2>2. n \in Nat /\ keys \in [1 .. n -> Int]
    BY <1>1, <1>2
  <2>3. ASSUME NEW value, NEW results,
               Len(results) = n, \A j \in 1 .. n : results[j] = value[Reordered(keys)[j]]
        PROVE  GetOriginal(Reordered(keys), results) = [i \in 1 .. n |-> value[i]]
    BY <2>2, <2>3, BackInPlace
  <2>4. GetOriginal(Reordered(keys), made) = [i \in 1 .. n |-> asked[i]]
    BY <1>5, <2>3
  <2> QED
    BY <1>4, <2>1, <2>4
<1> HIDE DEF made
<1>7. (DOMAIN prompts' = 1 .. n) /\ \A i \in 1 .. n : prompts'[i] = TextPrompt(i)
  BY <1>6
<1> HIDE DEF asked
<1>8. \A i \in 1 .. n : PromptMade(i)'
  <2> TAKE i \in 1 .. n
  <2>1. Asked(i)' = TextPrompt(i)
    BY <1>0 DEF Asked, Pairs, TextPrompt, Context, MaxLength, MaxGenTokens, Stops
  <2> QED
    BY <1>7, <2>1 DEF PromptMade, TextPrompt
<1> QED
  BY <1>0, <1>7, <1>8 DEF PromptsMade, n, Size

(* Saving the prompts sets their timeouts alone. *)
LEMMA PromptsSaved ==
  ASSUME PromptsMade, SavePrompts
  PROVE  PromptsMade'
<1>1. task' = task /\ DOMAIN prompts' = DOMAIN prompts
  BY DEF SavePrompts
<1>2. \A i \in 1 .. Size : PromptMade(i)'
  <2> TAKE i \in 1 .. Size
  <2>1. Asked(i)' = Asked(i)
    BY <1>1 DEF Asked, Pairs, PairPrompt, TextPrompt, Context, Continuation, MaxLength,
       MaxGenTokens, Stops
  <2>2. PICK t : prompts[i] =
          [ids |-> Asked(i).ids, ctxlen |-> Asked(i).ctxlen, context |-> Asked(i).context,
           continuation |-> Asked(i).continuation, max |-> Asked(i).max, stop |-> Asked(i).stop,
           timeout |-> t]
    BY DEF PromptsMade, PromptMade
  <2> DEFINE u == Timeout(prompts[i].ctxlen, Decode)
  <2>3. prompts'[i] = [prompts[i] EXCEPT !.timeout = u]
    BY DEF PromptsMade, SavePrompts
  <2> HIDE DEF u
  <2>4. prompts'[i] =
          [ids |-> Asked(i).ids, ctxlen |-> Asked(i).ctxlen, context |-> Asked(i).context,
           continuation |-> Asked(i).continuation, max |-> Asked(i).max, stop |-> Asked(i).stop,
           timeout |-> u]
    BY <2>2, <2>3
  <2> QED
    BY <2>1, <2>4 DEF PromptMade
<1> QED
  BY <1>1, <1>2 DEF PromptsMade, Size

(* What a made prompt has is what its request asks for. *)
LEMMA PromptFields ==
  ASSUME PromptsMade, NEW i \in 1 .. Size
  PROVE  /\ prompts[i].ids = Asked(i).ids /\ prompts[i].context = Asked(i).context
         /\ prompts[i].continuation = Asked(i).continuation
         /\ prompts[i].max = Asked(i).max /\ prompts[i].stop = Asked(i).stop
BY DEF PromptsMade, PromptMade

(* Evaluating the pairs puts the value of each response in its place. *)
LEMMA PairsValued ==
  ASSUME Inv, EvaluatePairs, stage' = "evaluated"
  PROVE  ValuesMade'
<1> DEFINE n == Size
           keys == [i \in 1 .. n |-> -Len(prompts[i].context \o prompts[i].continuation)]
           made == [j \in 1 .. n |-> PairValue(PromptsOrder[j])]
           valued == [i \in 1 .. n |-> PairValue(i)]
<1>0. /\ task \in Tasks /\ PromptsMade /\ task.kind = "loglikelihood" /\ Pairs
      /\ task' = task /\ prompts' = prompts /\ responses' = responses
  BY DEF Inv, EvaluatePairs, Pairs
<1>1. n \in Nat /\ DOMAIN prompts = 1 .. n
  BY <1>0, LengthsPositive DEF PromptsMade
<1>2. keys \in [1 .. n -> Int]
  <2> SUFFICES ASSUME NEW i \in 1 .. n
               PROVE  -Len(prompts[i].context \o prompts[i].continuation) \in Int
    OBVIOUS
  <2>1. prompts[i].context = Context(i) /\ prompts[i].continuation = Continuation(i)
    BY <1>0, PromptFields DEF Asked, PairPrompt
  <2>2. Len(Context(i) \o Continuation(i)) \in Nat
    BY <1>0, Encoded
  <2> HIDE DEF n
  <2> QED
    BY <2>1, <2>2
<1>3. PromptsOrder = Reordered(keys)
  BY <1>1 DEF PromptsOrder
<1>4. values' = GetOriginal(Reordered(keys), made)
  BY <1>1, <1>3 DEF EvaluatePairs
<1> HIDE DEF keys, n
<1>5. Len(made) = n /\ \A j \in 1 .. n : made[j] = valued[Reordered(keys)[j]]
  <2>1. \A j \in 1 .. n : Reordered(keys)[j] \in 1 .. n
    BY <1>1, <1>2, ReorderedIs
  <2>2. \A j \in 1 .. n : PairValue(Reordered(keys)[j]) = valued[Reordered(keys)[j]]
    BY <2>1
  <2> QED
    BY <1>1, <1>3, <2>2
<1>6. values' = valued
  <2>1. valued = [i \in 1 .. n |-> valued[i]]
    OBVIOUS
  <2> HIDE DEF valued, made
  <2>2. n \in Nat /\ keys \in [1 .. n -> Int]
    BY <1>1, <1>2
  <2>3. ASSUME NEW value, NEW results,
               Len(results) = n, \A j \in 1 .. n : results[j] = value[Reordered(keys)[j]]
        PROVE  GetOriginal(Reordered(keys), results) = [i \in 1 .. n |-> value[i]]
    BY <2>2, <2>3, BackInPlace
  <2>4. GetOriginal(Reordered(keys), made) = [i \in 1 .. n |-> valued[i]]
    BY <1>5, <2>3
  <2> QED
    BY <1>4, <2>1, <2>4
<1> HIDE DEF made
<1>7. (DOMAIN values' = 1 .. n) /\ \A i \in 1 .. n : values'[i] = PairValue(i)
  BY <1>6
<1>8. \A i \in 1 .. n : PairValue(i)' = PairValue(i)
  BY <1>0 DEF PairValue
<1> HIDE DEF valued
<1>9. Pairs' /\ Size' = n
  BY <1>0 DEF Pairs, Size, n
<1> QED
  BY <1>7, <1>8, <1>9 DEF ValuesMade

(* So does evaluating the texts. *)
LEMMA TextsValued ==
  ASSUME Inv, EvaluateTexts
  PROVE  ValuesMade'
<1> DEFINE n == Size
           keys == [i \in 1 .. n |-> Len(prompts[i].context)]
           made == [j \in 1 .. n |-> TextValue(ContextsOrder[j])]
           valued == [i \in 1 .. n |-> TextValue(i)]
<1>0. /\ task \in Tasks /\ PromptsMade /\ task.kind = "generate_until" /\ ~Pairs
      /\ task' = task /\ prompts' = prompts /\ responses' = responses
  BY DEF Inv, EvaluateTexts, Pairs
<1>1. n \in Nat /\ DOMAIN prompts = 1 .. n
  BY <1>0, LengthsPositive DEF PromptsMade
<1>2. keys \in [1 .. n -> Int]
  <2> SUFFICES ASSUME NEW i \in 1 .. n
               PROVE  Len(prompts[i].context) \in Int
    OBVIOUS
  <2>1. prompts[i].context = LastOf(Context(i), MaxLength - MaxGenTokens)
    BY <1>0, PromptFields DEF Asked, TextPrompt
  <2>2. Context(i) \in Seq(Token) /\ MaxLength - MaxGenTokens \in Int
    BY <1>0, Encoded, LengthsPositive
  <2>3. LastOf(Context(i), MaxLength - MaxGenTokens) \in Seq(Token)
    BY <2>2, LastOfIs
  <2> HIDE DEF n
  <2> QED
    BY <2>1, <2>3
<1>3. ContextsOrder = Reordered(keys)
  BY <1>1 DEF ContextsOrder
<1>4. values' = GetOriginal(Reordered(keys), made)
  BY <1>1, <1>3 DEF EvaluateTexts
<1> HIDE DEF keys, n
<1>5. Len(made) = n /\ \A j \in 1 .. n : made[j] = valued[Reordered(keys)[j]]
  <2>1. \A j \in 1 .. n : Reordered(keys)[j] \in 1 .. n
    BY <1>1, <1>2, ReorderedIs
  <2>2. \A j \in 1 .. n : TextValue(Reordered(keys)[j]) = valued[Reordered(keys)[j]]
    BY <2>1
  <2> QED
    BY <1>1, <1>3, <2>2
<1>6. values' = valued
  <2>1. valued = [i \in 1 .. n |-> valued[i]]
    OBVIOUS
  <2> HIDE DEF valued, made
  <2>2. n \in Nat /\ keys \in [1 .. n -> Int]
    BY <1>1, <1>2
  <2>3. ASSUME NEW value, NEW results,
               Len(results) = n, \A j \in 1 .. n : results[j] = value[Reordered(keys)[j]]
        PROVE  GetOriginal(Reordered(keys), results) = [i \in 1 .. n |-> value[i]]
    BY <2>2, <2>3, BackInPlace
  <2>4. GetOriginal(Reordered(keys), made) = [i \in 1 .. n |-> valued[i]]
    BY <1>5, <2>3
  <2> QED
    BY <1>4, <2>1, <2>4
<1> HIDE DEF made
<1>7. (DOMAIN values' = 1 .. n) /\ \A i \in 1 .. n : values'[i] = TextValue(i)
  BY <1>6
<1>8. \A i \in 1 .. n : TextValue(i)' = TextValue(i)
  BY <1>0 DEF TextValue
<1> HIDE DEF valued
<1>9. ~Pairs' /\ Size' = n
  BY <1>0 DEF Pairs, Size, n
<1> QED
  BY <1>7, <1>8, <1>9 DEF ValuesMade

-----------------------------------------------------------------------------
(* The tasks start with no prompt. *)
LEMMA InitInv == Init => Inv
BY DEF Init, Inv, Tasks

(* A step keeps what is at each place that of the request at that place. *)
LEMMA StepInv ==
  ASSUME Inv, [Next]_vars
  PROVE  Inv'
<1>a. ASSUME task' = task, prompts' = prompts, PromptsMade
      PROVE  PromptsMade'
  <2>1. \A i : Asked(i)' = Asked(i)
    BY <1>a DEF Asked, Pairs, PairPrompt, TextPrompt, Context, Continuation, MaxLength,
       MaxGenTokens, Stops
  <2>2. \A i : PromptMade(i)' <=> PromptMade(i)
    BY <1>a, <2>1 DEF PromptMade
  <2> QED
    BY <1>a, <2>2 DEF PromptsMade, Size
<1>b. ASSUME task' = task, prompts' = prompts, responses' = responses, ResponsesMade
      PROVE  ResponsesMade'
  BY <1>b DEF ResponsesMade, Pairs, Size, Echo
<1>c. ASSUME task' = task, prompts' = prompts, responses' = responses, values' = values, ValuesMade
      PROVE  ValuesMade'
  <2>1. \A i : PairValue(i)' = PairValue(i) /\ TextValue(i)' = TextValue(i)
    BY <1>c DEF PairValue, TextValue
  <2> QED
    BY <1>c, <2>1 DEF ValuesMade, Pairs, Size
<1>d. task' = task /\ task \in Tasks /\ Tasks' = Tasks
  BY DEF Inv, Tasks, Next, vars, LoadTokenizer, Loglikelihood, GenerateUntil,
     LoglikelihoodRolling, SavePrompts, Respond, EvaluatePairs, EvaluateTexts
<1>1. CASE LoadTokenizer
  <2>1. UNCHANGED <<task, prompts, responses, values>> /\ stage' \in {"loaded", "failed"}
    BY <1>1 DEF LoadTokenizer
  <2> QED
    BY <1>a, <1>d, <1>1, <2>1 DEF Inv
<1>2. CASE Loglikelihood
  BY <1>d, <1>2, PairsMade DEF Loglikelihood, Inv
<1>3. CASE GenerateUntil
  BY <1>d, <1>3, TextsMade DEF GenerateUntil, Inv
<1>4. CASE LoglikelihoodRolling
  BY <1>a, <1>d, <1>4 DEF LoglikelihoodRolling, Inv
<1>5. CASE SavePrompts
  <2>1. PromptsMade'
    BY <1>5, PromptsSaved DEF SavePrompts, Inv
  <2> QED
    BY <1>d, <1>5, <2>1 DEF SavePrompts, Inv
<1>6. CASE Respond
  <2>0. PromptsMade /\ UNCHANGED <<task, prompts>> /\ stage' = "answered"
    BY <1>6 DEF Respond, Inv
  <2>1. CASE Pairs
    <3>1. responses' = [i \in 1 .. Size |-> Echo(prompts[i])]
      BY <1>6, <2>0, <2>1 DEF Respond, PromptsMade, Pairs
    <3>2. ResponsesMade'
      BY <2>0, <2>1, <3>1 DEF ResponsesMade, Pairs, Size, Echo
    <3> QED
      BY <1>a, <1>d, <2>0, <3>2 DEF Inv
  <2>2. CASE ~Pairs
    <3>1. responses' \in [1 .. Size -> Texts]
      BY <1>6, <2>0, <2>2 DEF Respond, PromptsMade, Pairs
    <3>2. ResponsesMade'
      BY <2>0, <2>2, <3>1 DEF ResponsesMade, Pairs, Size
    <3> QED
      BY <1>a, <1>d, <2>0, <3>2 DEF Inv
  <2> QED
    BY <2>1, <2>2
<1>7. CASE EvaluatePairs
  <2>1. stage' = "evaluated" => ValuesMade'
    BY <1>7, PairsValued
  <2>2. PromptsMade /\ ResponsesMade /\ UNCHANGED <<task, prompts, responses>>
    BY <1>7 DEF EvaluatePairs, Inv
  <2>3. stage' \in {"failed", "evaluated"}
    BY <1>7 DEF EvaluatePairs
  <2> QED
    BY <1>a, <1>b, <1>d, <2>1, <2>2, <2>3 DEF Inv
<1>8. CASE EvaluateTexts
  <2>1. ValuesMade'
    BY <1>8, TextsValued
  <2>2. PromptsMade /\ ResponsesMade /\ UNCHANGED <<task, prompts, responses>>
    BY <1>8 DEF EvaluateTexts, Inv
  <2>3. stage' = "evaluated"
    BY <1>8 DEF EvaluateTexts
  <2> QED
    BY <1>a, <1>b, <1>d, <2>1, <2>2, <2>3 DEF Inv
<1>9. CASE UNCHANGED vars
  <2>1. UNCHANGED <<stage, task, prompts, responses, values>>
    BY <1>9 DEF vars
  <2>2. prompts = <<>> => prompts' = <<>>
    BY <2>1
  <2> QED
    BY <1>a, <1>b, <1>c, <1>d, <2>1, <2>2 DEF Inv
<1> QED
  BY <1>1, <1>2, <1>3, <1>4, <1>5, <1>6, <1>7, <1>8, <1>9 DEF Next

(* What is at each place is that of the request at that place, always. *)
LEMMA InvAlways == Spec => []Inv
<1>1. Init => Inv
  BY InitInv
<1>2. Inv /\ [Next]_vars => Inv'
  BY StepInv
<1> QED
  BY <1>1, <1>2, PTL DEF Spec

-----------------------------------------------------------------------------
(***************************************************************************)
(* The prompts.                                                            *)
(***************************************************************************)
(* The prompt of a request is the end of it, within the length the model   *)
(* takes and with room for the answer (pocket_network.py:285-290, 362).    *)
LEMMA InvFit == Inv => PromptsFit
<1> SUFFICES ASSUME Inv, NEW i \in DOMAIN prompts
             PROVE  /\ IsSuffix(prompts[i].ids, Context(i) \o IF Pairs THEN Continuation(i) ELSE <<>>)
                    /\ Pairs => Len(prompts[i].ids) <= MaxLength + 1
                    /\ ~Pairs /\ MaxGenTokens < MaxLength =>
                         Len(prompts[i].ids) + prompts[i].max <= MaxLength
  BY DEF PromptsFit
<1>1. PromptsMade /\ task \in Tasks /\ i \in 1 .. Size
  <2>1. prompts # <<>>
    OBVIOUS
  <2> QED
    BY <2>1 DEF Inv, PromptsMade
<1>2. MaxLength \in Nat \ {0} /\ MaxGenTokens \in Nat \ {0}
  BY <1>1, LengthsPositive
<1>3. CASE Pairs
  <2> DEFINE all == Context(i) \o Continuation(i)
  <2>1. prompts[i].ids = LastOf(all, MaxLength + 1)
    BY <1>1, <1>3, PromptFields DEF Asked, PairPrompt
  <2>2. all \in Seq(Token)
    BY <1>1, Encoded
  <2> HIDE DEF all
  <2>3. /\ IsSuffix(LastOf(all, MaxLength + 1), all)
        /\ Len(LastOf(all, MaxLength + 1)) <= MaxLength + 1
    <3>1. MaxLength + 1 \in Int /\ MaxLength + 1 > 0
      BY <1>2
    <3> QED
      BY <2>2, <3>1, LastOfIs
  <2> QED
    BY <1>3, <2>1, <2>3 DEF all
<1>4. CASE ~Pairs
  <2> DEFINE room == MaxLength - MaxGenTokens
  <2>1. prompts[i].ids = LastOf(Context(i), room) /\ prompts[i].max = MaxGenTokens
    BY <1>1, <1>4, PromptFields DEF Asked, TextPrompt
  <2>2. Context(i) \in Seq(Token) /\ Context(i) \o <<>> = Context(i)
    <3>1. Context(i) \in Seq(Token)
      BY <1>1, Encoded
    <3> QED
      BY <3>1, ConcatEmptySeq
  <2>3. room \in Int /\ (MaxGenTokens < MaxLength => room > 0)
    BY <1>2
  <2>4. room + MaxGenTokens = MaxLength
    BY <1>2
  <2> HIDE DEF room
  <2>5. /\ LastOf(Context(i), room) \in Seq(Token)
        /\ IsSuffix(LastOf(Context(i), room), Context(i))
        /\ room > 0 => Len(LastOf(Context(i), room)) <= room
    BY <2>2, <2>3, LastOfIs
  <2>6. Len(LastOf(Context(i), room)) \in Nat
    BY <2>5
  <2>7. MaxGenTokens < MaxLength => Len(prompts[i].ids) + prompts[i].max <= MaxLength
    BY <1>2, <2>1, <2>3, <2>4, <2>5, <2>6
  <2> QED
    BY <1>4, <2>1, <2>2, <2>5, <2>7
<1> QED
  BY <1>3, <1>4

(* The model is asked the end of each request, no more than it takes and,  *)
(* if it takes more than an answer, with room for its answer, in the order *)
(* of the requests (pocket_network.py:285-290, 362).                       *)
THEOREM PromptsAlwaysFit == Spec => []PromptsFit
BY InvAlways, InvFit, PTL

-----------------------------------------------------------------------------
(***************************************************************************)
(* The score of an answer.                                                 *)
(***************************************************************************)
(* A pair that fits both lengths is scored by its answer, all of it and    *)
(* nothing else (pocket_network.py:561-577).                               *)
LEMMA InvScored == Inv => AnswerScored
<1> SUFFICES ASSUME Inv, Evaluated, Pairs, NEW i \in DOMAIN values,
                    Len(Context(i)) + Len(Continuation(i)) <= Min({MaxLength, DefaultMaxLength}) + 1
             PROVE  values[i].logprob = Continuation(i)
  BY DEF AnswerScored
<1> DEFINE all == Context(i) \o Continuation(i)
           c == Len(Context(i))
           d == Len(Continuation(i))
           S == Token \cup {None}
           echo == Echo(prompts[i])
<1>1. PromptsMade /\ ResponsesMade /\ ValuesMade /\ task \in Tasks /\ i \in 1 .. Size
  BY DEF Inv, Evaluated, ValuesMade
<1>2. MaxLength \in Nat \ {0} /\ DefaultMaxLength \in Nat \ {0}
  BY <1>1, LengthsPositive, LengthsAssumption
<1>3. /\ Context(i) \in Seq(Token) /\ Continuation(i) \in Seq(Token)
      /\ all \in Seq(Token) /\ Len(all) = c + d
      /\ c \in Nat \ {0} /\ d \in Nat
  <2>1. /\ Context(i) \in Seq(Token) /\ Continuation(i) \in Seq(Token)
        /\ Len(Context(i)) > 0 /\ all \in Seq(Token) /\ Len(all) = c + d
    BY <1>1, Encoded
  <2> QED
    BY <2>1
<1>4. c + d <= MaxLength + 1 /\ c + d <= DefaultMaxLength + 1
  <2>1. \A a, b \in Nat : Min({a, b}) = IF a <= b THEN a ELSE b
    <3> TAKE a, b \in Nat
    <3> DEFINE m == IF a <= b THEN a ELSE b
    <3>1. m \in {a, b} /\ \A y \in {a, b} : m <= y
      OBVIOUS
    <3>2. \A z \in {a, b} : (\A y \in {a, b} : z <= y) => z = m
      OBVIOUS
    <3>3. Min({a, b}) = CHOOSE z \in {a, b} : \A y \in {a, b} : z <= y
      BY DEF Min
    <3> HIDE DEF m
    <3> QED
      BY <3>1, <3>2, <3>3 DEF m
  <2> QED
    BY <1>2, <1>3, <2>1
<1>5. /\ prompts[i].ids = LastOf(all, MaxLength + 1)
      /\ prompts[i].context = Context(i) /\ prompts[i].continuation = Continuation(i)
  BY <1>1, PromptFields DEF Asked, PairPrompt
<1>6. prompts[i].ids = all
  <2> HIDE DEF all, c, d
  <2>1. MaxLength + 1 \in Int /\ MaxLength + 1 > 0 /\ Len(all) <= MaxLength + 1
    BY <1>2, <1>3, <1>4
  <2> QED
    BY <1>3, <1>5, <2>1, LastOfIs
<1>7. CtxLen(Context(i), Continuation(i), DefaultMaxLength) = c
  <2> DEFINE x == c + d - (DefaultMaxLength + 1)
  <2>1. x \in Int /\ ~(x > 0)
    BY <1>2, <1>3, <1>4
  <2>2. Max({0, x}) = 0
    <3> HIDE DEF x
    <3> QED
      BY <2>1, MaxOfZero
  <2> QED
    BY <1>3, <2>2 DEF CtxLen
<1>8. values[i].logprob = From(echo, c)
  BY <1>1, <1>5, <1>7 DEF ValuesMade, ResponsesMade, PairValue, GetResult
<1>9. /\ echo \in Seq(S) /\ Len(echo) = c + d
      /\ \A k \in 1 .. c + d : k # 1 => echo[k] = all[k]
  <2>1. DOMAIN all = 1 .. c + d
    BY <1>3
  <2>2. echo = [k \in 1 .. c + d |-> IF k = 1 THEN None ELSE all[k]]
    BY <1>6, <2>1 DEF Echo
  <2>3. \A k \in 1 .. c + d : (IF k = 1 THEN None ELSE all[k]) \in S
    BY <1>3, <2>1, ElementOfSeq
  <2> HIDE DEF echo, all, S, c, d
  <2>4. echo \in [1 .. c + d -> S] /\ c + d \in Nat
    BY <1>3, <2>2, <2>3
  <2>5. echo \in Seq(S) /\ Len(echo) = c + d
    BY <2>4, SeqDef
  <2> QED
    BY <2>2, <2>5
<1> HIDE DEF echo, S
<1>10. From(echo, c) = SubSeq(echo, c + 1, Len(echo))
  BY <1>3 DEF From
<1> DEFINE t == SubSeq(echo, c + 1, Len(echo))
<1>11. /\ t \in Seq(S)
       /\ Len(t) = IF c < Len(echo) THEN Len(echo) - c ELSE 0
       /\ \A k \in 1 .. Len(t) : c + k \in 1 .. Len(echo) /\ t[k] = echo[c + k]
  <2> HIDE DEF c
  <2> QED
    BY <1>3, <1>9, TailEnd
<1> HIDE DEF t
<1>12. Len(t) = d
  BY <1>3, <1>9, <1>11
<1>13. \A k \in 1 .. d : t[k] = Continuation(i)[k]
  <2> TAKE k \in 1 .. d
  <2>1. c + k \in 1 .. c + d /\ c + k # 1 /\ c + k > c /\ (c + k) - c = k
    BY <1>3
  <2>2. t[k] = all[c + k]
    BY <1>9, <1>11, <1>12, <2>1
  <2>3. all[c + k] = Continuation(i)[k]
    BY <1>3, <2>1, ConcatProperties
  <2> QED
    BY <2>2, <2>3
<1>14. t = Continuation(i)
  <2>1. t = [k \in 1 .. d |-> t[k]] /\ Continuation(i) = [k \in 1 .. d |-> Continuation(i)[k]]
    BY <1>3, <1>11, <1>12
  <2> QED
    BY <1>13, <2>1
<1> QED
  BY <1>8, <1>10, <1>14 DEF t

(* The answer of a request that is within the length of the model and the  *)
(* one the Evaluator assumes is what its score is made of; of longer ones  *)
(* nothing is said (pocket_network.py:561-577).                            *)
THEOREM AnswersScored == Spec => []AnswerScored
BY InvAlways, InvScored, PTL

-----------------------------------------------------------------------------
(***************************************************************************)
(* Where a text is cut.                                                    *)
(***************************************************************************)
LEMMA PrefixIs ==
  ASSUME NEW S, NEW s \in Seq(S), NEW t \in Seq(S)
  PROVE  IsPrefix(s, t) <=> Len(s) <= Len(t) /\ \A k \in 1 .. Len(s) : s[k] = t[k]
<1>1. Len(s) \in Nat /\ Len(t) \in Nat
  OBVIOUS
<1>2. SubSeq(s, 1, Len(s)) = [k \in 1 .. Len(s) |-> s[k]]
  BY <1>1
<1>3. Len(s) <= Len(t) => SubSeq(t, 1, Len(s)) = [k \in 1 .. Len(s) |-> t[k]]
  BY <1>1
<1> QED
  BY <1>2, <1>3 DEF IsPrefix

(* A stop occurs where each of its symbols is at its place. *)
LEMMA OccursIs ==
  ASSUME NEW S, NEW s \in Seq(S), NEW term \in Seq(S),
         NEW k \in 1 .. Len(s) - Len(term) + 1
  PROVE  Occurs(term, s, k) <=> \A m \in 1 .. Len(term) : s[k + m - 1] = term[m]
<1> DEFINE n == Len(term)
           t == SubSeq(s, k, k + n - 1)
<1>1. n \in Nat /\ Len(s) \in Nat /\ k \in Nat \ {0} /\ k + n - 1 <= Len(s)
  OBVIOUS
<1>2. /\ Len(t) = n /\ t \in Seq(S)
      /\ \A m \in 1 .. n : t[m] = s[k + m - 1]
  <2>1. \A m \in k .. k + n - 1 : s[m] \in S
    BY <1>1, ElementOfSeq
  <2>2. k \in Int /\ k + n - 1 \in Int /\ (k + n - 1) - k + 1 = n /\ (k <= k + n - 1 \/ n = 0)
    BY <1>1
  <2>3. /\ t \in Seq(S)
        /\ Len(t) = IF k <= k + n - 1 THEN (k + n - 1) - k + 1 ELSE 0
        /\ \A m \in 1 .. (k + n - 1) - k + 1 : t[m] = s[k + m - 1]
    BY <2>1, <2>2, SubSeqProperties
  <2> HIDE DEF t, n
  <2> QED
    BY <1>1, <2>2, <2>3
<1>3. t = term <=> \A m \in 1 .. n : t[m] = term[m]
  <2>1. t = [m \in 1 .. n |-> t[m]] /\ term = [m \in 1 .. n |-> term[m]]
    BY <1>2
  <2> HIDE DEF t, n
  <2> QED
    BY <2>1
<1> HIDE DEF t
<1> QED
  BY <1>2, <1>3 DEF Occurs, t

(* What occurs in the beginning of a text occurs in it. *)
LEMMA HasTermOfPrefix ==
  ASSUME NEW S, NEW s \in Seq(S), NEW t \in Seq(S), NEW term \in Seq(S),
         IsPrefix(s, t), HasTerm(s, term)
  PROVE  HasTerm(t, term)
<1>1. PICK k \in 1 .. Len(s) - Len(term) + 1 : Occurs(term, s, k)
  BY DEF HasTerm
<1>2. Len(s) <= Len(t) /\ \A m \in 1 .. Len(s) : s[m] = t[m]
  BY PrefixIs
<1>3. /\ Len(s) \in Nat /\ Len(t) \in Nat /\ Len(term) \in Nat
      /\ k \in 1 .. Len(t) - Len(term) + 1
  BY <1>2
<1>4. \A m \in 1 .. Len(term) : s[k + m - 1] = term[m]
  BY <1>1, OccursIs
<1>5. \A m \in 1 .. Len(term) : t[k + m - 1] = term[m]
  <2> TAKE m \in 1 .. Len(term)
  <2>1. k + m - 1 \in 1 .. Len(s)
    BY <1>3
  <2> QED
    BY <1>2, <1>4, <2>1
<1>6. Occurs(term, t, k)
  BY <1>3, <1>5, OccursIs
<1> QED
  BY <1>3, <1>6 DEF HasTerm

(* The beginning of a beginning is a beginning. *)
LEMMA PrefixOfPrefix ==
  ASSUME NEW S, NEW r \in Seq(S), NEW s \in Seq(S), NEW t \in Seq(S),
         IsPrefix(r, s), IsPrefix(s, t)
  PROVE  IsPrefix(r, t)
<1>1. Len(r) <= Len(s) /\ \A m \in 1 .. Len(r) : r[m] = s[m]
  BY PrefixIs
<1>2. Len(s) <= Len(t) /\ \A m \in 1 .. Len(s) : s[m] = t[m]
  BY PrefixIs
<1>3. Len(r) \in Nat /\ Len(s) \in Nat /\ Len(t) \in Nat
  OBVIOUS
<1>4. Len(r) <= Len(t) /\ \A m \in 1 .. Len(r) : r[m] = t[m]
  BY <1>1, <1>2, <1>3
<1> QED
  BY <1>4, PrefixIs

(* Min is the least of a set of numbers. *)
LEMMA MinIs ==
  ASSUME NEW T, T \subseteq Nat, T # {}
  PROVE  Min(T) \in T /\ \A m \in T : Min(T) <= m
BY LeastNumber DEF Min

(* A text is cut where the first occurrence of the stop begins. *)
LEMMA CutIs ==
  ASSUME NEW S, NEW s \in Seq(S), NEW term \in Seq(S)
  PROVE  /\ CutAt(s, term) \in Seq(S)
         /\ IsPrefix(CutAt(s, term), s)
         /\ ~HasTerm(CutAt(s, term), term)
         /\ \/ CutAt(s, term) = s
            \/ term # <<>> /\ IsPrefix(CutAt(s, term) \o term, s)
<1> DEFINE n == Len(term)
           places == {k \in 1 .. (Len(s) - n + 1) : Occurs(term, s, k)}
           p == Min(places)
           t == SubSeq(s, 1, p - 1)
<1>0. n \in Nat /\ Len(s) \in Nat
  OBVIOUS
<1>1. CASE term = <<>> \/ places = {}
  <2>1. CutAt(s, term) = s
    BY <1>1 DEF CutAt
  <2>2. IsPrefix(s, s)
    BY <1>0, PrefixIs
  <2>3. ~HasTerm(s, term)
    BY <1>1 DEF HasTerm
  <2> QED
    BY <2>1, <2>2, <2>3
<1>2. CASE ~(term = <<>> \/ places = {})
  <2>1. CutAt(s, term) = t
    BY <1>2 DEF CutAt
  <2>2. n > 0
    BY <1>0, <1>2, EmptySeq
  <2>3. p \in places /\ \A k \in places : p <= k
    <3>1. places \subseteq Nat /\ places # {}
      BY <1>2
    <3> HIDE DEF places
    <3> QED
      BY <3>1, MinIs
  <2>4. p \in 1 .. (Len(s) - n + 1) /\ Occurs(term, s, p)
    BY <2>3
  <2>5. \A k \in 1 .. (Len(s) - n + 1) : Occurs(term, s, k) => p <= k
    BY <2>3
  <2> HIDE DEF places, p, n
  <2>6. /\ t \in Seq(S) /\ Len(t) = p - 1
        /\ \A m \in 1 .. p - 1 : t[m] = s[m]
    <3>1. p - 1 \in Nat /\ p - 1 <= Len(s)
      BY <1>0, <2>2, <2>4
    <3>2. \A m \in 1 .. p - 1 : s[m] \in S
      BY <1>0, <3>1, ElementOfSeq
    <3> DEFINE q == p - 1
    <3>3. q \in Nat /\ \A m \in 1 .. q : s[m] \in S
      BY <3>1, <3>2
    <3> HIDE DEF q
    <3>4. /\ SubSeq(s, 1, q) \in Seq(S)
          /\ Len(SubSeq(s, 1, q)) = IF 1 <= q THEN q - 1 + 1 ELSE 0
          /\ \A m \in 1 .. q - 1 + 1 : SubSeq(s, 1, q)[m] = s[1 + m - 1]
      BY <3>3, SubSeqProperties
    <3> QED
      BY <3>3, <3>4 DEF q
  <2> HIDE DEF t
  <2>7. IsPrefix(t, s)
    <3>1. Len(t) <= Len(s) /\ \A m \in 1 .. Len(t) : t[m] = s[m]
      BY <1>0, <2>2, <2>4, <2>6
    <3> QED
      BY <2>6, <3>1, PrefixIs
  <2>8. ~HasTerm(t, term)
    <3> SUFFICES ASSUME NEW k \in 1 .. (Len(t) - n + 1), Occurs(term, t, k)
                 PROVE  FALSE
      BY DEF HasTerm, n
    <3>1. \A m \in 1 .. n : t[k + m - 1] = term[m]
      <4>1. k \in 1 .. Len(t) - Len(term) + 1 /\ t \in Seq(S)
        BY <2>6 DEF n
      <4>2. \A m \in 1 .. Len(term) : t[k + m - 1] = term[m]
        BY ONLY OccursIs, <4>1, term \in Seq(S), Occurs(term, t, k)
      <4> QED
        BY <4>2 DEF n
    <3>2. k < p /\ k \in 1 .. (Len(s) - n + 1)
      BY <1>0, <2>2, <2>4, <2>6
    <3>3. \A m \in 1 .. n : s[k + m - 1] = term[m]
      <4> TAKE m \in 1 .. n
      <4>1. k + m - 1 \in 1 .. p - 1
        BY <1>0, <2>4, <2>6
      <4> QED
        BY <2>6, <3>1, <4>1
    <3>4. Occurs(term, s, k)
      BY <3>2, <3>3, OccursIs DEF n
    <3> QED
      BY <2>4, <2>5, <3>2, <3>4
  <2>9. IsPrefix(t \o term, s)
    <3>1. \A m \in 1 .. n : s[p + m - 1] = term[m]
      BY <2>4, OccursIs DEF n
    <3>2. /\ t \o term \in Seq(S) /\ Len(t \o term) = p - 1 + n
          /\ \A m \in 1 .. p - 1 + n :
               (t \o term)[m] = IF m <= p - 1 THEN t[m] ELSE term[m - (p - 1)]
      <4>1. /\ t \o term \in Seq(S) /\ Len(t \o term) = Len(t) + n
            /\ \A m \in 1 .. Len(t) + n :
                 (t \o term)[m] = IF m <= Len(t) THEN t[m] ELSE term[m - Len(t)]
        BY <2>6, ConcatProperties DEF n
      <4>2. Len(t) = p - 1
        BY <2>6
      <4> QED
        BY <4>1, <4>2
    <3>3. p - 1 + n <= Len(s)
      BY <1>0, <2>4
    <3>4. \A m \in 1 .. p - 1 + n : (t \o term)[m] = s[m]
      <4> TAKE m \in 1 .. p - 1 + n
      <4>1. CASE m <= p - 1
        BY <2>4, <2>6, <3>2, <4>1
      <4>2. CASE ~(m <= p - 1)
        <5> DEFINE l == m - (p - 1)
        <5>1. l \in 1 .. n /\ p + l - 1 = m
          BY <1>0, <2>4, <4>2
        <5>2. (t \o term)[m] = term[l]
          BY <3>2, <4>2
        <5> HIDE DEF l
        <5>3. s[p + l - 1] = term[l]
          BY <3>1, <5>1
        <5> QED
          BY <5>1, <5>2, <5>3
      <4> QED
        BY <4>1, <4>2
    <3> DEFINE u == t \o term
    <3>5. u \in Seq(S) /\ Len(u) <= Len(s) /\ \A m \in 1 .. Len(u) : u[m] = s[m]
      BY <3>2, <3>3, <3>4
    <3> HIDE DEF u
    <3>6. IsPrefix(u, s)
      BY <3>5, PrefixIs
    <3> QED
      BY <3>6 DEF u
  <2> QED
    BY <1>2, <2>1, <2>6, <2>7, <2>8, <2>9
<1> QED
  BY <1>1, <1>2

-----------------------------------------------------------------------------
(***************************************************************************)
(* Cutting at one stop after the other.  The fold runs over the set of     *)
(* places and takes the greatest first, so that what is left of a text     *)
(* after k stops is its value on 1 .. k.                                   *)
(***************************************************************************)
LEMMA MaxIs ==
  ASSUME NEW n \in Nat, NEW T, T \subseteq 1 .. n, T # {}
  PROVE  Max(T) \in T /\ \A m \in T : m <= Max(T)
<1> DEFINE U == {n - m : m \in T}
<1>1. U \subseteq Nat /\ U # {}
  <2>1. \A m \in T : n - m \in Nat
    OBVIOUS
  <2> QED
    BY <2>1
<1>2. PICK l \in U : \A m \in U : l <= m
  <2> HIDE DEF U
  <2> QED
    BY <1>1, LeastNumber
<1>3. PICK x \in T : l = n - x
  OBVIOUS
<1>4. \A m \in T : m <= x
  <2> TAKE m \in T
  <2>1. l <= n - m
    BY <1>2
  <2> QED
    BY <1>3, <2>1
<1>5. \E y \in T : \A m \in T : y >= m
  BY <1>4
<1>6. Max(T) \in T /\ \A m \in T : Max(T) >= m
  BY <1>5 DEF Max
<1> QED
  BY <1>6

CutAll(text, stops) == FoldLeft(CutAt, text, stops)

\* What is left of a text after each of n stops.
Cutting(left, n, text, stops) ==
  /\ left[0] = text
  /\ \A k \in 1 .. n : left[k] = CutAt(left[k - 1], stops[k])
  /\ CutAll(text, stops) = left[n]

(* There is what is left after each stop. *)
LEMMA CutsMade ==
  ASSUME NEW n \in Nat, NEW text, NEW stops, DOMAIN stops = 1 .. n
  PROVE  \E left : Cutting(left, n, text, stops)
<1> DEFINE Body(f, s) ==
             IF s = {} THEN text ELSE CutAt(f[s \ {Max(s)}], stops[Max(s)])
           T == {k \in Nat : \E f : \A s \in SUBSET (1 .. k) : f[s] = Body(f, s)}
<1>1. 0 \in T
  <2> DEFINE f == [s \in SUBSET (1 .. 0) |-> text]
  <2>1. \A s \in SUBSET (1 .. 0) : s = {}
    OBVIOUS
  <2>2. \A s \in SUBSET (1 .. 0) : f[s] = Body(f, s)
    BY <2>1
  <2> HIDE DEF f, Body
  <2> QED
    BY <2>2
<1>2. \A k \in Nat : k \in T => k + 1 \in T
  <2> SUFFICES ASSUME NEW k \in Nat, k \in T
               PROVE  k + 1 \in T
    OBVIOUS
  <2>1. PICK f : \A s \in SUBSET (1 .. k) : f[s] = Body(f, s)
    OBVIOUS
  <2> DEFINE g == [s \in SUBSET (1 .. k + 1) |->
                    IF k + 1 \in s THEN CutAt(f[s \ {k + 1}], stops[k + 1]) ELSE f[s]]
  <2>2. ASSUME NEW s \in SUBSET (1 .. k + 1)
        PROVE  g[s] = Body(g, s)
    <3>1. CASE k + 1 \in s
      <4>1. Max(s) = k + 1
        <5>1. Max(s) \in s /\ \A m \in s : m <= Max(s)
          <6>1. s \subseteq 1 .. k + 1 /\ s # {} /\ k + 1 \in Nat
            BY <3>1
          <6> QED
            BY <6>1, MaxIs
        <5>2. Max(s) \in 1 .. k + 1 /\ k + 1 <= Max(s)
          BY <3>1, <5>1
        <5> QED
          BY <5>2
      <4>2. /\ s \ {k + 1} \in SUBSET (1 .. k + 1)
            /\ k + 1 \notin s \ {k + 1}
        OBVIOUS
      <4>3. g[s \ {k + 1}] = f[s \ {k + 1}]
        BY <4>2
      <4>4. g[s] = CutAt(f[s \ {k + 1}], stops[k + 1])
        BY <3>1
      <4> HIDE DEF g
      <4> QED
        BY <3>1, <4>1, <4>3, <4>4
    <3>2. CASE k + 1 \notin s
      <4>1. s \in SUBSET (1 .. k)
        BY <3>2
      <4>2. g[s] = f[s]
        BY <3>2
      <4>3. CASE s = {}
        BY <2>1, <4>1, <4>2, <4>3
      <4>4. CASE s # {}
        <5>1. s \ {Max(s)} \in SUBSET (1 .. k + 1) /\ k + 1 \notin s \ {Max(s)}
          BY <3>2
        <5>2. g[s \ {Max(s)}] = f[s \ {Max(s)}]
          BY <5>1
        <5>3. f[s] = Body(f, s)
          BY <2>1, <4>1
        <5> HIDE DEF g
        <5> QED
          BY <4>2, <4>4, <5>2, <5>3
      <4> QED
        BY <4>3, <4>4
    <3> QED
      BY <3>1, <3>2
  <2> HIDE DEF g, Body
  <2> QED
    BY <2>2
<1>3. n \in T
  <2> HIDE DEF T
  <2> QED
    BY <1>1, <1>2, AllNumbers
<1>4. PICK f : \A s \in SUBSET (1 .. n) : f[s] = Body(f, s)
  BY <1>3
<1> DEFINE iter == CHOOSE g : g = [s \in SUBSET (1 .. n) |-> Body(g, s)]
<1>5. iter = [s \in SUBSET (1 .. n) |-> Body(iter, s)]
  <2> DEFINE g == [s \in SUBSET (1 .. n) |-> f[s]]
  <2>1. \A s \in SUBSET (1 .. n) : s \ {Max(s)} \in SUBSET (1 .. n)
    OBVIOUS
  <2>2. \A s \in SUBSET (1 .. n) : Body(g, s) = Body(f, s)
    BY <2>1
  <2>3. g = [s \in SUBSET (1 .. n) |-> Body(g, s)]
    <3> HIDE DEF Body
    <3> QED
      BY <1>4, <2>2
  <2>4. \E h : h = [s \in SUBSET (1 .. n) |-> Body(h, s)]
    <3> HIDE DEF Body, g
    <3> QED
      BY <2>3
  <2> HIDE DEF Body
  <2> QED
    BY <2>4
<1>6. CutAll(text, stops) = iter[1 .. n]
  BY DEF CutAll, FoldLeft, MapThenFoldSet
<1> HIDE DEF iter
<1>7. iter[1 .. 0] = text
  <2>1. 1 .. 0 = {} /\ 1 .. 0 \in SUBSET (1 .. n)
    OBVIOUS
  <2> QED
    BY <1>5, <2>1
<1>8. ASSUME NEW k \in 1 .. n
      PROVE  iter[1 .. k] = CutAt(iter[1 .. k - 1], stops[k])
  <2>1. 1 .. k \in SUBSET (1 .. n) /\ k \in 1 .. k /\ k \in Nat /\ 1 .. k # {}
    OBVIOUS
  <2>2. Max(1 .. k) = k
    <3>1. Max(1 .. k) \in 1 .. k /\ \A m \in 1 .. k : m <= Max(1 .. k)
      BY <2>1, MaxIs
    <3> QED
      BY <2>1, <3>1
  <2>3. (1 .. k) \ {k} = 1 .. k - 1
    OBVIOUS
  <2>4. iter[1 .. k] = Body(iter, 1 .. k)
    <3> HIDE DEF Body
    <3> QED
      BY <1>5, <2>1
  <2> QED
    BY <2>1, <2>2, <2>3, <2>4
<1> DEFINE left == [k \in 0 .. n |-> iter[1 .. k]]
<1>9. left[0] = text /\ left[n] = iter[1 .. n]
  BY <1>7
<1>10. \A k \in 1 .. n : left[k] = CutAt(left[k - 1], stops[k])
  <2> TAKE k \in 1 .. n
  <2>1. k \in 0 .. n /\ k - 1 \in 0 .. n
    OBVIOUS
  <2> QED
    BY <1>8, <2>1
<1> HIDE DEF left
<1> QED
  BY <1>6, <1>9, <1>10 DEF Cutting

(* What is left after all stops has none of them, and was cut at one. *)
LEMMA CutAtStops ==
  ASSUME NEW S, NEW text \in Seq(S), NEW stops \in Seq(Seq(S))
  PROVE  LET cut == CutAll(text, stops)
         IN  /\ \A j \in DOMAIN stops : ~HasTerm(cut, stops[j])
             /\ \/ cut = text
                \/ \E j \in DOMAIN stops : stops[j] # <<>> /\ IsPrefix(cut \o stops[j], text)
<1> DEFINE n == Len(stops)
<1>1. n \in Nat /\ DOMAIN stops = 1 .. n /\ \A k \in 1 .. n : stops[k] \in Seq(S)
  BY ElementOfSeq
<1> HIDE DEF n
<1>a. PICK left : Cutting(left, n, text, stops)
  BY <1>1, CutsMade
<1>2. /\ left[0] = text
      /\ \A k \in 1 .. n : left[k] = CutAt(left[k - 1], stops[k])
      /\ CutAll(text, stops) = left[n]
  BY <1>a DEF Cutting
<1> DEFINE Done(k) ==
             /\ left[k] \in Seq(S)
             /\ IsPrefix(left[k], text)
             /\ \A j \in 1 .. k : ~HasTerm(left[k], stops[j])
             /\ \/ left[k] = text
                \/ \E j \in 1 .. k : stops[j] # <<>> /\ IsPrefix(left[k] \o stops[j], text)
           T == {k \in Nat : k <= n => Done(k)}
<1>3. 0 \in T
  <2>1. Len(text) \in Nat /\ IsPrefix(text, text)
    BY PrefixIs
  <2> QED
    BY <1>2, <2>1
<1>4. \A k \in Nat : k \in T => k + 1 \in T
  <2> SUFFICES ASSUME NEW k \in Nat, Done(k), k + 1 <= n
               PROVE  Done(k + 1)
    <3> HIDE DEF Done
    <3>1. \A k \in Nat : k + 1 <= n => k <= n
      BY <1>1
    <3> QED
      BY <3>1
  <2> DEFINE s == left[k]
             term == stops[k + 1]
             t == left[k + 1]
  <2>1. k + 1 \in 1 .. n /\ (k + 1) - 1 = k
    BY <1>1
  <2>2. t = CutAt(s, term) /\ s \in Seq(S) /\ term \in Seq(S)
    BY <1>1, <1>2, <2>1
  <2>3. /\ t \in Seq(S) /\ IsPrefix(t, s) /\ ~HasTerm(t, term)
        /\ t = s \/ (term # <<>> /\ IsPrefix(t \o term, s))
    <3> HIDE DEF s, t, term
    <3> QED
      BY <2>2, CutIs
  <2>4. IsPrefix(t, text)
    <3>1. IsPrefix(s, text)
      OBVIOUS
    <3> HIDE DEF s, t, term
    <3> QED
      BY <2>2, <2>3, <3>1, PrefixOfPrefix
  <2>5. \A j \in 1 .. k + 1 : ~HasTerm(t, stops[j])
    <3> TAKE j \in 1 .. k + 1
    <3>1. CASE j = k + 1
      BY <2>3, <3>1
    <3>2. CASE j # k + 1
      <4>1. j \in 1 .. k /\ stops[j] \in Seq(S)
        BY <1>1, <2>1, <3>2
      <4>2. ~HasTerm(s, stops[j])
        BY <4>1
      <4> HIDE DEF s, t, term
      <4> QED
        BY <2>2, <2>3, <4>1, <4>2, HasTermOfPrefix
    <3> QED
      BY <3>1, <3>2
  <2>6. t = text \/ \E j \in 1 .. k + 1 : stops[j] # <<>> /\ IsPrefix(t \o stops[j], text)
    <3>1. CASE t = s
      <4>1. s = text \/ \E j \in 1 .. k : stops[j] # <<>> /\ IsPrefix(s \o stops[j], text)
        OBVIOUS
      <4>2. \A j \in 1 .. k : j \in 1 .. k + 1
        OBVIOUS
      <4> HIDE DEF s, t
      <4> QED
        BY <3>1, <4>1, <4>2
    <3>2. CASE term # <<>> /\ IsPrefix(t \o term, s)
      <4>1. IsPrefix(s, text) /\ k + 1 \in 1 .. k + 1
        OBVIOUS
      <4>2. IsPrefix(t \o term, text)
        <5> HIDE DEF s, t, term
        <5>1. t \o term \in Seq(S)
          BY <2>2, <2>3
        <5> QED
          BY <2>2, <3>2, <4>1, <5>1, PrefixOfPrefix
      <4> QED
        BY <3>2, <4>1, <4>2
    <3> QED
      BY <2>3, <3>1, <3>2
  <2> QED
    BY <2>3, <2>4, <2>5, <2>6
<1>5. n \in T
  <2> HIDE DEF T
  <2> QED
    BY <1>1, <1>3, <1>4, AllNumbers
<1>6. Done(n)
  BY <1>1, <1>5
<1> DEFINE cut == CutAll(text, stops)
<1>7. cut = left[n]
  BY <1>2
<1> HIDE DEF cut
<1>8. /\ \A j \in DOMAIN stops : ~HasTerm(cut, stops[j])
      /\ \/ cut = text
         \/ \E j \in DOMAIN stops : stops[j] # <<>> /\ IsPrefix(cut \o stops[j], text)
  BY <1>1, <1>6, <1>7
<1> QED
  BY <1>8 DEF cut

(* An answer is cut where a stop of its own request begins, and no stop is *)
(* left in it (pocket_network.py:624-635).                                 *)
LEMMA InvCut == Inv => AnswerCutAtStop
<1> SUFFICES ASSUME Inv, Evaluated, ~Pairs, NEW i \in DOMAIN values
             PROVE  LET stops == ToSet(prompts[i].stop) IN
                    /\ \A term \in stops : ~HasTerm(values[i], term)
                    /\ \/ values[i] = responses[i]
                       \/ \E term \in stops \ {<<>>} : IsPrefix(values[i] \o term, responses[i])
  BY DEF AnswerCutAtStop
<1>1. PromptsMade /\ ResponsesMade /\ ValuesMade /\ task \in Tasks /\ i \in 1 .. Size
  BY DEF Inv, Evaluated, ValuesMade
<1> DEFINE text == responses[i]
           stops == prompts[i].stop
<1>2. text \in Seq(Symbols)
  BY <1>1, TextsAssumption DEF ResponsesMade
<1>3. stops \in Seq(Seq(Symbols))
  <2>1. stops = Append(task.args.until, Eos)
    BY <1>1, PromptFields DEF Asked, TextPrompt, Stops
  <2>2. task.args.until \in Seq(Seq(Symbols)) /\ Eos \in Seq(Symbols)
    BY <1>1, TasksAssumption, TextsAssumption DEF Tasks
  <2> HIDE DEF stops
  <2> QED
    BY <2>1, <2>2, AppendProperties
<1>4. values[i] = CutAll(text, stops)
  BY <1>1 DEF ValuesMade, TextValue, CutAll
<1> HIDE DEF text, stops
<1>5. /\ \A j \in DOMAIN stops : ~HasTerm(values[i], stops[j])
      /\ \/ values[i] = text
         \/ \E j \in DOMAIN stops : stops[j] # <<>> /\ IsPrefix(values[i] \o stops[j], text)
  BY <1>2, <1>3, <1>4, CutAtStops
<1> QED
  BY <1>5 DEF ToSet, text, stops

(* No stop is left in an answer, which is whole or cut where one begins:   *)
(* not always the first of them, as the cut at one stop may take away the  *)
(* end of another that begins before it (pocket_network.py:624-635).       *)
THEOREM AnswersCutAtStops == Spec => []AnswerCutAtStop
BY InvAlways, InvCut, PTL
=============================================================================
