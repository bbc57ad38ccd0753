-------------------------- MODULE LeaderboardProofs --------------------------
(***************************************************************************)
(* What the leaderboard shows of the nodes, for any metrics, buffers and   *)
(* order of the nodes.                                                     *)
(***************************************************************************)
EXTENDS Leaderboard, FiniteSetTheorems, SequenceTheorems, TLAPS

-----------------------------------------------------------------------------
(***************************************************************************)
(* Induction, by the least number or the least set that a claim fails for. *)
(***************************************************************************)
LEMMA LeastNumber ==
  ASSUME NEW T, T \subseteq Nat, T # {}
  PROVE  \E n \in T : \A m \in T : n <= m
<1> DEFINE R == {ss \in Nat \X Nat : ss[1] < ss[2]}
<1>1. IsWellFoundedOn(R, Nat)
  BY NatLessThanWellFounded DEF OpToRel
<1>2. \A m, n \in Nat : m < n => <<m, n>> \in R
  OBVIOUS
<1> HIDE DEF R
<1>3. PICK n \in T : \A m \in T : ~ (<<m, n>> \in R)
  BY <1>1, WFMin
<1>4. n \in Nat /\ \A m \in T : m \in Nat /\ ~ (m < n)
  BY <1>2, <1>3
<1> QED
  BY <1>4

(* A set of numbers that has 0, and n + 1 if it has n, has every number.    *)
LEMMA AllNumbers ==
  ASSUME NEW T, 0 \in T, \A n \in Nat : n \in T => n + 1 \in T
  PROVE  Nat \subseteq T
<1> SUFFICES ASSUME Nat \ T # {}
             PROVE  FALSE
  OBVIOUS
<1>1. PICK n \in Nat \ T : \A m \in Nat \ T : n <= m
  BY LeastNumber
<1> QED
  BY <1>1

(* A collection that has a subset if it has all that are one element       *)
(* smaller has every subset.                                               *)
LEMMA AllSubsets ==
  ASSUME NEW U, IsFiniteSet(U), NEW G,
         \A s \in SUBSET U : (\A x \in s : s \ {x} \in G) => s \in G
  PROVE  SUBSET U \subseteq G
<1> DEFINE B == {s \in SUBSET U : s \notin G}
           T == {Cardinality(s) : s \in B}
<1> SUFFICES ASSUME B # {}
             PROVE  FALSE
  OBVIOUS
<1>1. \A s \in B : IsFiniteSet(s) /\ Cardinality(s) \in Nat
  <2> TAKE s \in B
  <2>1. s \subseteq U
    OBVIOUS
  <2> QED
    BY <2>1, FS_Subset, FS_CardinalityType
<1>2. T \subseteq Nat /\ T # {}
  BY <1>1
<1>3. PICK n \in T : \A m \in T : n <= m
  <2> HIDE DEF T
  <2> QED
    BY <1>2, LeastNumber
<1>4. PICK s \in B : n = Cardinality(s)
  OBVIOUS
<1>5. \A x \in s : s \ {x} \in G
  <2> SUFFICES ASSUME NEW x \in s, s \ {x} \notin G
               PROVE  FALSE
    OBVIOUS
  <2>1. s \ {x} \in B
    OBVIOUS
  <2>2. Cardinality(s \ {x}) \in T
    BY <2>1
  <2>3. Cardinality(s \ {x}) = Cardinality(s) - 1
    BY <1>1, FS_RemoveElement
  <2>4. Cardinality(s) \in Nat /\ n <= Cardinality(s \ {x})
    BY <1>1, <1>3, <2>2
  <2> QED
    BY <1>4, <2>3, <2>4
<1> QED
  BY <1>5

-----------------------------------------------------------------------------
(***************************************************************************)
(* Sums over finite sets.                                                  *)
(***************************************************************************)
\* g sums f over each subset of S, in the order of the fold.
Summing(g, f, S) ==
  g = [s \in SUBSET S |->
        IF s = {} THEN 0 ELSE f[CHOOSE x \in s : TRUE] + g[s \ {CHOOSE x \in s : TRUE}]]

(* Two ways to sum the subsets agree on the subsets of both.               *)
LEMMA SummingUnique ==
  ASSUME NEW f, NEW S, NEW T, IsFiniteSet(S), S \subseteq T,
         NEW g, NEW h, Summing(g, f, S), Summing(h, f, T)
  PROVE  g[S] = h[S]
<1> DEFINE G == {s \in SUBSET S : g[s] = h[s]}
<1>1. \A s \in SUBSET S : (\A x \in s : s \ {x} \in G) => s \in G
  <2> SUFFICES ASSUME NEW s \in SUBSET S, \A x \in s : g[s \ {x}] = h[s \ {x}]
               PROVE  g[s] = h[s]
    OBVIOUS
  <2> DEFINE c == CHOOSE x \in s : TRUE
  <2>1. g[s] = IF s = {} THEN 0 ELSE f[c] + g[s \ {c}]
    BY DEF Summing
  <2>2. s \in SUBSET T
    OBVIOUS
  <2>3. h[s] = IF s = {} THEN 0 ELSE f[c] + h[s \ {c}]
    BY <2>2 DEF Summing
  <2>4. s # {} => c \in s
    OBVIOUS
  <2> HIDE DEF c
  <2> QED
    BY <2>1, <2>3, <2>4
<1> HIDE DEF G
<1>2. SUBSET S \subseteq G
  BY <1>1, AllSubsets
<1> QED
  BY <1>2 DEF G

(* There is a way to sum the subsets of a finite set.                      *)
LEMMA SummingExists ==
  ASSUME NEW f, NEW S, IsFiniteSet(S)
  PROVE  \E g : Summing(g, f, S)
<1> DEFINE c(s) == CHOOSE x \in s : TRUE
           Body(g, s) == IF s = {} THEN 0 ELSE f[c(s)] + g[s \ {c(s)}]
           Small(k) == {s \in SUBSET S : Cardinality(s) <= k}
           T == {k \in Nat : \E g : \A s \in Small(k) : g[s] = Body(g, s)}
<1>0. \A s \in SUBSET S : /\ IsFiniteSet(s) /\ Cardinality(s) \in Nat
                          /\ Cardinality(s) <= Cardinality(S)
                          /\ Cardinality(s) = 0 <=> s = {}
                          /\ s # {} => /\ s \ {c(s)} \in SUBSET S
                                       /\ Cardinality(s \ {c(s)}) = Cardinality(s) - 1
  <2> TAKE s \in SUBSET S
  <2>1. IsFiniteSet(s) /\ Cardinality(s) \in Nat /\ Cardinality(s) <= Cardinality(S)
    BY FS_Subset, FS_CardinalityType
  <2>2. Cardinality(s) = 0 <=> s = {}
    BY <2>1, FS_EmptySet
  <2>3. s # {} => c(s) \in s
    OBVIOUS
  <2> HIDE DEF c
  <2> QED
    BY <2>1, <2>2, <2>3, FS_RemoveElement
<1> HIDE DEF c
<1>1. 0 \in T
  <2> DEFINE g == [s \in SUBSET S |-> 0]
  <2>1. \A s \in Small(0) : s = {} /\ s \in SUBSET S
    <3> TAKE s \in Small(0)
    <3>1. s \in SUBSET S /\ Cardinality(s) <= 0
      OBVIOUS
    <3>2. Cardinality(s) \in Nat /\ (Cardinality(s) = 0 <=> s = {})
      BY <1>0, <3>1
    <3> QED
      BY <3>1, <3>2
  <2>2. \A s \in Small(0) : g[s] = Body(g, s)
    BY <2>1
  <2> HIDE DEF g, Body, Small
  <2> QED
    BY <2>2
<1>2. \A k \in Nat : k \in T => k + 1 \in T
  <2> SUFFICES ASSUME NEW k \in Nat, k \in T
               PROVE  k + 1 \in T
    OBVIOUS
  <2>1. PICK g : \A s \in Small(k) : g[s] = Body(g, s)
    <3> HIDE DEF Body, Small
    <3> QED
      OBVIOUS
  <2> DEFINE h == [s \in SUBSET S |-> IF Cardinality(s) <= k THEN g[s] ELSE Body(g, s)]
  <2>2. ASSUME NEW s \in Small(k + 1)
        PROVE  h[s] = Body(h, s)
    <3>1. s \in SUBSET S /\ Cardinality(s) <= k + 1
      OBVIOUS
    <3>2. h[s] = Body(g, s)
      <4> HIDE DEF Body
      <4> QED
        BY <2>1, <3>1
    <3>3. s # {} => h[s \ {c(s)}] = g[s \ {c(s)}]
      <4> HIDE DEF Body
      <4>1. s # {} => s \ {c(s)} \in SUBSET S /\ Cardinality(s \ {c(s)}) <= k
        BY <1>0, <3>1
      <4> QED
        BY <4>1
    <3> HIDE DEF h
    <3> QED
      BY <3>2, <3>3
  <2> HIDE DEF h, Body, Small
  <2> QED
    BY <2>2
<1>3. Cardinality(S) \in T
  <2> HIDE DEF T
  <2>1. Cardinality(S) \in Nat
    BY FS_CardinalityType
  <2> QED
    BY <1>1, <1>2, <2>1, AllNumbers
<1>4. PICK g : \A s \in SUBSET S : g[s] = Body(g, s)
  <2>1. PICK g : \A s \in Small(Cardinality(S)) : g[s] = Body(g, s)
    BY <1>3
  <2>2. \A s \in SUBSET S : s \in Small(Cardinality(S))
    BY <1>0
  <2> HIDE DEF Body, Small
  <2> QED
    BY <2>1, <2>2
<1> DEFINE h == [s \in SUBSET S |-> g[s]]
<1>5. \A s \in SUBSET S : h[s] = Body(h, s)
  BY <1>0, <1>4
<1>6. h = [s \in SUBSET S |-> Body(h, s)]
  <2> HIDE DEF Body
  <2> QED
    BY <1>5
<1> HIDE DEF h
<1> QED
  BY <1>6 DEF Summing, c

(* The sum over a set adds one element to the sum of the others.           *)
LEMMA SumStep ==
  ASSUME NEW f, NEW S, IsFiniteSet(S)
  PROVE  SumFunctionOnSet(f, S) =
           IF S = {} THEN 0
           ELSE f[CHOOSE x \in S : TRUE] + SumFunctionOnSet(f, S \ {CHOOSE x \in S : TRUE})
<1> DEFINE c == CHOOSE x \in S : TRUE
           R == S \ {c}
           Total(s) == CHOOSE g : Summing(g, f, s)
<1>1. \A s : SumFunctionOnSet(f, s) = Total(s)[s]
  BY DEF SumFunctionOnSet, FoldFunctionOnSet, MapThenFoldSet, Summing
<1>2. IsFiniteSet(R) /\ R \subseteq S
  BY FS_Subset
<1>3. Summing(Total(S), f, S) /\ Summing(Total(R), f, R)
  <2>1. (\E g : Summing(g, f, S)) /\ (\E g : Summing(g, f, R))
    BY <1>2, SummingExists
  <2> HIDE DEF R
  <2> QED
    BY <2>1
<1> HIDE DEF Total, R
<1>4. Total(R)[R] = Total(S)[R]
  BY <1>2, <1>3, SummingUnique
<1>5. Total(S)[S] = IF S = {} THEN 0 ELSE f[c] + Total(S)[R]
  BY <1>3 DEF Summing, R
<1> QED
  BY <1>1, <1>4, <1>5 DEF R

(* The sum over no elements is 0. *)
LEMMA SumOfNone ==
  ASSUME NEW f
  PROVE  SumFunctionOnSet(f, {}) = 0
BY SumStep, FS_EmptySet

(* A sum of naturals is a natural.                                         *)
LEMMA SumType ==
  ASSUME NEW f, NEW S, IsFiniteSet(S), \A x \in S : f[x] \in Nat
  PROVE  SumFunctionOnSet(f, S) \in Nat
<1> DEFINE G == {s \in SUBSET S : SumFunctionOnSet(f, s) \in Nat}
<1>1. \A s \in SUBSET S : (\A x \in s : s \ {x} \in G) => s \in G
  <2> SUFFICES ASSUME NEW s \in SUBSET S, \A x \in s : SumFunctionOnSet(f, s \ {x}) \in Nat
               PROVE  SumFunctionOnSet(f, s) \in Nat
    OBVIOUS
  <2> DEFINE c == CHOOSE x \in s : TRUE
  <2>1. IsFiniteSet(s)
    BY FS_Subset
  <2>2. SumFunctionOnSet(f, s) = IF s = {} THEN 0 ELSE f[c] + SumFunctionOnSet(f, s \ {c})
    BY <2>1, SumStep
  <2>3. s # {} => c \in s
    OBVIOUS
  <2> HIDE DEF c
  <2>4. s # {} => f[c] \in Nat /\ SumFunctionOnSet(f, s \ {c}) \in Nat
    BY <2>3
  <2> QED
    BY <2>2, <2>4
<1> HIDE DEF G
<1>2. SUBSET S \subseteq G
  BY <1>1, AllSubsets
<1> QED
  BY <1>2 DEF G

(* Any element may be the one that is added.                               *)
LEMMA SumWithout ==
  ASSUME NEW f, NEW S, IsFiniteSet(S), \A x \in S : f[x] \in Nat, NEW a \in S
  PROVE  SumFunctionOnSet(f, S) = f[a] + SumFunctionOnSet(f, S \ {a})
<1> DEFINE Sum(s) == SumFunctionOnSet(f, s)
           G == {s \in SUBSET S : \A x \in s : Sum(s) = f[x] + Sum(s \ {x})}
<1>1. \A s \in SUBSET S : (\A x \in s : s \ {x} \in G) => s \in G
  <2> SUFFICES ASSUME NEW s \in SUBSET S, \A x \in s : s \ {x} \in G, NEW x \in s
               PROVE  Sum(s) = f[x] + Sum(s \ {x})
    OBVIOUS
  <2> DEFINE c == CHOOSE y \in s : TRUE
  <2>1. c \in s /\ IsFiniteSet(s)
    BY FS_Subset
  <2>2. Sum(s) = f[c] + Sum(s \ {c})
    BY <2>1, SumStep
  <2> HIDE DEF c
  <2>3. CASE x = c
    BY <2>2, <2>3
  <2>4. CASE x # c
    <3> DEFINE R == (s \ {c}) \ {x}
    <3>1. R = (s \ {x}) \ {c} /\ x \in s \ {c} /\ c \in s \ {x}
      BY <2>1, <2>4
    <3>2. Sum(s \ {c}) = f[x] + Sum(R)
      BY <2>1, <3>1
    <3>3. Sum(s \ {x}) = f[c] + Sum(R)
      BY <3>1
    <3>4. f[x] \in Nat /\ f[c] \in Nat /\ Sum(R) \in Nat
      <4>1. R \subseteq S /\ IsFiniteSet(R)
        BY FS_Subset
      <4>2. Sum(R) \in Nat
        <5> HIDE DEF R
        <5> QED
          BY <4>1, SumType
      <4> QED
        BY <2>1, <4>2
    <3> HIDE DEF R, Sum
    <3> QED
      BY <2>2, <3>2, <3>3, <3>4
  <2> QED
    BY <2>3, <2>4
<1>2. SUBSET S \subseteq G
  <2> HIDE DEF G
  <2> QED
    BY <1>1, AllSubsets
<1> QED
  BY <1>2

(* Functions that agree on a set have one sum.                             *)
LEMMA SumSame ==
  ASSUME NEW f, NEW g, NEW S, IsFiniteSet(S), \A x \in S : f[x] = g[x]
  PROVE  SumFunctionOnSet(f, S) = SumFunctionOnSet(g, S)
<1> DEFINE G == {s \in SUBSET S : SumFunctionOnSet(f, s) = SumFunctionOnSet(g, s)}
<1>1. \A s \in SUBSET S : (\A x \in s : s \ {x} \in G) => s \in G
  <2> SUFFICES ASSUME NEW s \in SUBSET S,
                      \A x \in s : SumFunctionOnSet(f, s \ {x}) = SumFunctionOnSet(g, s \ {x})
               PROVE  SumFunctionOnSet(f, s) = SumFunctionOnSet(g, s)
    OBVIOUS
  <2> DEFINE c == CHOOSE x \in s : TRUE
  <2>1. IsFiniteSet(s)
    BY FS_Subset
  <2>2. /\ SumFunctionOnSet(f, s) = IF s = {} THEN 0 ELSE f[c] + SumFunctionOnSet(f, s \ {c})
        /\ SumFunctionOnSet(g, s) = IF s = {} THEN 0 ELSE g[c] + SumFunctionOnSet(g, s \ {c})
    BY <2>1, SumStep
  <2>3. s # {} => c \in s
    OBVIOUS
  <2> HIDE DEF c
  <2> QED
    BY <2>2, <2>3
<1> HIDE DEF G
<1>2. SUBSET S \subseteq G
  BY <1>1, AllSubsets
<1> QED
  BY <1>2 DEF G

(* The sum over two sets with nothing in common.                           *)
LEMMA SumUnion ==
  ASSUME NEW f, NEW A, NEW B, IsFiniteSet(A), IsFiniteSet(B), A \cap B = {},
         \A x \in A \cup B : f[x] \in Nat
  PROVE  SumFunctionOnSet(f, A \cup B) = SumFunctionOnSet(f, A) + SumFunctionOnSet(f, B)
<1> DEFINE Sum(s) == SumFunctionOnSet(f, s)
           G == {s \in SUBSET B : Sum(A \cup s) = Sum(A) + Sum(s)}
<1>1. Sum(A) \in Nat
  BY SumType
<1>2. \A s \in SUBSET B : (\A x \in s : s \ {x} \in G) => s \in G
  <2> SUFFICES ASSUME NEW s \in SUBSET B, \A x \in s : s \ {x} \in G
               PROVE  Sum(A \cup s) = Sum(A) + Sum(s)
    OBVIOUS
  <2>1. IsFiniteSet(s) /\ IsFiniteSet(A \cup s)
    BY FS_Subset, FS_Union
  <2>2. CASE s = {}
    <3>1. A \cup s = A /\ Sum(s) = 0
      BY <2>2, SumOfNone
    <3>2. Sum(A \cup s) = Sum(A)
      BY <3>1
    <3> HIDE DEF Sum
    <3>3. Sum(A) = Sum(A) + 0
      BY <1>1
    <3> QED
      BY <3>1, <3>2, <3>3
  <2>3. CASE s # {}
    <3>1. PICK x : x \in s
      BY <2>3
    <3>2. (A \cup s) \ {x} = A \cup (s \ {x}) /\ x \in A \cup s
      BY <3>1
    <3>3. Sum(A \cup (s \ {x})) = Sum(A) + Sum(s \ {x})
      BY <3>1
    <3>4. Sum(A \cup s) = f[x] + Sum(A \cup (s \ {x}))
      <4> DEFINE U == A \cup s
      <4>1. IsFiniteSet(U) /\ x \in U /\ \A y \in U : f[y] \in Nat
        BY <2>1, <3>2
      <4> HIDE DEF U
      <4>2. SumFunctionOnSet(f, U) = f[x] + SumFunctionOnSet(f, U \ {x})
        BY <4>1, SumWithout
      <4> QED
        BY <3>2, <4>2 DEF U
    <3>5. Sum(s) = f[x] + Sum(s \ {x})
      <4>1. \A y \in s : f[y] \in Nat
        OBVIOUS
      <4> QED
        BY <2>1, <3>1, <4>1, SumWithout
    <3>6. f[x] \in Nat /\ Sum(s \ {x}) \in Nat
      <4> DEFINE R == s \ {x}
      <4>1. IsFiniteSet(R) /\ \A y \in R : f[y] \in Nat
        BY <2>1, FS_Subset
      <4> HIDE DEF R
      <4>2. SumFunctionOnSet(f, R) \in Nat
        BY <4>1, SumType
      <4> QED
        BY <3>1, <4>2 DEF R
    <3> HIDE DEF Sum
    <3> QED
      BY <1>1, <3>3, <3>4, <3>5, <3>6
  <2> QED
    BY <2>2, <2>3
<1>3. SUBSET B \subseteq G
  <2> HIDE DEF G
  <2> QED
    BY <1>2, AllSubsets
<1> QED
  BY <1>3

(* Only what is not zero counts.                                           *)
LEMMA SumOfPart ==
  ASSUME NEW f, NEW A, NEW S, IsFiniteSet(S), A \subseteq S,
         \A x \in A : f[x] \in Nat, \A x \in S \ A : f[x] = 0
  PROVE  SumFunctionOnSet(f, A) = SumFunctionOnSet(f, S)
<1> DEFINE B == S \ A
           zero == [x \in B |-> 0]
           G == {s \in SUBSET B : SumFunctionOnSet(f, s) = 0}
<1>1. IsFiniteSet(A) /\ IsFiniteSet(B) /\ A \cap B = {} /\ A \cup B = S
  BY FS_Subset
<1>2. \A s \in SUBSET B : (\A x \in s : s \ {x} \in G) => s \in G
  <2> SUFFICES ASSUME NEW s \in SUBSET B, \A x \in s : SumFunctionOnSet(f, s \ {x}) = 0
               PROVE  SumFunctionOnSet(f, s) = 0
    OBVIOUS
  <2> DEFINE c == CHOOSE x \in s : TRUE
  <2>1. IsFiniteSet(s)
    BY <1>1, FS_Subset
  <2>2. SumFunctionOnSet(f, s) = IF s = {} THEN 0 ELSE f[c] + SumFunctionOnSet(f, s \ {c})
    BY <2>1, SumStep
  <2>3. s # {} => c \in s /\ f[c] = 0
    OBVIOUS
  <2> HIDE DEF c
  <2> QED
    BY <2>2, <2>3
<1>3. SumFunctionOnSet(f, B) = 0
  <2> HIDE DEF G, B
  <2>1. SUBSET B \subseteq G
    BY <1>1, <1>2, AllSubsets
  <2> QED
    BY <2>1 DEF G
<1>4. \A x \in A \cup B : f[x] \in Nat
  OBVIOUS
<1>5. SumFunctionOnSet(f, A) \in Nat
  BY <1>1, SumType
<1> HIDE DEF B
<1>6. SumFunctionOnSet(f, A \cup B) = SumFunctionOnSet(f, A) + SumFunctionOnSet(f, B)
  BY <1>1, <1>4, SumUnion
<1> QED
  <2>1. SumFunctionOnSet(f, A) = SumFunctionOnSet(f, A) + 0
    BY <1>5
  <2> QED
    BY <1>1, <1>3, <1>6, <2>1

(* The sum over one element is its number. *)
LEMMA SumOfOne ==
  ASSUME NEW f, NEW a, f[a] \in Nat
  PROVE  SumFunctionOnSet(f, {a}) = f[a]
<1>1. IsFiniteSet({a}) /\ a \in {a} /\ {a} \ {a} = {}
  BY FS_Singleton
<1>2. SumFunctionOnSet(f, {a}) = f[a] + SumFunctionOnSet(f, {a} \ {a})
  <2>1. \A x \in {a} : f[x] \in Nat
    OBVIOUS
  <2> QED
    BY <1>1, <2>1, SumWithout
<1>3. SumFunctionOnSet(f, {a} \ {a}) = 0
  BY <1>1, SumOfNone
<1> QED
  BY <1>2, <1>3

-----------------------------------------------------------------------------
(***************************************************************************)
(* What is computed of one metric.                                         *)
(***************************************************************************)
Row == [Tasks -> Nat \cup {Absent}]

Flags == {"unset", "yes", "no"}

\* What the samples of each task add to the average.
Means(row) == [t \in Tasks |-> Mean(t) * Weights(row)[t]]

(* A sequence has finitely many elements. *)
LEMMA FiniteRange ==
  ASSUME NEW S, NEW s \in Seq(S)
  PROVE  IsFiniteSet(ToSet(s))
<1>1. DOMAIN s = 1 .. Len(s) /\ Len(s) \in Nat
  OBVIOUS
<1>2. s = [i \in 1 .. Len(s) |-> s[i]]
  OBVIOUS
<1>3. s \in Surjection(1 .. Len(s), ToSet(s))
  BY <1>1, <1>2 DEF Surjection, ToSet
<1>4. IsFiniteSet(1 .. Len(s))
  BY <1>1, FS_Interval
<1> QED
  BY <1>3, <1>4, FS_Surjection

(* The tasks of the metrics: finitely many, each of one metric.            *)
LEMMA TasksAre ==
  /\ IsFiniteSet(Tasks) /\ IsFiniteSet(ToSet(Subtasks)) /\ ToSet(Subtasks) \subseteq Tasks
  /\ Len(Subtasks) \in Nat \ {0}
  /\ \A m \in ToSet(Metrics) : TasksOf(m) \subseteq Tasks /\ IsFiniteSet(TasksOf(m))
  /\ \A m, l \in ToSet(Metrics) : m # l => TasksOf(m) \cap TasksOf(l) = {}
  /\ UNION {TasksOf(m) : m \in ToSet(Metrics)} = Tasks
<1>1. IsFiniteSet(ToSet(Subtasks)) /\ IsFiniteSet(ToSet(Metrics))
  BY MetricsAssumption, FiniteRange
<1>2. IsFiniteSet(ToSet(Metrics) \ {"mmlu"})
  BY <1>1, FS_RemoveElement
<1>3. IsFiniteSet(Tasks)
  BY <1>1, <1>2, FS_Union DEF Tasks
<1>4. Len(Subtasks) \in Nat \ {0}
  BY MetricsAssumption, EmptySeq
<1> DEFINE M == ToSet(Metrics)
           B == ToSet(Subtasks)
<1>5. "mmlu" \in M /\ M \cap B = {}
  BY MetricsAssumption
<1>6. Tasks = (M \ {"mmlu"}) \cup B
  BY DEF Tasks
<1>7. \A m \in M : TasksOf(m) = IF m = "mmlu" THEN B ELSE {m}
  BY DEF TasksOf
<1> HIDE DEF M, B
<1>8. \A m \in M : TasksOf(m) \subseteq Tasks
  BY <1>6, <1>7
<1>9. \A m \in M : IsFiniteSet(TasksOf(m))
  BY <1>3, <1>8, FS_Subset
<1>10. \A m, l \in M : m # l => TasksOf(m) \cap TasksOf(l) = {}
  BY <1>5, <1>7
<1>11. UNION {TasksOf(m) : m \in M} = Tasks
  <2>1. ASSUME NEW t \in Tasks
        PROVE  \E m \in M : t \in TasksOf(m)
    <3>1. CASE t \in B
      BY <1>5, <1>7, <3>1
    <3>2. CASE t \notin B
      BY <1>6, <1>7, <3>2
    <3> QED
      BY <3>1, <3>2
  <2> QED
    BY <1>8, <2>1
<1> QED
  BY <1>1, <1>3, <1>4, <1>6, <1>8, <1>9, <1>10, <1>11 DEF M, B

(* What is read and averaged of a task are numbers, and 0 for a task without samples. *)
LEMMA Numbers ==
  ASSUME NEW row \in Row, NEW t \in Tasks
  PROVE  /\ row[t] \in Int /\ (row[t] # Absent => row[t] \in Nat)
         /\ Mean(t) \in Nat /\ ErrorRate(t) \in Nat
         /\ Samples(row)[t] \in Nat /\ Weights(row)[t] \in Nat
         /\ Means(row)[t] \in Nat /\ SampleErrors(row)[t] \in Nat
         /\ ~(row[t] > 0) => /\ Samples(row)[t] = 0 /\ Weights(row)[t] = 0
                             /\ Means(row)[t] = 0 /\ SampleErrors(row)[t] = 0
         /\ row[t] > 0 => Samples(row)[t] = row[t]
<1>1. row[t] \in Nat \cup {-1}
  BY DEF Row, Absent
<1>2. Mean(t) \in Nat /\ ErrorRate(t) \in Nat
  BY BuffersAssumption
<1>3. Len(Subtasks) \in Nat
  BY TasksAre
<1>4. \A a, b \in Nat : a * b \in Nat
  OBVIOUS
<1>5. \A a \in Nat : 0 * a = 0 /\ a * 0 = 0
  OBVIOUS
<1>6. Samples(row)[t] \in Nat /\ (~(row[t] > 0) => Samples(row)[t] = 0)
      /\ (row[t] > 0 => Samples(row)[t] = row[t])
  BY <1>1 DEF Samples, Absent
<1> DEFINE w == IF t \in ToSet(Subtasks) THEN 1 ELSE Len(Subtasks)
<1>7. w \in Nat
  BY <1>3
<1>8. /\ Weights(row)[t] = Samples(row)[t] * w
      /\ Means(row)[t] = Mean(t) * Weights(row)[t]
      /\ SampleErrors(row)[t] = Samples(row)[t] * ErrorRate(t)
  BY DEF Weights, Means, SampleErrors
<1> HIDE DEF w
<1>9. Weights(row)[t] \in Nat /\ (~(row[t] > 0) => Weights(row)[t] = 0)
  BY <1>4, <1>5, <1>6, <1>7, <1>8
<1>10. /\ Means(row)[t] \in Nat /\ SampleErrors(row)[t] \in Nat
       /\ ~(row[t] > 0) => Means(row)[t] = 0 /\ SampleErrors(row)[t] = 0
  BY <1>2, <1>4, <1>5, <1>6, <1>8, <1>9
<1> QED
  BY <1>1, <1>2, <1>6, <1>9, <1>10 DEF Absent

(* What is added up over the tasks with samples is the sum over all.       *)
LEMMA HaveAll ==
  ASSUME NEW row \in Row, NEW T, T \subseteq Tasks
  PROVE  /\ SumFunctionOnSet(row, Have(row, T)) = SumFunctionOnSet(Samples(row), T)
         /\ SumFunctionOnSet(Errors(row), Have(row, T)) = SumFunctionOnSet(SampleErrors(row), T)
<1> DEFINE H == Have(row, T)
<1>1. IsFiniteSet(T) /\ IsFiniteSet(H) /\ H \subseteq T
  BY TasksAre, FS_Subset DEF Have
<1>2. /\ \A t \in H : row[t] = Samples(row)[t] /\ Errors(row)[t] = SampleErrors(row)[t]
      /\ \A t \in T : Samples(row)[t] \in Nat /\ SampleErrors(row)[t] \in Nat
      /\ \A t \in T \ H : Samples(row)[t] = 0 /\ SampleErrors(row)[t] = 0
  <2>1. \A t \in H : t \in Tasks /\ row[t] > 0
    BY DEF Have
  <2>2. \A t \in T \ H : t \in Tasks /\ ~(row[t] > 0)
    BY DEF Have
  <2>3. \A t \in H : row[t] = Samples(row)[t]
    BY <2>1, Numbers
  <2>4. \A t \in H : Errors(row)[t] = SampleErrors(row)[t]
    BY <2>1, <2>3 DEF Errors, SampleErrors
  <2> QED
    BY <2>2, <2>3, <2>4, Numbers
<1> HIDE DEF H
<1>3. /\ SumFunctionOnSet(row, H) = SumFunctionOnSet(Samples(row), H)
      /\ SumFunctionOnSet(Errors(row), H) = SumFunctionOnSet(SampleErrors(row), H)
  BY <1>1, <1>2, SumSame
<1>4. /\ SumFunctionOnSet(Samples(row), H) = SumFunctionOnSet(Samples(row), T)
      /\ SumFunctionOnSet(SampleErrors(row), H) = SumFunctionOnSet(SampleErrors(row), T)
  BY <1>1, <1>2, SumOfPart
<1> QED
  BY <1>3, <1>4 DEF H

(* The subtasks are all read only if each has a row.                       *)
LEMMA AllRead ==
  ASSUME NEW row \in Row, SubtasksRead(row) = Subtasks
  PROVE  \A t \in ToSet(Subtasks) : row[t] # Absent
<1> DEFINE missing == {i \in DOMAIN Subtasks : row[Subtasks[i]] = Absent}
<1>1. CASE missing = {}
  BY <1>1 DEF ToSet
<1>2. CASE missing # {}
  <2>1. Subtasks \in Seq(STRING) /\ DOMAIN Subtasks = 1 .. Len(Subtasks) /\ Len(Subtasks) \in Nat
    BY MetricsAssumption
  <2>2. missing \subseteq 1 .. Len(Subtasks)
    BY <2>1
  <2>3. Min(missing) \in missing
    <3>1. missing \subseteq Nat
      BY <2>2
    <3> HIDE DEF missing
    <3> QED
      BY <1>2, <3>1, LeastNumber DEF Min
  <2>4. SubtasksRead(row) = SubSeq(Subtasks, 1, Min(missing) - 1)
    BY <1>2 DEF SubtasksRead
  <2> HIDE DEF missing
  <2> DEFINE q == Min(missing) - 1
  <2>5. q \in Nat /\ q < Len(Subtasks)
    <3>1. Min(missing) \in 1 .. Len(Subtasks)
      BY <2>2, <2>3
    <3> QED
      BY <2>1, <3>1
  <2> HIDE DEF q
  <2>6. Len(SubSeq(Subtasks, 1, q)) = q
    <3>1. \A j \in 1 .. q : Subtasks[j] \in STRING
      BY <2>1, <2>5, ElementOfSeq
    <3>2. Len(SubSeq(Subtasks, 1, q)) = IF 1 <= q THEN q - 1 + 1 ELSE 0
      BY <2>5, <3>1, SubSeqProperties
    <3> QED
      BY <2>5, <3>2
  <2>7. Len(Subtasks) = q
    BY <2>4, <2>6 DEF q
  <2> QED
    BY <2>5, <2>7
<1> QED
  BY <1>1, <1>2

(* The loop reads the subtasks that each, and all before, have a row.      *)
LEMMA ReadIs ==
  ASSUME NEW row \in Row
  PROVE  ToSet(SubtasksRead(row)) = SubtasksMet(row) /\ SubtasksMet(row) \subseteq Tasks
<1> DEFINE missing == {i \in DOMAIN Subtasks : row[Subtasks[i]] = Absent}
           met == {k \in DOMAIN Subtasks : \A j \in 1 .. k : row[Subtasks[j]] # Absent}
           n == Len(Subtasks)
<1>1. Subtasks \in Seq(STRING) /\ DOMAIN Subtasks = 1 .. n /\ n \in Nat
  BY MetricsAssumption
<1>2. SubtasksMet(row) = {Subtasks[i] : i \in met} /\ SubtasksMet(row) \subseteq ToSet(Subtasks)
  BY DEF SubtasksMet, ToSet
<1>3. CASE missing = {}
  <2>1. SubtasksRead(row) = Subtasks
    BY <1>3 DEF SubtasksRead
  <2>2. \A k \in 1 .. n : \A j \in 1 .. k : j \in 1 .. n
    BY <1>1
  <2>3. met = DOMAIN Subtasks
    BY <1>1, <1>3, <2>2
  <2>4. ToSet(Subtasks) = {Subtasks[i] : i \in DOMAIN Subtasks}
    BY DEF ToSet
  <2> HIDE DEF met
  <2> QED
    BY <1>2, <2>1, <2>3, <2>4, TasksAre
<1>4. CASE missing # {}
  <2> DEFINE x == Min(missing)
             q == x - 1
  <2>1. SubtasksRead(row) = SubSeq(Subtasks, 1, q)
    BY <1>4 DEF SubtasksRead
  <2>2. x \in missing /\ \A y \in missing : x <= y
    <3>1. missing \subseteq Nat
      BY <1>1
    <3> HIDE DEF missing
    <3> QED
      BY <1>4, <3>1, LeastNumber DEF Min
  <2>3. x \in 1 .. n /\ row[Subtasks[x]] = Absent
    BY <1>1, <2>2
  <2>4. q \in Nat /\ q <= n
    BY <1>1, <2>3
  <2>5. met = 1 .. q
    <3>1. ASSUME NEW k \in met
          PROVE  k \in 1 .. q
      <4>1. k \in 1 .. n /\ x \notin 1 .. k
        BY <1>1, <2>3
      <4> HIDE DEF x
      <4>2. k < x
        BY <1>1, <2>3, <4>1
      <4> QED
        BY <1>1, <2>3, <4>1, <4>2
    <3>2. ASSUME NEW k \in 1 .. q
          PROVE  k \in met
      <4>1. k \in DOMAIN Subtasks
        BY <1>1, <2>4
      <4>2. ASSUME NEW j \in 1 .. k
            PROVE  row[Subtasks[j]] # Absent
        <5>1. j \in DOMAIN Subtasks /\ ~ (x <= j)
          BY <1>1, <2>3, <2>4
        <5> QED
          BY <2>2, <5>1
      <4> QED
        BY <4>1, <4>2
    <3> QED
      BY <3>1, <3>2
  <2> HIDE DEF x, q, met, missing
  <2>6. /\ Len(SubSeq(Subtasks, 1, q)) = q
        /\ \A i \in 1 .. q : SubSeq(Subtasks, 1, q)[i] = Subtasks[i]
    <3>1. \A j \in 1 .. q : Subtasks[j] \in STRING
      BY <1>1, <2>4, ElementOfSeq
    <3> QED
      BY <2>4, <3>1, SubSeqProperties
  <2>7. DOMAIN SubSeq(Subtasks, 1, q) = 1 .. q
    <3>1. SubSeq(Subtasks, 1, q) \in Seq(STRING)
      BY <1>1, <2>4
    <3> QED
      BY <2>6, <3>1
  <2>8. ToSet(SubSeq(Subtasks, 1, q)) = {Subtasks[i] : i \in 1 .. q}
    BY <2>6, <2>7 DEF ToSet
  <2> QED
    BY <1>2, <2>1, <2>5, <2>8, TasksAre
<1> QED
  BY <1>3, <1>4

\* What is known of what is computed of a metric.
Sums(row, m, c) ==
  /\ \A t \in TasksOf(m) : row[t] # Absent
  /\ c.weight = SumFunctionOnSet(Weights(row), TasksOf(m))
  /\ c.sum = SumFunctionOnSet(Means(row), TasksOf(m))
  /\ (\E t \in TasksOf(m) : Few(row[t])) => c.partial = "yes"

\* The tasks of which the requests are counted, shown or not.
ReadOf(row, m) == IF m = "mmlu" THEN SubtasksMet(row) ELSE {m}

Counts(row, m, c) ==
  /\ c.qos.requests = SumFunctionOnSet(Samples(row), ReadOf(row, m))
  /\ c.qos.errors = SumFunctionOnSet(SampleErrors(row), ReadOf(row, m))

(* The mmlu entry sums its subtasks with samples, when it has any. *)
LEMMA MmluIs ==
  ASSUME NEW row \in Row, NEW flag \in Flags
  PROVE  LET c == Mmlu(row, flag)
         IN  /\ c.partial \in {"yes", "no"} /\ c.missing \in BOOLEAN /\ c.weight \in Nat
             /\ Counts(row, "mmlu", c)
             /\ ~c.missing => Sums(row, "mmlu", c)
<1> DEFINE c == Mmlu(row, flag)
           s == SubtasksRead(row)
           T == ToSet(Subtasks)
           H(tasks) == Have(row, tasks)
<1>1. /\ c.partial \in {"yes", "no"} /\ c.missing \in BOOLEAN /\ (~c.missing => s = Subtasks)
      /\ c.weight = SumFunctionOnSet(row, Have(row, ToSet(s)))
      /\ c.sum = SumFunctionOnSet(Scores(row), Have(row, ToSet(s)))
      /\ c.qos = Qos(row, ToSet(s))
      /\ (\E i \in DOMAIN s : Few(row[s[i]])) => c.partial = "yes"
  BY DEF Mmlu
<1>2. T \subseteq Tasks /\ IsFiniteSet(T) /\ TasksOf("mmlu") = T
  BY TasksAre DEF TasksOf
<1>3. c.weight \in Nat /\ Counts(row, "mmlu", c)
  <2>1. ToSet(s) = SubtasksMet(row) /\ ToSet(s) \subseteq Tasks
    BY ReadIs
  <2> HIDE DEF s
  <2>2. /\ SumFunctionOnSet(row, Have(row, ToSet(s))) = SumFunctionOnSet(Samples(row), ToSet(s))
        /\ SumFunctionOnSet(Errors(row), Have(row, ToSet(s))) = SumFunctionOnSet(SampleErrors(row), ToSet(s))
    BY <2>1, HaveAll
  <2>3. IsFiniteSet(ToSet(s)) /\ \A t \in ToSet(s) : Samples(row)[t] \in Nat
    BY <2>1, TasksAre, FS_Subset, Numbers
  <2>4. SumFunctionOnSet(Samples(row), ToSet(s)) \in Nat
    BY <2>3, SumType
  <2>5. /\ c.qos.requests = SumFunctionOnSet(row, Have(row, ToSet(s)))
        /\ c.qos.errors = SumFunctionOnSet(Errors(row), Have(row, ToSet(s)))
    BY <1>1 DEF Qos
  <2> HIDE DEF c
  <2> QED
    BY <1>1, <2>1, <2>2, <2>4, <2>5 DEF Counts, ReadOf
<1>4. ASSUME ~c.missing
      PROVE  Sums(row, "mmlu", c)
  <2>1. s = Subtasks
    BY <1>1, <1>4
  <2>2. \A t \in T : row[t] # Absent
    BY <2>1, AllRead
  <2>3. SumFunctionOnSet(row, Have(row, T)) = SumFunctionOnSet(Samples(row), T)
    BY <1>2, HaveAll
  <2>4. \A t \in T : Samples(row)[t] = Weights(row)[t]
    <3> TAKE t \in T
    <3>1. t \in Tasks /\ Samples(row)[t] \in Nat
      BY <1>2, Numbers
    <3>2. Weights(row)[t] = Samples(row)[t] * 1
      BY <3>1 DEF Weights
    <3> QED
      BY <3>1, <3>2
  <2>5. SumFunctionOnSet(Samples(row), T) = SumFunctionOnSet(Weights(row), T)
    BY <1>2, <2>4, SumSame
  <2>6. SumFunctionOnSet(Scores(row), Have(row, T)) = SumFunctionOnSet(Means(row), T)
    <3> DEFINE V == Have(row, T)
    <3>1. V \subseteq T /\ IsFiniteSet(V)
      BY <1>2, FS_Subset DEF Have
    <3>2. \A t \in V : Scores(row)[t] = Means(row)[t]
      <4> TAKE t \in V
      <4>1. t \in T /\ t \in Tasks /\ row[t] > 0
        BY <1>2 DEF Have
      <4>2. Weights(row)[t] = row[t]
        BY <2>4, <4>1, Numbers
      <4> QED
        BY <4>1, <4>2 DEF Scores, Means
    <3>3. \A t \in T \ V : Means(row)[t] = 0
      <4> TAKE t \in T \ V
      <4>1. t \in Tasks /\ ~(row[t] > 0)
        BY <1>2 DEF Have
      <4> QED
        BY <4>1, Numbers
    <3>4. \A t \in T : Means(row)[t] \in Nat
      BY <1>2, Numbers
    <3> HIDE DEF V, T
    <3>5. SumFunctionOnSet(Scores(row), V) = SumFunctionOnSet(Means(row), V)
      BY <3>1, <3>2, SumSame
    <3>6. SumFunctionOnSet(Means(row), V) = SumFunctionOnSet(Means(row), T)
      BY <1>2, <3>1, <3>3, <3>4, SumOfPart
    <3> QED
      BY <3>5, <3>6 DEF V
  <2>7. (\E t \in T : Few(row[t])) => c.partial = "yes"
    BY <1>1, <2>1 DEF ToSet
  <2>8. c.weight = SumFunctionOnSet(row, Have(row, T)) /\ c.sum = SumFunctionOnSet(Scores(row), Have(row, T))
    BY <1>1, <2>1
  <2> HIDE DEF c, T
  <2> QED
    BY <1>2, <2>2, <2>3, <2>5, <2>6, <2>7, <2>8 DEF Sums
<1> QED
  BY <1>1, <1>3, <1>4

(* The entry of another metric is that of its one task, when it has samples. *)
LEMMA SingleIs ==
  ASSUME NEW row \in Row, NEW flag \in Flags, NEW m \in ToSet(Metrics), m # "mmlu"
  PROVE  LET c == Single(row, m, flag)
         IN  /\ c.partial \in {"yes", flag} /\ c.missing \in BOOLEAN /\ c.weight \in Nat
             /\ Counts(row, m, c)
             /\ ~c.missing => Sums(row, m, c)
<1> DEFINE c == Single(row, m, flag)
           w == IF row[m] > 0 THEN Len(Subtasks) * row[m] ELSE 0
<1>1. /\ c.partial \in {"yes", flag} /\ c.missing \in BOOLEAN /\ (~c.missing => row[m] # Absent)
      /\ c.weight = w /\ c.sum = Mean(m) * w /\ c.qos = Qos(row, {m})
      /\ Few(row[m]) => c.partial = "yes"
  BY DEF Single
<1>2. /\ m \in Tasks /\ m \notin ToSet(Subtasks) /\ TasksOf(m) = {m}
      /\ Len(Subtasks) \in Nat
  BY TasksAre, MetricsAssumption DEF TasksOf
<1>3. /\ row[m] \in Int /\ (row[m] # Absent => row[m] \in Nat)
      /\ Samples(row)[m] \in Nat /\ Weights(row)[m] \in Nat
      /\ Means(row)[m] \in Nat /\ SampleErrors(row)[m] \in Nat
      /\ ~(row[m] > 0) => Weights(row)[m] = 0
      /\ row[m] > 0 => Samples(row)[m] = row[m]
  BY <1>2, Numbers
<1>4. w = Weights(row)[m]
  <2>1. CASE row[m] > 0
    <3>1. Weights(row)[m] = Samples(row)[m] * Len(Subtasks)
      BY <1>2 DEF Weights
    <3>2. \A a, b \in Int : a * b = b * a
      OBVIOUS
    <3> QED
      BY <1>2, <1>3, <2>1, <3>1, <3>2
  <2>2. CASE ~(row[m] > 0)
    BY <1>3, <2>2
  <2> QED
    BY <2>1, <2>2
<1>5. Mean(m) * w = Means(row)[m]
  BY <1>2, <1>4 DEF Means
<1>6. /\ SumFunctionOnSet(Weights(row), {m}) = Weights(row)[m]
      /\ SumFunctionOnSet(Means(row), {m}) = Means(row)[m]
  BY <1>3, SumOfOne
<1>7. /\ SumFunctionOnSet(row, Have(row, {m})) = SumFunctionOnSet(Samples(row), {m})
      /\ SumFunctionOnSet(Errors(row), Have(row, {m})) = SumFunctionOnSet(SampleErrors(row), {m})
  BY <1>2, HaveAll
<1>8. /\ c.qos.requests = SumFunctionOnSet(row, Have(row, {m}))
      /\ c.qos.errors = SumFunctionOnSet(Errors(row), Have(row, {m}))
  BY <1>1 DEF Qos
<1> HIDE DEF c, w
<1>9. ~c.missing => Sums(row, m, c)
  BY <1>1, <1>2, <1>4, <1>5, <1>6 DEF Sums
<1>10. Counts(row, m, c)
  BY <1>7, <1>8 DEF Counts, ReadOf
<1> QED
  BY <1>1, <1>3, <1>4, <1>9, <1>10 DEF c

(* What is computed of any metric.                                         *)
LEMMA ComputedIs ==
  ASSUME NEW row \in Row, NEW flag \in Flags, NEW m \in ToSet(Metrics)
  PROVE  LET c == Computed(row, m, flag)
         IN  /\ c.partial \in Flags /\ c.missing \in BOOLEAN /\ c.weight \in Nat
             /\ flag # "unset" \/ m = "mmlu" => c.partial # "unset"
             /\ Counts(row, m, c)
             /\ ~c.missing => Sums(row, m, c)
<1>1. CASE m = "mmlu"
  BY <1>1, MmluIs DEF Computed, Flags
<1>2. CASE m # "mmlu"
  BY <1>2, SingleIs DEF Computed, Flags
<1> QED
  BY <1>1, <1>2

-----------------------------------------------------------------------------
(***************************************************************************)
(* The entry of a node, one metric after the other.                        *)
(***************************************************************************)
Statuses == {"none", "MISSING", "PARTIAL", "OK"}

\* The tasks of the metrics of a set that are shown.
ShownOf(e, D) == {m \in D : e.status[m] # "MISSING"}
TasksOfAll(M) == UNION {TasksOf(m) : m \in M}

\* The tasks read for the metrics of a set.
ReadOfAll(row, M) == UNION {ReadOf(row, m) : m \in M}

\* What an entry says once the metrics of D are in it.
Told(e, row, D) ==
  /\ e.status \in [ToSet(Metrics) -> Statuses]
  /\ \A m \in ToSet(Metrics) \ D : e.status[m] = "none"
  /\ \A m \in D : (\E t \in TasksOf(m) : Few(row[t])) => e.status[m] # "OK"
  /\ \A m \in ShownOf(e, D) : \A t \in TasksOf(m) : row[t] # Absent
  /\ e.weight = SumFunctionOnSet(Weights(row), TasksOfAll(ShownOf(e, D)))
  /\ e.sum = SumFunctionOnSet(Means(row), TasksOfAll(ShownOf(e, D)))
  /\ e.incomplete <=> ShownOf(e, D) # D
  /\ e.requests = SumFunctionOnSet(Samples(row), ReadOfAll(row, D))
  /\ e.errors = SumFunctionOnSet(SampleErrors(row), ReadOfAll(row, D))
  /\ "mmlu" \in D => e.partial # "unset"

Fields == {"partial", "unbound", "status", "sum", "weight", "errors", "requests", "incomplete"}

\* The entry begun with the flag that the node before left.
EntryMade(e, row, flag, D) ==
  /\ DOMAIN e = Fields /\ e = [x \in Fields |-> e[x]]
  /\ e.partial \in Flags /\ e.unbound \in BOOLEAN /\ e.incomplete \in BOOLEAN
  /\ e.unbound => e.partial = "unset"
  /\ flag # "unset" => ~e.unbound /\ e.partial # "unset"
  /\ ~e.unbound => Told(e, row, D)

(* The tasks of one more metric, and a sum over them.                      *)
LEMMA OneMoreMetric ==
  ASSUME NEW M, M \subseteq ToSet(Metrics), NEW m \in ToSet(Metrics) \ M,
         NEW f, \A t \in Tasks : f[t] \in Nat
  PROVE  SumFunctionOnSet(f, TasksOfAll(M \cup {m})) =
           SumFunctionOnSet(f, TasksOfAll(M)) + SumFunctionOnSet(f, TasksOf(m))
<1> DEFINE A == TasksOfAll(M)
           B == TasksOf(m)
<1>1. TasksOfAll(M \cup {m}) = A \cup B
  BY DEF TasksOfAll
<1>2. A \subseteq Tasks /\ B \subseteq Tasks /\ A \cap B = {}
  BY TasksAre DEF TasksOfAll
<1>3. IsFiniteSet(A) /\ IsFiniteSet(B)
  BY <1>2, TasksAre, FS_Subset
<1> HIDE DEF A, B
<1>4. SumFunctionOnSet(f, A \cup B) = SumFunctionOnSet(f, A) + SumFunctionOnSet(f, B)
  BY <1>2, <1>3, SumUnion
<1> QED
  BY <1>1, <1>4 DEF A, B

(* What is read for one more metric, and a sum over it.                    *)
LEMMA OneMoreRead ==
  ASSUME NEW row \in Row, NEW M, M \subseteq ToSet(Metrics), NEW m \in ToSet(Metrics) \ M,
         NEW f, \A t \in Tasks : f[t] \in Nat
  PROVE  SumFunctionOnSet(f, ReadOfAll(row, M \cup {m})) =
           SumFunctionOnSet(f, ReadOfAll(row, M)) + SumFunctionOnSet(f, ReadOf(row, m))
<1> DEFINE A == ReadOfAll(row, M)
           B == ReadOf(row, m)
<1>1. ReadOfAll(row, M \cup {m}) = A \cup B
  BY DEF ReadOfAll
<1>2. \A l \in ToSet(Metrics) : ReadOf(row, l) \subseteq TasksOf(l)
  <2>1. SubtasksMet(row) \subseteq ToSet(Subtasks)
    BY DEF SubtasksMet, ToSet
  <2> QED
    BY <2>1 DEF ReadOf, TasksOf
<1>3. A \subseteq Tasks /\ B \subseteq Tasks /\ A \cap B = {}
  BY <1>2, TasksAre DEF ReadOfAll
<1>4. IsFiniteSet(A) /\ IsFiniteSet(B)
  BY <1>3, TasksAre, FS_Subset
<1> HIDE DEF A, B
<1>5. SumFunctionOnSet(f, A \cup B) = SumFunctionOnSet(f, A) + SumFunctionOnSet(f, B)
  BY <1>3, <1>4, SumUnion
<1> QED
  BY <1>1, <1>5 DEF A, B

(* An entry begins with no metric told. *)
LEMMA BlankMade ==
  ASSUME NEW row \in Row, NEW flag \in Flags
  PROVE  EntryMade(Blank(flag), row, flag, {})
<1> DEFINE e == Blank(flag)
<1>1. /\ DOMAIN e = Fields /\ e = [x \in Fields |-> e[x]]
      /\ e.partial = flag /\ e.unbound = FALSE /\ e.incomplete = FALSE
      /\ e.status = [m \in ToSet(Metrics) |-> "none"] /\ e.sum = 0 /\ e.weight = 0
      /\ e.errors = 0 /\ e.requests = 0
  BY DEF Blank, Fields
<1> HIDE DEF e
<1>2. TasksOfAll({}) = {} /\ ReadOfAll(row, {}) = {} /\ ShownOf(e, {}) = {}
  BY DEF TasksOfAll, ReadOfAll, ShownOf
<1>3. \A f : SumFunctionOnSet(f, {}) = 0
  BY SumOfNone
<1>4. Told(e, row, {})
  BY <1>1, <1>2, <1>3 DEF Told, Statuses
<1> QED
  BY <1>1, <1>4 DEF EntryMade, e

(* One more metric keeps what the entry says true.                         *)
LEMMA MetricMade ==
  ASSUME NEW row \in Row, NEW flag \in Flags, NEW D, D \subseteq ToSet(Metrics),
         NEW m \in ToSet(Metrics) \ D, NEW e, EntryMade(e, row, flag, D)
  PROVE  EntryMade(AddMetric(row, e, m), row, flag, D \cup {m})
<1> DEFINE c == Computed(row, m, e.partial)
           n == AddMetric(row, e, m)
           st == Status(c)
<1>1. /\ c.partial \in Flags /\ c.missing \in BOOLEAN /\ c.weight \in Nat
      /\ e.partial # "unset" \/ m = "mmlu" => c.partial # "unset"
      /\ Counts(row, m, c)
      /\ ~c.missing => Sums(row, m, c)
  <2>1. e.partial \in Flags
    BY DEF EntryMade
  <2> QED
    BY <2>1, ComputedIs
<1>2. n = IF e.unbound THEN e
          ELSE IF st # "MISSING" /\ c.partial = "unset" THEN [e EXCEPT !.unbound = TRUE]
          ELSE [e EXCEPT !.partial = c.partial, !.status[m] = st,
                         !.sum = IF st # "MISSING" THEN @ + c.sum ELSE @,
                         !.weight = IF st # "MISSING" THEN @ + c.weight ELSE @,
                         !.errors = @ + c.qos.errors, !.requests = @ + c.qos.requests,
                         !.incomplete = @ \/ ~(st # "MISSING")]
  BY DEF AddMetric
<1>3. /\ st \in {"MISSING", "PARTIAL", "OK"}
      /\ st # "MISSING" => ~c.missing
      /\ st # "MISSING" /\ c.partial = "yes" => st = "PARTIAL"
  BY <1>1 DEF Status
<1>4. /\ DOMAIN e = Fields /\ e = [x \in Fields |-> e[x]]
      /\ e.partial \in Flags /\ e.unbound \in BOOLEAN /\ e.incomplete \in BOOLEAN
      /\ e.unbound => e.partial = "unset"
      /\ flag # "unset" => ~e.unbound /\ e.partial # "unset"
      /\ ~e.unbound => Told(e, row, D)
  BY DEF EntryMade
<1> HIDE DEF c, n, st
<1>5. CASE e.unbound
  BY <1>2, <1>4, <1>5 DEF EntryMade, n
<1>6. CASE ~e.unbound /\ st # "MISSING" /\ c.partial = "unset"
  <2>1. n = [e EXCEPT !.unbound = TRUE]
    BY <1>2, <1>6
  <2>2. /\ DOMAIN n = Fields /\ n = [x \in Fields |-> n[x]] /\ n.unbound = TRUE
        /\ n.partial = e.partial /\ n.incomplete = e.incomplete
    BY <1>4, <2>1 DEF Fields
  <2>3. e.partial = "unset"
    BY <1>1, <1>6
  <2> QED
    BY <1>4, <2>2, <2>3 DEF EntryMade, n
<1>7. CASE ~e.unbound /\ ~(st # "MISSING" /\ c.partial = "unset")
  <2>1. n = [e EXCEPT !.partial = c.partial, !.status[m] = st,
                      !.sum = IF st # "MISSING" THEN @ + c.sum ELSE @,
                      !.weight = IF st # "MISSING" THEN @ + c.weight ELSE @,
                      !.errors = @ + c.qos.errors, !.requests = @ + c.qos.requests,
                      !.incomplete = @ \/ ~(st # "MISSING")]
    BY <1>2, <1>7
  <2>2. /\ DOMAIN n = Fields /\ n = [x \in Fields |-> n[x]]
        /\ n.unbound = e.unbound /\ n.partial = c.partial
        /\ n.status = [e.status EXCEPT ![m] = st]
        /\ n.sum = IF st # "MISSING" THEN e.sum + c.sum ELSE e.sum
        /\ n.weight = IF st # "MISSING" THEN e.weight + c.weight ELSE e.weight
        /\ n.errors = e.errors + c.qos.errors /\ n.requests = e.requests + c.qos.requests
        /\ n.incomplete = (e.incomplete \/ ~(st # "MISSING"))
    BY <1>4, <2>1 DEF Fields
  <2>3. Told(e, row, D)
    BY <1>4, <1>7
  <2> DEFINE E == D \cup {m}
             old == ShownOf(e, D)
             new == ShownOf(n, E)
  <2>4. /\ e.status \in [ToSet(Metrics) -> Statuses]
        /\ n.status \in [ToSet(Metrics) -> Statuses]
        /\ n.status[m] = st /\ \A l \in ToSet(Metrics) \ {m} : n.status[l] = e.status[l]
    <3>1. e.status \in [ToSet(Metrics) -> Statuses] /\ st \in Statuses
      BY <1>3, <2>3 DEF Told, Statuses
    <3> QED
      BY <2>2, <3>1
  <2>5. new = IF st # "MISSING" THEN old \cup {m} ELSE old
    BY <2>4 DEF ShownOf
  <2>6. old \subseteq D /\ old \subseteq ToSet(Metrics) /\ m \notin old
    BY DEF ShownOf
  <2>7. st # "MISSING" => Sums(row, m, c)
    BY <1>1, <1>3
  <2>8. \A l \in ToSet(Metrics) \ E : n.status[l] = "none"
    BY <2>3, <2>4 DEF Told
  <2>9. \A l \in E : (\E t \in TasksOf(l) : Few(row[t])) => n.status[l] # "OK"
    <3> SUFFICES ASSUME NEW l \in E, \E t \in TasksOf(l) : Few(row[t])
                 PROVE  n.status[l] # "OK"
      OBVIOUS
    <3>1. CASE l = m
      BY <1>3, <2>4, <2>7, <3>1 DEF Sums
    <3>2. CASE l # m
      BY <2>3, <2>4, <3>2 DEF Told
    <3> QED
      BY <3>1, <3>2
  <2>10. \A l \in new : \A t \in TasksOf(l) : row[t] # Absent
    <3>1. \A l \in old : \A t \in TasksOf(l) : row[t] # Absent
      BY <2>3 DEF Told
    <3> HIDE DEF old, new
    <3> QED
      BY <2>5, <2>7, <3>1 DEF Sums
  <2>11. /\ \A t \in Tasks : Weights(row)[t] \in Nat /\ Means(row)[t] \in Nat
         /\ \A t \in Tasks : Samples(row)[t] \in Nat /\ SampleErrors(row)[t] \in Nat
    BY Numbers
  <2>12. /\ n.weight = SumFunctionOnSet(Weights(row), TasksOfAll(new))
         /\ n.sum = SumFunctionOnSet(Means(row), TasksOfAll(new))
    <3>1. /\ e.weight = SumFunctionOnSet(Weights(row), TasksOfAll(old))
          /\ e.sum = SumFunctionOnSet(Means(row), TasksOfAll(old))
      BY <2>3 DEF Told
    <3> HIDE DEF old, new
    <3>2. CASE st # "MISSING"
      <4>1. /\ SumFunctionOnSet(Weights(row), TasksOfAll(old \cup {m})) =
                 SumFunctionOnSet(Weights(row), TasksOfAll(old)) + SumFunctionOnSet(Weights(row), TasksOf(m))
            /\ SumFunctionOnSet(Means(row), TasksOfAll(old \cup {m})) =
                 SumFunctionOnSet(Means(row), TasksOfAll(old)) + SumFunctionOnSet(Means(row), TasksOf(m))
        BY <2>6, <2>11, OneMoreMetric
      <4> QED
        BY <2>2, <2>5, <2>7, <3>1, <3>2, <4>1 DEF Sums
    <3>3. CASE ~(st # "MISSING")
      BY <2>2, <2>5, <3>1, <3>3
    <3> QED
      BY <3>2, <3>3
  <2>13. n.incomplete <=> new # E
    <3>1. e.incomplete <=> old # D
      BY <2>3 DEF Told
    <3> HIDE DEF old, new
    <3> QED
      BY <2>2, <2>5, <2>6, <3>1
  <2>14. /\ n.requests = SumFunctionOnSet(Samples(row), ReadOfAll(row, E))
         /\ n.errors = SumFunctionOnSet(SampleErrors(row), ReadOfAll(row, E))
    <3>1. /\ e.requests = SumFunctionOnSet(Samples(row), ReadOfAll(row, D))
          /\ e.errors = SumFunctionOnSet(SampleErrors(row), ReadOfAll(row, D))
      BY <2>3 DEF Told
    <3>2. /\ c.qos.requests = SumFunctionOnSet(Samples(row), ReadOf(row, m))
          /\ c.qos.errors = SumFunctionOnSet(SampleErrors(row), ReadOf(row, m))
      BY <1>1 DEF Counts
    <3>3. /\ SumFunctionOnSet(Samples(row), ReadOfAll(row, E)) =
               SumFunctionOnSet(Samples(row), ReadOfAll(row, D)) + SumFunctionOnSet(Samples(row), ReadOf(row, m))
          /\ SumFunctionOnSet(SampleErrors(row), ReadOfAll(row, E)) =
               SumFunctionOnSet(SampleErrors(row), ReadOfAll(row, D)) + SumFunctionOnSet(SampleErrors(row), ReadOf(row, m))
      BY <2>11, OneMoreRead
    <3> QED
      BY <2>2, <3>1, <3>2, <3>3
  <2>15. "mmlu" \in E => n.partial # "unset"
    <3>1. CASE m = "mmlu"
      BY <1>1, <2>2, <3>1
    <3>2. CASE m # "mmlu"
      BY <1>1, <2>2, <2>3, <3>2 DEF Told
    <3> QED
      BY <3>1, <3>2
  <2>16. Told(n, row, E)
    <3> HIDE DEF E
    <3> QED
      BY <2>4, <2>8, <2>9, <2>10, <2>12, <2>13, <2>14, <2>15 DEF Told
  <2>17. flag # "unset" => ~n.unbound /\ n.partial # "unset"
    BY <1>1, <1>4, <2>2
  <2> HIDE DEF E
  <2>18. EntryMade(n, row, flag, E)
    BY <1>1, <1>4, <1>7, <2>2, <2>16, <2>17 DEF EntryMade
  <2> QED
    BY <2>18 DEF E, n
<1> QED
  BY <1>4, <1>5, <1>6, <1>7

-----------------------------------------------------------------------------
(***************************************************************************)
(* The fold over the metrics.  It runs over the set of their places and    *)
(* takes the greatest first, so that the entry after k metrics is its      *)
(* value on 1 .. k.                                                        *)
(***************************************************************************)
LEMMA MaxIs ==
  ASSUME NEW n \in Nat, NEW T, T \subseteq 1 .. n, T # {}
  PROVE  Max(T) \in T /\ \A m \in T : m <= Max(T)
<1> DEFINE U == {n - m : m \in T}
<1>1. U \subseteq Nat /\ U # {}
  <2>1. \A m \in T : n - m \in Nat
    OBVIOUS
  <2> QED
    BY <2>1
<1>2. PICK l \in U : \A m \in U : l <= m
  <2> HIDE DEF U
  <2> QED
    BY <1>1, LeastNumber
<1>3. PICK x \in T : l = n - x
  OBVIOUS
<1>4. \A m \in T : m <= x
  <2> TAKE m \in T
  <2>1. l <= n - m
    BY <1>2
  <2> QED
    BY <1>3, <2>1
<1>5. \E y \in T : \A m \in T : y >= m
  BY <1>4
<1>6. Max(T) \in T /\ \A m \in T : Max(T) >= m
  BY <1>5 DEF Max
<1> QED
  BY <1>6

\* The entry of a node after each metric.
Entering(entries, row, flag) ==
  /\ entries[0] = Blank(flag)
  /\ \A k \in 1 .. Len(Metrics) : entries[k] = AddMetric(row, entries[k - 1], Metrics[k])
  /\ Entry(row, flag) = entries[Len(Metrics)]

(* There is an entry after each metric.                                    *)
LEMMA EntriesMade ==
  ASSUME NEW row, NEW flag
  PROVE  \E entries : Entering(entries, row, flag)
<1> DEFINE n == Len(Metrics)
           Body(f, s) ==
             IF s = {} THEN Blank(flag) ELSE AddMetric(row, f[s \ {Max(s)}], Metrics[Max(s)])
           P(k) == \E f : \A s \in SUBSET (1 .. k) : f[s] = Body(f, s)
           T == {k \in Nat : P(k)}
<1>0. n \in Nat /\ DOMAIN Metrics = 1 .. n
  BY MetricsAssumption
<1>1. 0 \in T
  <2> DEFINE f == [s \in SUBSET (1 .. 0) |-> Blank(flag)]
  <2>1. \A s \in SUBSET (1 .. 0) : s = {}
    OBVIOUS
  <2>2. \A s \in SUBSET (1 .. 0) : f[s] = Body(f, s)
    BY <2>1
  <2> HIDE DEF f, Body
  <2>3. P(0)
    BY <2>2
  <2> HIDE DEF P
  <2> QED
    BY <2>3
<1>2. \A k \in Nat : k \in T => k + 1 \in T
  <2> SUFFICES ASSUME NEW k \in Nat, k \in T
               PROVE  k + 1 \in T
    OBVIOUS
  <2>1. PICK f : \A s \in SUBSET (1 .. k) : f[s] = Body(f, s)
    OBVIOUS
  <2> DEFINE g == [s \in SUBSET (1 .. k + 1) |->
                    IF k + 1 \in s THEN AddMetric(row, f[s \ {k + 1}], Metrics[k + 1]) ELSE f[s]]
  <2>2. ASSUME NEW s \in SUBSET (1 .. k + 1)
        PROVE  g[s] = Body(g, s)
    <3>1. CASE k + 1 \in s
      <4>1. Max(s) = k + 1
        <5>1. Max(s) \in s /\ \A m \in s : m <= Max(s)
          <6>1. s \subseteq 1 .. k + 1 /\ s # {} /\ k + 1 \in Nat
            BY <3>1
          <6> QED
            BY <6>1, MaxIs
        <5>2. Max(s) \in 1 .. k + 1 /\ k + 1 <= Max(s)
          BY <3>1, <5>1
        <5> QED
          BY <5>2
      <4>2. /\ s \ {k + 1} \in SUBSET (1 .. k + 1)
            /\ k + 1 \notin s \ {k + 1}
        OBVIOUS
      <4>3. g[s \ {k + 1}] = f[s \ {k + 1}]
        BY <4>2
      <4>4. g[s] = AddMetric(row, f[s \ {k + 1}], Metrics[k + 1])
        BY <3>1
      <4> HIDE DEF g
      <4> QED
        BY <3>1, <4>1, <4>3, <4>4
    <3>2. CASE k + 1 \notin s
      <4>1. s \in SUBSET (1 .. k)
        BY <3>2
      <4>2. g[s] = f[s]
        BY <3>2
      <4>3. CASE s = {}
        BY <2>1, <4>1, <4>2, <4>3
      <4>4. CASE s # {}
        <5>1. s \ {Max(s)} \in SUBSET (1 .. k + 1) /\ k + 1 \notin s \ {Max(s)}
          BY <3>2
        <5>2. g[s \ {Max(s)}] = f[s \ {Max(s)}]
          BY <5>1
        <5>3. f[s] = Body(f, s)
          BY <2>1, <4>1
        <5> HIDE DEF g
        <5> QED
          BY <4>2, <4>4, <5>2, <5>3
      <4> QED
        BY <4>3, <4>4
    <3> QED
      BY <3>1, <3>2
  <2> HIDE DEF g, Body
  <2>3. \A s \in SUBSET (1 .. k + 1) : g[s] = Body(g, s)
    BY <2>2
  <2>4. P(k + 1)
    BY <2>3
  <2> HIDE DEF P, T
  <2>5. k + 1 \in Nat /\ (P(k + 1) => k + 1 \in T)
    BY DEF T
  <2> QED
    BY <2>4, <2>5
<1>3. n \in T
  <2> HIDE DEF T, n
  <2> QED
    BY <1>0, <1>1, <1>2, AllNumbers
<1>4. PICK f : \A s \in SUBSET (1 .. n) : f[s] = Body(f, s)
  BY <1>3
<1> HIDE DEF n
<1> DEFINE iter == CHOOSE g : g = [s \in SUBSET (1 .. n) |-> Body(g, s)]
<1>5. iter = [s \in SUBSET (1 .. n) |-> Body(iter, s)]
  <2> DEFINE g == [s \in SUBSET (1 .. n) |-> f[s]]
  <2>1. \A s \in SUBSET (1 .. n) : s \ {Max(s)} \in SUBSET (1 .. n)
    OBVIOUS
  <2>2. \A s \in SUBSET (1 .. n) : Body(g, s) = Body(f, s)
    BY <2>1
  <2>3. g = [s \in SUBSET (1 .. n) |-> Body(g, s)]
    <3> HIDE DEF Body
    <3> QED
      BY <1>4, <2>2
  <2>4. \E h : h = [s \in SUBSET (1 .. n) |-> Body(h, s)]
    <3> HIDE DEF Body, g
    <3> QED
      BY <2>3
  <2> HIDE DEF Body
  <2> QED
    BY <2>4
<1>6. Entry(row, flag) = iter[1 .. n]
  <2>1. Entry(row, flag) =
          (CHOOSE g : g = [s \in SUBSET (DOMAIN Metrics) |-> Body(g, s)])[DOMAIN Metrics]
    BY DEF Entry, FoldLeft, MapThenFoldSet
  <2> QED
    BY <1>0, <2>1
<1> HIDE DEF iter
<1>7. iter[1 .. 0] = Blank(flag)
  <2>1. 1 .. 0 = {} /\ 1 .. 0 \in SUBSET (1 .. n)
    OBVIOUS
  <2> QED
    BY <1>5, <2>1
<1>8. ASSUME NEW k \in 1 .. n
      PROVE  iter[1 .. k] = AddMetric(row, iter[1 .. k - 1], Metrics[k])
  <2>1. 1 .. k \in SUBSET (1 .. n) /\ k \in 1 .. k /\ k \in Nat /\ 1 .. k # {}
    BY <1>0
  <2>2. Max(1 .. k) = k
    <3>1. Max(1 .. k) \in 1 .. k /\ \A m \in 1 .. k : m <= Max(1 .. k)
      BY <2>1, MaxIs
    <3> QED
      BY <2>1, <3>1
  <2>3. (1 .. k) \ {k} = 1 .. k - 1
    BY <2>1
  <2>4. iter[1 .. k] = Body(iter, 1 .. k)
    <3> HIDE DEF Body
    <3> QED
      BY <1>5, <2>1
  <2> QED
    BY <2>1, <2>2, <2>3, <2>4
<1> DEFINE entries == [k \in 0 .. n |-> iter[1 .. k]]
<1>9. entries[0] = Blank(flag) /\ entries[n] = iter[1 .. n]
  BY <1>0, <1>7
<1>10. \A k \in 1 .. n : entries[k] = AddMetric(row, entries[k - 1], Metrics[k])
  <2> TAKE k \in 1 .. n
  <2>1. k \in 0 .. n /\ k - 1 \in 0 .. n
    BY <1>0
  <2> QED
    BY <1>8, <2>1
<1> HIDE DEF entries
<1> QED
  BY <1>6, <1>9, <1>10 DEF Entering, n

(* What the entry of a node says is true of all metrics.                   *)
LEMMA EntryIs ==
  ASSUME NEW row \in Row, NEW flag \in Flags
  PROVE  EntryMade(Entry(row, flag), row, flag, ToSet(Metrics))
<1> DEFINE n == Len(Metrics)
           D(k) == {Metrics[i] : i \in 1 .. k}
<1>1. n \in Nat /\ DOMAIN Metrics = 1 .. n /\ ToSet(Metrics) = D(n)
  BY MetricsAssumption DEF ToSet
<1>2. PICK entries : Entering(entries, row, flag)
  BY EntriesMade
<1>3. /\ entries[0] = Blank(flag)
      /\ \A k \in 1 .. n : entries[k] = AddMetric(row, entries[k - 1], Metrics[k])
      /\ Entry(row, flag) = entries[n]
  BY <1>2 DEF Entering
<1> HIDE DEF n
<1> DEFINE T == {k \in Nat : k <= n => EntryMade(entries[k], row, flag, D(k))}
<1>4. 0 \in T
  <2>1. D(0) = {}
    OBVIOUS
  <2>2. EntryMade(entries[0], row, flag, {})
    BY <1>3, BlankMade
  <2> HIDE DEF D
  <2> QED
    BY <2>1, <2>2
<1>5. \A k \in Nat : k \in T => k + 1 \in T
  <2> SUFFICES ASSUME NEW k \in Nat, k \in T, k + 1 <= n
               PROVE  EntryMade(entries[k + 1], row, flag, D(k + 1))
    <3> HIDE DEF D
    <3> QED
      OBVIOUS
  <2> DEFINE m == Metrics[k + 1]
  <2>1. k <= n /\ k + 1 \in 1 .. n /\ (k + 1) - 1 = k
    BY <1>1
  <2>2. EntryMade(entries[k], row, flag, D(k))
    <3> HIDE DEF D
    <3> QED
      BY <2>1
  <2>3. D(k) \subseteq ToSet(Metrics) /\ m \in ToSet(Metrics) /\ m \notin D(k)
    <3>1. \A i \in 1 .. k : i \in 1 .. n /\ i # k + 1
      BY <1>1, <2>1
    <3> QED
      BY <1>1, <2>1, <3>1, MetricsAssumption DEF ToSet
  <2>4. D(k + 1) = D(k) \cup {m}
    <3>1. 1 .. k + 1 = (1 .. k) \cup {k + 1}
      OBVIOUS
    <3> QED
      BY <3>1
  <2>5. entries[k + 1] = AddMetric(row, entries[k], m)
    BY <1>3, <2>1
  <2> HIDE DEF D, m
  <2> QED
    BY <2>2, <2>3, <2>4, <2>5, MetricMade
<1>6. n \in T
  <2> HIDE DEF T
  <2> QED
    BY <1>1, <1>4, <1>5, AllNumbers
<1>7. EntryMade(entries[n], row, flag, D(n))
  <2> HIDE DEF D
  <2> QED
    BY <1>1, <1>6
<1> HIDE DEF D
<1> QED
  BY <1>1, <1>3, <1>7

-----------------------------------------------------------------------------
(***************************************************************************)
(* The inductive invariant.  While the flag is unset nothing is listed,    *)
(* and an entry that was not left out has set it, as mmlu is among the     *)
(* metrics.                                                                *)
(***************************************************************************)
NodesListed == {leaderboard[a].node : a \in DOMAIN leaderboard}

\* Whoever was read and has scores is listed, replaced, or came before all who are.
Explained ==
  \A j \in DOMAIN order :
    ~NoScores(order[j]) /\ order[j] \notin unread =>
      \/ order[j] \in NodesListed
      \/ \E k \in j + 1 .. Len(order) : address[order[k]] = address[order[j]]
      \/ \A i \in 1 .. j : order[i] \notin NodesListed

EntriesTold ==
  \A a \in DOMAIN leaderboard :
    /\ leaderboard[a].node \in Nodes /\ address[leaderboard[a].node] = a
    /\ Told(leaderboard[a].entry, rows[leaderboard[a].node], ToSet(Metrics))

NodesOnce ==
  /\ ids \in Seq(Nodes) /\ order \in Seq(Nodes)
  /\ \A i, j \in DOMAIN ids : ids[i] = ids[j] => i = j
  /\ \A i \in DOMAIN ids, j \in DOMAIN order : ids[i] # order[j]
  /\ reply = "none" => order = <<>>

Inv ==
  /\ rows \in [Nodes -> Row]
  /\ partial \in Flags
  /\ NodesOnce
  /\ partial = "unset" => DOMAIN leaderboard = {}
  /\ EntriesTold
  /\ Explained

(* Nothing is read before the request.                                     *)
LEMMA InitInv == Init => Inv
<1> SUFFICES ASSUME Init
             PROVE  Inv
  OBVIOUS
<1>1. rows \in [Nodes -> Row] /\ partial \in Flags
  BY BuffersAssumption DEF Init, Row, Flags
<1>2. ids = <<>> /\ order = <<>> /\ DOMAIN leaderboard = {}
  BY DEF Init
<1>3. NodesOnce /\ EntriesTold /\ Explained
  BY <1>2 DEF NodesOnce, EntriesTold, Explained
<1> QED
  BY <1>1, <1>2, <1>3 DEF Inv

(* The ids are read once, in any order.                                    *)
LEMMA IdsRead ==
  ASSUME Inv, GetAllNodesIds
  PROVE  Inv'
<1>1. /\ ids' \in SetToSeqs(Nodes) /\ reply' = "pending" /\ order = <<>>
      /\ UNCHANGED <<address, rows, others, partial, leaderboard, order, unread>>
  BY DEF GetAllNodesIds, Inv, NodesOnce
<1>2. Cardinality(Nodes) \in Nat
  BY BuffersAssumption, FS_CardinalityType
<1>3. /\ ids' \in [1 .. Cardinality(Nodes) -> Nodes]
      /\ \A i, j \in 1 .. Cardinality(Nodes) : i # j => ids'[i] # ids'[j]
  BY <1>1 DEF SetToSeqs
<1>4. ids' \in Seq(Nodes) /\ DOMAIN ids' = 1 .. Cardinality(Nodes)
  BY <1>2, <1>3, SeqDef
<1>5. NodesOnce'
  BY <1>1, <1>3, <1>4 DEF NodesOnce
<1>6. EntriesTold'
  BY <1>1 DEF Inv, EntriesTold, Told, ShownOf
<1>7. Explained'
  BY <1>1 DEF Explained
<1> QED
  BY <1>1, <1>5, <1>6, <1>7 DEF Inv

(* One more node leaves the others as they are, but the one it replaces.   *)
LEMMA NodeAdded ==
  ASSUME Inv, AddNode
  PROVE  Inv'
<1> DEFINE n == Head(ids)
           e == Entry(rows[n], partial)
           l == Len(order)
           full == ToSet(Metrics)
<1>1. /\ ids # <<>> /\ ids' = Tail(ids) /\ order' = Append(order, n)
      /\ address' = address /\ rows' = rows /\ others' = others /\ reply' = "pending"
      /\ unread' = unread \/ unread' = unread \cup {n}
      /\ \/ /\ NoScores(n) \/ n \in unread'
            /\ partial' = partial /\ leaderboard' = leaderboard
         \/ /\ ~NoScores(n)
            /\ partial' = e.partial
            /\ leaderboard' = IF e.unbound THEN leaderboard ELSE Listing(n, e)
  BY DEF AddNode
<1>2. /\ rows \in [Nodes -> Row] /\ partial \in Flags /\ NodesOnce /\ EntriesTold /\ Explained
      /\ partial = "unset" => DOMAIN leaderboard = {}
  BY DEF Inv
<1>3. ids \in Seq(Nodes) /\ order \in Seq(Nodes) /\ Len(ids) \in Nat \ {0} /\ l \in Nat
  <2>1. ids \in Seq(Nodes) /\ order \in Seq(Nodes)
    BY <1>2 DEF NodesOnce
  <2> QED
    BY <1>1, <2>1, EmptySeq
<1>4. /\ n \in Nodes /\ n = ids[1] /\ ids' \in Seq(Nodes)
      /\ DOMAIN ids = 1 .. Len(ids) /\ DOMAIN ids' = 1 .. Len(ids) - 1
      /\ \A i \in DOMAIN ids' : i + 1 \in DOMAIN ids /\ ids'[i] = ids[i + 1]
  BY <1>1, <1>3
<1>5. /\ order' \in Seq(Nodes) /\ Len(order') = l + 1 /\ DOMAIN order' = 1 .. l + 1
      /\ DOMAIN order = 1 .. l /\ order'[l + 1] = n
      /\ \A j \in 1 .. l : order'[j] = order[j] /\ order[j] \in Nodes /\ order[j] # n
  <2>1. order' \in Seq(Nodes) /\ Len(order') = l + 1 /\ order'[l + 1] = n
    BY <1>1, <1>3, <1>4
  <2>2. \A j \in 1 .. l : order'[j] = order[j] /\ order[j] \in Nodes
    BY <1>1, <1>3
  <2>3. \A j \in 1 .. l : order[j] # n
    <3>1. 1 \in DOMAIN ids
      BY <1>3
    <3> QED
      BY <1>2, <1>3, <1>4, <3>1 DEF NodesOnce
  <2> QED
    BY <1>3, <2>1, <2>2, <2>3
<1> HIDE DEF n, e, l
<1>6. NodesOnce'
  <2>1. \A i, j \in DOMAIN ids' : ids'[i] = ids'[j] => i = j
    <3> TAKE i, j \in DOMAIN ids'
    <3>1. ids'[i] = ids'[j] => i + 1 = j + 1
      BY <1>2, <1>4 DEF NodesOnce
    <3>2. i \in Int /\ j \in Int
      BY <1>3, <1>4
    <3> QED
      BY <3>1, <3>2
  <2>2. \A i \in DOMAIN ids', j \in DOMAIN order' : ids'[i] # order'[j]
    <3> TAKE i \in DOMAIN ids', j \in DOMAIN order'
    <3>1. CASE j = l + 1
      <4>1. i + 1 # 1 /\ 1 \in DOMAIN ids
        BY <1>3, <1>4
      <4> QED
        BY <1>2, <1>4, <1>5, <3>1, <4>1 DEF NodesOnce
    <3>2. CASE j # l + 1
      <4>1. j \in 1 .. l
        BY <1>3, <1>5, <3>2
      <4> QED
        BY <1>2, <1>4, <1>5, <4>1 DEF NodesOnce
    <3> QED
      BY <3>1, <3>2
  <2> QED
    BY <1>1, <1>4, <1>5, <2>1, <2>2 DEF NodesOnce
<1>7. EntryMade(e, rows[n], partial, full)
  <2>1. rows[n] \in Row
    BY <1>2, <1>4
  <2> QED
    BY <1>2, <2>1, EntryIs DEF e
<1>8. \A x : NoScores(x)' <=> NoScores(x)
  BY <1>1 DEF NoScores, NoRow
<1>b. unread \subseteq unread' /\ \A j \in 1 .. l : order[j] \in unread' => order[j] \in unread
  BY <1>1, <1>5
<1>a. \A j \in 1 .. l :
        (\E k \in j + 1 .. l : address[order[k]] = address[order[j]]) =>
        (\E k \in j + 1 .. l + 1 : address'[order'[k]] = address'[order'[j]])
  <2> SUFFICES ASSUME NEW j \in 1 .. l, NEW k \in j + 1 .. l, address[order[k]] = address[order[j]]
               PROVE  \E m \in j + 1 .. l + 1 : address'[order'[m]] = address'[order'[j]]
    OBVIOUS
  <2>1. k \in j + 1 .. l + 1 /\ k \in 1 .. l
    BY <1>3
  <2> QED
    BY <1>1, <1>5, <2>1
<1>9. CASE leaderboard' = leaderboard /\ (NoScores(n) \/ n \in unread' \/ DOMAIN leaderboard = {})
  <2>0. rows' = rows /\ address' = address /\ leaderboard' = leaderboard
    BY <1>1, <1>9
  <2>1. EntriesTold'
    BY <1>2, <2>0 DEF EntriesTold, Told, ShownOf
  <2>2. NodesListed' = NodesListed
    BY <1>9 DEF NodesListed
  <2>3. Explained'
    <3> SUFFICES ASSUME NEW j \in DOMAIN order', ~NoScores(order'[j]), order'[j] \notin unread'
                 PROVE  \/ order'[j] \in NodesListed'
                        \/ \E k \in j + 1 .. Len(order') : address'[order'[k]] = address'[order'[j]]
                        \/ \A i \in 1 .. j : order'[i] \notin NodesListed'
      BY <1>8 DEF Explained
    <3>1. CASE DOMAIN leaderboard = {}
      BY <2>2, <3>1 DEF NodesListed
    <3>2. CASE NoScores(n) \/ n \in unread'
      <4>1. j \in 1 .. l
        BY <1>1, <1>3, <1>5, <3>2
      <4>2. \/ order[j] \in NodesListed
            \/ \E k \in j + 1 .. l : address[order[k]] = address[order[j]]
            \/ \A i \in 1 .. j : order[i] \notin NodesListed
        BY <1>1, <1>2, <1>5, <1>b, <4>1 DEF Explained, l
      <4>3. \A i \in 1 .. j : i \in 1 .. l
        BY <1>3, <4>1
      <4> QED
        BY <1>5, <1>a, <2>2, <4>1, <4>2, <4>3
    <3> QED
      BY <1>9, <3>1, <3>2
  <2>4. partial' \in Flags /\ (partial' = "unset" => DOMAIN leaderboard' = {})
    BY <1>1, <1>2, <1>7, <1>9 DEF EntryMade
  <2> QED
    BY <1>1, <1>2, <1>6, <2>1, <2>3, <2>4 DEF Inv
<1>10. CASE ~NoScores(n) /\ ~e.unbound /\ partial' = e.partial /\ leaderboard' = Listing(n, e)
  <2>1. /\ DOMAIN leaderboard' = {address[n]} \cup DOMAIN leaderboard
        /\ leaderboard'[address[n]].node = n /\ leaderboard'[address[n]].entry = e
        /\ \A a \in DOMAIN leaderboard : a # address[n] => leaderboard'[a] = leaderboard[a]
        /\ partial' = e.partial
    BY <1>10 DEF Listing
  <2>2. Told(e, rows[n], full) /\ e.partial \in Flags /\ e.partial # "unset"
    BY <1>7, <1>10, MetricsAssumption DEF EntryMade, Told
  <2>3. EntriesTold'
    <3> SUFFICES ASSUME NEW a \in DOMAIN leaderboard'
                 PROVE  /\ leaderboard'[a].node \in Nodes /\ address'[leaderboard'[a].node] = a
                        /\ Told(leaderboard'[a].entry, rows'[leaderboard'[a].node], full)
      BY DEF EntriesTold, Told, ShownOf
    <3>1. CASE a = address[n]
      BY <1>1, <1>4, <2>1, <2>2, <3>1
    <3>2. CASE a # address[n]
      BY <1>1, <1>2, <2>1, <3>2 DEF EntriesTold
    <3> QED
      BY <3>1, <3>2
  <2>4. n \in NodesListed'
    BY <2>1 DEF NodesListed
  <2>5. \A x : x \in NodesListed' => x = n \/ x \in NodesListed
    BY <2>1 DEF NodesListed
  <2>6. \A x \in NodesListed : x \in NodesListed' \/ address[x] = address[n]
    <3> TAKE x \in NodesListed
    <3>1. PICK a \in DOMAIN leaderboard : leaderboard[a].node = x
      BY DEF NodesListed
    <3>2. address[x] = a
      BY <1>2, <3>1 DEF EntriesTold
    <3>3. a # address[n] => leaderboard'[a].node = x /\ a \in DOMAIN leaderboard'
      BY <2>1, <3>1
    <3>4. a # address[n] => x \in NodesListed'
      BY <3>3 DEF NodesListed
    <3> QED
      BY <3>2, <3>4
  <2>7. Explained'
    <3> SUFFICES ASSUME NEW j \in DOMAIN order', ~NoScores(order'[j]), order'[j] \notin unread'
                 PROVE  \/ order'[j] \in NodesListed'
                        \/ \E k \in j + 1 .. Len(order') : address'[order'[k]] = address'[order'[j]]
                        \/ \A i \in 1 .. j : order'[i] \notin NodesListed'
      BY <1>8 DEF Explained
    <3>1. CASE j = l + 1
      BY <1>5, <2>4, <3>1
    <3>2. CASE j # l + 1
      <4>1. j \in 1 .. l /\ l + 1 \in j + 1 .. l + 1
        BY <1>3, <1>5, <3>2
      <4>2. \/ order[j] \in NodesListed
            \/ \E k \in j + 1 .. l : address[order[k]] = address[order[j]]
            \/ \A i \in 1 .. j : order[i] \notin NodesListed
        BY <1>1, <1>2, <1>5, <1>b, <4>1 DEF Explained, l
      <4>3. CASE order[j] \in NodesListed
        <5>1. CASE order[j] \in NodesListed'
          BY <1>5, <4>1, <5>1
        <5>2. CASE address[order[j]] = address[n]
          BY <1>1, <1>5, <4>1, <5>2
        <5> QED
          BY <2>6, <4>3, <5>1, <5>2
      <4>4. CASE \E k \in j + 1 .. l : address[order[k]] = address[order[j]]
        BY <1>5, <1>a, <4>1, <4>4
      <4>5. CASE \A i \in 1 .. j : order[i] \notin NodesListed
        <5>1. \A i \in 1 .. j : i \in 1 .. l
          BY <1>3, <4>1
        <5> QED
          BY <1>5, <2>5, <4>5, <5>1
      <4> QED
        BY <4>2, <4>3, <4>4, <4>5
    <3> QED
      BY <3>1, <3>2
  <2> QED
    BY <1>1, <1>2, <1>6, <2>1, <2>2, <2>3, <2>7 DEF Inv
<1>11. CASE ~NoScores(n) /\ e.unbound /\ partial' = e.partial /\ leaderboard' = leaderboard
  <2>1. DOMAIN leaderboard = {}
    BY <1>2, <1>7, <1>11 DEF EntryMade
  <2> QED
    BY <1>9, <1>11, <2>1
<1>12. CASE (NoScores(n) \/ n \in unread') /\ partial' = partial /\ leaderboard' = leaderboard
  BY <1>9, <1>12
<1> QED
  BY <1>1, <1>10, <1>11, <1>12

(* Every step keeps the invariant. *)
LEMMA StepInv ==
  ASSUME Inv, [Next]_vars
  PROVE  Inv'
<1>1. CASE GetAllNodesIds
  BY <1>1, IdsRead
<1>2. CASE AddNode
  BY <1>2, NodeAdded
<1>3. ASSUME UNCHANGED <<address, rows, others, ids, partial, leaderboard, order, unread>>,
             reply' = "none" => reply = "none"
      PROVE  Inv'
  <2>1. NodesOnce'
    BY <1>3 DEF Inv, NodesOnce
  <2>2. EntriesTold'
    BY <1>3 DEF Inv, EntriesTold, Told, ShownOf
  <2>3. Explained'
    BY <1>3 DEF Inv, Explained, NoScores, NoRow, NodesListed
  <2> QED
    BY <1>3, <2>1, <2>2, <2>3 DEF Inv
<1>4. CASE Reply
  BY <1>3, <1>4 DEF Reply
<1>5. CASE IdsFail
  BY <1>3, <1>5 DEF IdsFail
<1>6. CASE UNCHANGED vars
  BY <1>3, <1>6 DEF vars
<1> QED
  BY <1>1, <1>2, <1>4, <1>5, <1>6 DEF Next

(* The invariant always holds. *)
LEMMA InvAlways == Spec => []Inv
<1>1. Init => Inv
  BY InitInv
<1>2. Inv /\ [Next]_vars => Inv'
  BY StepInv
<1> QED
  BY <1>1, <1>2, PTL DEF Spec

-----------------------------------------------------------------------------
(* What is listed says what is true of the buffers.                        *)
LEMMA ListedIs ==
  ASSUME Inv, NEW l \in Listed
  PROVE  l.node \in Nodes /\ rows[l.node] \in Row /\ Told(l.entry, rows[l.node], ToSet(Metrics))
<1>1. PICK a \in DOMAIN leaderboard : l = leaderboard[a]
  BY DEF Listed
<1> QED
  BY <1>1 DEF Inv, EntriesTold

(* PartialShown follows. *)
LEMMA InvPartial == Inv => PartialShown
BY ListedIs DEF PartialShown, Told

(* A metric of a task with few samples is never shown as whole, for any    *)
(* metrics, samples and order of the nodes (leaderboard.py:171, 242, 267). *)
THEOREM PartialAlwaysShown == Spec => []PartialShown
BY InvAlways, InvPartial, PTL

(* TotalsOfShown follows. *)
LEMMA InvTotals == Inv => TotalsOfShown
<1> SUFFICES ASSUME Inv, NEW l \in Listed
             PROVE  LET row == rows[l.node]
                        e == l.entry
                        tasks == UNION {TasksOf(m) : m \in Shown(e)}
                        read == (ToSet(Metrics) \ {"mmlu"}) \cup SubtasksMet(row)
                    IN
                    /\ e.weight = SumFunctionOnSet(Weights(row), tasks)
                    /\ e.sum = SumFunctionOnSet([t \in Tasks |-> Mean(t) * Weights(row)[t]], tasks)
                    /\ e.incomplete <=> Shown(e) # ToSet(Metrics)
                    /\ "mmlu" \in Shown(e) => \A t \in ToSet(Subtasks) : row[t] # Absent
                    /\ e.requests = SumFunctionOnSet(Samples(row), read)
                    /\ e.errors = SumFunctionOnSet(SampleErrors(row), read)
  BY DEF TotalsOfShown
<1> DEFINE row == rows[l.node]
           e == l.entry
           full == ToSet(Metrics)
<1>1. row \in Row /\ Told(e, row, full)
  BY ListedIs
<1>2. Shown(e) = ShownOf(e, full) /\ UNION {TasksOf(m) : m \in Shown(e)} = TasksOfAll(ShownOf(e, full))
  BY DEF Shown, ShownOf, TasksOfAll
<1>3. Means(row) = [t \in Tasks |-> Mean(t) * Weights(row)[t]]
  BY DEF Means
<1>4. "mmlu" \in Shown(e) => \A t \in ToSet(Subtasks) : row[t] # Absent
  <2>1. TasksOf("mmlu") = ToSet(Subtasks)
    BY DEF TasksOf
  <2> QED
    BY <1>1, <1>2, <2>1 DEF Told
<1>5. ReadOfAll(row, full) = (full \ {"mmlu"}) \cup SubtasksMet(row)
  <2>1. "mmlu" \in full
    BY MetricsAssumption
  <2>2. \A m \in full : ReadOf(row, m) = IF m = "mmlu" THEN SubtasksMet(row) ELSE {m}
    BY DEF ReadOf
  <2> HIDE DEF full, row
  <2> QED
    BY <2>1, <2>2 DEF ReadOfAll
<1>6. /\ e.weight = SumFunctionOnSet(Weights(row), TasksOfAll(ShownOf(e, full)))
      /\ e.sum = SumFunctionOnSet(Means(row), TasksOfAll(ShownOf(e, full)))
      /\ e.incomplete <=> ShownOf(e, full) # full
      /\ e.requests = SumFunctionOnSet(Samples(row), ReadOfAll(row, full))
      /\ e.errors = SumFunctionOnSet(SampleErrors(row), ReadOfAll(row, full))
  BY <1>1 DEF Told
<1> QED
  BY <1>2, <1>3, <1>4, <1>5, <1>6

(* Averages are those of the samples of what is shown, each counted as     *)
(* often as it weighs, and the error rate that of the requests of all that *)
(* was read, of an mmlu that stopped early too (leaderboard.py:145-213,    *)
(* 256-302).                                                               *)
THEOREM TotalsAlwaysOfShown == Spec => []TotalsOfShown
BY InvAlways, InvTotals, PTL

(* LeftOutExplained follows. *)
LEMMA InvExplained == Inv => LeftOutExplained
<1> SUFFICES ASSUME Inv, NEW j \in DOMAIN order, ~NoScores(order[j]),
                    order[j] \notin unread, order[j] \notin {l.node : l \in Listed}
             PROVE  \/ \A i \in 1 .. j - 1 : order[i] \notin {l.node : l \in Listed}
                    \/ \E k \in j + 1 .. Len(order) : address[order[k]] = address[order[j]]
  BY DEF LeftOutExplained
<1>1. {l.node : l \in Listed} = NodesListed
  BY DEF Listed, NodesListed
<1>2. \/ order[j] \in NodesListed
      \/ \E k \in j + 1 .. Len(order) : address[order[k]] = address[order[j]]
      \/ \A i \in 1 .. j : order[i] \notin NodesListed
  BY DEF Inv, Explained
<1>3. \A i \in 1 .. j - 1 : i \in 1 .. j
  <2>1. j \in Nat
    BY DEF Inv, NodesOnce
  <2> QED
    BY <2>1
<1> QED
  BY <1>1, <1>2, <1>3

(* Of the nodes with scores, only those whose queries failed, those before *)
(* the first one listed, and those a later one of their address replaced,  *)
(* are left out (leaderboard.py:102-113, 146, 267, 316-322).               *)
THEOREM LeftOutAlwaysExplained == Spec => []LeftOutExplained
BY InvAlways, InvExplained, PTL
=============================================================================
