--------------------------- MODULE DocumentsProofs ---------------------------
(***************************************************************************)
(* Documents, prompts and answers stay together, for any dataset, request  *)
(* and responses.                                                          *)
(***************************************************************************)
EXTENDS Documents, FiniteSetTheorems, SequenceTheorems, TLAPS

-----------------------------------------------------------------------------
(***************************************************************************)
(* Induction, by the least number that a claim fails for.                  *)
(***************************************************************************)
(* A set of numbers has a least one. *)
LEMMA LeastNumber ==
  ASSUME NEW T, T \subseteq Nat, T # {}
  PROVE  \E n \in T : \A m \in T : n <= m
<1> DEFINE R == {ss \in Nat \X Nat : ss[1] < ss[2]}
<1>1. IsWellFoundedOn(R, Nat)
  BY NatLessThanWellFounded DEF OpToRel
<1>2. \A m, n \in Nat : m < n => <<m, n>> \in R
  OBVIOUS
<1> HIDE DEF R
<1>3. PICK n \in T : \A m \in T : ~ (<<m, n>> \in R)
  BY <1>1, WFMin
<1>4. n \in Nat /\ \A m \in T : m \in Nat /\ ~ (m < n)
  BY <1>2, <1>3
<1> QED
  BY <1>4

(* A set of numbers that has 0, and n + 1 if it has n, has every number. *)
LEMMA AllNumbers ==
  ASSUME NEW T, 0 \in T, \A n \in Nat : n \in T => n + 1 \in T
  PROVE  Nat \subseteq T
<1> SUFFICES ASSUME Nat \ T # {}
             PROVE  FALSE
  OBVIOUS
<1>1. PICK n \in Nat \ T : \A m \in Nat \ T : n <= m
  BY LeastNumber
<1> QED
  BY <1>1

(* The ends of a set of numbers with a bound. *)
LEMMA EndsAre ==
  ASSUME NEW n \in Nat, NEW T, T \subseteq 0 .. n, T # {}
  PROVE  /\ Min(T) \in T /\ \A m \in T : Min(T) <= m
         /\ Max(T) \in T /\ \A m \in T : m <= Max(T)
<1>1. \E x \in T : \A m \in T : x <= m
  <2>1. T \subseteq Nat
    OBVIOUS
  <2> QED
    BY <2>1, LeastNumber
<1> DEFINE U == {n - m : m \in T}
<1>2. U \subseteq Nat /\ U # {}
  <2>1. \A m \in T : n - m \in Nat
    OBVIOUS
  <2> QED
    BY <2>1
<1>3. PICK l \in U : \A m \in U : l <= m
  <2> HIDE DEF U
  <2> QED
    BY <1>2, LeastNumber
<1>4. PICK x \in T : l = n - x
  OBVIOUS
<1>5. \A m \in T : x >= m
  <2> TAKE m \in T
  <2>1. l <= n - m
    BY <1>3
  <2> QED
    BY <1>4, <2>1
<1>6. \E y \in T : \A m \in T : y >= m
  BY <1>5
<1>7. Max(T) \in T /\ \A m \in T : Max(T) >= m
  BY <1>6 DEF Max
<1>8. Min(T) \in T /\ \A m \in T : Min(T) <= m
  BY <1>1 DEF Min
<1> QED
  BY <1>7, <1>8

-----------------------------------------------------------------------------
(***************************************************************************)
(* Sets in ascending order.                                                *)
(***************************************************************************)
IsAscending(s) == \A i, j \in DOMAIN s : i < j => s[i] < s[j]

(* A finite set of numbers has an ascending order: that of how many of it  *)
(* are not above.                                                          *)
LEMMA SortedIs ==
  ASSUME NEW S, S \subseteq Nat, IsFiniteSet(S)
  PROVE  /\ Sorted(S) \in [1 .. Cardinality(S) -> S] /\ IsAscending(Sorted(S))
         /\ ToSet(Sorted(S)) = S /\ Sorted(S) \in Seq(Nat) /\ Len(Sorted(S)) = Cardinality(S)
         /\ Cardinality(S) \in Nat
<1> DEFINE n == Cardinality(S)
           D == 1 .. n
           Down(x) == {y \in S : y <= x}
           rank == [x \in S |-> Cardinality(Down(x))]
<1>0. /\ \A x : x \in S => x \in Nat
      /\ n \in Nat => \A i : i \in D => i \in Int
  <2>1. \A x : x \in S => x \in Nat
    OBVIOUS
  <2> HIDE DEF n
  <2>2. n \in Nat => \A i : i \in D => i \in Int
    OBVIOUS
  <2> QED
    BY <2>1, <2>2
<1>1. n \in Nat /\ IsFiniteSet(D) /\ Cardinality(D) = n
  BY FS_CardinalityType, FS_Interval
<1>2. \A x \in S : IsFiniteSet(Down(x)) /\ Down(x) \subseteq S /\ x \in Down(x)
  <2> TAKE x \in S
  <2>1. Down(x) \subseteq S /\ x \in Down(x)
    OBVIOUS
  <2> HIDE DEF Down
  <2> QED
    BY <2>1, FS_Subset
<1>3. \A x, y \in S : x < y => rank[x] < rank[y]
  <2> SUFFICES ASSUME NEW x \in S, NEW y \in S, x < y
               PROVE  rank[x] < rank[y]
    OBVIOUS
  <2>0. x \in Nat /\ y \in Nat /\ \A z \in S : z \in Nat
    OBVIOUS
  <2>1. \A z \in S : z <= x => z <= y
    BY <2>0
  <2>a. y <= y /\ ~(y <= x)
    BY <2>0
  <2>b. Down(x) \subseteq Down(y) /\ y \notin Down(x) /\ y \in Down(y)
    BY <2>1, <2>a
  <2> HIDE DEF Down
  <2>2. Cardinality(Down(x)) <= Cardinality(Down(y)) /\ Cardinality(Down(x)) # Cardinality(Down(y))
    BY <1>2, <2>b, FS_Subset
  <2>3. Cardinality(Down(x)) \in Nat /\ Cardinality(Down(y)) \in Nat
    BY <1>2, FS_CardinalityType
  <2> QED
    BY <2>2, <2>3
<1>4. rank \in [S -> D]
  <2> SUFFICES ASSUME NEW x \in S
               PROVE  Cardinality(Down(x)) \in D
    OBVIOUS
  <2>1. IsFiniteSet(Down(x)) /\ Down(x) \subseteq S /\ Down(x) # {}
    BY <1>2
  <2> HIDE DEF Down
  <2>2. Cardinality(Down(x)) \in Nat /\ Cardinality(Down(x)) # 0
    BY <2>1, FS_CardinalityType, FS_EmptySet
  <2>3. Cardinality(Down(x)) <= n
    BY <2>1, FS_Subset
  <2> QED
    BY <1>1, <2>2, <2>3
<1>5. \A x, y \in S : x # y => rank[x] # rank[y]
  <2>1. \A x \in S : rank[x] \in Int
    BY <1>4
  <2>2. \A x, y \in S : x # y => x < y \/ y < x
    OBVIOUS
  <2> HIDE DEF rank
  <2> QED
    BY <1>3, <2>1, <2>2
<1>6. \A m \in D : \E x \in S : rank[x] = m
  <2> HIDE DEF rank, D
  <2>1. rank \in Injection(S, D)
    BY <1>4, <1>5 DEF Injection, IsInjective
  <2>2. rank \in Surjection(S, D)
    BY <1>1, <2>1, FS_Injection
  <2> QED
    BY <2>2 DEF Surjection
<1> DEFINE s == [m \in D |-> CHOOSE x \in S : rank[x] = m]
<1>7. \A m \in D : s[m] \in S /\ rank[s[m]] = m
  <2> HIDE DEF rank, D
  <2> QED
    BY <1>6
<1>8. s \in [1 .. n -> S] /\ \A i, j \in DOMAIN s : i < j => s[i] < s[j]
  <2>1. \A m \in D : s[m] \in S
    BY <1>7
  <2>2. ASSUME NEW i \in D, NEW j \in D, i < j
        PROVE  s[i] < s[j]
    <3>1. /\ s[i] \in S /\ s[j] \in S /\ rank[s[i]] = i /\ rank[s[j]] = j
          /\ s[i] \in Nat /\ s[j] \in Nat /\ i \in Int /\ j \in Int
      <4> HIDE DEF s, rank, D, n
      <4> QED
        BY <1>0, <1>1, <1>7
    <3>0. s[j] < s[i] => rank[s[j]] < rank[s[i]]
      BY <1>3, <3>1
    <3> HIDE DEF s, rank
    <3>2. ~(s[j] < s[i]) /\ s[i] # s[j]
      BY <2>2, <3>0, <3>1
    <3> QED
      BY <3>1, <3>2
  <2> QED
    BY <2>1, <2>2
<1> HIDE DEF s, n, D
<1>9. Sorted(S) \in [1 .. n -> S] /\ IsAscending(Sorted(S))
  BY <1>8 DEF Sorted, IsAscending, n
<1>10. ToSet(Sorted(S)) = S
  <2> DEFINE t == Sorted(S)
  <2> HIDE DEF t
  <2>1. t \in [D -> S]
    BY <1>9 DEF t, D
  <2>2. \A i, j \in D : i # j => t[i] # t[j]
    <3> SUFFICES ASSUME NEW i \in D, NEW j \in D, i # j
                 PROVE  t[i] # t[j]
      OBVIOUS
    <3>1. i \in Int /\ j \in Int /\ t[i] \in Nat /\ t[j] \in Nat
      <4>1. t[i] \in S /\ t[j] \in S
        BY <2>1
      <4> QED
        BY <1>0, <1>1, <4>1
    <3>2. i < j \/ j < i
      BY <3>1
    <3>3. t[i] < t[j] \/ t[j] < t[i]
      BY <1>9, <2>1, <3>2 DEF IsAscending, t, D
    <3> QED
      BY <3>1, <3>3
  <2>3. t \in Injection(D, S)
    BY <2>1, <2>2 DEF Injection, IsInjective
  <2>4. t \in Surjection(D, S)
    BY <1>1, <2>3, FS_Injection DEF n
  <2> QED
    BY <2>1, <2>4 DEF Surjection, ToSet, t
<1>11. Sorted(S) \in Seq(Nat) /\ Len(Sorted(S)) = n
  <2>1. Sorted(S) \in [1 .. n -> Nat]
    BY <1>9
  <2> QED
    BY <1>1, <2>1
<1> QED
  BY <1>1, <1>9, <1>10, <1>11 DEF n

(* There is one ascending order of a set. *)
LEMMA SortedOnce ==
  ASSUME NEW s \in Seq(Int), NEW t \in Seq(Int), Len(s) = Len(t),
         IsAscending(s), IsAscending(t), ToSet(s) = ToSet(t)
  PROVE  s = t
<1> DEFINE n == Len(s)
           T == {i \in 1 .. n : s[i] # t[i]}
<1>1. n \in Nat /\ DOMAIN s = 1 .. n /\ DOMAIN t = 1 .. n
  OBVIOUS
<1>2. CASE T = {}
  BY <1>1, <1>2
<1>3. CASE T # {}
  <2>1. T \subseteq Nat
    OBVIOUS
  <2>2. PICK i \in T : \A m \in T : i <= m
    BY <1>3, <2>1, LeastNumber
  <2>3. i \in 1 .. n /\ s[i] # t[i] /\ s[i] \in Int /\ t[i] \in Int
    BY <1>1, <2>2
  <2>4. \A j \in 1 .. n : j < i => s[j] = t[j]
    BY <2>2, <2>3
  <2>5. PICK j \in 1 .. n : t[j] = s[i]
    BY <1>1, <2>3 DEF ToSet
  <2>6. PICK k \in 1 .. n : s[k] = t[i]
    BY <1>1, <2>3 DEF ToSet
  <2>7. \A p, q \in 1 .. n : p < q => s[p] < s[q] /\ t[p] < t[q]
    BY <1>1, ZenonT(60) DEF IsAscending
  <2>8. ~(s[i] < t[i])
    BY <2>3, <2>4, <2>5, <2>7, SMTT(30)
  <2>9. ~(t[i] < s[i])
    BY <2>3, <2>4, <2>6, <2>7, SMTT(30)
  <2> QED
    BY <2>3, <2>8, <2>9
<1> QED
  BY <1>2, <1>3

-----------------------------------------------------------------------------
(***************************************************************************)
(* Sequences one after the other.                                          *)
(***************************************************************************)
(* The places of a sequence and of the one after it. *)
LEMMA Concat ==
  ASSUME NEW S, NEW a \in Seq(S), NEW b \in Seq(S)
  PROVE  /\ a \o b \in Seq(S) /\ Len(a) \in Nat /\ Len(b) \in Nat
         /\ DOMAIN a = 1 .. Len(a) /\ DOMAIN b = 1 .. Len(b)
         /\ Len(a \o b) = Len(a) + Len(b) /\ DOMAIN (a \o b) = 1 .. Len(a) + Len(b)
         /\ \A m \in DOMAIN a : m \in DOMAIN (a \o b) /\ (a \o b)[m] = a[m]
         /\ \A c \in DOMAIN b : Len(a) + c \in DOMAIN (a \o b) /\ (a \o b)[Len(a) + c] = b[c]
         /\ \A m \in DOMAIN (a \o b) : \/ m \in DOMAIN a
                                      \/ \E c \in DOMAIN b : m = Len(a) + c
<1>1. /\ a \o b \in Seq(S) /\ Len(a) \in Nat /\ Len(b) \in Nat
      /\ DOMAIN a = 1 .. Len(a) /\ DOMAIN b = 1 .. Len(b)
      /\ Len(a \o b) = Len(a) + Len(b) /\ DOMAIN (a \o b) = 1 .. Len(a) + Len(b)
  OBVIOUS
<1>2. ASSUME NEW m \in 1 .. Len(a)
      PROVE  m \in DOMAIN (a \o b) /\ (a \o b)[m] = a[m]
  BY <1>1
<1>3. ASSUME NEW c \in 1 .. Len(b)
      PROVE  Len(a) + c \in DOMAIN (a \o b) /\ (a \o b)[Len(a) + c] = b[c]
  BY <1>1
<1>4. ASSUME NEW m \in DOMAIN (a \o b), m \notin 1 .. Len(a)
      PROVE  \E c \in 1 .. Len(b) : m = Len(a) + c
  <2>1. m - Len(a) \in 1 .. Len(b) /\ m = Len(a) + (m - Len(a))
    BY <1>1, <1>4
  <2> QED
    BY <2>1
<1> QED
  BY <1>1, <1>2, <1>3, <1>4

(* One more behind two is one more behind the second. *)
LEMMA AppendBehind ==
  \A S : \A a, b \in Seq(S), x \in S :
    Append(a \o b, x) = a \o Append(b, x) /\ Append(a, x) = a \o <<x>>
<1> TAKE S
<1> TAKE a, b \in Seq(S), x \in S
<1>1. a \o b \in Seq(S) /\ <<x>> \in Seq(S)
  BY Concat
<1>2. Append(a \o b, x) = (a \o b) \o <<x>>
  BY <1>1, AppendIsConcat
<1>3. (a \o b) \o <<x>> = a \o (b \o <<x>>)
  BY <1>1, ConcatAssociative
<1>4. Append(b, x) = b \o <<x>> /\ Append(a, x) = a \o <<x>>
  BY AppendIsConcat
<1> QED
  BY <1>2, <1>3, <1>4

(* What holds first and of the next number holds up to a number. *)
LEMMA UpTo ==
  ASSUME NEW n \in Nat, NEW T, 0 \in T, \A k \in 0 .. n - 1 : k \in T => k + 1 \in T
  PROVE  0 .. n \subseteq T
<1> DEFINE U == {k \in Nat : k <= n => k \in T}
<1>1. 0 \in U /\ \A k \in Nat : k \in U => k + 1 \in U
  OBVIOUS
<1>2. Nat \subseteq U
  <2> HIDE DEF U
  <2> QED
    BY <1>1, AllNumbers
<1> QED
  BY <1>2

\* What there is after each sequence.
Flattening(f, ss, S) ==
  /\ f[0] = <<>> /\ \A i \in 0 .. Len(ss) : f[i] \in Seq(S)
  /\ \A i \in 1 .. Len(ss) : f[i] = f[i - 1] \o ss[i]
  /\ FlattenSeq(ss) = f[Len(ss)]

(* There is something after each sequence. *)
LEMMA FlattenIs ==
  ASSUME NEW S, NEW ss \in Seq(Seq(S))
  PROVE  \E f : Flattening(f, ss, S)
<1> DEFINE n == Len(ss)
           Body(f, i) == IF i = 1 THEN ss[i] ELSE f[i - 1] \o ss[i]
           P(k) == \E f : \A i \in 1 .. k : f[i] = Body(f, i)
           T == {k \in 0 .. n : P(k)}
<1>0. n \in Nat /\ \A i \in 1 .. n : ss[i] \in Seq(S)
  OBVIOUS
<1> HIDE DEF n
<1>1. P(0)
  OBVIOUS
<1>2. ASSUME NEW k \in 0 .. n - 1, P(k)
      PROVE  P(k + 1)
  <2>1. PICK f : \A i \in 1 .. k : f[i] = Body(f, i)
    BY <1>2
  <2> DEFINE g == [i \in 1 .. k + 1 |-> IF i = k + 1 THEN Body(f, i) ELSE f[i]]
  <2>2. ASSUME NEW i \in 1 .. k + 1
        PROVE  g[i] = Body(g, i)
    <3>1. i = 1 \/ (i - 1 \in 1 .. k + 1 /\ i - 1 # k + 1)
      OBVIOUS
    <3>a. i = 1 \/ g[i - 1] = f[i - 1]
      <4> HIDE DEF Body
      <4> QED
        BY <3>1
    <3>2. Body(g, i) = Body(f, i)
      <4> HIDE DEF g
      <4> QED
        BY <3>a
    <3>3. i = k + 1 \/ i \in 1 .. k
      OBVIOUS
    <3> HIDE DEF Body
    <3>4. g[i] = IF i = k + 1 THEN Body(f, i) ELSE f[i]
      OBVIOUS
    <3> HIDE DEF g
    <3> QED
      BY <2>1, <3>2, <3>3, <3>4
  <2> HIDE DEF g, Body
  <2> QED
    BY <2>2
<1>3. P(n)
  <2> HIDE DEF P
  <2>1. 0 \in T /\ \A k \in 0 .. n - 1 : k \in T => k + 1 \in T
    BY <1>0, <1>1, <1>2
  <2> HIDE DEF T
  <2>2. 0 .. n \subseteq T
    BY <1>0, <2>1, UpTo
  <2> QED
    BY <1>0, <2>2 DEF T
<1>4. PICK f : \A i \in 1 .. n : f[i] = Body(f, i)
  BY <1>3
<1> DEFINE flatten == CHOOSE g : g = [i \in 1 .. n |-> Body(g, i)]
<1>5. flatten = [i \in 1 .. n |-> Body(flatten, i)]
  <2> DEFINE g == [i \in 1 .. n |-> f[i]]
  <2>1. \A i \in 1 .. n : Body(g, i) = Body(f, i)
    <3> TAKE i \in 1 .. n
    <3>1. i = 1 \/ (i - 1 \in 1 .. n /\ g[i - 1] = f[i - 1])
      BY <1>0
    <3> HIDE DEF g
    <3> QED
      BY <3>1
  <2>2. g = [i \in 1 .. n |-> Body(g, i)]
    <3> HIDE DEF Body
    <3> QED
      BY <1>4, <2>1
  <2>3. \E h : h = [i \in 1 .. n |-> Body(h, i)]
    <3> HIDE DEF Body, g
    <3> QED
      BY <2>2
  <2> HIDE DEF Body
  <2> QED
    BY <2>3
<1>6. FlattenSeq(ss) = IF n = 0 THEN ss ELSE flatten[n]
  BY DEF FlattenSeq, n
<1> HIDE DEF flatten
<1> DEFINE h == [i \in 0 .. n |-> IF i = 0 THEN <<>> ELSE flatten[i]]
<1>7. ASSUME NEW i \in 1 .. n
      PROVE  flatten[i] = Body(flatten, i)
  <2> HIDE DEF Body
  <2> QED
    BY <1>5
<1>8. h[0] = <<>> /\ <<>> \in Seq(S)
  BY <1>0
<1>9. \A i \in 1 .. n : h[i] = flatten[i]
  BY <1>0
<1> DEFINE Good(k) == h[k] \in Seq(S) /\ (k # 0 => h[k] = h[k - 1] \o ss[k])
           U == {k \in 0 .. n : Good(k)}
<1> HIDE DEF h
<1>10. Good(0)
  BY <1>8
<1>11. ASSUME NEW k \in 0 .. n - 1, Good(k)
       PROVE  Good(k + 1)
  <2>1. h[k] \in Seq(S)
    BY <1>11
  <2>2. k + 1 \in 1 .. n /\ k + 1 - 1 = k /\ ss[k + 1] \in Seq(S)
    BY <1>0
  <2>3. h[k + 1] = Body(flatten, k + 1)
    <3> HIDE DEF Body
    <3> QED
      BY <1>7, <1>9, <2>2
  <2>4. Body(flatten, k + 1) = IF k = 0 THEN ss[k + 1] ELSE flatten[k] \o ss[k + 1]
    BY <2>2
  <2>5. k = 0 => ss[k + 1] = h[k] \o ss[k + 1]
    BY <1>8, <2>2, ConcatEmptySeq
  <2>6. k # 0 => flatten[k] = h[k]
    BY <1>0, <1>9
  <2>7. h[k + 1] = h[k] \o ss[k + 1]
    <3> HIDE DEF Body
    <3> QED
      BY <2>3, <2>4, <2>5, <2>6
  <2>8. h[k] \o ss[k + 1] \in Seq(S)
    BY <2>1, <2>2, Concat
  <2> QED
    BY <2>2, <2>7, <2>8
<1>12. \A k \in 0 .. n : Good(k)
  <2> HIDE DEF Good
  <2>1. 0 \in U /\ \A k \in 0 .. n - 1 : k \in U => k + 1 \in U
    BY <1>0, <1>10, <1>11
  <2> HIDE DEF U
  <2>2. 0 .. n \subseteq U
    BY <1>0, <2>1, UpTo
  <2> QED
    BY <2>2 DEF U
<1>13. \A i \in 0 .. n : h[i] \in Seq(S)
  BY <1>12
<1>14. \A i \in 1 .. n : h[i] = h[i - 1] \o ss[i]
  <2> TAKE i \in 1 .. n
  <2>1. i \in 0 .. n /\ i # 0
    BY <1>0
  <2> QED
    BY <1>12, <2>1
<1>15. FlattenSeq(ss) = h[n]
  <2>1. n = 0 => ss = <<>>
    BY DEF n
  <2>2. n # 0 => n \in 1 .. n
    BY <1>0
  <2> QED
    BY <1>6, <1>8, <1>9, <2>1, <2>2
<1> QED
  BY <1>8, <1>13, <1>14, <1>15 DEF Flattening, n

(* With one sequence more, there is that sequence more. *)
LEMMA FlattenMore ==
  ASSUME NEW S, NEW ss \in Seq(Seq(S)), NEW tt \in Seq(Seq(S)),
         Len(ss) = Len(tt) + 1, \A i \in 1 .. Len(tt) : ss[i] = tt[i]
  PROVE  FlattenSeq(ss) = FlattenSeq(tt) \o ss[Len(ss)]
<1> DEFINE n == Len(tt)
<1>0. n \in Nat /\ Len(ss) = n + 1
  OBVIOUS
<1>1. PICK f : Flattening(f, ss, S)
  BY FlattenIs
<1>2. PICK g : Flattening(g, tt, S)
  BY FlattenIs
<1>3. /\ f[0] = <<>> /\ \A i \in 1 .. n + 1 : f[i] = f[i - 1] \o ss[i]
      /\ FlattenSeq(ss) = f[n + 1]
  BY <1>0, <1>1 DEF Flattening
<1>4. /\ g[0] = <<>> /\ \A i \in 1 .. n : g[i] = g[i - 1] \o tt[i]
      /\ FlattenSeq(tt) = g[n]
  BY <1>2 DEF Flattening
<1>5. \A i \in 1 .. n : ss[i] = tt[i]
  OBVIOUS
<1> HIDE DEF n
<1> DEFINE U == {k \in 0 .. n : f[k] = g[k]}
<1>6. ASSUME NEW k \in 0 .. n - 1, f[k] = g[k]
      PROVE  f[k + 1] = g[k + 1]
  <2>1. PICK l : l = k + 1
    OBVIOUS
  <2>2. l \in 1 .. n /\ l \in 1 .. n + 1 /\ l - 1 = k
    BY <1>0, <2>1
  <2>3. f[l] = f[k] \o ss[l] /\ g[l] = g[k] \o tt[l] /\ ss[l] = tt[l]
    BY <1>3, <1>4, <1>5, <2>2
  <2> QED
    BY <1>6, <2>1, <2>3
<1>7. 0 \in U /\ \A k \in 0 .. n - 1 : k \in U => k + 1 \in U
  <2>1. f[0] = g[0]
    BY <1>3, <1>4
  <2>2. \A k \in 0 .. n - 1 : k \in 0 .. n /\ k + 1 \in 0 .. n
    BY <1>0
  <2> QED
    BY <1>0, <1>6, <2>1, <2>2
<1>8. 0 .. n \subseteq U
  <2> HIDE DEF U
  <2> QED
    BY <1>0, <1>7, UpTo
<1>9. f[n] = g[n]
  BY <1>0, <1>8
<1>10. f[n + 1] = f[n] \o ss[n + 1]
  <2>1. PICK l : l = n + 1
    OBVIOUS
  <2>2. l \in 1 .. n + 1 /\ l - 1 = n
    BY <1>0, <2>1
  <2>3. f[l] = f[n] \o ss[l]
    BY <1>3, <2>2
  <2> QED
    BY <2>1, <2>3
<1> QED
  BY <1>0, <1>3, <1>4, <1>9, <1>10, Zenon

\* What is in one of the first k sequences.
InParts(x, ss, k) == \E i \in 1 .. k : \E c \in DOMAIN ss[i] : x = ss[i][c]

\* What is in the parts, and nothing else, is in the whole.
HasParts(whole, ss) ==
  /\ \A m \in DOMAIN whole : \E i \in DOMAIN ss : \E c \in DOMAIN ss[i] : whole[m] = ss[i][c]
  /\ \A i \in DOMAIN ss : \A c \in DOMAIN ss[i] : \E m \in DOMAIN whole : whole[m] = ss[i][c]

(* The parts make the whole. *)
LEMMA FlattenHas ==
  ASSUME NEW S, NEW ss \in Seq(Seq(S))
  PROVE  FlattenSeq(ss) \in Seq(S) /\ HasParts(FlattenSeq(ss), ss)
<1> DEFINE n == Len(ss)
<1>0. n \in Nat /\ DOMAIN ss = 1 .. n /\ \A i \in 1 .. n : ss[i] \in Seq(S)
  OBVIOUS
<1>1. PICK f : Flattening(f, ss, S)
  BY FlattenIs
<1>2. /\ f[0] = <<>> /\ FlattenSeq(ss) = f[n] /\ \A i \in 0 .. n : f[i] \in Seq(S)
      /\ \A i \in 1 .. n : f[i] = f[i - 1] \o ss[i]
  BY <1>1 DEF Flattening
<1> HIDE DEF n
<1> DEFINE From(k) == \A m \in DOMAIN f[k] : InParts(f[k][m], ss, k)
           Has(k) == \A x : InParts(x, ss, k) => \E m \in DOMAIN f[k] : f[k][m] = x
           U == {k \in 0 .. n : From(k) /\ Has(k)}
<1>3. From(0) /\ Has(0)
  BY <1>2 DEF InParts
<1>4. ASSUME NEW k \in 0 .. n - 1, From(k), Has(k)
      PROVE  From(k + 1) /\ Has(k + 1)
  <2>1. PICK l : l = k + 1
    OBVIOUS
  <2>2. l \in 1 .. n /\ l - 1 = k /\ k \in 0 .. n
    BY <1>0, <2>1
  <2>3. PICK a, b : a = f[k] /\ b = ss[l]
    OBVIOUS
  <2>4. a \in Seq(S) /\ b \in Seq(S) /\ f[l] = a \o b
    BY <1>0, <1>2, <2>2, <2>3
  <2>5. \A x : InParts(x, ss, l) <=> InParts(x, ss, k) \/ \E c \in DOMAIN b : x = b[c]
    <3>1. 1 .. l = (1 .. k) \cup {l}
      BY <2>1, <2>2
    <3> QED
      BY <2>3, <3>1 DEF InParts
  <2>6. From(l)
    <3> SUFFICES ASSUME NEW m \in DOMAIN (a \o b)
                 PROVE  InParts((a \o b)[m], ss, l)
      BY <2>4
    <3>1. CASE m \in DOMAIN a
      <4>1. (a \o b)[m] = a[m] /\ InParts(a[m], ss, k)
        BY <1>4, <2>3, <2>4, <3>1, Concat
      <4> QED
        BY <2>5, <4>1
    <3>2. CASE m \notin DOMAIN a
      <4>1. PICK c \in DOMAIN b : m = Len(a) + c
        BY <2>4, <3>2, Concat
      <4>2. (a \o b)[m] = b[c]
        BY <2>4, <4>1, Concat
      <4> QED
        BY <2>5, <4>2
    <3> QED
      BY <3>1, <3>2
  <2>7. Has(l)
    <3> SUFFICES ASSUME NEW x, InParts(x, ss, l)
                 PROVE  \E m \in DOMAIN (a \o b) : (a \o b)[m] = x
      BY <2>4
    <3>1. CASE InParts(x, ss, k)
      <4>1. PICK m \in DOMAIN a : a[m] = x
        BY <1>4, <2>3, <3>1
      <4>2. m \in DOMAIN (a \o b) /\ (a \o b)[m] = a[m]
        BY <2>4, Concat
      <4> QED
        BY <4>1, <4>2
    <3>2. CASE \E c \in DOMAIN b : x = b[c]
      <4>1. PICK c \in DOMAIN b : x = b[c]
        BY <3>2
      <4>2. Len(a) + c \in DOMAIN (a \o b) /\ (a \o b)[Len(a) + c] = b[c]
        BY <2>4, Concat
      <4> QED
        BY <4>1, <4>2
    <3> QED
      BY <2>5, <3>1, <3>2
  <2> QED
    BY <2>1, <2>6, <2>7
<1>5. From(n) /\ Has(n)
  <2> HIDE DEF From, Has
  <2>1. 0 \in U /\ \A k \in 0 .. n - 1 : k \in U => k + 1 \in U
    BY <1>0, <1>3, <1>4
  <2> HIDE DEF U
  <2>2. 0 .. n \subseteq U
    BY <1>0, <2>1, UpTo
  <2> QED
    BY <1>0, <2>2 DEF U
<1>6. f[n] \in Seq(S)
  BY <1>0, <1>2
<1>7. \A i \in 1 .. n : \A c \in DOMAIN ss[i] : InParts(ss[i][c], ss, n)
  BY DEF InParts
<1>8. \A m \in DOMAIN f[n] : \E i \in 1 .. n : \E c \in DOMAIN ss[i] : f[n][m] = ss[i][c]
  BY <1>5 DEF InParts
<1>9. \A i \in 1 .. n : \A c \in DOMAIN ss[i] : \E m \in DOMAIN f[n] : f[n][m] = ss[i][c]
  BY <1>5, <1>7
<1> HIDE DEF From, Has, U
<1>10. HasParts(f[n], ss)
  BY <1>0, <1>8, <1>9 DEF HasParts
<1> QED
  BY <1>2, <1>6, <1>10

(* Nothing is twice in the whole that is not twice in the parts. *)
LEMMA FlattenOnce ==
  ASSUME NEW S, NEW ss \in Seq(Seq(S)),
         \A i, j \in DOMAIN ss : \A c \in DOMAIN ss[i] : \A d \in DOMAIN ss[j] :
           ss[i][c] = ss[j][d] => i = j /\ c = d
  PROVE  \A m, o \in DOMAIN FlattenSeq(ss) : FlattenSeq(ss)[m] = FlattenSeq(ss)[o] => m = o
<1> DEFINE n == Len(ss)
<1>0. n \in Nat /\ DOMAIN ss = 1 .. n /\ \A i \in 1 .. n : ss[i] \in Seq(S)
  OBVIOUS
<1>1. PICK f : Flattening(f, ss, S)
  BY FlattenIs
<1>2. /\ f[0] = <<>> /\ FlattenSeq(ss) = f[n] /\ \A i \in 0 .. n : f[i] \in Seq(S)
      /\ \A i \in 1 .. n : f[i] = f[i - 1] \o ss[i]
  BY <1>1 DEF Flattening
<1> HIDE DEF n
<1> DEFINE From(k) == \A m \in DOMAIN f[k] : InParts(f[k][m], ss, k)
           Once(k) == \A m, o \in DOMAIN f[k] : f[k][m] = f[k][o] => m = o
           U == {k \in 0 .. n : From(k) /\ Once(k)}
<1>3. From(0) /\ Once(0)
  BY <1>2
<1>4. ASSUME NEW k \in 0 .. n - 1, From(k), Once(k)
      PROVE  From(k + 1) /\ Once(k + 1)
  <2>1. PICK l : l = k + 1
    OBVIOUS
  <2>2. l \in 1 .. n /\ l - 1 = k /\ k \in 0 .. n /\ l \notin 1 .. k /\ 1 .. k \subseteq 1 .. n
    BY <1>0, <2>1
  <2>3. PICK a, b : a = f[k] /\ b = ss[l]
    OBVIOUS
  <2>4. a \in Seq(S) /\ b \in Seq(S) /\ f[l] = a \o b
    BY <1>0, <1>2, <2>2, <2>3
  <2>5. \A x : InParts(x, ss, l) <=> InParts(x, ss, k) \/ \E c \in DOMAIN b : x = b[c]
    <3>1. 1 .. l = (1 .. k) \cup {l}
      BY <2>1, <2>2
    <3> QED
      BY <2>3, <3>1 DEF InParts
  <2>6. \A m \in DOMAIN (a \o b) :
          \/ m \in DOMAIN a /\ (a \o b)[m] = a[m] /\ InParts(a[m], ss, k)
          \/ \E c \in DOMAIN b : m = Len(a) + c /\ (a \o b)[m] = b[c]
    <3> TAKE m \in DOMAIN (a \o b)
    <3>1. CASE m \in DOMAIN a
      BY <1>4, <2>3, <2>4, <3>1, Concat
    <3>2. CASE m \notin DOMAIN a
      <4>1. PICK c \in DOMAIN b : m = Len(a) + c
        BY <2>4, <3>2, Concat
      <4>2. (a \o b)[m] = b[c]
        BY <2>4, <4>1, Concat
      <4> QED
        BY <4>1, <4>2
    <3> QED
      BY <3>1, <3>2
  <2>7. From(l)
    BY <2>4, <2>5, <2>6
  <2>8. \A c \in DOMAIN b : ~InParts(b[c], ss, k)
    <3> SUFFICES ASSUME NEW c \in DOMAIN b, NEW i \in 1 .. k, NEW d \in DOMAIN ss[i],
                        b[c] = ss[i][d]
                 PROVE  FALSE
      BY DEF InParts
    <3>1. i \in DOMAIN ss /\ l \in DOMAIN ss /\ i # l
      BY <1>0, <2>2
    <3> QED
      BY <2>3, <3>1
  <2>9. \A c, d \in DOMAIN b : b[c] = b[d] => c = d
    <3>1. l \in DOMAIN ss
      BY <1>0, <2>2
    <3> QED
      BY <2>3, <3>1
  <2>10. \A m, o \in DOMAIN (a \o b) : (a \o b)[m] = (a \o b)[o] => m = o
    <3> SUFFICES ASSUME NEW m \in DOMAIN (a \o b), NEW o \in DOMAIN (a \o b),
                        (a \o b)[m] = (a \o b)[o]
                 PROVE  m = o
      OBVIOUS
    <3>1. CASE m \in DOMAIN a /\ (a \o b)[m] = a[m] /\ InParts(a[m], ss, k)
      <4>1. o \in DOMAIN a /\ (a \o b)[o] = a[o]
        BY <2>6, <2>8, <3>1
      <4> QED
        BY <1>4, <2>3, <3>1, <4>1
    <3>2. CASE \E c \in DOMAIN b : m = Len(a) + c /\ (a \o b)[m] = b[c]
      <4>1. PICK c \in DOMAIN b : m = Len(a) + c /\ (a \o b)[m] = b[c]
        BY <3>2
      <4>2. PICK d \in DOMAIN b : o = Len(a) + d /\ (a \o b)[o] = b[d]
        BY <2>6, <2>8, <4>1
      <4> QED
        BY <2>9, <4>1, <4>2
    <3> QED
      BY <2>6, <3>1, <3>2
  <2>11. Once(l)
    BY <2>4, <2>10
  <2> QED
    BY <2>1, <2>7, <2>11
<1>5. Once(n)
  <2> HIDE DEF From, Once
  <2>1. 0 \in U /\ \A k \in 0 .. n - 1 : k \in U => k + 1 \in U
    BY <1>0, <1>3, <1>4
  <2> HIDE DEF U
  <2>2. 0 .. n \subseteq U
    BY <1>0, <2>1, UpTo
  <2> QED
    BY <1>0, <2>2 DEF U
<1> QED
  BY <1>2, <1>5

-----------------------------------------------------------------------------
(***************************************************************************)
(* The table.                                                              *)
(***************************************************************************)
Rows == [id : Nat, split : ToSet(Splits), doc : (DOMAIN Splits) \X Nat]

\* Rows have consecutive ids, and the splits come one after the other.
RowsInv ==
  /\ size \in [DOMAIN Splits -> Nat]
  /\ table \in Seq(Rows)
  /\ \A i \in DOMAIN table : table[i].id = i - 1 /\ table[i].split = Splits[table[i].doc[1]]
  /\ \A i, j \in DOMAIN table : i <= j => table[i].doc[1] <= table[j].doc[1]

\* The places of the records of the first n splits.
PlacesOf(sizes, n) == [s \in 1 .. n |-> [m \in 1 .. sizes[s] |-> <<s, m>>]]
Records(sizes, n) == FlattenSeq(PlacesOf(sizes, n))

Docs == [i \in DOMAIN table |-> table[i].doc]

\* What is copied is all that comes before the place of the saver, and that place.
CopyInv ==
  /\ stage = "new" => table = <<>>
  /\ stage = "transfer" =>
       /\ saver.id = Len(table) /\ size[1] > 0
       /\ \/ ~saver.consumed /\ saver.split = 1 /\ table = <<>>
          \/ /\ saver.consumed /\ saver.split \in DOMAIN Splits
             /\ saver.pos \in 1 .. size[saver.split]
             /\ Docs = Records(size, saver.split - 1)
                         \o [m \in 1 .. saver.pos |-> <<saver.split, m>>]
             /\ \A i \in DOMAIN table : table[i].doc[1] <= saver.split
  /\ Registered => Docs = Records(size, Len(Splits))

TableInv == RowsInv /\ CopyInv

(* The splits are numbered from 1. *)
LEMMA SplitsAre ==
  /\ Len(Splits) \in Nat \ {0} /\ DOMAIN Splits = 1 .. Len(Splits)
  /\ \A n \in DOMAIN Splits : Splits[n] \in ToSet(Splits)
  /\ \A s \in ToSet(Splits) : \E n \in DOMAIN Splits : s = Splits[n]
<1>1. Splits \in Seq(STRING) /\ Splits # <<>>
  BY SplitsAssumption
<1> QED
  BY <1>1 DEF ToSet

(* The ids of a split are an interval, and of that split alone. *)
LEMMA RangesAre ==
  ASSUME RowsInv
  PROVE  /\ \A s \in ToSet(Splits) : SplitExists(s) => SplitRange(s) = IdsOf(s)
         /\ \A s \in ToSet(Splits) : \A r \in ToSet(Splits) \ {s} : IdsOf(r) \cap IdsOf(s) = {}
         /\ \A s \in ToSet(Splits) : IdsOf(s) \subseteq 0 .. Len(table) - 1
<1>1. /\ Len(table) \in Nat /\ DOMAIN table = 1 .. Len(table)
      /\ \A i \in DOMAIN table : table[i].doc[1] \in DOMAIN Splits
  <2>1. table \in Seq(Rows)
    BY DEF RowsInv
  <2>2. \A i \in DOMAIN table : table[i] \in Rows
    BY <2>1
  <2>3. \A r \in Rows : r.doc[1] \in DOMAIN Splits
    BY DEF Rows
  <2> QED
    BY <2>1, <2>2, <2>3
<1>2. /\ \A i \in DOMAIN table : table[i].id = i - 1 /\ table[i].split = Splits[table[i].doc[1]]
      /\ \A i, j \in DOMAIN table : i <= j => table[i].doc[1] <= table[j].doc[1]
  BY DEF RowsInv
<1> DEFINE l == Len(table)
           n(i) == table[i].doc[1]
<1>3. \A s, x : x \in IdsOf(s) <=> \E i \in 1 .. l : x = i - 1 /\ Splits[n(i)] = s
  BY <1>1, <1>2 DEF IdsOf
<1>4. \A i \in 1 .. l : n(i) \in Int /\ n(i) \in DOMAIN Splits
  BY <1>1, SplitsAre
<1>5. \A i, j \in 1 .. l : i <= j => n(i) <= n(j)
  BY <1>1, <1>2
<1> HIDE DEF l, n
<1>6. ASSUME NEW s \in ToSet(Splits)
      PROVE  IdsOf(s) \subseteq 0 .. l - 1
  BY <1>1, <1>3 DEF l
<1>7. ASSUME NEW s \in ToSet(Splits), SplitExists(s)
      PROVE  SplitRange(s) = IdsOf(s)
  <2>1. PICK a, b : a = Min(IdsOf(s)) /\ b = Max(IdsOf(s))
    OBVIOUS
  <2>2. /\ a \in IdsOf(s) /\ b \in IdsOf(s)
        /\ \A x \in IdsOf(s) : a <= x /\ x <= b
    <3>1. IdsOf(s) \subseteq 0 .. l
      BY <1>1, <1>6 DEF l
    <3>2. l \in Nat /\ IdsOf(s) # {}
      BY <1>1, <1>7 DEF l, SplitExists
    <3> QED
      BY <2>1, <3>1, <3>2, EndsAre
  <2>3. PICK i \in 1 .. l : a = i - 1 /\ Splits[n(i)] = s
    BY <1>3, <2>2
  <2>4. PICK j \in 1 .. l : b = j - 1 /\ Splits[n(j)] = s
    BY <1>3, <2>2
  <2>5. ASSUME NEW x \in a .. b
        PROVE  x \in IdsOf(s)
    <3>1. PICK k : k = x + 1
      OBVIOUS
    <3>2. k \in 1 .. l /\ i <= k /\ k <= j /\ x = k - 1
      BY <1>1, <2>3, <2>4, <3>1 DEF l
    <3>3. n(i) = n(j)
      BY <1>4, <2>3, <2>4, SplitsAssumption
    <3>4. n(i) <= n(k) /\ n(k) <= n(j)
      BY <1>5, <2>3, <2>4, <3>2
    <3>5. n(k) = n(i)
      BY <1>4, <2>3, <2>4, <3>2, <3>3, <3>4
    <3> QED
      BY <1>3, <2>3, <3>2, <3>5
  <2>6. ASSUME NEW x \in IdsOf(s)
        PROVE  x \in a .. b
    <3>1. x \in Int /\ a \in Int /\ b \in Int
      BY <1>1, <1>6, <2>2 DEF l
    <3> QED
      BY <2>2, <3>1
  <2>7. SplitRange(s) = a .. b
    BY <2>1 DEF SplitRange
  <2> QED
    BY <2>5, <2>6, <2>7
<1>8. ASSUME NEW s \in ToSet(Splits), NEW r \in ToSet(Splits) \ {s}, NEW x \in IdsOf(r),
             x \in IdsOf(s)
      PROVE  FALSE
  <2>1. PICK i \in 1 .. l : x = i - 1 /\ Splits[n(i)] = s
    BY <1>3, <1>8
  <2>2. PICK j \in 1 .. l : x = j - 1 /\ Splits[n(j)] = r
    BY <1>3, <1>8
  <2>3. i = j
    BY <1>1, <2>1, <2>2 DEF l
  <2> QED
    BY <2>1, <2>2, <2>3
<1>9. \A s \in ToSet(Splits) : \A r \in ToSet(Splits) \ {s} : IdsOf(r) \cap IdsOf(s) = {}
  BY <1>8
<1> QED
  BY <1>6, <1>7, <1>9 DEF l

(* One split more is its records more, and none if it has none. *)
LEMMA RecordsMore ==
  ASSUME NEW sizes \in [DOMAIN Splits -> Nat]
  PROVE  /\ \A n \in 0 .. Len(Splits) : Records(sizes, n) \in Seq(Nat \X Nat)
         /\ \A n \in DOMAIN Splits : Records(sizes, n) =
              Records(sizes, n - 1) \o [m \in 1 .. sizes[n] |-> <<n, m>>]
<1>1. ASSUME NEW n \in 0 .. Len(Splits)
      PROVE  /\ PlacesOf(sizes, n) \in Seq(Seq(Nat \X Nat)) /\ Len(PlacesOf(sizes, n)) = n
             /\ \A s \in 1 .. n : PlacesOf(sizes, n)[s] = [m \in 1 .. sizes[s] |-> <<s, m>>]
  <2>1. n \in Nat /\ \A s \in 1 .. n : s \in Nat /\ sizes[s] \in Nat
    BY SplitsAre
  <2>2. \A s \in 1 .. n : [m \in 1 .. sizes[s] |-> <<s, m>>] \in Seq(Nat \X Nat)
    <3> TAKE s \in 1 .. n
    <3>1. sizes[s] \in Nat /\ s \in Nat
      BY <2>1
    <3>2. \A m \in 1 .. sizes[s] : <<s, m>> \in Nat \X Nat
      BY <3>1
    <3>3. [m \in 1 .. sizes[s] |-> <<s, m>>] \in [1 .. sizes[s] -> Nat \X Nat]
      BY <3>2
    <3> QED
      BY <3>1, <3>3, SeqDef, SMTT(30)
  <2>3. PlacesOf(sizes, n) \in [1 .. n -> Seq(Nat \X Nat)]
    BY <2>2 DEF PlacesOf
  <2>4. \A s \in 1 .. n : PlacesOf(sizes, n)[s] = [m \in 1 .. sizes[s] |-> <<s, m>>]
    BY DEF PlacesOf
  <2>5. PlacesOf(sizes, n) \in Seq(Seq(Nat \X Nat)) /\ Len(PlacesOf(sizes, n)) = n
    BY <2>1, <2>3, SeqDef
  <2> QED
    BY <2>4, <2>5
<1>2. \A n \in 0 .. Len(Splits) : Records(sizes, n) \in Seq(Nat \X Nat)
  BY <1>1, FlattenHas DEF Records
<1>3. ASSUME NEW n \in DOMAIN Splits
      PROVE  Records(sizes, n) = Records(sizes, n - 1) \o [m \in 1 .. sizes[n] |-> <<n, m>>]
  <2>1. PICK k : k = n - 1
    OBVIOUS
  <2>2. k \in 0 .. Len(Splits) /\ n \in 0 .. Len(Splits) /\ n = k + 1 /\ n \in 1 .. n
    BY <2>1, SplitsAre
  <2>3. PICK ss, tt : ss = PlacesOf(sizes, n) /\ tt = PlacesOf(sizes, k)
    OBVIOUS
  <2>4. /\ ss \in Seq(Seq(Nat \X Nat)) /\ Len(ss) = n
        /\ tt \in Seq(Seq(Nat \X Nat)) /\ Len(tt) = k
    BY <1>1, <2>2, <2>3
  <2>5. \A s \in 1 .. k : s \in 1 .. n
    BY <2>2
  <2>6. \A s \in 1 .. k : ss[s] = tt[s]
    <3> TAKE s \in 1 .. k
    <3>1. ss[s] = [m \in 1 .. sizes[s] |-> <<s, m>>] /\ tt[s] = [m \in 1 .. sizes[s] |-> <<s, m>>]
      BY <1>1, <2>2, <2>3, <2>5
    <3> QED
      BY <3>1
  <2>7. FlattenSeq(ss) = FlattenSeq(tt) \o ss[n]
    <3>1. Len(ss) = Len(tt) + 1 /\ \A s \in 1 .. Len(tt) : ss[s] = tt[s]
      BY <2>2, <2>4, <2>6
    <3> QED
      BY <2>4, <3>1, FlattenMore
  <2>8. ss[n] = [m \in 1 .. sizes[n] |-> <<n, m>>]
    BY <1>1, <2>2, <2>3
  <2> QED
    BY <2>1, <2>3, <2>7, <2>8 DEF Records
<1> QED
  BY <1>2, <1>3

(* Splits without records leave nothing. *)
LEMMA RecordsSkip ==
  ASSUME NEW sizes \in [DOMAIN Splits -> Nat], NEW n \in 0 .. Len(Splits), NEW p \in n .. Len(Splits),
         \A s \in n + 1 .. p : sizes[s] = 0
  PROVE  Records(sizes, p) = Records(sizes, n)
<1> DEFINE T == {k \in 0 .. p - n : Records(sizes, n + k) = Records(sizes, n)}
<1>0. Len(Splits) \in Nat /\ n \in Nat /\ p \in Nat /\ p - n \in Nat /\ p <= Len(Splits)
  BY SplitsAre
<1>1. 0 \in T
  BY <1>0
<1>2. ASSUME NEW k \in 0 .. p - n - 1, Records(sizes, n + k) = Records(sizes, n)
      PROVE  Records(sizes, n + (k + 1)) = Records(sizes, n)
  <2>1. PICK s : s = n + (k + 1)
    OBVIOUS
  <2>2. s \in n + 1 .. p /\ s - 1 = n + k /\ s \in DOMAIN Splits /\ s - 1 \in 0 .. Len(Splits)
    BY <1>0, <2>1, SplitsAre
  <2>3. sizes[s] = 0
    BY <2>2
  <2>4. [m \in 1 .. sizes[s] |-> <<s, m>>] = <<>>
    BY <2>3
  <2>5. Records(sizes, s) = Records(sizes, s - 1) \o <<>>
    BY <2>2, <2>4, RecordsMore
  <2>6. Records(sizes, s - 1) \in Seq(Nat \X Nat)
    BY <2>2, RecordsMore
  <2>7. Records(sizes, s) = Records(sizes, s - 1)
    BY <2>5, <2>6, ConcatEmptySeq
  <2> QED
    BY <1>2, <2>1, <2>2, <2>7
<1>3. \A k \in 0 .. p - n - 1 : k \in T => k + 1 \in T
  BY <1>0, <1>2
<1>4. 0 .. p - n \subseteq T
  <2> HIDE DEF T
  <2>1. PICK d \in Nat : d = p - n
    BY <1>0
  <2> QED
    BY <1>1, <1>3, <2>1, UpTo
<1>5. p - n \in T
  <2> HIDE DEF T
  <2> QED
    BY <1>0, <1>4
<1>6. n + (p - n) = p
  BY <1>0
<1> QED
  BY <1>5, <1>6

(* The records after the one copied last. *)
LEMMA NextPlaceIs ==
  ASSUME TableInv, stage = "transfer", saver.consumed
  PROVE  /\ NextPlace # <<>> =>
              /\ NextPlace \in (DOMAIN Splits) \X Nat /\ saver.split <= NextPlace[1]
              /\ NextPlace[2] \in 1 .. size[NextPlace[1]]
              /\ Append(Docs, NextPlace) = Records(size, NextPlace[1] - 1)
                   \o [m \in 1 .. NextPlace[2] |-> <<NextPlace[1], m>>]
         /\ NextPlace = <<>> => Docs = Records(size, Len(Splits))
<1>1. /\ size \in [DOMAIN Splits -> Nat]
      /\ saver.split \in DOMAIN Splits /\ saver.pos \in 1 .. size[saver.split]
      /\ Docs = Records(size, saver.split - 1) \o [m \in 1 .. saver.pos |-> <<saver.split, m>>]
  BY DEF TableInv, RowsInv, CopyInv
<1>2. PICK n, p : n = saver.split /\ p = saver.pos
  OBVIOUS
<1>3. /\ n \in DOMAIN Splits /\ p \in 1 .. size[n] /\ size[n] \in Nat
      /\ Docs = Records(size, n - 1) \o [m \in 1 .. p |-> <<n, m>>]
  BY <1>1, <1>2
<1> DEFINE later == {s \in n + 1 .. Len(Splits) : size[s] > 0}
<1>4. NextPlace = IF p < size[n] THEN <<n, p + 1>> ELSE IF later # {} THEN <<Min(later), 1>> ELSE <<>>
  BY <1>2 DEF NextPlace
<1>5. /\ Len(Splits) \in Nat /\ n \in 1 .. Len(Splits) /\ n - 1 \in 0 .. Len(Splits)
      /\ n \in 0 .. Len(Splits)
  BY <1>3, SplitsAre
<1>6. Records(size, n - 1) \in Seq(Nat \X Nat)
  BY <1>1, <1>5, RecordsMore
<1> DEFINE Part(s, q) == [m \in 1 .. q |-> <<s, m>>]
<1>7. ASSUME NEW s \in Nat, NEW q \in Nat
      PROVE  /\ Part(s, q) \in Seq(Nat \X Nat) /\ Len(Part(s, q)) = q
             /\ Append(Part(s, q), <<s, q + 1>>) = Part(s, q + 1)
  <2>1. \A m \in 1 .. q : <<s, m>> \in Nat \X Nat
    OBVIOUS
  <2>2. Part(s, q) \in [1 .. q -> Nat \X Nat]
    BY <2>1
  <2>3. Part(s, q) \in Seq(Nat \X Nat) /\ Len(Part(s, q)) = q
    BY <2>2, SeqDef
  <2> QED
    BY <2>3
<1>8. CASE p < size[n]
  <2>1. NextPlace = <<n, p + 1>> /\ n \in Nat /\ p \in Nat /\ p + 1 \in 1 .. size[n]
    BY <1>3, <1>4, <1>5, <1>8
  <2>2. Append(Docs, <<n, p + 1>>) = Records(size, n - 1) \o Append(Part(n, p), <<n, p + 1>>)
    <3>1. Part(n, p) \in Seq(Nat \X Nat) /\ <<n, p + 1>> \in Nat \X Nat
      BY <1>7, <2>1
    <3>2. PICK a, b : a = Records(size, n - 1) /\ b = Part(n, p)
      OBVIOUS
    <3> HIDE DEF Part
    <3>a. PICK S, x : S = Nat \X Nat /\ x = <<n, p + 1>>
      OBVIOUS
    <3>b. a \in Seq(S) /\ b \in Seq(S) /\ x \in S
      BY <1>6, <3>1, <3>2, <3>a
    <3>c. Append(a \o b, x) = a \o Append(b, x)
      <4> DEFINE c == a \o b  d == Append(b, x)
      <4>1. c \in Seq(S) /\ d \in Seq(S)
        BY <3>b, Concat
      <4> HIDE DEF c, d
      <4>2. Append(c, x) = a \o d
        BY <3>b, AppendBehind DEF c, d
      <4> QED
        BY <4>2 DEF c, d
    <3>3. Append(a \o b, <<n, p + 1>>) = a \o Append(b, <<n, p + 1>>)
      BY <3>a, <3>c
    <3>4. Docs = a \o b
      BY <1>3, <3>2 DEF Part
    <3> QED
      BY <3>2, <3>3, <3>4
  <2>3. Append(Part(n, p), <<n, p + 1>>) = Part(n, p + 1)
    BY <1>7, <2>1
  <2>4. NextPlace[1] = n /\ NextPlace[2] = p + 1 /\ NextPlace # <<>>
    BY <2>1
  <2>5. NextPlace \in (DOMAIN Splits) \X Nat
    BY <1>3, <2>1
  <2>6. Append(Docs, NextPlace) = Records(size, NextPlace[1] - 1) \o Part(NextPlace[1], NextPlace[2])
    BY <2>1, <2>2, <2>3, <2>4
  <2>7. saver.split <= NextPlace[1] /\ NextPlace[2] \in 1 .. size[NextPlace[1]]
    BY <1>2, <1>5, <2>1, <2>4
  <2> QED
    BY <2>4, <2>5, <2>6, <2>7
<1>9. CASE ~(p < size[n])
  <2>1. p = size[n]
    BY <1>3, <1>9
  <2>2. Docs = Records(size, n)
    <3>1. Records(size, n) = Records(size, n - 1) \o Part(n, size[n])
      BY <1>1, <1>3, RecordsMore
    <3> QED
      BY <1>3, <2>1, <3>1
  <2>3. CASE later = {}
    <3>1. NextPlace = <<>>
      BY <1>4, <1>9, <2>3
    <3>2. \A s \in n + 1 .. Len(Splits) : size[s] = 0
      <4> TAKE s \in n + 1 .. Len(Splits)
      <4>1. s \in DOMAIN Splits /\ ~(size[s] > 0)
        BY <1>5, <2>3, SplitsAre
      <4> QED
        BY <1>1, <4>1
    <3>3. Records(size, Len(Splits)) = Records(size, n)
      <4>1. PICK e : e = Len(Splits)
        OBVIOUS
      <4>2. e \in n .. Len(Splits)
        BY <1>5, <4>1
      <4>3. \A m \in n + 1 .. e : size[m] = 0
        BY <3>2, <4>1
      <4>4. Records(size, e) = Records(size, n)
        BY <1>1, <1>5, <4>2, <4>3, RecordsSkip
      <4> QED
        BY <4>1, <4>4
    <3> QED
      BY <2>2, <3>1, <3>3
  <2>4. CASE later # {}
    <3>1. PICK s : s = Min(later)
      OBVIOUS
    <3>2. s \in later /\ \A m \in later : s <= m
      <4>1. later \subseteq 0 .. Len(Splits)
        BY <1>5
      <4> HIDE DEF later
      <4> QED
        BY <1>5, <2>4, <3>1, <4>1, EndsAre
    <3>3. s \in n + 1 .. Len(Splits) /\ size[s] > 0 /\ NextPlace = <<s, 1>>
      BY <1>4, <1>9, <2>4, <3>1, <3>2
    <3>4. /\ s \in DOMAIN Splits /\ s \in Nat /\ s - 1 \in n .. Len(Splits) /\ n <= s
          /\ size[s] \in Nat /\ 1 \in 1 .. size[s] /\ 1 \in Nat
      <4>1. s \in 1 .. Len(Splits) /\ s \in Nat /\ s - 1 \in n .. Len(Splits) /\ n <= s
        BY <1>5, <3>3
      <4>2. s \in DOMAIN Splits
        BY <4>1, SplitsAre
      <4>3. size[s] \in Nat
        BY <1>1, <4>2
      <4> QED
        BY <3>3, <4>1, <4>2, <4>3
    <3>5. \A m \in n + 1 .. s - 1 : size[m] = 0
      <4> TAKE m \in n + 1 .. s - 1
      <4>1. m \in n + 1 .. Len(Splits) /\ m \in DOMAIN Splits /\ ~(s <= m) /\ m \in Nat
        BY <1>5, <3>4, SplitsAre
      <4>2. ~(size[m] > 0)
        BY <3>2, <4>1
      <4> QED
        BY <1>1, <4>1, <4>2
    <3>6. Records(size, s - 1) = Records(size, n)
      BY <1>1, <1>5, <3>4, <3>5, RecordsSkip
    <3>7. Records(size, n) \in Seq(Nat \X Nat)
      BY <1>1, <1>5, RecordsMore
    <3>8. Append(Docs, <<s, 1>>) = Docs \o Part(s, 1)
      <4>1. Part(s, 1) = <<<<s, 1>>>>
        OBVIOUS
      <4>2. PICK a : a = Records(size, n)
        OBVIOUS
      <4>3. <<s, 1>> \in Nat \X Nat
        BY <3>4
      <4> HIDE DEF Part
      <4> QED
        BY <2>2, <3>7, <4>1, <4>2, <4>3, AppendBehind
    <3>9. NextPlace[1] = s /\ NextPlace[2] = 1 /\ NextPlace # <<>> /\ NextPlace \in (DOMAIN Splits) \X Nat
      BY <3>3, <3>4
    <3> QED
      BY <1>2, <2>2, <3>3, <3>4, <3>6, <3>8, <3>9
  <2> QED
    BY <2>3, <2>4
<1> QED
  BY <1>8, <1>9

(* Nothing is copied before an attempt. *)
LEMMA InitTable == Init => TableInv
<1> SUFFICES ASSUME Init
             PROVE  TableInv
  OBVIOUS
<1>1. size \in [DOMAIN Splits -> Nat]
  BY SizesAssumption DEF Init
<1>2. table = <<>> /\ stage = "new"
  BY DEF Init
<1>3. RowsInv
  BY <1>1, <1>2 DEF RowsInv
<1> QED
  BY <1>2, <1>3 DEF TableInv, CopyInv, Registered

(* A record is copied behind those of its split and of the splits before. *)
LEMMA CopyRecordTable ==
  ASSUME TableInv, CopyRecord
  PROVE  TableInv'
<1>1. PICK place : place = IF AtFirst THEN <<1, 1>> ELSE NextPlace
  OBVIOUS
<1>2. /\ stage = "transfer" /\ place # <<>> /\ table' = Append(table, Row(place))
      /\ saver' = [split |-> place[1], pos |-> place[2], id |-> saver.id + 1, consumed |-> TRUE]
      /\ stage' = stage /\ size' = size
  BY <1>1 DEF CopyRecord
<1>3. /\ size \in [DOMAIN Splits -> Nat] /\ table \in Seq(Rows)
      /\ \A i \in DOMAIN table : table[i].id = i - 1 /\ table[i].split = Splits[table[i].doc[1]]
      /\ \A i, j \in DOMAIN table : i <= j => table[i].doc[1] <= table[j].doc[1]
      /\ saver.id = Len(table) /\ size[1] > 0
      /\ \/ ~saver.consumed /\ saver.split = 1 /\ table = <<>>
         \/ /\ saver.consumed /\ saver.split \in DOMAIN Splits
            /\ \A i \in DOMAIN table : table[i].doc[1] <= saver.split
  BY <1>2 DEF TableInv, RowsInv, CopyInv
<1> DEFINE l == Len(table)
<1>4. l \in Nat /\ DOMAIN table = 1 .. l
  BY <1>3
<1>5. /\ place \in (DOMAIN Splits) \X Nat /\ place[2] \in 1 .. size[place[1]]
      /\ \A i \in DOMAIN table : table[i].doc[1] <= place[1]
      /\ Append(Docs, place) = Records(size, place[1] - 1) \o [m \in 1 .. place[2] |-> <<place[1], m>>]
  <2>1. CASE ~saver.consumed /\ saver.split = 1 /\ table = <<>>
    <3>1. place = <<1, 1>> /\ 1 \in DOMAIN Splits
      BY <1>1, <2>1, SplitsAre DEF AtFirst
    <3>2. 1 \in 1 .. size[1]
      BY <1>3, <3>1
    <3>3. Docs = <<>>
      BY <2>1 DEF Docs
    <3>4. Records(size, 0) = <<>>
      <4>1. PlacesOf(size, 0) = <<>>
        BY DEF PlacesOf
      <4> QED
        BY <4>1 DEF Records, FlattenSeq
    <3>5. [m \in 1 .. 1 |-> <<1, m>>] = <<<<1, 1>>>>
      OBVIOUS
    <3>6. Append(Docs, place) = Records(size, 0) \o [m \in 1 .. 1 |-> <<1, m>>]
      BY <3>1, <3>3, <3>4, <3>5
    <3>7. place[1] = 1 /\ place[2] = 1 /\ 1 - 1 = 0 /\ place \in (DOMAIN Splits) \X Nat
      BY <3>1
    <3> QED
      BY <2>1, <3>2, <3>6, <3>7
  <2>2. CASE saver.consumed /\ saver.split \in DOMAIN Splits
               /\ \A i \in DOMAIN table : table[i].doc[1] <= saver.split
    <3>1. place = NextPlace
      BY <1>1, <2>2 DEF AtFirst
    <3>2. /\ place \in (DOMAIN Splits) \X Nat /\ saver.split <= place[1]
          /\ place[2] \in 1 .. size[place[1]]
          /\ Append(Docs, place) = Records(size, place[1] - 1)
               \o [m \in 1 .. place[2] |-> <<place[1], m>>]
      BY <1>2, <2>2, <3>1, NextPlaceIs
    <3>3. place[1] \in Int /\ saver.split \in Int
      BY <2>2, <3>2, SplitsAre
    <3>4. \A i \in DOMAIN table : table[i].doc[1] \in Int
      <4>1. \A r \in Rows : r.doc[1] \in DOMAIN Splits
        BY DEF Rows
      <4>2. \A i \in DOMAIN table : table[i] \in Rows
        BY <1>3
      <4> QED
        BY <4>1, <4>2, SplitsAre
    <3> QED
      BY <2>2, <3>2, <3>3, <3>4
  <2> QED
    BY <1>3, <2>1, <2>2
<1>6. PICK row : row = Row(place)
  OBVIOUS
<1>7. row \in Rows /\ row.id = l /\ row.split = Splits[row.doc[1]] /\ row.doc = place
  BY <1>3, <1>4, <1>5, <1>6, SplitsAre DEF Row, Rows
<1>8. /\ table' \in Seq(Rows) /\ Len(table') = l + 1 /\ DOMAIN table' = 1 .. l + 1
      /\ table'[l + 1] = row /\ \A i \in 1 .. l : table'[i] = table[i]
  BY <1>2, <1>3, <1>6, <1>7
<1> HIDE DEF l
<1>9. RowsInv'
  <2>1. ASSUME NEW i \in 1 .. l + 1
        PROVE  table'[i].id = i - 1 /\ table'[i].split = Splits[table'[i].doc[1]]
    <3>1. CASE i = l + 1
      BY <1>4, <1>7, <1>8, <3>1
    <3>2. CASE i \in 1 .. l
      BY <1>3, <1>4, <1>8, <3>2
    <3> QED
      BY <1>4, <3>1, <3>2
  <2>2. ASSUME NEW i \in 1 .. l + 1, NEW j \in 1 .. l + 1, i <= j
        PROVE  table'[i].doc[1] <= table'[j].doc[1]
    <3>1. CASE j \in 1 .. l
      <4>1. i \in 1 .. l
        BY <1>4, <2>2, <3>1
      <4> QED
        BY <1>3, <1>4, <1>8, <2>2, <3>1, <4>1
    <3>2. CASE j = l + 1
      <4>1. CASE i = l + 1
        <5>1. place[1] \in Int
          BY <1>5, SplitsAre
        <5> QED
          BY <1>7, <1>8, <3>2, <4>1, <5>1
      <4>2. CASE i \in 1 .. l
        BY <1>4, <1>5, <1>7, <1>8, <3>2, <4>2
      <4> QED
        BY <1>4, <4>1, <4>2
    <3> QED
      BY <1>4, <3>1, <3>2
  <2> QED
    BY <1>2, <1>3, <1>8, <2>1, <2>2 DEF RowsInv
<1>10. Docs' = Append(Docs, place)
  <2>1. Docs \in [1 .. l -> (DOMAIN Splits) \X Nat]
    <3>1. \A i \in 1 .. l : table[i] \in Rows
      BY <1>3, <1>4
    <3>2. \A r \in Rows : r.doc \in (DOMAIN Splits) \X Nat
      BY DEF Rows
    <3> QED
      BY <1>4, <3>1, <3>2 DEF Docs
  <2>2. Docs \in Seq((DOMAIN Splits) \X Nat) /\ Len(Docs) = l
    BY <1>4, <2>1, SeqDef
  <2>3. Docs' = [i \in 1 .. l + 1 |-> table'[i].doc]
    BY <1>8 DEF Docs
  <2>a. /\ Append(Docs, place) \in Seq((DOMAIN Splits) \X Nat)
        /\ Len(Append(Docs, place)) = l + 1 /\ Append(Docs, place)[l + 1] = place
        /\ \A i \in 1 .. l : Append(Docs, place)[i] = Docs[i]
    <3>1. PICK d \in Seq((DOMAIN Splits) \X Nat) : d = Docs
      BY <2>2
    <3>2. PICK x \in (DOMAIN Splits) \X Nat : x = place
      BY <1>5
    <3>3. /\ Append(d, x) \in Seq((DOMAIN Splits) \X Nat) /\ Len(Append(d, x)) = Len(d) + 1
          /\ Append(d, x)[Len(d) + 1] = x /\ \A i \in 1 .. Len(d) : Append(d, x)[i] = d[i]
      BY AppendProperties
    <3> QED
      BY <2>2, <3>1, <3>2, <3>3
  <2>4. \A i \in 1 .. l + 1 : Docs'[i] = Append(Docs, place)[i]
    <3> TAKE i \in 1 .. l + 1
    <3>1. CASE i = l + 1
      BY <1>7, <1>8, <2>a, <2>3, <3>1
    <3>2. CASE i \in 1 .. l
      <4>1. Append(Docs, place)[i] = Docs[i]
        BY <2>a, <3>2
      <4>2. Docs[i] = table[i].doc
        BY <1>4, <3>2 DEF Docs
      <4>3. Docs'[i] = table'[i].doc
        BY <2>3
      <4> QED
        BY <1>8, <3>2, <4>1, <4>2, <4>3
    <3>3. i = l + 1 \/ i \in 1 .. l
      BY <1>4
    <3> QED
      BY <3>1, <3>2, <3>3
  <2>5. Append(Docs, place) \in [1 .. l + 1 -> (DOMAIN Splits) \X Nat]
    <3>1. PICK w \in Seq((DOMAIN Splits) \X Nat) : w = Append(Docs, place)
      BY <2>a
    <3>2. Len(w) = l + 1
      BY <2>a, <3>1
    <3>3. w \in [1 .. Len(w) -> (DOMAIN Splits) \X Nat]
      BY LenProperties
    <3> QED
      BY <3>1, <3>2, <3>3
  <2> QED
    BY <2>3, <2>4, <2>5
<1>11. CopyInv'
  <2>1. stage' = "transfer" /\ saver'.id = Len(table') /\ saver'.split = place[1]
        /\ saver'.pos = place[2] /\ saver'.consumed /\ size' = size
    BY <1>2, <1>3, <1>4, <1>8 DEF l
  <2>2. saver'.split \in DOMAIN Splits
    BY <1>5, <2>1
  <2>3. \A i \in DOMAIN table' : table'[i].doc[1] <= place[1]
    <3> TAKE i \in DOMAIN table'
    <3>1. CASE i = l + 1
      <4>1. place[1] \in Int
        BY <1>5, SplitsAre
      <4> QED
        BY <1>7, <1>8, <3>1, <4>1
    <3>2. CASE i \in 1 .. l
      BY <1>4, <1>5, <1>8, <3>2
    <3> QED
      BY <1>4, <1>8, <3>1, <3>2
  <2> QED
    BY <1>3, <1>5, <1>10, <2>1, <2>2, <2>3 DEF CopyInv, Registered
<1> QED
  BY <1>9, <1>11 DEF TableInv

(* The table is what the registration made of it. *)
LEMMA StepTable ==
  ASSUME TableInv, [Next]_vars
  PROVE  TableInv'
<1>1. CASE CopyRecord
  BY <1>1, CopyRecordTable
<1>2. CASE Transfer
  <2>1. /\ stage = "new" /\ table' = table /\ size' = size
        /\ saver' = [split |-> 1, pos |-> 1, id |-> 0, consumed |-> FALSE]
        /\ stage' = IF size[1] = 0 THEN "refused" ELSE "transfer"
    BY <1>2 DEF Transfer
  <2>2. table = <<>> /\ RowsInv /\ size[1] \in Nat
    BY <2>1, SplitsAre DEF TableInv, CopyInv, RowsInv
  <2>3. RowsInv'
    BY <2>1, <2>2 DEF RowsInv
  <2>4. CopyInv'
    BY <2>1, <2>2 DEF CopyInv, Registered
  <2> QED
    BY <2>3, <2>4 DEF TableInv
<1>3. CASE RegisterCrash
  <2>1. stage' = "new" /\ table' = <<>> /\ size' = size
    BY <1>3 DEF RegisterCrash
  <2>2. RowsInv'
    BY <2>1 DEF TableInv, RowsInv
  <2> QED
    BY <2>1, <2>2 DEF TableInv, CopyInv, Registered
<1>4. CASE Register
  <2>1. /\ stage = "transfer" /\ stage' = "registered" /\ table' = table /\ size' = size
        /\ ~AtFirst /\ NextPlace = <<>>
    BY <1>4 DEF Register
  <2>2. saver.consumed
    BY <2>1 DEF TableInv, CopyInv, AtFirst
  <2>3. Docs = Records(size, Len(Splits))
    BY <2>1, <2>2, NextPlaceIs
  <2>4. Docs' = Docs
    BY <2>1 DEF Docs
  <2>5. RowsInv'
    BY <2>1 DEF TableInv, RowsInv
  <2> QED
    BY <2>1, <2>3, <2>4, <2>5 DEF TableInv, CopyInv
<1>5. ASSUME table' = table, size' = size, saver' = saver,
             \/ stage' = stage
             \/ Registered /\ stage' \notin {"new", "transfer"}
             \/ stage' = "refused"
      PROVE  TableInv'
  <2>1. Docs' = Docs
    BY <1>5 DEF Docs
  <2>2. RowsInv'
    BY <1>5 DEF TableInv, RowsInv
  <2>3. CopyInv'
    BY <1>5, <2>1 DEF TableInv, CopyInv, Registered
  <2> QED
    BY <2>2, <2>3 DEF TableInv
<1>6. CASE \E qty \in Quantities, blacklist \in Blacklists : Sample(qty, blacklist) \/ Refuse(qty, blacklist)
  BY <1>5, <1>6 DEF Sample, Refuse, Registered
<1>7. CASE Respond
  BY <1>5, <1>7 DEF Respond, Registered
<1>8. CASE StoreFailures
  BY <1>5, <1>8 DEF StoreFailures, Registered
<1>9. CASE \E k \in Scans : Evaluate(k) \/ Drop(k)
  BY <1>5, <1>9 DEF Evaluate, Drop, Registered
<1>10. CASE UNCHANGED vars
  BY <1>5, <1>10 DEF vars
<1> QED
  BY <1>1, <1>2, <1>3, <1>4, <1>6, <1>7, <1>8, <1>9, <1>10 DEF Next

(* Registration ends with the records of every split, each at its place. *)
LEMMA TableAlways == Spec => []TableInv
<1>1. TableInv /\ [Next]_vars => TableInv'
  BY StepTable
<1> QED
  BY <1>1, InitTable, PTL DEF Spec

(* What the transfer promises follows. *)
LEMMA TableComplete == TableInv => TransferComplete
<1>1. PlacesOf(size, Len(Splits)) = [s \in DOMAIN Splits |-> [n \in 1 .. size[s] |-> <<s, n>>]]
  BY SplitsAre DEF PlacesOf
<1> QED
  BY <1>1 DEF TableInv, CopyInv, Docs, Records, TransferComplete

(* TransferComplete: a registered table has every record of every split    *)
(* once, in order (SqlDatasetSaver.__anext__), for any number of splits,   *)
(* empty ones among them, and any attempts that failed before.             *)
THEOREM TransfersComplete == Spec => []TransferComplete
  BY TableAlways, TableComplete, PTL

(* What the ranges of ids promise follows. *)
LEMMA TableRanges == TableInv => RangesExact
  BY RangesAre DEF TableInv, RangesExact

(* RangesExact: the ids between the least and the greatest of a split are  *)
(* those of its rows and of no other split's (get_max_min_ids), however    *)
(* many splits there are and whatever they hold.                           *)
THEOREM RangesAlwaysExact == Spec => []RangesExact
  BY TableAlways, TableRanges, PTL

-----------------------------------------------------------------------------
(***************************************************************************)
(* The documents loaded for the ids sampled.                               *)
(***************************************************************************)
(* Two parts of a set of numbers, one after the other, have all of it. *)
LEMMA TwoSorted ==
  ASSUME NEW P, P \subseteq Nat, IsFiniteSet(P), NEW k \in Nat
  PROVE  LET r == Sorted({i \in P : i >= k}) \o Sorted({i \in P : i < k}) IN
         r \in Seq(Nat) /\ Len(r) = Cardinality(P) /\ ToSet(r) = P
<1> DEFINE A == {i \in P : i >= k}
           B == {i \in P : i < k}
<1>1. /\ A \subseteq Nat /\ B \subseteq Nat /\ A \in SUBSET P /\ B \in SUBSET P
      /\ A \cap B = {} /\ A \cup B = P
  <2>1. \A i \in P : i \in Nat /\ (i >= k \/ i < k) /\ ~(i >= k /\ i < k)
    OBVIOUS
  <2> QED
    BY <2>1
<1> HIDE DEF A, B
<1>2. IsFiniteSet(A) /\ IsFiniteSet(B)
  BY <1>1, FS_Subset
<1>3. /\ Sorted(A) \in Seq(Nat) /\ Len(Sorted(A)) = Cardinality(A) /\ ToSet(Sorted(A)) = A
      /\ Cardinality(A) \in Nat
  BY <1>1, <1>2, SortedIs
<1>4. /\ Sorted(B) \in Seq(Nat) /\ Len(Sorted(B)) = Cardinality(B) /\ ToSet(Sorted(B)) = B
      /\ Cardinality(B) \in Nat
  BY <1>1, <1>2, SortedIs
<1>5. Cardinality(P) = Cardinality(A) + Cardinality(B)
  <2>1. Cardinality(A \cup B) = Cardinality(A) + Cardinality(B) - Cardinality(A \cap B)
    BY <1>2, FS_Union
  <2>2. Cardinality(A \cap B) = 0
    BY <1>1, FS_EmptySet
  <2>3. Cardinality(P) = Cardinality(A) + Cardinality(B) - 0
    BY <1>1, <2>1, <2>2
  <2> QED
    BY <1>3, <1>4, <2>3
<1>6. PICK a, b : a = Sorted(A) /\ b = Sorted(B)
  OBVIOUS
<1>7. /\ a \o b \in Seq(Nat) /\ Len(a \o b) = Len(a) + Len(b)
      /\ \A m \in DOMAIN a : m \in DOMAIN (a \o b) /\ (a \o b)[m] = a[m]
      /\ \A c \in DOMAIN b : Len(a) + c \in DOMAIN (a \o b) /\ (a \o b)[Len(a) + c] = b[c]
      /\ \A m \in DOMAIN (a \o b) : \/ m \in DOMAIN a
                                    \/ \E c \in DOMAIN b : m = Len(a) + c
  <2>1. PICK S : S = Nat
    OBVIOUS
  <2>2. a \in Seq(S) /\ b \in Seq(S)
    BY <1>3, <1>4, <1>6, <2>1
  <2>3. a \o b \in Seq(S)
    BY <2>2, Concat
  <2> QED
    BY <2>1, <2>2, <2>3, Concat
<1>8. ToSet(a \o b) = P
  <2>1. \A x \in ToSet(a \o b) : x \in P
    <3> SUFFICES ASSUME NEW m \in DOMAIN (a \o b) PROVE (a \o b)[m] \in P
      BY DEF ToSet
    <3>1. CASE m \in DOMAIN a
      BY <1>1, <1>3, <1>6, <1>7, <3>1 DEF ToSet
    <3>2. ASSUME NEW c \in DOMAIN b, m = Len(a) + c PROVE (a \o b)[m] \in P
      BY <1>1, <1>4, <1>6, <1>7, <3>2 DEF ToSet
    <3> QED
      BY <1>7, <3>1, <3>2
  <2>2. \A x \in P : x \in ToSet(a \o b)
    <3> SUFFICES ASSUME NEW x \in P PROVE \E m \in DOMAIN (a \o b) : (a \o b)[m] = x
      BY DEF ToSet
    <3>1. CASE x \in A
      <4>1. PICK m \in DOMAIN a : a[m] = x
        BY <1>3, <1>6, <3>1 DEF ToSet
      <4> QED
        BY <1>7, <4>1
    <3>2. CASE x \in B
      <4>1. PICK c \in DOMAIN b : b[c] = x
        BY <1>4, <1>6, <3>2 DEF ToSet
      <4> QED
        BY <1>7, <4>1
    <3> QED
      BY <1>1, <3>1, <3>2
  <2> QED
    BY <2>1, <2>2
<1> QED
  BY <1>3, <1>4, <1>5, <1>6, <1>7, <1>8 DEF A, B

\* The places of the rows with the ids chosen.
Own(chosen) == {x + 1 : x \in ToSet(chosen)}

\* Ids of the split that is evaluated, in order.
OfSplit(chosen) ==
  /\ chosen \in Seq(Nat) /\ IsAscending(chosen)
  /\ ToSet(chosen) \subseteq IdsOf(EvalSplit)

(* The places read have the ids chosen among them, each once. *)
LEMMA PlacesAre ==
  ASSUME RowsInv, NEW chosen, OfSplit(chosen)
  PROVE  /\ Places(chosen) \subseteq 1 .. Len(table) /\ IsFiniteSet(Places(chosen))
         /\ Own(chosen) \subseteq Places(chosen)
         /\ Cardinality(Own(chosen)) = Len(chosen) /\ Len(chosen) \in Nat
         /\ Cardinality(Places(chosen)) \in Nat
<1>1. /\ Len(table) \in Nat /\ DOMAIN table = 1 .. Len(table)
      /\ \A i \in DOMAIN table : table[i].id = i - 1
  <2>1. table \in Seq(Rows)
    BY DEF RowsInv
  <2> QED
    BY <2>1 DEF RowsInv
<1>2. Places(chosen) \subseteq 1 .. Len(table)
  BY <1>1 DEF Places
<1>3. IsFiniteSet(Places(chosen)) /\ Cardinality(Places(chosen)) \in Nat
  <2>1. IsFiniteSet(1 .. Len(table))
    BY <1>1, FS_Interval
  <2> QED
    BY <1>2, <2>1, FS_Subset, FS_CardinalityType
<1>4. Own(chosen) \subseteq Places(chosen)
  <2> SUFFICES ASSUME NEW x \in ToSet(chosen) PROVE x + 1 \in Places(chosen)
    BY DEF Own
  <2>1. PICK i \in DOMAIN table : x = table[i].id /\ table[i].split = EvalSplit
    BY DEF OfSplit, IdsOf
  <2>2. i = x + 1
    BY <1>1, <2>1
  <2>3. Selected(table[i], chosen)
    BY <2>1 DEF Selected
  <2> QED
    BY <2>1, <2>2, <2>3 DEF Places
<1>5. Cardinality(Own(chosen)) = Len(chosen) /\ Len(chosen) \in Nat
  <2>1. /\ Len(chosen) \in Nat /\ DOMAIN chosen = 1 .. Len(chosen)
        /\ \A i \in 1 .. Len(chosen) : chosen[i] \in Nat
        /\ \A i, j \in 1 .. Len(chosen) : i < j => chosen[i] < chosen[j]
    BY DEF OfSplit, IsAscending
  <2> DEFINE f == [i \in 1 .. Len(chosen) |-> chosen[i] + 1]
  <2>2. f \in [1 .. Len(chosen) -> Own(chosen)]
    BY <2>1 DEF Own, ToSet
  <2>3. \A i, j \in 1 .. Len(chosen) : f[i] = f[j] => i = j
    BY <2>1
  <2>4. \A y \in Own(chosen) : \E i \in 1 .. Len(chosen) : f[i] = y
    BY <2>1 DEF Own, ToSet
  <2>5. f \in Surjection(1 .. Len(chosen), Own(chosen))
    BY <2>2, <2>4 DEF Surjection
  <2>6. f \in Injection(1 .. Len(chosen), Own(chosen))
    BY <2>2, <2>3 DEF Injection, IsInjective
  <2>7. IsFiniteSet(1 .. Len(chosen)) /\ Cardinality(1 .. Len(chosen)) = Len(chosen)
    BY <2>1, FS_Interval
  <2> HIDE DEF f
  <2> QED
    BY <2>1, <2>5, <2>6, <2>7, FS_Surjection
<1> QED
  BY <1>2, <1>3, <1>4, <1>5

(* There is a row for each place read, and a row for each id in order when *)
(* no other place is read.                                                 *)
LEMMA LoadedAre ==
  ASSUME RowsInv, NEW chosen, OfSplit(chosen), NEW k \in Nat
  PROVE  /\ Loaded(chosen, k) \in Seq(Rows)
         /\ Len(Loaded(chosen, k)) = Cardinality(Places(chosen))
         /\ Places(chosen) = Own(chosen) /\ Ascending(Loaded(chosen, k)) =>
              \A j \in DOMAIN chosen : Loaded(chosen, k)[j] = table[chosen[j] + 1]
<1> DEFINE P == Places(chosen)
           r == Sorted({i \in P : i >= k}) \o Sorted({i \in P : i < k})
           d == [j \in DOMAIN r |-> table[r[j]]]
<1>1. /\ P \subseteq 1 .. Len(table) /\ P \subseteq Nat /\ IsFiniteSet(P)
      /\ Cardinality(Own(chosen)) = Len(chosen) /\ Len(chosen) \in Nat
      /\ Cardinality(P) \in Nat
  BY PlacesAre
<1>2. Loaded(chosen, k) = d
  BY DEF Loaded
<1> HIDE DEF P
<1>3. r \in Seq(Nat) /\ Len(r) = Cardinality(P) /\ ToSet(r) = P
  BY <1>1, TwoSorted
<1> HIDE DEF r
<1>4. /\ table \in Seq(Rows) /\ DOMAIN table = 1 .. Len(table)
      /\ \A i \in 1 .. Len(table) : table[i].id = i - 1 /\ table[i] \in Rows
  <2>1. table \in Seq(Rows)
    BY DEF RowsInv
  <2> QED
    BY <2>1 DEF RowsInv
<1>5. DOMAIN r = 1 .. Cardinality(P) /\ \A j \in DOMAIN r : r[j] \in P
  BY <1>3 DEF ToSet
<1>6. d \in [1 .. Cardinality(P) -> Rows]
  BY <1>1, <1>4, <1>5
<1>7. d \in Seq(Rows) /\ Len(d) = Cardinality(P)
  BY <1>1, <1>6, SeqDef
<1>8. ASSUME P = Own(chosen), Ascending(d)
      PROVE  \A j \in DOMAIN chosen : d[j] = table[chosen[j] + 1]
  <2> DEFINE c == [j \in 1 .. Len(chosen) |-> chosen[j] + 1]
  <2>1. /\ DOMAIN chosen = 1 .. Len(chosen) /\ \A j \in 1 .. Len(chosen) : chosen[j] \in Nat
        /\ \A i, j \in 1 .. Len(chosen) : i < j => chosen[i] < chosen[j]
    BY DEF OfSplit, IsAscending
  <2>2. c \in [1 .. Len(chosen) -> Int]
    BY <2>1
  <2>3. c \in Seq(Int) /\ Len(c) = Len(chosen)
    BY <1>1, <2>2, SeqDef
  <2>4. IsAscending(c)
    BY <2>1 DEF IsAscending
  <2>5. ToSet(c) = P
    BY <1>8, <2>1 DEF ToSet, Own
  <2>6. IsAscending(r)
    <3> SUFFICES ASSUME NEW i \in DOMAIN r, NEW j \in DOMAIN r, i < j
                 PROVE  r[i] < r[j]
      BY DEF IsAscending
    <3>1. d[i].id < d[j].id
      BY <1>8 DEF Ascending
    <3>2. r[i] \in 1 .. Len(table) /\ r[j] \in 1 .. Len(table)
      BY <1>1, <1>5
    <3> QED
      BY <1>4, <3>1, <3>2
  <2>7. r \in Seq(Int)
    BY <1>3
  <2> HIDE DEF c
  <2>8. r = c
    BY <1>1, <1>3, <1>8, <2>3, <2>4, <2>5, <2>6, <2>7, SortedOnce
  <2> QED
    BY <2>1, <2>8 DEF c
<1> QED
  BY <1>2, <1>7, <1>8 DEF P

-----------------------------------------------------------------------------
(***************************************************************************)
(* The instances of a task.                                                *)
(***************************************************************************)
Made == [id : Nat, doc : (DOMAIN Splits) \X Nat, idx : 1 .. Prompts]

Instance(chosen, docs, i, c) == [id |-> chosen[i], doc |-> docs[i].doc, idx |-> c]

\* The instances are those of the ids and prompts, one for each.
OneEach(all, chosen, docs) ==
  /\ all \in Seq(Made)
  /\ \A m \in DOMAIN all : \E i \in DOMAIN chosen : \E c \in 1 .. Prompts :
       all[m] = Instance(chosen, docs, i, c)
  /\ \A i \in DOMAIN chosen : \A c \in 1 .. Prompts : \E m \in DOMAIN all :
       all[m] = Instance(chosen, docs, i, c)
  /\ \A m, o \in DOMAIN all : all[m].id = all[o].id /\ all[m].idx = all[o].idx => m = o

(* There is one instance for each id and prompt. *)
LEMMA RequestsAre ==
  ASSUME NEW chosen \in Seq(Nat), IsAscending(chosen),
         NEW docs \in Seq(Rows), Len(docs) = Len(chosen)
  PROVE  OneEach(Requests(docs, chosen), chosen, docs)
<1> DEFINE n == Len(chosen)
           part(i) == [c \in 1 .. Prompts |-> Instance(chosen, docs, i, c)]
           ss == [i \in 1 .. n |-> part(i)]
           all == FlattenSeq(ss)
<1>1. /\ n \in Nat /\ DOMAIN chosen = 1 .. n /\ DOMAIN docs = 1 .. n
      /\ \A i \in 1 .. n : chosen[i] \in Nat /\ docs[i] \in Rows
  OBVIOUS
<1>2. Prompts \in Nat
  BY BoundsAssumption
<1>3. \A i, j \in 1 .. n : chosen[i] = chosen[j] => i = j
  BY <1>1 DEF IsAscending
<1>4. Requests(docs, chosen) = all
  BY <1>1 DEF Requests, Instance
<1> HIDE DEF n
<1>5. ASSUME NEW i \in 1 .. n
      PROVE  part(i) \in Seq(Made) /\ DOMAIN part(i) = 1 .. Prompts
  <2>1. docs[i].doc \in (DOMAIN Splits) \X Nat
    BY <1>1 DEF Rows
  <2>2. \A c \in 1 .. Prompts : Instance(chosen, docs, i, c) \in Made
    BY <1>1, <2>1 DEF Instance, Made
  <2>3. part(i) \in [1 .. Prompts -> Made]
    BY <2>2
  <2> QED
    BY <1>2, <2>3, SeqDef
<1>6. ss \in Seq(Seq(Made)) /\ DOMAIN ss = 1 .. n /\ \A i \in 1 .. n : ss[i] = part(i)
  <2> HIDE DEF part
  <2>1. ss \in [1 .. n -> Seq(Made)]
    BY <1>5
  <2> QED
    BY <1>1, <2>1, SeqDef
<1>7. \A i, j \in 1 .. n : \A c \in DOMAIN ss[i] : \A d \in DOMAIN ss[j] :
        (ss[i][c].id = ss[j][d].id /\ ss[i][c].idx = ss[j][d].idx) => i = j /\ c = d
  <2> SUFFICES ASSUME NEW i \in 1 .. n, NEW j \in 1 .. n, NEW c \in DOMAIN ss[i],
                      NEW d \in DOMAIN ss[j],
                      ss[i][c].id = ss[j][d].id, ss[i][c].idx = ss[j][d].idx
               PROVE  i = j /\ c = d
    OBVIOUS
  <2>1. c \in 1 .. Prompts /\ d \in 1 .. Prompts
    BY <1>6
  <2>2. ss[i][c] = Instance(chosen, docs, i, c) /\ ss[j][d] = Instance(chosen, docs, j, d)
    BY <1>6, <2>1
  <2>3. chosen[i] = chosen[j] /\ c = d
    BY <2>2 DEF Instance
  <2> QED
    BY <1>3, <2>3
<1>8. /\ all \in Seq(Made) /\ HasParts(all, ss)
      /\ \A m, o \in DOMAIN all : all[m] = all[o] => m = o
  <2>1. all \in Seq(Made) /\ HasParts(all, ss)
    BY <1>6, FlattenHas
  <2> HIDE DEF ss
  <2>2. \A i, j \in DOMAIN ss : \A c \in DOMAIN ss[i] : \A d \in DOMAIN ss[j] :
          ss[i][c] = ss[j][d] => i = j /\ c = d
    <3> SUFFICES ASSUME NEW i \in DOMAIN ss, NEW j \in DOMAIN ss, NEW c \in DOMAIN ss[i],
                        NEW d \in DOMAIN ss[j], ss[i][c] = ss[j][d]
                 PROVE  i = j /\ c = d
      OBVIOUS
    <3>1. i \in 1 .. n /\ j \in 1 .. n
      BY <1>6
    <3> QED
      BY <1>7, <3>1
  <2>3. \A m, o \in DOMAIN all : all[m] = all[o] => m = o
    BY <1>6, <2>2, FlattenOnce
  <2> QED
    BY <2>1, <2>3
<1> HIDE DEF all
<1>9. /\ \A m \in DOMAIN all : \E i \in 1 .. n : \E c \in 1 .. Prompts : all[m] = ss[i][c]
      /\ \A i \in 1 .. n : \A c \in 1 .. Prompts : \E m \in DOMAIN all : all[m] = ss[i][c]
  BY <1>6, <1>8 DEF HasParts
<1>10. \A i \in 1 .. n : \A c \in 1 .. Prompts : ss[i][c] = Instance(chosen, docs, i, c)
  BY <1>6
<1>11. ASSUME NEW m \in DOMAIN all, NEW o \in DOMAIN all,
              all[m].id = all[o].id, all[m].idx = all[o].idx
       PROVE  m = o
  <2>1. PICK i \in 1 .. n, c \in 1 .. Prompts : all[m] = ss[i][c]
    BY <1>9
  <2>2. PICK j \in 1 .. n, d \in 1 .. Prompts : all[o] = ss[j][d]
    BY <1>9
  <2>3. c \in DOMAIN ss[i] /\ d \in DOMAIN ss[j]
    BY <1>5, <1>6
  <2>4. i = j /\ c = d
    BY <1>7, <1>11, <2>1, <2>2, <2>3
  <2> QED
    BY <1>8, <2>1, <2>2, <2>4
<1> HIDE DEF ss
<1>12. ASSUME NEW m \in DOMAIN all
       PROVE  \E i \in DOMAIN chosen : \E c \in 1 .. Prompts :
                all[m] = Instance(chosen, docs, i, c)
  <2>1. PICK i \in 1 .. n, c \in 1 .. Prompts : all[m] = ss[i][c]
    BY <1>9
  <2> QED
    BY <1>1, <1>10, <2>1
<1>13. ASSUME NEW i \in DOMAIN chosen, NEW c \in 1 .. Prompts
       PROVE  \E m \in DOMAIN all : all[m] = Instance(chosen, docs, i, c)
  <2>1. PICK m \in DOMAIN all : all[m] = ss[i][c]
    BY <1>1, <1>9
  <2> QED
    BY <1>1, <1>10, <2>1
<1> QED
  BY <1>4, <1>8, <1>11, <1>12, <1>13 DEF OneEach

-----------------------------------------------------------------------------
(***************************************************************************)
(* A task, from its sampling on.                                           *)
(***************************************************************************)
TaskStages == {"sampled", "answered", "stored", "dropped"}

\* The ids sampled are of the split, and no other row of it is loaded.
IdsInv ==
  /\ Loadable /\ OfSplit(ids) /\ ids # <<>>
  /\ Places(ids) = Own(ids)

\* Each prompt of each id has one instance, of the document of the id in that order.
InstancesInv ==
  /\ instances \in Seq(Made)
  /\ \A m \in DOMAIN instances :
       /\ instances[m].id \in ToSet(ids)
       /\ inOrder => instances[m].doc = table[instances[m].id + 1].doc
  /\ \A x \in ToSet(ids) : \A c \in 1 .. Prompts :
       \E m \in DOMAIN instances : instances[m].id = x /\ instances[m].idx = c
  /\ \A m, o \in DOMAIN instances :
       instances[m].id = instances[o].id /\ instances[m].idx = instances[o].idx => m = o

TaskInv ==
  /\ stage \in TaskStages => IdsInv /\ InstancesInv
  /\ stage \notin TaskStages => instances = <<>>
  /\ stage \in TaskStages \ {"sampled"} => responses \in [DOMAIN instances -> Responses]
  /\ stage # "stored" => result = NoResult

(* What is chosen are ids of the split, in order. *)
LEMMA ChosenAre ==
  ASSUME RowsInv, Loadable, NEW qty, NEW blacklist, NEW chosen \in ChosenIds(qty, blacklist)
  PROVE  OfSplit(chosen)
<1> DEFINE range == SplitRange(EvalSplit)
<1>1. range = IdsOf(EvalSplit) /\ range \subseteq 0 .. Len(table) - 1
  <2>1. EvalSplit \in ToSet(Splits) /\ SplitExists(EvalSplit)
    BY SplitsAssumption DEF Loadable
  <2> QED
    BY <2>1, RangesAre
<1>2. Len(table) \in Nat
  BY DEF RowsInv
<1> HIDE DEF range
<1>3. PICK S \in SUBSET range : chosen = Sorted(S)
  BY DEF ChosenIds, Draws, range
<1>4. S \subseteq Nat /\ IsFiniteSet(S)
  <2>1. IsFiniteSet(0 .. Len(table) - 1)
    BY <1>2, FS_Interval
  <2>2. S \in SUBSET (0 .. Len(table) - 1)
    BY <1>1, <1>3
  <2>3. S \subseteq Nat
    BY <1>2, <2>2
  <2> QED
    BY <2>1, <2>2, <2>3, FS_Subset
<1>5. chosen \in Seq(Nat) /\ IsAscending(chosen) /\ ToSet(chosen) = S
  BY <1>3, <1>4, SortedIs
<1> QED
  BY <1>1, <1>3, <1>5 DEF OfSplit

(* A scan begins at a number. *)
LEMMA ScansAre ==
  ASSUME RowsInv
  PROVE  \A k \in Scans : k \in Nat
<1>1. table \in Seq(Rows)
  BY DEF RowsInv
<1> QED
  BY <1>1 DEF Scans

(* generate_requests makes the instances of the ids it keeps. *)
LEMMA SampleTask ==
  ASSUME TableInv, NEW qty, NEW blacklist, Sample(qty, blacklist)
  PROVE  IdsInv' /\ InstancesInv'
<1>1. RowsInv /\ Loadable /\ table' = table
  BY DEF TableInv, Sample
<1>2. PICK chosen \in ChosenIds(qty, blacklist), k \in Scans :
        /\ Loaded(chosen, k) # <<>> /\ Len(Loaded(chosen, k)) <= Len(chosen)
        /\ ids' = chosen
        /\ instances' = Requests(Loaded(chosen, k), chosen)
        /\ inOrder' = Ascending(Loaded(chosen, k))
  BY DEF Sample
<1>3. OfSplit(chosen) /\ k \in Nat
  BY <1>1, <1>2, ChosenAre, ScansAre
<1> DEFINE docs == Loaded(chosen, k)
<1>4. /\ docs \in Seq(Rows) /\ Len(docs) = Cardinality(Places(chosen))
      /\ Places(chosen) = Own(chosen) /\ Ascending(docs) =>
           \A j \in DOMAIN chosen : docs[j] = table[chosen[j] + 1]
  BY <1>1, <1>3, LoadedAre
<1>5. Places(chosen) = Own(chosen) /\ Len(docs) = Len(chosen)
  <2>1. /\ IsFiniteSet(Places(chosen)) /\ Own(chosen) \in SUBSET Places(chosen)
        /\ Cardinality(Own(chosen)) = Len(chosen) /\ Len(chosen) \in Nat
        /\ Cardinality(Places(chosen)) \in Nat
    BY <1>1, <1>3, PlacesAre
  <2>2. /\ Cardinality(Own(chosen)) <= Cardinality(Places(chosen))
        /\ Cardinality(Places(chosen)) = Cardinality(Own(chosen)) => Places(chosen) = Own(chosen)
    BY <2>1, FS_Subset
  <2>3. Cardinality(Places(chosen)) <= Len(chosen)
    BY <1>2, <1>4
  <2> QED
    BY <1>4, <2>1, <2>2, <2>3
<1>6. chosen \in Seq(Nat) /\ IsAscending(chosen)
  BY <1>3 DEF OfSplit
<1> HIDE DEF docs
<1>7. OneEach(Requests(docs, chosen), chosen, docs)
  BY <1>4, <1>5, <1>6, RequestsAre
<1>8. /\ ids' = chosen /\ instances' = Requests(docs, chosen) /\ inOrder' = Ascending(docs)
      /\ docs # <<>>
  BY <1>2 DEF docs
<1>9. IdsInv'
  <2>1. Loadable' /\ OfSplit(ids)'
    BY <1>1, <1>3, <1>8 DEF Loadable, SplitExists, IdsOf, OfSplit, IsAscending
  <2>2. Places(ids)' = Places(chosen)
    BY <1>1, <1>8 DEF Places, Selected, SplitRange, IdsOf
  <2>3. Own(ids)' = Own(chosen)
    BY <1>8 DEF Own
  <2>4. ids' # <<>>
    BY <1>4, <1>5, <1>6, <1>8
  <2> QED
    BY <1>5, <2>1, <2>2, <2>3, <2>4 DEF IdsInv
<1>10. InstancesInv'
  <2> DEFINE all == Requests(docs, chosen)
  <2> HIDE DEF all
  <2>1. /\ all \in Seq(Made)
        /\ \A m \in DOMAIN all : \E i \in DOMAIN chosen : \E c \in 1 .. Prompts :
             all[m] = Instance(chosen, docs, i, c)
        /\ \A i \in DOMAIN chosen : \A c \in 1 .. Prompts : \E m \in DOMAIN all :
             all[m] = Instance(chosen, docs, i, c)
        /\ \A m, o \in DOMAIN all : all[m].id = all[o].id /\ all[m].idx = all[o].idx => m = o
    BY <1>7 DEF OneEach, all
  <2>2. instances' = all
    BY <1>8 DEF all
  <2>3. ASSUME NEW m \in DOMAIN all
        PROVE  /\ all[m].id \in ToSet(chosen)
               /\ inOrder' => all[m].doc = table[all[m].id + 1].doc
    <3>1. PICK i \in DOMAIN chosen, c \in 1 .. Prompts : all[m] = Instance(chosen, docs, i, c)
      BY <2>1
    <3>2. all[m].id = chosen[i] /\ all[m].doc = docs[i].doc
      BY <3>1 DEF Instance
    <3>3. inOrder' => docs[i] = table[chosen[i] + 1]
      BY <1>4, <1>5, <1>8
    <3> QED
      BY <3>2, <3>3 DEF ToSet
  <2>4. ASSUME NEW x \in ToSet(chosen), NEW c \in 1 .. Prompts
        PROVE  \E m \in DOMAIN all : all[m].id = x /\ all[m].idx = c
    <3>1. PICK i \in DOMAIN chosen : x = chosen[i]
      BY DEF ToSet
    <3>2. PICK m \in DOMAIN all : all[m] = Instance(chosen, docs, i, c)
      BY <2>1
    <3> QED
      BY <3>1, <3>2 DEF Instance
  <2> QED
    BY <1>1, <1>8, <2>1, <2>2, <2>3, <2>4 DEF InstancesInv
<1> QED
  BY <1>9, <1>10

(* What is said of ids and instances stays while they and the table do. *)
LEMMA KeptTask ==
  ASSUME IdsInv, InstancesInv, UNCHANGED <<table, ids, instances>>, inOrder' => inOrder
  PROVE  IdsInv' /\ InstancesInv'
<1>1. table' = table /\ ids' = ids /\ instances' = instances
  OBVIOUS
<1>2. IdsInv'
  <2>1. Loadable' /\ OfSplit(ids)'
    BY <1>1 DEF IdsInv, Loadable, SplitExists, IdsOf, OfSplit, IsAscending
  <2>2. Places(ids)' = Places(ids) /\ Own(ids)' = Own(ids)
    BY <1>1 DEF Places, Selected, SplitRange, IdsOf, Own
  <2> QED
    BY <1>1, <2>1, <2>2 DEF IdsInv
<1>3. InstancesInv'
  BY <1>1 DEF InstancesInv
<1> QED
  BY <1>2, <1>3

(* At first there is no task. *)
LEMMA InitTask == Init => TaskInv
  BY DEF Init, TaskInv, TaskStages

(* Every step keeps what is said of the task. *)
LEMMA StepTask == TableInv /\ TaskInv /\ [Next]_vars => TaskInv'
<1> SUFFICES ASSUME TableInv, TaskInv, [Next]_vars
             PROVE  TaskInv'
  OBVIOUS
<1> USE DEF TaskStages
<1>1. CASE Transfer \/ CopyRecord \/ Register \/ RegisterCrash
  BY <1>1 DEF TaskInv, Transfer, CopyRecord, Register, RegisterCrash
<1>2. ASSUME NEW qty \in Quantities, NEW blacklist \in Blacklists, Sample(qty, blacklist)
      PROVE  TaskInv'
  <2>1. IdsInv' /\ InstancesInv'
    BY <1>2, SampleTask
  <2>2. stage' = "sampled" /\ stage = "registered" /\ result' = result
    BY <1>2 DEF Sample
  <2> QED
    BY <2>1, <2>2 DEF TaskInv
<1>3. ASSUME NEW qty \in Quantities, NEW blacklist \in Blacklists, Refuse(qty, blacklist)
      PROVE  TaskInv'
  BY <1>3 DEF TaskInv, Refuse
<1>4. CASE Respond
  <2>1. /\ stage = "sampled" /\ stage' = "answered" /\ UNCHANGED <<table, ids, instances>>
        /\ inOrder' = inOrder /\ result' = result
        /\ responses' \in [DOMAIN instances -> Responses]
    BY <1>4 DEF Respond
  <2>2. IdsInv' /\ InstancesInv'
    BY <2>1, KeptTask DEF TaskInv
  <2> QED
    BY <2>1, <2>2 DEF TaskInv
<1>5. CASE StoreFailures
  <2>1. /\ stage = "answered" /\ stage' = "stored" /\ UNCHANGED <<table, ids, instances>>
        /\ inOrder' = inOrder /\ responses' = responses
    BY <1>5 DEF StoreFailures
  <2>2. IdsInv' /\ InstancesInv'
    BY <2>1, KeptTask DEF TaskInv
  <2> QED
    BY <2>1, <2>2 DEF TaskInv
<1>6. ASSUME NEW k \in Scans, Evaluate(k)
      PROVE  TaskInv'
  <2>1. /\ stage = "answered" /\ stage' = "stored" /\ UNCHANGED <<table, ids, instances>>
        /\ inOrder' => inOrder
        /\ responses' = responses
    BY <1>6 DEF Evaluate
  <2>2. IdsInv' /\ InstancesInv'
    BY <2>1, KeptTask DEF TaskInv
  <2> QED
    BY <2>1, <2>2 DEF TaskInv
<1>7. ASSUME NEW k \in Scans, Drop(k)
      PROVE  TaskInv'
  <2>1. /\ stage = "answered" /\ stage' = "dropped" /\ UNCHANGED <<table, ids, instances>>
        /\ inOrder' = inOrder /\ responses' = responses /\ result' = result
    BY <1>7 DEF Drop
  <2>2. IdsInv' /\ InstancesInv'
    BY <2>1, KeptTask DEF TaskInv
  <2> QED
    BY <2>1, <2>2 DEF TaskInv
<1>8. CASE UNCHANGED vars
  <2>1. /\ UNCHANGED <<table, ids, instances>> /\ inOrder' = inOrder
        /\ stage' = stage /\ instances' = instances /\ responses' = responses /\ result' = result
    BY <1>8 DEF vars
  <2>2. stage' \in TaskStages => IdsInv' /\ InstancesInv'
    BY <2>1, KeptTask DEF TaskInv
  <2>3. stage' \notin TaskStages => instances' = <<>>
    BY <2>1 DEF TaskInv
  <2>4. stage' \in TaskStages \ {"sampled"} => responses' \in [DOMAIN instances' -> Responses]
    BY <2>1 DEF TaskInv
  <2>5. stage' # "stored" => result' = NoResult
    BY <2>1 DEF TaskInv, NoResult
  <2> QED
    BY <2>2, <2>3, <2>4, <2>5 DEF TaskInv, NoResult
<1> QED
  BY <1>1, <1>2, <1>3, <1>4, <1>5, <1>6, <1>7, <1>8 DEF Next

(* The table, the ids and the instances are always as said. *)
LEMMA TaskAlways == Spec => [](TableInv /\ TaskInv)
<1>1. TableInv /\ TaskInv /\ [Next]_vars => (TableInv /\ TaskInv)'
  BY StepTable, StepTask
<1>2. Init => TableInv /\ TaskInv
  BY InitTable, InitTask
<1> QED
  BY <1>1, <1>2, PTL DEF Spec

(* A row is found by its id at its place. *)
LEMMA RowOfIs ==
  ASSUME RowsInv, NEW x \in IdsOf(EvalSplit)
  PROVE  RowOf(x) = x + 1
<1>1. table \in Seq(Rows)
  BY DEF RowsInv
<1>2. \A i \in DOMAIN table : i \in Int /\ table[i].id = i - 1
  BY <1>1 DEF RowsInv
<1>3. PICK i \in DOMAIN table : x = table[i].id
  BY DEF IdsOf
<1>4. RowOf(x) \in DOMAIN table /\ table[RowOf(x)].id = x
  BY <1>3 DEF RowOf
<1> QED
  BY <1>2, <1>4

(* What a prompt is made from follows. *)
LEMMA TaskPrompts == TableInv /\ TaskInv => PromptsOfTheirDocument
<1> SUFFICES ASSUME TableInv, TaskInv, inOrder, NEW m \in DOMAIN instances
             PROVE  instances[m].doc = table[RowOf(instances[m].id)].doc
  BY DEF PromptsOfTheirDocument
<1>1. IdsInv /\ InstancesInv
  BY DEF TaskInv
<1>2. instances[m].id \in ToSet(ids) /\ instances[m].doc = table[instances[m].id + 1].doc
  BY <1>1 DEF InstancesInv
<1>3. instances[m].id \in IdsOf(EvalSplit)
  BY <1>1, <1>2 DEF IdsInv, OfSplit
<1> QED
  BY <1>2, <1>3, RowOfIs DEF TableInv

(* PromptsOfTheirDocument: a prompt is made from the document whose id its *)
(* instance has, as long as Postgres returned the rows by id               *)
(* (build_all_requests), for any dataset, quantity, blacklist and splits   *)
(* loaded beside: the one way to read more rows than ids is refused.       *)
THEOREM PromptsAlwaysOfTheirDocument == Spec => []PromptsOfTheirDocument
  BY TaskAlways, TaskPrompts, PTL

-----------------------------------------------------------------------------
(***************************************************************************)
(* The answers of a task.                                                  *)
(***************************************************************************)
(* What a function takes a finite set to is finite. *)
LEMMA FiniteImage ==
  ASSUME NEW D, NEW T, NEW f \in [D -> T], IsFiniteSet(D)
  PROVE  IsFiniteSet({f[x] : x \in D})
<1> DEFINE R == {f[x] : x \in D}
<1>1. f \in Surjection(D, R)
  BY DEF Surjection
<1> QED
  BY <1>1, FS_Surjection

\* The answers are known once the Requester is done.
Answered == IdsInv /\ InstancesInv /\ responses \in [DOMAIN instances -> Responses]

Answer(m, n) ==
  [id |-> instances[m].id, idx |-> instances[m].idx, nth |-> n, kind |-> responses[m][n]]

(* There is an answer for each response of each instance. *)
LEMMA AnswersAre ==
  ASSUME Answered
  PROVE  /\ IsFiniteSet(Answers)
         /\ \A m \in DOMAIN instances : responses[m] \in Seq(Kinds)
         /\ \A a \in Answers : a.id \in ToSet(ids)
         /\ \A a \in Answers : \E m \in DOMAIN instances : \E n \in DOMAIN responses[m] :
              a = Answer(m, n)
         /\ \A m \in DOMAIN instances : \A n \in DOMAIN responses[m] : Answer(m, n) \in Answers
<1>1. /\ instances \in Seq(Made) /\ DOMAIN instances = 1 .. Len(instances)
      /\ Len(instances) \in Nat
      /\ \A m \in DOMAIN instances : responses[m] \in Seq(Kinds)
      /\ \A m \in DOMAIN instances : instances[m].id \in ToSet(ids)
  BY ResponsesAssumption DEF Answered, InstancesInv
<1> DEFINE of(m) == {Answer(m, n) : n \in DOMAIN responses[m]}
           f == [m \in DOMAIN instances |-> of(m)]
<1>2. Answers = UNION {f[m] : m \in DOMAIN instances}
  BY DEF Answers, Answer
<1>3. ASSUME NEW m \in DOMAIN instances
      PROVE  IsFiniteSet(f[m])
  <2>1. Len(responses[m]) \in Nat /\ DOMAIN responses[m] = 1 .. Len(responses[m])
    BY <1>1
  <2>2. IsFiniteSet(DOMAIN responses[m])
    BY <2>1, FS_Interval
  <2> DEFINE g == [n \in DOMAIN responses[m] |-> Answer(m, n)]
  <2>3. g \in [DOMAIN responses[m] -> of(m)]
    OBVIOUS
  <2>4. f[m] = {g[n] : n \in DOMAIN responses[m]}
    OBVIOUS
  <2> HIDE DEF g, f
  <2>5. IsFiniteSet({g[n] : n \in DOMAIN responses[m]})
    BY <2>2, <2>3, FiniteImage
  <2> QED
    BY <2>4, <2>5
<1>4. IsFiniteSet(Answers)
  <2>1. f \in [DOMAIN instances -> {of(m) : m \in DOMAIN instances}]
    OBVIOUS
  <2>2. IsFiniteSet(DOMAIN instances)
    BY <1>1, FS_Interval
  <2> HIDE DEF f
  <2>3. IsFiniteSet({f[m] : m \in DOMAIN instances})
    BY <2>1, <2>2, FiniteImage
  <2>4. \A U \in {f[m] : m \in DOMAIN instances} : IsFiniteSet(U)
    BY <1>3
  <2> QED
    BY <1>2, <2>3, <2>4, FS_UNION
<1>5. ASSUME NEW a \in Answers
      PROVE  \E m \in DOMAIN instances : \E n \in DOMAIN responses[m] : a = Answer(m, n)
  BY <1>2
<1>6. ASSUME NEW m \in DOMAIN instances, NEW n \in DOMAIN responses[m]
      PROVE  Answer(m, n) \in Answers
  BY <1>2
<1>7. ASSUME NEW a \in Answers
      PROVE  a.id \in ToSet(ids)
  BY <1>1, <1>5 DEF Answer
<1> HIDE DEF f
<1> QED
  BY <1>1, <1>4, <1>5, <1>6, <1>7

UsableIds == {a.id : a \in Usable}

(* The ids that are scored are some of the ids sampled, in order. *)
LEMMA UsableAre ==
  ASSUME RowsInv, Answered
  PROVE  /\ UsableIds \subseteq ToSet(ids) /\ IsFiniteSet(UsableIds)
         /\ ListDocId \in Seq(Nat) /\ IsAscending(ListDocId) /\ ToSet(ListDocId) = UsableIds
         /\ Len(ListDocId) = Cardinality(UsableIds) /\ ListDocId = Sorted(UsableIds)
         /\ IsFiniteSet(ToSet(ids)) /\ Cardinality(ToSet(ids)) = Len(ids)
<1>1. UsableIds \subseteq ToSet(ids)
  BY AnswersAre DEF UsableIds, Usable
<1>2. /\ ids \in Seq(Nat) /\ IsAscending(ids) /\ DOMAIN ids = 1 .. Len(ids) /\ Len(ids) \in Nat
      /\ \A i \in 1 .. Len(ids) : ids[i] \in Nat
      /\ \A i, j \in 1 .. Len(ids) : i < j => ids[i] < ids[j]
  <2>1. ids \in Seq(Nat) /\ IsAscending(ids)
    BY DEF Answered, IdsInv, OfSplit
  <2> QED
    BY <2>1 DEF IsAscending
<1>3. IsFiniteSet(ToSet(ids)) /\ Cardinality(ToSet(ids)) = Len(ids)
  <2>1. ids \in Surjection(1 .. Len(ids), ToSet(ids))
    BY <1>2 DEF Surjection, ToSet
  <2>2. \A i, j \in 1 .. Len(ids) : ids[i] = ids[j] => i = j
    BY <1>2
  <2>3. ids \in Injection(1 .. Len(ids), ToSet(ids))
    BY <1>2, <2>2 DEF Injection, IsInjective, ToSet
  <2>4. IsFiniteSet(1 .. Len(ids)) /\ Cardinality(1 .. Len(ids)) = Len(ids)
    BY <1>2, FS_Interval
  <2> QED
    BY <2>1, <2>3, <2>4, FS_Surjection
<1>4. UsableIds \subseteq Nat /\ IsFiniteSet(UsableIds)
  <2>1. ToSet(ids) \subseteq Nat
    BY <1>2 DEF ToSet
  <2> QED
    BY <1>1, <1>3, <2>1, FS_Subset
<1>5. ListDocId = Sorted(UsableIds)
  BY DEF ListDocId, UsableIds
<1> QED
  BY <1>1, <1>3, <1>4, <1>5, SortedIs

(* The documents that are scored: those kept, each by its id, or all. *)
LEMMA EvalDocsAre ==
  ASSUME RowsInv, Answered, NEW k \in Nat,
         NEW docs, docs = EvalDocs(Loaded(ids, k))
  PROVE  /\ Len(docs) \in Nat /\ Len(ListDocId) \in Nat /\ DOMAIN ListDocId = 1 .. Len(ListDocId)
         /\ docs = [i \in 1 .. Len(docs) |-> docs[i]]
         /\ KeptDocs # {} => Len(docs) = Len(ListDocId)
         /\ KeptDocs = {} => Len(docs) = Len(ids)
         /\ Len(docs) <= Len(ListDocId) =>
              /\ Len(docs) = Len(ListDocId)
              /\ Ascending(Loaded(ids, k)) =>
                   \A i \in 1 .. Len(docs) : docs[i] = table[ListDocId[i] + 1]
<1> DEFINE rows == Loaded(ids, k)
<1>1. OfSplit(ids) /\ Places(ids) = Own(ids)
  BY DEF Answered, IdsInv
<1>2. /\ rows \in Seq(Rows) /\ Len(rows) = Len(ids)
      /\ Ascending(rows) => \A j \in DOMAIN ids : rows[j] = table[ids[j] + 1]
  <2>1. /\ rows \in Seq(Rows) /\ Len(rows) = Cardinality(Places(ids))
        /\ Places(ids) = Own(ids) /\ Ascending(rows) =>
             \A j \in DOMAIN ids : rows[j] = table[ids[j] + 1]
    BY <1>1, LoadedAre
  <2>2. Cardinality(Own(ids)) = Len(ids)
    BY <1>1, PlacesAre
  <2> QED
    BY <1>1, <2>1, <2>2
<1> HIDE DEF rows
<1>3. /\ UsableIds \subseteq ToSet(ids) /\ IsFiniteSet(UsableIds)
      /\ ListDocId \in Seq(Nat) /\ IsAscending(ListDocId) /\ ToSet(ListDocId) = UsableIds
      /\ Len(ListDocId) = Cardinality(UsableIds) /\ ListDocId = Sorted(UsableIds)
      /\ IsFiniteSet(ToSet(ids)) /\ Cardinality(ToSet(ids)) = Len(ids)
  BY UsableAre
<1>4. /\ ids \in Seq(Nat) /\ IsAscending(ids) /\ DOMAIN ids = 1 .. Len(ids) /\ Len(ids) \in Nat
      /\ \A i, j \in 1 .. Len(ids) : i < j => ids[i] < ids[j]
      /\ \A i \in 1 .. Len(ids) : ids[i] \in Nat
  <2>1. ids \in Seq(Nat) /\ IsAscending(ids)
    BY <1>1 DEF OfSplit
  <2> QED
    BY <2>1 DEF IsAscending
<1>5. Len(ListDocId) \in Nat /\ DOMAIN ListDocId = 1 .. Len(ListDocId)
  BY <1>3
<1>6. CASE KeptDocs # {}
  <2>1. KeptDocs = UsableIds
    BY <1>6 DEF KeptDocs, UsableIds
  <2> DEFINE at(x) == CHOOSE j \in DOMAIN ids : ids[j] = x
             l == Len(ListDocId)
             d == [i \in 1 .. l |-> rows[at(ListDocId[i])]]
  <2>2. docs = d
    BY <1>3, <1>5, <1>6, <2>1 DEF EvalDocs, rows
  <2>3. \A i \in 1 .. l : at(ListDocId[i]) \in DOMAIN ids /\ ids[at(ListDocId[i])] = ListDocId[i]
    <3> SUFFICES ASSUME NEW i \in 1 .. l
                 PROVE  \E j \in DOMAIN ids : ids[j] = ListDocId[i]
      OBVIOUS
    <3>1. ListDocId[i] \in ToSet(ids)
      BY <1>3, <1>5 DEF ToSet
    <3> QED
      BY <3>1 DEF ToSet
  <2>4. d \in [1 .. l -> Rows]
    <3>1. DOMAIN rows = DOMAIN ids /\ \A j \in DOMAIN rows : rows[j] \in Rows
      BY <1>2, <1>4
    <3> QED
      BY <2>3, <3>1
  <2>5. Len(d) = l
    BY <1>5, <2>4, SeqDef
  <2>6. Ascending(rows) => \A i \in 1 .. l : d[i] = table[ListDocId[i] + 1]
    BY <1>2, <2>3
  <2> HIDE DEF at
  <2> QED
    BY <1>5, <1>6, <2>2, <2>5, <2>6 DEF rows
<1>7. CASE KeptDocs = {}
  <2>1. docs = rows
    BY <1>7 DEF EvalDocs, rows
  <2>2. Len(docs) = Len(ids) /\ docs = [i \in 1 .. Len(docs) |-> docs[i]]
    BY <1>2, <2>1
  <2>3. ASSUME Len(docs) <= Len(ListDocId)
        PROVE  Len(ids) = Len(ListDocId) /\ ids = ListDocId
    <3>1. /\ Cardinality(UsableIds) <= Cardinality(ToSet(ids))
          /\ Cardinality(ToSet(ids)) = Cardinality(UsableIds) => ToSet(ids) = UsableIds
      BY <1>3, FS_Subset
    <3>2. Len(ids) = Len(ListDocId) /\ ToSet(ids) = UsableIds
      BY <1>3, <1>4, <1>5, <2>2, <2>3, <3>1
    <3>3. ids \in Seq(Int) /\ ListDocId \in Seq(Int)
      BY <1>3, <1>4
    <3> QED
      BY <1>3, <1>4, <3>2, <3>3, SortedOnce
  <2>4. Ascending(rows) => \A i \in 1 .. Len(ids) : rows[i] = table[ids[i] + 1]
    BY <1>2, <1>4
  <2> QED
    BY <1>4, <1>5, <1>7, <2>1, <2>2, <2>3, <2>4 DEF rows
<1> QED
  BY <1>6, <1>7

-----------------------------------------------------------------------------
(***************************************************************************)
(* The result of a task.                                                   *)
(***************************************************************************)
(* Two functions on first numbers, one after the other. *)
LEMMA Joined ==
  ASSUME NEW n \in Nat, NEW l \in Nat, NEW a, NEW b,
         a = [i \in 1 .. n |-> a[i]], b = [i \in 1 .. l |-> b[i]]
  PROVE  /\ Len(a \o b) = n + l /\ DOMAIN (a \o b) = 1 .. n + l
         /\ \A i \in 1 .. n : (a \o b)[i] = a[i]
         /\ \A i \in 1 .. l : n + i \in 1 .. n + l /\ (a \o b)[n + i] = b[i]
         /\ \A i \in 1 .. n + l : i \in 1 .. n \/ \E c \in 1 .. l : i = n + c
<1> DEFINE S == {a[i] : i \in 1 .. n} \cup {b[i] : i \in 1 .. l}
<1>1. a \in [1 .. n -> S] /\ b \in [1 .. l -> S]
  OBVIOUS
<1> HIDE DEF S
<1>2. a \in Seq(S) /\ b \in Seq(S) /\ Len(a) = n /\ Len(b) = l
  BY <1>1, SeqDef
<1>3. /\ DOMAIN a = 1 .. n /\ DOMAIN b = 1 .. l
      /\ Len(a \o b) = n + l /\ DOMAIN (a \o b) = 1 .. n + l
      /\ \A m \in DOMAIN a : (a \o b)[m] = a[m]
      /\ \A c \in DOMAIN b : n + c \in DOMAIN (a \o b) /\ (a \o b)[n + c] = b[c]
      /\ \A m \in DOMAIN (a \o b) : m \in DOMAIN a \/ \E c \in DOMAIN b : m = n + c
  <2>1. DOMAIN a = 1 .. n /\ DOMAIN b = 1 .. l
    OBVIOUS
  <2>2. Len(a \o b) = n + l /\ DOMAIN (a \o b) = 1 .. n + l
    BY <1>2, Concat
  <2>3. \A m \in DOMAIN a : (a \o b)[m] = a[m]
    BY <1>2, Concat
  <2>4. \A c \in DOMAIN b : n + c \in DOMAIN (a \o b) /\ (a \o b)[n + c] = b[c]
    BY <1>2, Concat
  <2>5. \A m \in DOMAIN (a \o b) : m \in DOMAIN a \/ \E c \in DOMAIN b : m = n + c
    BY <1>2, Concat
  <2> QED
    BY <2>1, <2>2, <2>3, <2>4, <2>5
<1> QED
  BY <1>3

(* Each answer set aside has one score, of no prompts. *)
LEMMA FailureScoresAre ==
  ASSUME Answered
  PROVE  /\ Cardinality(Failures) \in Nat
         /\ FailureScores = [i \in 1 .. Cardinality(Failures) |-> FailureScores[i]]
         /\ \A i \in 1 .. Cardinality(Failures) :
              /\ FailureScores[i].prompts = <<>>
              /\ \E a \in Failures : FailureScores[i].id = a.id
         /\ \A a \in Failures : \E i \in 1 .. Cardinality(Failures) : FailureScores[i].id = a.id
<1> DEFINE F == Failures
           n == Cardinality(F)
           f == SetToSeq(F)
<1>1. IsFiniteSet(F)
  BY AnswersAre, FS_Subset DEF Failures
<1>2. FailureScores = [i \in DOMAIN f |-> [id |-> f[i].id, doc |-> <<>>, prompts |-> <<>>]]
  BY DEF FailureScores
<1> HIDE DEF F
<1>3. n \in Nat /\ ExistsBijection(1 .. n, F)
  BY <1>1, FS_CardinalityType
<1>4. \E g \in [1 .. n -> F] : IsInjective(g)
  BY <1>3 DEF ExistsBijection, Bijection, Injection, IsInjective
<1>5. f \in [1 .. n -> F] /\ IsInjective(f)
  BY <1>4 DEF SetToSeq
<1> HIDE DEF f
<1>6. f \in Injection(1 .. n, F)
  BY <1>5 DEF Injection
<1>7. f \in Surjection(1 .. n, F)
  <2>1. Cardinality(1 .. n) = n
    BY <1>3, FS_Interval
  <2> HIDE DEF n
  <2>2. Cardinality(1 .. n) = Cardinality(F)
    BY <2>1 DEF n
  <2> QED
    BY <1>1, <1>6, <2>2, FS_Injection
<1> HIDE DEF n
<1>8. \A a \in F : \E i \in 1 .. n : f[i] = a
  BY <1>7 DEF Surjection
<1>9. DOMAIN f = 1 .. n /\ \A i \in 1 .. n : f[i] \in F
  BY <1>5
<1>10. /\ FailureScores = [i \in 1 .. n |-> FailureScores[i]]
       /\ \A i \in 1 .. n : FailureScores[i].prompts = <<>> /\ FailureScores[i].id = f[i].id
  BY <1>2, <1>9
<1>11. \A i \in 1 .. n : \E a \in F : FailureScores[i].id = a.id
  BY <1>9, <1>10
<1>12. \A a \in F : \E i \in 1 .. n : FailureScores[i].id = a.id
  BY <1>8, <1>10
<1> QED
  BY <1>3, <1>10, <1>11, <1>12 DEF n, F

\* The ids that the scores of a result are of.
IdsScored(r) == {r.scores[i].id : i \in DOMAIN r.scores}

(* A result has a score for each document evaluated and each answer set    *)
(* aside, and their number.                                                *)
LEMMA ResultIs ==
  ASSUME RowsInv, Answered, NEW docs, Len(docs) \in Nat,
         docs = [i \in 1 .. Len(docs) |-> docs[i]],
         UsableIds = {ListDocId[i] : i \in 1 .. Len(docs)}
  PROVE  LET r == Result(docs) IN
         /\ ToSet(ids) = IdsScored(r) \cup Unanswered
         /\ r.num = Len(r.scores)
         /\ \A i \in DOMAIN r.scores : r.scores[i].prompts # <<>> =>
              /\ i \in 1 .. Len(docs)
              /\ r.scores[i].id = ListDocId[i] /\ r.scores[i].doc = docs[i].doc
<1> DEFINE r == Result(docs)
           n == Len(docs)
           l == Cardinality(Failures)
           a == Scores(docs)
           b == FailureScores
<1>1. r.scores = a \o b /\ r.num = n + l
  BY DEF Result
<1>2. /\ l \in Nat
      /\ b = [i \in 1 .. l |-> b[i]]
      /\ \A i \in 1 .. l : b[i].prompts = <<>> /\ \E x \in Failures : b[i].id = x.id
      /\ \A x \in Failures : \E i \in 1 .. l : b[i].id = x.id
  BY FailureScoresAre
<1>3. /\ n \in Nat /\ a = [i \in 1 .. n |-> a[i]]
      /\ \A i \in 1 .. n : a[i].id = ListDocId[i] /\ a[i].doc = docs[i].doc
  <2>1. DOMAIN docs = 1 .. n
    OBVIOUS
  <2> QED
    BY <2>1 DEF Scores
<1>4. UsableIds = {ListDocId[i] : i \in 1 .. n}
  OBVIOUS
<1> HIDE DEF r, n, l, a, b
<1>5. /\ Len(a \o b) = n + l /\ DOMAIN (a \o b) = 1 .. n + l
      /\ \A i \in 1 .. n : (a \o b)[i] = a[i]
      /\ \A i \in 1 .. l : n + i \in 1 .. n + l /\ (a \o b)[n + i] = b[i]
      /\ \A i \in 1 .. n + l : i \in 1 .. n \/ \E c \in 1 .. l : i = n + c
  <2>1. n \in Nat /\ l \in Nat /\ a = [i \in 1 .. n |-> a[i]] /\ b = [i \in 1 .. l |-> b[i]]
    BY <1>2, <1>3
  <2> QED
    BY <2>1, Joined
<1>6. /\ DOMAIN r.scores = 1 .. n + l /\ r.num = Len(r.scores)
      /\ \A i \in 1 .. n : r.scores[i] = a[i]
      /\ \A i \in 1 .. l : n + i \in DOMAIN r.scores /\ r.scores[n + i] = b[i]
      /\ \A i \in DOMAIN r.scores : i \in 1 .. n \/ \E c \in 1 .. l : i = n + c
  BY <1>1, <1>5
<1>7. ASSUME NEW i \in DOMAIN r.scores, r.scores[i].prompts # <<>>
      PROVE  i \in 1 .. n /\ r.scores[i].id = ListDocId[i] /\ r.scores[i].doc = docs[i].doc
  <2>1. CASE i \in 1 .. n
    BY <1>3, <1>6, <2>1
  <2>2. ASSUME NEW c \in 1 .. l, i = n + c PROVE FALSE
    BY <1>2, <1>6, <1>7, <2>2
  <2> QED
    BY <1>6, <2>1, <2>2
<1>8. \A x \in ToSet(ids) : x \in IdsScored(r) \/ x \in Unanswered
  <2> SUFFICES ASSUME NEW x \in ToSet(ids), NEW y \in Answers, y.id = x
               PROVE  x \in IdsScored(r)
    BY DEF Unanswered
  <2>1. ASSUME NEW z \in Failures, z.id = x PROVE x \in IdsScored(r)
    <3>1. PICK c \in 1 .. l : b[c].id = z.id
      BY <1>2
    <3> QED
      BY <1>6, <2>1, <3>1 DEF IdsScored
  <2>2. CASE y \in Usable
    <3>1. x \in UsableIds
      BY <2>2 DEF UsableIds
    <3>2. PICK i \in 1 .. n : x = ListDocId[i]
      BY <1>4, <3>1
    <3>3. i \in DOMAIN r.scores /\ r.scores[i].id = x
      <4>1. i \in 1 .. n + l
        BY <1>2, <1>3
      <4> QED
        BY <1>3, <1>6, <3>2, <4>1
    <3> QED
      BY <3>3 DEF IdsScored
  <2>3. CASE y \in Failures
    BY <2>1, <2>3
  <2>4. CASE y.id \in RemovedDocs
    BY <2>1, <2>4 DEF RemovedDocs
  <2> QED
    BY <2>2, <2>3, <2>4 DEF Usable
<1>9. \A x \in IdsScored(r) : x \in ToSet(ids)
  <2> SUFFICES ASSUME NEW i \in DOMAIN r.scores PROVE r.scores[i].id \in ToSet(ids)
    BY DEF IdsScored
  <2>1. CASE i \in 1 .. n
    <3>1. r.scores[i].id \in UsableIds
      BY <1>3, <1>4, <1>6, <2>1
    <3> QED
      BY <3>1, UsableAre
  <2>2. ASSUME NEW c \in 1 .. l, i = n + c PROVE r.scores[i].id \in ToSet(ids)
    <3>1. PICK x \in Failures : b[c].id = x.id
      BY <1>2
    <3>2. x \in Answers
      BY DEF Failures
    <3> QED
      BY <1>6, <2>2, <3>1, <3>2, AnswersAre
  <2> QED
    BY <1>6, <2>1, <2>2
<1>10. ToSet(ids) = IdsScored(r) \cup Unanswered
  BY <1>8, <1>9 DEF Unanswered
<1> QED
  BY <1>6, <1>7, <1>10 DEF r, n

(* With one response to each prompt, there is an answer to it and one only. *)
LEMMA OneAnswerEach ==
  ASSUME Answered, \A m \in DOMAIN responses : Len(responses[m]) = 1
  PROVE  \A x \in ToSet(ids) : \A c \in 1 .. Prompts : \E y \in Answers :
           /\ y.id = x /\ y.idx = c
           /\ \A z \in Answers : z.id = x /\ z.idx = c => z = y
<1> SUFFICES ASSUME NEW x \in ToSet(ids), NEW c \in 1 .. Prompts
             PROVE  \E y \in Answers : /\ y.id = x /\ y.idx = c
                                       /\ \A z \in Answers : z.id = x /\ z.idx = c => z = y
  OBVIOUS
<1>1. /\ DOMAIN responses = DOMAIN instances
      /\ \A m \in DOMAIN instances : DOMAIN responses[m] = 1 .. 1
  <2>1. DOMAIN responses = DOMAIN instances
    BY DEF Answered
  <2>2. \A m \in DOMAIN instances : responses[m] \in Seq(Kinds)
    BY AnswersAre
  <2> QED
    BY <2>1, <2>2
<1>2. PICK m \in DOMAIN instances : instances[m].id = x /\ instances[m].idx = c
  BY DEF Answered, InstancesInv
<1>3. Answer(m, 1) \in Answers
  BY <1>1, AnswersAre
<1>4. Answer(m, 1).id = x /\ Answer(m, 1).idx = c
  BY <1>2 DEF Answer
<1>5. ASSUME NEW z \in Answers, z.id = x, z.idx = c
      PROVE  z = Answer(m, 1)
  <2>1. PICK o \in DOMAIN instances : \E n \in DOMAIN responses[o] : z = Answer(o, n)
    BY AnswersAre
  <2>2. z = Answer(o, 1)
    BY <1>1, <2>1
  <2>3. instances[o].id = x /\ instances[o].idx = c
    BY <1>5, <2>2 DEF Answer
  <2>4. o = m
    BY <1>2, <2>3 DEF Answered, InstancesInv
  <2> QED
    BY <2>2, <2>4
<1> QED
  BY <1>3, <1>4, <1>5

(* The ids sampled are of the split that is evaluated and of no other. *)
LEMMA SplitFound ==
  ASSUME RowsInv, IdsInv
  PROVE  SplitFromIds(ToSet(ids)) = {EvalSplit}
<1>1. /\ EvalSplit \in ToSet(Splits) /\ SplitExists(EvalSplit)
      /\ ToSet(ids) \subseteq IdsOf(EvalSplit) /\ ids # <<>> /\ ids \in Seq(Nat)
  BY SplitsAssumption DEF IdsInv, OfSplit, Loadable
<1>2. ToSet(ids) # {}
  BY <1>1, EmptySeq DEF ToSet
<1>3. /\ \A s \in ToSet(Splits) : SplitExists(s) => SplitRange(s) = IdsOf(s)
      /\ \A r \in ToSet(Splits) \ {EvalSplit} : IdsOf(r) \cap IdsOf(EvalSplit) = {}
  BY <1>1, RangesAre
<1>4. EvalSplit \in SplitFromIds(ToSet(ids))
  <2>1. SplitRange(EvalSplit) = IdsOf(EvalSplit)
    BY <1>1, <1>3
  <2>2. ToSet(ids) \cap SplitRange(EvalSplit) # {}
    BY <1>1, <1>2, <2>1
  <2> QED
    BY <1>1, <2>2 DEF SplitFromIds
<1>5. ASSUME NEW s \in SplitFromIds(ToSet(ids)), s # EvalSplit
      PROVE  FALSE
  <2>1. s \in ToSet(Splits) /\ SplitExists(s) /\ ToSet(ids) \cap SplitRange(s) # {}
    BY DEF SplitFromIds
  <2>2. SplitRange(s) = IdsOf(s) /\ IdsOf(s) \cap IdsOf(EvalSplit) = {}
    BY <1>3, <1>5, <2>1
  <2> QED
    BY <1>1, <2>1, <2>2
<1> QED
  BY <1>4, <1>5

(* With one response to each prompt and no answer that cannot be scored    *)
(* an evaluation is not dropped.                                           *)
LEMMA DropIs ==
  ASSUME RowsInv, Answered, NEW k \in Scans, Drop(k),
         \A m \in DOMAIN responses : Len(responses[m]) = 1
  PROVE  ~Scorable
<1> SUFFICES ASSUME Scorable
             PROVE  FALSE
  OBVIOUS
<1> DEFINE docs == EvalDocs(Loaded(ids, k))
<1>1. /\ \A x \in ToSet(ids) : \A c \in 1 .. Prompts : \E y \in Answers :
           /\ y.id = x /\ y.idx = c
           /\ \A z \in Answers : z.id = x /\ z.idx = c => z = y
  BY OneAnswerEach
<1>2. 1 \in 1 .. Prompts
  BY BoundsAssumption
<1>3. /\ \A a \in Answers : a.id \in ToSet(ids)
      /\ ToSet(ids) # {} /\ Len(ids) \in Nat
  <2>1. ids # <<>> /\ ids \in Seq(Nat)
    BY DEF Answered, IdsInv, OfSplit
  <2>2. ToSet(ids) # {}
    <3>1. 1 \in DOMAIN ids
      BY <2>1
    <3> QED
      BY <3>1 DEF ToSet
  <2> QED
    BY <2>1, <2>2, AnswersAre
<1>4. Answers # {}
  BY <1>1, <1>2, <1>3
<1>5. ASSUME NEW a \in Usable
      PROVE  Filled(a.id)
  <2>1. a.id \in ToSet(ids) /\ a.id \notin RemovedDocs
    BY <1>3 DEF Usable
  <2>2. ASSUME NEW c \in 1 .. Prompts
        PROVE  ScoredPrompts(a.id)[c] = 1
    <3> DEFINE U == {b \in {b \in Usable : b.id = a.id} : b.idx = c}
    <3>1. PICK y \in Answers : /\ y.id = a.id /\ y.idx = c
                               /\ \A z \in Answers : z.id = a.id /\ z.idx = c => z = y
      BY <1>1, <2>1
    <3>2. y \in Usable
      BY <2>1, <3>1 DEF Usable, RemovedDocs
    <3>3. U = {y}
      BY <3>1, <3>2 DEF Usable
    <3>4. Cardinality(U) = 1
      BY <3>3, FS_Singleton
    <3> QED
      BY <3>4 DEF ScoredPrompts
  <2> QED
    BY <2>2 DEF Filled
<1>6. ASSUME Usable # {}
      PROVE  Evaluable(docs)
  <2>1. /\ Len(docs) \in Nat /\ Len(ListDocId) \in Nat
        /\ KeptDocs # {} => Len(docs) = Len(ListDocId)
        /\ KeptDocs = {} => Len(docs) = Len(ids)
    BY ScansAre, EvalDocsAre
  <2>2. ASSUME KeptDocs = {}
        PROVE  Len(ListDocId) = Len(ids)
    <3>1. RemovedDocs = {}
      BY <1>6, <2>2 DEF KeptDocs
    <3>2. Usable = Answers
      BY <3>1 DEF Usable, RemovedDocs
    <3>3. UsableIds = ToSet(ids)
      BY <1>1, <1>2, <1>3, <3>2 DEF UsableIds
    <3> QED
      BY <3>3, UsableAre
  <2>3. Len(docs) <= Len(ListDocId)
    BY <2>1, <2>2
  <2>4. SplitFromIds(ToSet(ids)) = {EvalSplit}
    BY SplitFound DEF Answered
  <2> QED
    BY <2>3, <2>4 DEF Evaluable
<1> QED
  BY <1>4, <1>5, <1>6 DEF Drop

(* An answer that cannot be scored is the one of its prompt, of a document *)
(* without an answer that failed.                                          *)
LEMMA UnscorableIs ==
  ASSUME Answered, ~Scorable, \A m \in DOMAIN responses : Len(responses[m]) = 1
  PROVE  \E i \in DOMAIN responses :
           /\ responses[i] = <<"unscorable">>
           /\ \A j \in DOMAIN responses :
                instances[j].id = instances[i].id => responses[j] # <<"failed">>
<1>1. PICK a \in Usable : a.kind = "unscorable"
  BY DEF Scorable
<1>2. a \in Answers /\ a.id \notin RemovedDocs
  BY <1>1 DEF Usable
<1>3. /\ DOMAIN responses = DOMAIN instances
      /\ \A m \in DOMAIN instances : /\ responses[m] \in Seq(Kinds) /\ Len(responses[m]) = 1
                                     /\ DOMAIN responses[m] = 1 .. 1
                                     /\ responses[m] = <<responses[m][1]>>
  <2>1. DOMAIN responses = DOMAIN instances
    BY DEF Answered
  <2>2. \A m \in DOMAIN instances : responses[m] \in Seq(Kinds) /\ Len(responses[m]) = 1
    BY <2>1, AnswersAre
  <2> QED
    BY <2>1, <2>2
<1>4. PICK i \in DOMAIN instances : \E n \in DOMAIN responses[i] : a = Answer(i, n)
  BY <1>2, AnswersAre
<1>5. a = Answer(i, 1)
  BY <1>3, <1>4
<1>6. a.id = instances[i].id /\ responses[i][1] = "unscorable"
  BY <1>1, <1>5 DEF Answer
<1>7. responses[i] = <<"unscorable">>
  BY <1>3, <1>6
<1>8. ASSUME NEW j \in DOMAIN instances, instances[j].id = instances[i].id,
             responses[j] = <<"failed">>
      PROVE  FALSE
  <2>1. Answer(j, 1) \in Answers
    BY <1>3, AnswersAre
  <2>2. Answer(j, 1).kind = "failed" /\ Answer(j, 1).id = a.id
    BY <1>6, <1>8 DEF Answer
  <2> QED
    BY <1>2, <2>1, <2>2 DEF RemovedDocs, Failures
<1> QED
  BY <1>3, <1>7, <1>8

\* What is promised of a result.
ResultInv == ScoredAgainstTheirDocument /\ DocumentsAccounted /\ DroppedExplained

(* Without a result nothing is promised of it. *)
LEMMA NoResultYet ==
  ASSUME stage \notin {"stored", "dropped"}, result = NoResult
  PROVE  ResultInv
<1>1. Scored = {}
  BY DEF Scored, NoResult
<1> QED
  BY <1>1 DEF ResultInv, ScoredAgainstTheirDocument, DocumentsAccounted, DroppedExplained

(* What is stored of documents found by their ids is as promised. *)
LEMMA StoredIs ==
  ASSUME RowsInv, Answered, NEW docs, Len(docs) \in Nat,
         docs = [i \in 1 .. Len(docs) |-> docs[i]],
         UsableIds = {ListDocId[i] : i \in 1 .. Len(docs)},
         inOrder' => \A i \in 1 .. Len(docs) : docs[i] = table[ListDocId[i] + 1],
         result' = Result(docs), stage' = "stored",
         UNCHANGED <<table, ids, instances, responses>>
  PROVE  ResultInv'
<1> DEFINE r == Result(docs)
<1>1. /\ ToSet(ids) = IdsScored(r) \cup Unanswered
      /\ r.num = Len(r.scores)
      /\ \A i \in DOMAIN r.scores : r.scores[i].prompts # <<>> =>
           /\ i \in 1 .. Len(docs)
           /\ r.scores[i].id = ListDocId[i] /\ r.scores[i].doc = docs[i].doc
  BY ResultIs
<1>2. result' = r
  OBVIOUS
<1> HIDE DEF r
<1>3. DocumentsAccounted'
  <2>1. Unanswered' = Unanswered
    BY DEF Unanswered, Answers
  <2>2. ids' = ids
    OBVIOUS
  <2> QED
    BY <1>1, <1>2, <2>1, <2>2 DEF DocumentsAccounted, IdsScored
<1>4. ASSUME inOrder', NEW i \in DOMAIN r.scores, r.scores[i].prompts # <<>>
      PROVE  r.scores[i].doc = table[RowOf(r.scores[i].id)].doc
  <2>1. i \in 1 .. Len(docs) /\ r.scores[i].id = ListDocId[i] /\ r.scores[i].doc = docs[i].doc
    BY <1>1, <1>4
  <2>2. ListDocId[i] \in IdsOf(EvalSplit)
    <3>1. ListDocId[i] \in UsableIds
      BY <2>1
    <3> QED
      BY <3>1, UsableAre DEF Answered, IdsInv, OfSplit
  <2>3. RowOf(ListDocId[i]) = ListDocId[i] + 1
    BY <2>2, RowOfIs
  <2>4. docs[i] = table[ListDocId[i] + 1]
    BY <1>4, <2>1
  <2> QED
    BY <2>1, <2>3, <2>4
<1>6. ScoredAgainstTheirDocument'
  <2> DEFINE row(t, x) == CHOOSE i \in DOMAIN t : t[i].id = x
  <2>1. \A i \in DOMAIN r.scores : inOrder' /\ r.scores[i].prompts # <<>> =>
          r.scores[i].doc = table[row(table, r.scores[i].id)].doc
    BY <1>4 DEF RowOf
  <2>2. table' = table
    OBVIOUS
  <2>3. Scored' = {i \in DOMAIN r.scores : r.scores[i].prompts # <<>>}
    BY <1>2 DEF Scored
  <2> HIDE DEF row
  <2>4. inOrder' => \A i \in Scored' :
          result'.scores[i].doc = table'[row(table', result'.scores[i].id)].doc
    BY <1>2, <2>1, <2>2, <2>3
  <2>5. inOrder' => \A i \in Scored' :
          result'.scores[i].doc
            = table'[CHOOSE c \in DOMAIN table' : table'[c].id = result'.scores[i].id].doc
    BY <2>4 DEF row
  <2> QED
    BY <2>5 DEF ScoredAgainstTheirDocument, RowOf
<1>5. DroppedExplained'
  BY DEF DroppedExplained
<1> QED
  BY <1>3, <1>5, <1>6 DEF ResultInv

(* Every step keeps what is promised of results. *)
LEMMA StepResult == TableInv /\ TaskInv /\ ResultInv /\ [Next]_vars => ResultInv'
<1> SUFFICES ASSUME TableInv, TaskInv, ResultInv, [Next]_vars
             PROVE  ResultInv'
  OBVIOUS
<1>1. RowsInv /\ TaskInv'
  BY StepTask DEF TableInv
<1>2. stage = "answered" => Answered
  BY DEF TaskInv, TaskStages, Answered
<1>3. CASE stage' \notin {"stored", "dropped"}
  <2>1. result' = NoResult
    BY <1>1, <1>3 DEF TaskInv, NoResult
  <2>2. Scored' = {}
    BY <2>1 DEF Scored, NoResult
  <2> QED
    BY <1>3, <2>2 DEF ResultInv, ScoredAgainstTheirDocument, DocumentsAccounted,
                      DroppedExplained
<1>4. CASE StoreFailures
  <2>1. /\ stage = "answered" /\ stage' = "stored" /\ Usable = {} /\ result' = Result(<<>>)
        /\ UNCHANGED <<table, ids, instances, responses>>
    BY <1>4 DEF StoreFailures
  <2>2. Answered
    BY <1>2, <2>1
  <2> DEFINE docs == << >>
  <2>3. Len(docs) = 0 /\ docs = [i \in 1 .. Len(docs) |-> docs[i]]
    OBVIOUS
  <2>4. UsableIds = {ListDocId[i] : i \in 1 .. 0}
    BY <2>1 DEF UsableIds
  <2> HIDE DEF docs
  <2>5. /\ Len(docs) \in Nat /\ UsableIds = {ListDocId[i] : i \in 1 .. Len(docs)}
        /\ \A i \in 1 .. Len(docs) : docs[i] = table[ListDocId[i] + 1]
        /\ result' = Result(docs)
    BY <2>1, <2>3, <2>4 DEF docs
  <2> QED
    BY <1>1, <2>1, <2>2, <2>3, <2>5, StoredIs
<1>5. ASSUME NEW k \in Scans, Evaluate(k)
      PROVE  ResultInv'
  <2>1. PICK docs : docs = EvalDocs(Loaded(ids, k))
    OBVIOUS
  <2>2. /\ stage = "answered" /\ stage' = "stored" /\ Evaluable(docs) /\ result' = Result(docs)
        /\ inOrder' = (inOrder /\ Ascending(Loaded(ids, k)))
        /\ UNCHANGED <<table, ids, instances, responses>>
    BY <1>5, <2>1 DEF Evaluate
  <2>3. Answered /\ k \in Nat
    BY <1>1, <1>2, <2>2, ScansAre
  <2>4. /\ Len(docs) \in Nat /\ DOMAIN ListDocId = 1 .. Len(ListDocId)
        /\ docs = [i \in 1 .. Len(docs) |-> docs[i]]
        /\ Len(docs) <= Len(ListDocId) =>
             /\ Len(docs) = Len(ListDocId)
             /\ Ascending(Loaded(ids, k)) =>
                  \A i \in 1 .. Len(docs) : docs[i] = table[ListDocId[i] + 1]
    BY <1>1, <2>1, <2>3, EvalDocsAre
  <2>5. /\ Len(docs) = Len(ListDocId)
        /\ inOrder' => \A i \in 1 .. Len(docs) : docs[i] = table[ListDocId[i] + 1]
    BY <2>2, <2>4 DEF Evaluable
  <2>6. UsableIds = {ListDocId[i] : i \in 1 .. Len(docs)}
    BY <1>1, <2>3, <2>4, <2>5, UsableAre DEF ToSet
  <2> QED
    BY <1>1, <2>2, <2>3, <2>4, <2>5, <2>6, StoredIs
<1>6. ASSUME NEW k \in Scans, Drop(k)
      PROVE  ResultInv'
  <2>1. /\ stage = "answered" /\ stage' = "dropped" /\ result' = result
        /\ responses' = responses /\ instances' = instances
    BY <1>6 DEF Drop
  <2>2. \/ \E m \in DOMAIN responses : Len(responses[m]) # 1
        \/ \E i \in DOMAIN responses :
             /\ responses[i] = <<"unscorable">>
             /\ \A j \in DOMAIN responses :
                  instances[j].id = instances[i].id => responses[j] # <<"failed">>
    BY <1>1, <1>2, <1>6, <2>1, DropIs, UnscorableIs
  <2>3. result' = NoResult
    BY <2>1 DEF TaskInv
  <2>4. Scored' = {}
    BY <2>3 DEF Scored, NoResult
  <2> QED
    BY <2>1, <2>2, <2>4 DEF ResultInv, ScoredAgainstTheirDocument, DocumentsAccounted,
                            DroppedExplained
<1>7. CASE UNCHANGED vars
  BY <1>7 DEF vars, ResultInv, ScoredAgainstTheirDocument, Scored, RowOf, DocumentsAccounted,
              Unanswered, Answers, DroppedExplained
<1>8. CASE stage' \in {"stored", "dropped"} /\ Next
  <2>1. StoreFailures \/ \E k \in Scans : Evaluate(k) \/ Drop(k)
    BY <1>8 DEF Next, Transfer, CopyRecord, Register, RegisterCrash, Sample, Refuse, Respond,
                TaskInv
  <2> QED
    BY <1>4, <1>5, <1>6, <2>1
<1> QED
  BY <1>3, <1>7, <1>8

(* What is promised of results always holds. *)
LEMMA ResultAlways == Spec => []ResultInv
<1>1. Init => ResultInv
  BY NoResultYet DEF Init
<1>2. TableInv /\ TaskInv /\ ResultInv /\ [Next]_vars => ResultInv'
  BY StepResult
<1> QED
  BY <1>1, <1>2, TaskAlways, PTL DEF Spec

(* ScoredAgainstTheirDocument: what is scored for an id are the answers to *)
(* its prompts against its document (the kept ids of build_all_requests    *)
(* and the positions of evaluate), for any dataset, ids and responses,     *)
(* whichever documents were set aside, as long as Postgres returned the    *)
(* rows by id, which the query does not ask for (task.py:456).             *)
THEOREM AlwaysScoredAgainstTheirDocument == Spec => []ScoredAgainstTheirDocument
<1>1. ResultInv => ScoredAgainstTheirDocument
  BY DEF ResultInv
<1> QED
  BY <1>1, ResultAlways, PTL

(* DocumentsAccounted: every sampled document an answer was saved for is   *)
(* in the result, and the number of samples stored is that of the scores   *)
(* (evaluate), for any dataset, ids and responses.                         *)
THEOREM DocumentsAlwaysAccounted == Spec => []DocumentsAccounted
<1>1. ResultInv => DocumentsAccounted
  BY DEF ResultInv
<1> QED
  BY <1>1, ResultAlways, PTL

(* DroppedExplained: with one response to each prompt an evaluation is     *)
(* stored, but for an answer without choices or log probabilities to a     *)
(* document that no failed answer set aside (evaluate.py:210-213), for any *)
(* dataset, ids and responses, without errors of the databases.            *)
THEOREM DropsAlwaysExplained == Spec => []DroppedExplained
<1>1. ResultInv => DroppedExplained
  BY DEF ResultInv
<1> QED
  BY <1>1, ResultAlways, PTL
=============================================================================
