---------------------------- MODULE DataTheorems ----------------------------
(***************************************************************************)
(* Facts about numbers, sequences and sums that the proofs about the       *)
(* components share.  Induction is stated for a set of numbers or of sets, *)
(* which the provers can instantiate, instead of for a predicate.          *)
(***************************************************************************)
EXTENDS SequencesExt, SequenceTheorems, FiniteSetTheorems, WellFoundedInduction, TLAPS

-----------------------------------------------------------------------------
(* Natural numbers.                                                        *)

\* Some numbers have a least one among them.
LEMMA NatLeast ==
    ASSUME NEW T \in SUBSET Nat, T # {}
    PROVE  \E x \in T : \A y \in T : x <= y
<1> DEFINE R == {p \in Nat \X Nat : p[1] < p[2]}
<1>1. IsWellFoundedOn(R, Nat)
  BY NatLessThanWellFounded DEF OpToRel
<1>2. \A x, y \in Nat : <<y, x>> \in R <=> y < x
  OBVIOUS
<1> HIDE DEF R
<1>3. PICK x \in T : \A y \in T : ~ (<<y, x>> \in R)
  BY <1>1, WFMin
<1>4. \A y \in T : ~(y < x)
  BY <1>2, <1>3
<1> QED
  BY <1>3, <1>4

\* Some bounded numbers have a greatest one among them, and Max finds it.
LEMMA NatMax ==
    ASSUME NEW T \in SUBSET Nat, T # {}, NEW b \in Nat, \A y \in T : y <= b
    PROVE  /\ Max(T) \in T
           /\ \A y \in T : y <= Max(T)
<1> DEFINE U == {b - y : y \in T}
<1>1. U \in SUBSET Nat
  <2>1. \A y \in T : y \in Nat /\ b - y \in Nat
    OBVIOUS
  <2> QED
    BY <2>1
<1>2. U # {}
  OBVIOUS
<1>3. PICK u \in U : \A v \in U : u <= v
  BY <1>1, <1>2, NatLeast
<1>4. PICK x \in T : u = b - x
  BY <1>3
<1>5. \A y \in T : b - x <= b - y
  BY <1>3, <1>4
<1>6. \A y \in T : x >= y
  BY <1>4, <1>5
<1>7. Max(T) \in T /\ \A y \in T : Max(T) >= y
  BY <1>6 DEF Max
<1> QED
  BY <1>7

\* A set with 0 and, of each number it holds, the next one, holds them all.
LEMMA NatStepwise ==
    ASSUME NEW S, 0 \in S, \A n \in Nat : n \in S => n + 1 \in S
    PROVE  \A n \in Nat : n \in S
<1> DEFINE T == {n \in Nat : n \notin S}
<1> SUFFICES ASSUME T # {} PROVE FALSE
  OBVIOUS
<1>1. PICK x \in T : \A y \in T : x <= y
  BY NatLeast
<1>2. x \in Nat /\ x # 0
  BY <1>1
<1>3. x - 1 \in Nat /\ x - 1 \notin T
  BY <1>1, <1>2
<1> QED
  BY <1>1, <1>2, <1>3

\* The same from 1 up to a bound.
LEMMA IntervalStepwise ==
    ASSUME NEW S, NEW b \in Nat, 1 \in S,
           \A n \in 1 .. b - 1 : n \in S => n + 1 \in S
    PROVE  \A n \in 1 .. b : n \in S
<1> DEFINE T == {n \in Nat : n + 1 \in S \/ n + 1 > b}
<1>1. 0 \in T
  OBVIOUS
<1>2. \A n \in Nat : n \in T => n + 1 \in T
  OBVIOUS
<1> HIDE DEF T
<1>3. \A n \in Nat : n \in T
  BY <1>1, <1>2, NatStepwise
<1> QED
  BY <1>3 DEF T

-----------------------------------------------------------------------------
(* Recursion over numbers and over the elements of a sequence.             *)

IsRun(g, A, base, F, k) ==
    g \in [0 .. k -> A] /\ g[0] = base /\ \A i \in 1 .. k : g[i] = F[g[i - 1]]

LEMMA RunExists ==
    ASSUME NEW A, NEW base \in A, NEW F \in [A -> A], NEW n \in Nat
    PROVE  \E g : IsRun(g, A, base, F, n)
<1> DEFINE S == {k \in Nat : \E g : IsRun(g, A, base, F, k)}
<1>1. 0 \in S
  <2>1. IsRun([i \in 0 .. 0 |-> base], A, base, F, 0)
    BY DEF IsRun
  <2> QED
    BY <2>1
<1>2. ASSUME NEW k \in Nat, k \in S PROVE k + 1 \in S
  <2>1. PICK g : IsRun(g, A, base, F, k)
    BY <1>2
  <2> DEFINE h == [i \in 0 .. k + 1 |-> IF i = k + 1 THEN F[g[k]] ELSE g[i]]
  <2>2. g[k] \in A /\ \A i \in 0 .. k + 1 : i = k + 1 \/ i \in 0 .. k
    BY <2>1 DEF IsRun
  <2>3. h \in [0 .. k + 1 -> A]
    BY <2>1, <2>2 DEF IsRun
  <2>4. h[0] = base
    BY <2>1 DEF IsRun
  <2>5. ASSUME NEW i \in 1 .. k + 1 PROVE h[i] = F[h[i - 1]]
    <3>1. i - 1 \in 0 .. k + 1 /\ i \in 0 .. k + 1 /\ i - 1 # k + 1
      OBVIOUS
    <3>2. h[i - 1] = g[i - 1]
      BY <3>1
    <3>3. CASE i = k + 1
      BY <3>2, <3>3
    <3>4. CASE i # k + 1
      <4>1. i \in 1 .. k
        BY <3>4
      <4> QED
        BY <2>1, <3>1, <3>2, <3>4, <4>1 DEF IsRun
    <3> QED
      BY <3>3, <3>4
  <2> HIDE DEF h
  <2>6. IsRun(h, A, base, F, k + 1)
    BY <2>3, <2>4, <2>5 DEF IsRun
  <2> QED
    BY <2>6
<1> HIDE DEF S
<1>3. n \in S
  BY <1>1, <1>2, NatStepwise
<1> QED
  BY <1>3 DEF S

\* A function may be given by its value at 0 and a step from each value to the
\* next one.
LEMMA NatRecursion ==
    ASSUME NEW A, NEW base \in A, NEW F \in [A -> A]
    PROVE  \E f \in [Nat -> A] : f[0] = base /\ \A n \in Nat : f[n + 1] = F[f[n]]
<1> DEFINE G(n) == CHOOSE g : IsRun(g, A, base, F, n)
           f == [n \in Nat |-> G(n)[n]]
<1>1. \A n \in Nat : IsRun(G(n), A, base, F, n)
  BY RunExists
<1> HIDE DEF G
<1>2. ASSUME NEW n \in Nat, NEW i \in Nat, i <= n PROVE G(n)[i] = G(n + 1)[i]
  <2> DEFINE S == {j \in Nat : j <= n => G(n)[j] = G(n + 1)[j]}
  <2>1. 0 \in S
    BY <1>1 DEF IsRun
  <2>2. ASSUME NEW j \in Nat, j \in S PROVE j + 1 \in S
    <3> SUFFICES ASSUME j + 1 <= n PROVE G(n)[j + 1] = G(n + 1)[j + 1]
      OBVIOUS
    <3>1. G(n)[j] = G(n + 1)[j]
      BY <2>2
    <3>2. j + 1 \in 1 .. n /\ j + 1 \in 1 .. n + 1 /\ (j + 1) - 1 = j
      OBVIOUS
    <3>3. G(n)[j + 1] = F[G(n)[j]] /\ G(n + 1)[j + 1] = F[G(n + 1)[j]]
      BY <1>1, <3>2 DEF IsRun
    <3> QED
      BY <3>1, <3>3
  <2> HIDE DEF S
  <2>3. i \in S
    BY <2>1, <2>2, NatStepwise
  <2> QED
    BY <1>2, <2>3 DEF S
<1>3. f \in [Nat -> A]
  BY <1>1 DEF IsRun
<1>4. f[0] = base
  BY <1>1 DEF IsRun
<1>5. ASSUME NEW n \in Nat PROVE f[n + 1] = F[f[n]]
  <2>1. f[n + 1] = G(n + 1)[n + 1] /\ f[n] = G(n)[n]
    OBVIOUS
  <2>2. n + 1 \in 1 .. n + 1 /\ (n + 1) - 1 = n
    OBVIOUS
  <2>3. G(n + 1)[n + 1] = F[G(n + 1)[n]]
    BY <1>1, <2>2 DEF IsRun
  <2>4. G(n)[n] = G(n + 1)[n]
    BY <1>2
  <2> QED
    BY <2>1, <2>3, <2>4
<1> HIDE DEF f
<1> QED
  BY <1>3, <1>4, <1>5

\* The greatest number of an interval, and the interval without it.
LEMMA IntervalMax ==
    ASSUME NEW k \in Nat \ {0}
    PROVE  Max(1 .. k) = k /\ (1 .. k) \ {k} = 1 .. k - 1
<1>1. 1 .. k \in SUBSET Nat /\ 1 .. k # {} /\ \A y \in 1 .. k : y <= k
  OBVIOUS
<1>2. Max(1 .. k) \in 1 .. k /\ \A y \in 1 .. k : y <= Max(1 .. k)
  BY <1>1, NatMax
<1> QED
  BY <1>2

\* FoldLeft is defined by recursion over the subsets of the domain; g is the
\* function it takes for a domain of k elements, F its step as a function.
IsFold(g, A, base, F, k) ==
    /\ g \in [SUBSET (1 .. k) -> A]
    /\ \A s \in SUBSET (1 .. k) :
          g[s] = IF s = {} THEN base ELSE F[<<g[s \ {Max(s)}], Max(s)>>]

\* One element more.
LEMMA FoldStep ==
    ASSUME NEW A, NEW base \in A, NEW n \in Nat, NEW F \in [A \X (1 .. n) -> A],
           NEW k \in Nat, k + 1 <= n, NEW g, IsFold(g, A, base, F, k)
    PROVE  \E h : IsFold(h, A, base, F, k + 1)
<1> DEFINE h == [s \in SUBSET (1 .. k + 1) |->
                   IF k + 1 \in s THEN F[<<g[s \ {k + 1}], k + 1>>] ELSE g[s]]
<1>1. ASSUME NEW s \in SUBSET (1 .. k + 1) PROVE s \ {k + 1} \in SUBSET (1 .. k)
  OBVIOUS
<1>2. k + 1 \in 1 .. n
  OBVIOUS
<1>3. ASSUME NEW s \in SUBSET (1 .. k + 1)
      PROVE  h[s] \in A
  <2>1. g[s \ {k + 1}] \in A
    BY <1>1 DEF IsFold
  <2>2. F[<<g[s \ {k + 1}], k + 1>>] \in A
    BY <1>2, <2>1
  <2>3. k + 1 \notin s => s \ {k + 1} = s
    OBVIOUS
  <2> QED
    BY <2>1, <2>2, <2>3
<1>4. h \in [SUBSET (1 .. k + 1) -> A]
  BY <1>3
<1>5. ASSUME NEW s \in SUBSET (1 .. k + 1)
      PROVE  h[s] = IF s = {} THEN base ELSE F[<<h[s \ {Max(s)}], Max(s)>>]
  <2>1. CASE k + 1 \in s
    <3>1. s \in SUBSET Nat /\ s # {}
      BY <2>1
    <3>2. k + 1 \in Nat /\ \A y \in s : y <= k + 1
      OBVIOUS
    <3>3. Max(s) \in s /\ \A y \in s : y <= Max(s)
      BY <3>1, <3>2, NatMax
    <3>4. Max(s) \in 1 .. k + 1 /\ k + 1 <= Max(s)
      BY <2>1, <3>3
    <3>5. Max(s) = k + 1
      BY <3>4
    <3>6. h[s \ {k + 1}] = g[s \ {k + 1}]
      BY <1>1
    <3> QED
      BY <2>1, <3>1, <3>5, <3>6
  <2>2. CASE k + 1 \notin s
    <3>1. s \in SUBSET (1 .. k) /\ h[s] = g[s]
      BY <2>2, <1>1
    <3>2. h[s \ {Max(s)}] = g[s \ {Max(s)}]
      BY <2>2
    <3> QED
      BY <3>1, <3>2 DEF IsFold
  <2> QED
    BY <2>1, <2>2
<1> HIDE DEF h
<1>6. IsFold(h, A, base, F, k + 1)
  BY <1>4, <1>5 DEF IsFold
<1> QED
  BY <1>6

\* There is such a function for any number of elements.
LEMMA FoldExists ==
    ASSUME NEW A, NEW base \in A, NEW n \in Nat, NEW F \in [A \X (1 .. n) -> A]
    PROVE  \E g : IsFold(g, A, base, F, n)
<1> DEFINE S == {k \in Nat : k <= n => \E g : IsFold(g, A, base, F, k)}
<1>1. 0 \in S
  <2> DEFINE g == [s \in SUBSET (1 .. 0) |-> base]
  <2>1. \A s \in SUBSET (1 .. 0) : s = {}
    OBVIOUS
  <2>2. IsFold(g, A, base, F, 0)
    BY <2>1 DEF IsFold
  <2> QED
    BY <2>2
<1>2. ASSUME NEW k \in Nat, k \in S PROVE k + 1 \in S
  <2> SUFFICES ASSUME k + 1 <= n PROVE \E h : IsFold(h, A, base, F, k + 1)
    OBVIOUS
  <2>1. PICK g : IsFold(g, A, base, F, k)
    BY <1>2
  <2> QED
    BY <2>1, FoldStep
<1> HIDE DEF S
<1>3. n \in S
  BY <1>1, <1>2, NatStepwise
<1> QED
  BY <1>3 DEF S

-----------------------------------------------------------------------------
(* Sequences of sequences.                                                 *)

\* g holds, at i, the first i sequences one behind the other.
IsFlattening(g, seqs, n) ==
    g = [i \in 1 .. n |-> IF i = 1 THEN seqs[i] ELSE g[i - 1] \o seqs[i]]

\* There is such a function ...
LEMMA FlatteningExists ==
    ASSUME NEW seqs, NEW n \in Nat
    PROVE  \E g : IsFlattening(g, seqs, n)
<1> DEFINE S == {k \in Nat : \E g : IsFlattening(g, seqs, k)}
<1>1. 0 \in S
  <2>1. IsFlattening([i \in 1 .. 0 |-> {}], seqs, 0)
    BY DEF IsFlattening
  <2> QED
    BY <2>1
<1>2. ASSUME NEW k \in Nat, k \in S PROVE k + 1 \in S
  <2>1. PICK g : IsFlattening(g, seqs, k)
    BY <1>2
  <2>2. \A i \in 1 .. k : g[i] = IF i = 1 THEN seqs[i] ELSE g[i - 1] \o seqs[i]
    BY <2>1 DEF IsFlattening
  <2> DEFINE last == IF k = 0 THEN seqs[1] ELSE g[k] \o seqs[k + 1]
             h == [i \in 1 .. k + 1 |-> IF i = k + 1 THEN last ELSE g[i]]
             e == [i \in 1 .. k + 1 |-> IF i = 1 THEN seqs[i] ELSE h[i - 1] \o seqs[i]]
  <2>3. ASSUME NEW i \in 1 .. k + 1 PROVE h[i] = e[i]
    <3>1. CASE i = k + 1
      <4>1. CASE k = 0
        BY <3>1, <4>1
      <4>2. CASE k # 0
        <5>1. k \in 1 .. k + 1 /\ k # k + 1 /\ i - 1 = k /\ i # 1
          BY <3>1, <4>2
        <5>2. h[k] = g[k]
          BY <5>1
        <5> QED
          BY <3>1, <4>2, <5>1, <5>2
      <4> QED
        BY <4>1, <4>2
    <3>2. CASE i # k + 1
      <4>1. i \in 1 .. k
        BY <3>2
      <4>2. i # 1 => i - 1 \in 1 .. k + 1 /\ i - 1 # k + 1
        BY <4>1
      <4> QED
        BY <2>2, <3>2, <4>1, <4>2
    <3> QED
      BY <3>1, <3>2
  <2> HIDE DEF last
  <2>4. h = e
    <3>1. DOMAIN h = 1 .. k + 1 /\ DOMAIN e = 1 .. k + 1
      OBVIOUS
    <3> HIDE DEF e
    <3>2. h = [i \in 1 .. k + 1 |-> e[i]]
      BY <2>3
    <3> QED
      BY <3>2 DEF e
  <2>5. IsFlattening(h, seqs, k + 1)
    BY <2>4 DEF IsFlattening
  <2> QED
    BY <2>5
<1> HIDE DEF S
<1>3. n \in S
  BY <1>1, <1>2, NatStepwise
<1> QED
  BY <1>3 DEF S

\* ... and FlattenSeq takes its last value.
LEMMA FlattenSeqIsLast ==
    ASSUME NEW seqs, Len(seqs) \in Nat \ {0}
    PROVE  \E g : IsFlattening(g, seqs, Len(seqs)) /\ FlattenSeq(seqs) = g[Len(seqs)]
<1> DEFINE n == Len(seqs)
           g == CHOOSE f : IsFlattening(f, seqs, n)
<1>1. IsFlattening(g, seqs, n)
  BY FlatteningExists
<1>2. FlattenSeq(seqs) = g[n]
  BY DEF FlattenSeq, IsFlattening
<1> QED
  BY <1>1, <1>2

\* What two sequences hold, one behind the other.
LEMMA RangeConcat ==
    ASSUME NEW S, NEW s \in Seq(S), NEW t \in Seq(S)
    PROVE  s \o t \in Seq(S) /\ Range(s \o t) = Range(s) \cup Range(t)
<1>1. /\ s \o t \in Seq(S) /\ Len(s \o t) = Len(s) + Len(t)
      /\ \A i \in 1 .. Len(s) + Len(t) :
            (s \o t)[i] = IF i <= Len(s) THEN s[i] ELSE t[i - Len(s)]
  BY ConcatProperties
<1>2. /\ DOMAIN (s \o t) = 1 .. Len(s) + Len(t)
      /\ DOMAIN s = 1 .. Len(s) /\ DOMAIN t = 1 .. Len(t)
      /\ Len(s) \in Nat /\ Len(t) \in Nat
  BY <1>1
<1>3. ASSUME NEW x \in Range(s \o t) PROVE x \in Range(s) \cup Range(t)
  <2>1. PICK i \in 1 .. Len(s) + Len(t) : x = (s \o t)[i]
    BY <1>2, <1>3 DEF Range
  <2>2. CASE i <= Len(s)
    BY <1>1, <1>2, <2>1, <2>2 DEF Range
  <2>3. CASE ~(i <= Len(s))
    <3>1. i - Len(s) \in 1 .. Len(t) /\ x = t[i - Len(s)]
      BY <1>1, <1>2, <2>1, <2>3
    <3> QED
      BY <1>2, <3>1 DEF Range
  <2> QED
    BY <2>2, <2>3
<1>4. ASSUME NEW x \in Range(s) PROVE x \in Range(s \o t)
  <2>1. PICK i \in 1 .. Len(s) : x = s[i]
    BY <1>2, <1>4 DEF Range
  <2>2. i \in 1 .. Len(s) + Len(t) /\ (s \o t)[i] = x
    BY <1>1, <1>2, <2>1
  <2> QED
    BY <1>2, <2>2 DEF Range
<1>5. ASSUME NEW x \in Range(t) PROVE x \in Range(s \o t)
  <2>1. PICK i \in 1 .. Len(t) : x = t[i]
    BY <1>2, <1>5 DEF Range
  <2>2. i + Len(s) \in 1 .. Len(s) + Len(t) /\ (s \o t)[i + Len(s)] = x
    BY <1>1, <1>2, <2>1
  <2> QED
    BY <1>2, <2>2 DEF Range
<1> QED
  BY <1>1, <1>3, <1>4, <1>5

\* A flattened sequence holds what the sequences hold.
LEMMA FlattenSeqRange ==
    ASSUME NEW S, NEW seqs \in Seq(Seq(S))
    PROVE  /\ FlattenSeq(seqs) \in Seq(S)
           /\ Range(FlattenSeq(seqs)) = UNION {Range(seqs[i]) : i \in DOMAIN seqs}
<1>1. Len(seqs) \in Nat /\ DOMAIN seqs = 1 .. Len(seqs)
  OBVIOUS
<1>2. CASE Len(seqs) = 0
  <2>1. FlattenSeq(seqs) = seqs /\ seqs \in Seq(S)
    BY <1>2 DEF FlattenSeq
  <2>2. DOMAIN seqs = {}
    BY <1>1, <1>2
  <2>3. Range(seqs) = {} /\ UNION {Range(seqs[i]) : i \in DOMAIN seqs} = {}
    BY <2>2 DEF Range
  <2> QED
    BY <2>1, <2>3
<1>3. CASE Len(seqs) # 0
  <2> DEFINE n == Len(seqs)
             Upto(i) == UNION {Range(seqs[k]) : k \in 1 .. i}
  <2>1. n \in Nat \ {0} /\ \A i \in 1 .. n : seqs[i] \in Seq(S)
    BY <1>3
  <2>2. PICK g : IsFlattening(g, seqs, n) /\ FlattenSeq(seqs) = g[n]
    BY <2>1, FlattenSeqIsLast
  <2> HIDE DEF n
  <2>3. \A i \in 1 .. n : g[i] = IF i = 1 THEN seqs[i] ELSE g[i - 1] \o seqs[i]
    BY <2>2 DEF IsFlattening
  <2> DEFINE T == {i \in 1 .. n : g[i] \in Seq(S) /\ Range(g[i]) = Upto(i)}
  <2>4. 1 \in T
    <3>1. 1 \in 1 .. n /\ g[1] = seqs[1] /\ 1 .. 1 = {1}
      BY <2>1, <2>3
    <3>2. Upto(1) = Range(seqs[1])
      BY <3>1
    <3> HIDE DEF Upto
    <3> QED
      BY <2>1, <3>1, <3>2
  <2>5. ASSUME NEW i \in 1 .. n - 1, i \in T PROVE i + 1 \in T
    <3>1. i + 1 \in 1 .. n /\ i + 1 # 1 /\ (i + 1) - 1 = i
      BY <2>1
    <3>2. g[i + 1] = g[i] \o seqs[i + 1]
      BY <2>3, <3>1
    <3>3. Upto(i + 1) = Upto(i) \cup Range(seqs[i + 1])
      <4>1. 1 .. i + 1 = (1 .. i) \cup {i + 1}
        BY <2>1
      <4> QED
        BY <4>1
    <3> HIDE DEF Upto
    <3>4. g[i] \in Seq(S) /\ Range(g[i]) = Upto(i) /\ seqs[i + 1] \in Seq(S)
      BY <2>1, <2>5, <3>1
    <3>5. g[i + 1] \in Seq(S) /\ Range(g[i + 1]) = Range(g[i]) \cup Range(seqs[i + 1])
      BY <3>2, <3>4, RangeConcat
    <3> QED
      BY <3>1, <3>3, <3>4, <3>5
  <2> HIDE DEF T
  <2>6. n \in Nat /\ n \in 1 .. n
    BY <2>1
  <2>7. \A i \in 1 .. n - 1 : i \in T => i + 1 \in T
    BY <2>5
  <2>8. \A i \in 1 .. n : i \in T
    BY <2>4, <2>6, <2>7, IntervalStepwise
  <2> QED
    BY <1>1, <2>2, <2>6, <2>8 DEF T, n
<1> QED
  BY <1>2, <1>3

-----------------------------------------------------------------------------
(* Sums over finite sets, of a function's values.                          *)

\* A property of finite sets that {} has and that one element more keeps.
LEMMA SetStepwise ==
    ASSUME NEW X, IsFiniteSet(X), NEW S, {} \in S,
           \A s \in SUBSET X : \A x \in X \ s : s \in S => s \cup {x} \in S
    PROVE  \A s \in SUBSET X : s \in S
<1> DEFINE T == {n \in Nat : \A s \in SUBSET X : Cardinality(s) = n => s \in S}
<1>1. 0 \in T
  <2>1. \A s \in SUBSET X : Cardinality(s) = 0 => s = {}
    BY FS_Subset, FS_EmptySet
  <2> QED
    BY <2>1
<1>2. ASSUME NEW n \in Nat, n \in T PROVE n + 1 \in T
  <2> SUFFICES ASSUME NEW s \in SUBSET X, Cardinality(s) = n + 1 PROVE s \in S
    OBVIOUS
  <2>1. IsFiniteSet(s)
    BY FS_Subset
  <2>2. s # {}
    <3>1. Cardinality({}) = 0
      BY FS_EmptySet
    <3>2. s = {} => Cardinality(s) = 0
      BY <3>1
    <3> QED
      BY <3>2
  <2>3. PICK x \in s : TRUE
    BY <2>2
  <2>4. Cardinality(s \ {x}) = n
    <3>1. Cardinality(s \ {x}) = Cardinality(s) - 1
      BY <2>1, <2>3, FS_RemoveElement
    <3> QED
      BY <3>1
  <2>5. s \ {x} \in S /\ s \ {x} \in SUBSET X /\ x \in X \ (s \ {x})
    BY <1>2, <2>3, <2>4
  <2>6. s = (s \ {x}) \cup {x}
    BY <2>3
  <2> QED
    BY <2>5, <2>6
<1> HIDE DEF T
<1>3. \A n \in Nat : n \in T
  BY <1>1, <1>2, NatStepwise
<1>4. \A s \in SUBSET X : Cardinality(s) \in Nat
  BY FS_Subset, FS_CardinalityType
<1> QED
  BY <1>3, <1>4 DEF T

Picked(s) == CHOOSE x \in s : TRUE

\* g holds the sums of F over the subsets of S, by the recursion of MapThenSumSet.
IsSum(g, F, S) ==
    g = [s \in SUBSET S |-> IF s = {} THEN 0 ELSE F[Picked(s)] + g[s \ {Picked(s)}]]

\* There are such sums, all of them numbers.
LEMMA SumExists ==
    ASSUME NEW S, IsFiniteSet(S), NEW F, \A x \in S : F[x] \in Nat
    PROVE  \E g \in [SUBSET S -> Nat] : IsSum(g, F, S)
<1> DEFINE A == [SUBSET S -> Nat]
           Next(g) == [s \in SUBSET S |-> IF s = {} THEN 0 ELSE F[Picked(s)] + g[s \ {Picked(s)}]]
           zero == [s \in SUBSET S |-> 0]
           step == [g \in A |-> Next(g)]
<1>1. \A s \in SUBSET S : s # {} => Picked(s) \in s
  BY DEF Picked
<1>2. ASSUME NEW g \in A PROVE Next(g) \in A
  BY <1>1
<1>3. zero \in A /\ step \in [A -> A]
  BY <1>2
<1> HIDE DEF A, zero, step, Next
<1>4. PICK G \in [Nat -> A] : G[0] = zero /\ \A n \in Nat : G[n + 1] = step[G[n]]
  BY <1>3, NatRecursion
<1>5. \A n \in Nat : G[n + 1] = Next(G[n])
  BY <1>4 DEF step
<1> DEFINE T == {n \in Nat : \A s \in SUBSET S : Cardinality(s) <= n => G[n + 1][s] = G[n][s]}
<1>6. 0 \in T
  <2> SUFFICES ASSUME NEW s \in SUBSET S, Cardinality(s) <= 0 PROVE G[0 + 1][s] = G[0][s]
    BY DEF T
  <2>1. Cardinality(s) \in Nat /\ (Cardinality(s) = 0 <=> s = {})
    BY FS_Subset, FS_CardinalityType, FS_EmptySet
  <2>2. s = {}
    BY <2>1
  <2>3. Next(G[0])[s] = 0 /\ zero[s] = 0
    BY <2>2 DEF Next, zero
  <2> QED
    BY <1>4, <1>5, <2>3
<1>7. ASSUME NEW n \in Nat, n \in T PROVE n + 1 \in T
  <2> SUFFICES ASSUME NEW s \in SUBSET S, Cardinality(s) <= n + 1
               PROVE  G[(n + 1) + 1][s] = G[n + 1][s]
    BY DEF T
  <2>1. G[(n + 1) + 1][s] = Next(G[n + 1])[s] /\ G[n + 1][s] = Next(G[n])[s]
    BY <1>5
  <2>2. CASE s = {}
    BY <2>1, <2>2 DEF Next
  <2>3. CASE s # {}
    <3>1. Cardinality(s) \in Nat /\ Cardinality(s \ {Picked(s)}) = Cardinality(s) - 1
      BY <1>1, <2>3, FS_Subset, FS_RemoveElement, FS_CardinalityType
    <3>2. G[n + 1][s \ {Picked(s)}] = G[n][s \ {Picked(s)}]
      BY <1>7, <3>1 DEF T
    <3> QED
      BY <2>1, <2>3, <3>2 DEF Next
  <2> QED
    BY <2>2, <2>3
<1> HIDE DEF T
<1>8. \A n \in Nat : n \in T
  BY <1>6, <1>7, NatStepwise
<1> DEFINE n == Cardinality(S)
<1>9. n \in Nat /\ \A s \in SUBSET S : Cardinality(s) <= n
  BY FS_CardinalityType, FS_Subset
<1> HIDE DEF n
<1>10. \A s \in SUBSET S : Next(G[n])[s] = G[n][s]
  BY <1>5, <1>8, <1>9 DEF T
<1>11. G[n] \in [SUBSET S -> Nat]
  BY <1>4, <1>9 DEF A
<1>12. G[n] = Next(G[n])
  BY <1>10, <1>11 DEF Next
<1> QED
  BY <1>11, <1>12 DEF IsSum, Next

\* The sums over a set with and without an element differ by its value.
Removes(g, F, S) ==
    /\ g[{}] = 0
    /\ g \in [SUBSET S -> Nat]
    /\ \A s \in SUBSET S : \A x \in s : g[s] = F[x] + g[s \ {x}]

\* The element taken first makes no difference.
LEMMA SumRemoves ==
    ASSUME NEW S, IsFiniteSet(S), NEW F, \A x \in S : F[x] \in Nat, NEW g, IsSum(g, F, S)
    PROVE  Removes(g, F, S)
<1>1. \A s \in SUBSET S : g[s] = IF s = {} THEN 0 ELSE F[Picked(s)] + g[s \ {Picked(s)}]
  BY DEF IsSum
<1>2. \A s \in SUBSET S : s # {} => Picked(s) \in s
  BY DEF Picked
<1> DEFINE Good(s) == /\ g[s] \in Nat
                      /\ \A x \in s : g[s] = F[x] + g[s \ {x}]
           T == {n \in Nat : \A s \in SUBSET S : Cardinality(s) <= n => Good(s)}
<1>3. Good({})
  BY <1>1
<1> HIDE DEF Good
<1>4. 0 \in T
  <2>1. \A s \in SUBSET S : Cardinality(s) \in Nat /\ (Cardinality(s) = 0 <=> s = {})
    BY FS_Subset, FS_CardinalityType, FS_EmptySet
  <2> QED
    BY <1>3, <2>1
<1>5. ASSUME NEW n \in Nat, n \in T PROVE n + 1 \in T
  <2> SUFFICES ASSUME NEW s \in SUBSET S, Cardinality(s) <= n + 1 PROVE Good(s)
    OBVIOUS
  <2>1. CASE s = {}
    BY <1>3, <2>1
  <2>2. CASE s # {}
    <3> DEFINE c == Picked(s)
    <3>1. c \in s /\ g[s] = F[c] + g[s \ {c}] /\ F[c] \in Nat
      BY <1>1, <1>2, <2>2
    <3> HIDE DEF c
    <3>2. \A x \in s : Good(s \ {x})
      <4>1. ASSUME NEW x \in s PROVE Cardinality(s \ {x}) <= n
        BY FS_Subset, FS_RemoveElement, FS_CardinalityType
      <4> QED
        BY <1>5, <4>1
    <3>3. g[s \ {c}] \in Nat
      BY <3>1, <3>2 DEF Good
    <3>4. ASSUME NEW x \in s PROVE g[s] = F[x] + g[s \ {x}]
      <4>1. CASE x = c
        BY <3>1, <4>1
      <4>2. CASE x # c
        <5>1. x \in s \ {c} /\ c \in s \ {x} /\ (s \ {c}) \ {x} = (s \ {x}) \ {c}
          BY <3>1, <4>2
        <5>2. g[s \ {c}] = F[x] + g[(s \ {x}) \ {c}]
          BY <3>1, <3>2, <5>1 DEF Good
        <5>3. g[s \ {x}] = F[c] + g[(s \ {x}) \ {c}]
          BY <3>2, <5>1 DEF Good
        <5>4. F[x] \in Nat /\ g[(s \ {x}) \ {c}] \in Nat
          <6>1. Cardinality((s \ {x}) \ {c}) <= n
            BY <3>1, <5>1, FS_Subset, FS_RemoveElement, FS_CardinalityType
          <6>2. Good((s \ {x}) \ {c})
            BY <1>5, <6>1
          <6> QED
            BY <6>2 DEF Good
        <5> DEFINE r == g[(s \ {x}) \ {c}]
        <5> HIDE DEF r
        <5>5. F[x] \in Nat /\ F[c] \in Nat /\ r \in Nat
          BY <3>1, <5>4 DEF r
        <5>6. g[s] = F[c] + (F[x] + r) /\ g[s \ {x}] = F[c] + r
          BY <3>1, <5>2, <5>3 DEF r
        <5> QED
          BY <5>5, <5>6
      <4> QED
        BY <4>1, <4>2
    <3> QED
      BY <3>1, <3>3, <3>4 DEF Good
  <2> QED
    BY <2>1, <2>2
<1> HIDE DEF T
<1>6. \A n \in Nat : n \in T
  BY <1>4, <1>5, NatStepwise
<1>7. \A s \in SUBSET S : Cardinality(s) \in Nat
  BY FS_Subset, FS_CardinalityType
<1>8. \A s \in SUBSET S : Good(s)
  BY <1>6, <1>7 DEF T
<1>9. g \in [SUBSET S -> Nat]
  BY <1>8 DEF IsSum, Good
<1> QED
  BY <1>1, <1>8, <1>9 DEF Good, Removes

\* The sum of F over a finite set.
SumOver(F, S) == (CHOOSE g : IsSum(g, F, S))[S]

\* One function holds the sums over all subsets.
LEMMA SumOfSubset ==
    ASSUME NEW S, IsFiniteSet(S), NEW F, \A x \in S : F[x] \in Nat, NEW g, IsSum(g, F, S),
           NEW X \in SUBSET S
    PROVE  SumOver(F, X) = g[X]
<1>1. IsFiniteSet(X)
  BY FS_Subset
<1> DEFINE h == CHOOSE k : IsSum(k, F, X)
<1>2. \E k : IsSum(k, F, X)
  BY <1>1, SumExists
<1>3. IsSum(h, F, X)
  BY <1>2
<1> HIDE DEF h
<1> DEFINE T == {s \in SUBSET X : h[s] = g[s]}
<1>4. h[{}] = 0 /\ \A s \in SUBSET X : \A x \in s : h[s] = F[x] + h[s \ {x}]
  <2>1. \A x \in X : F[x] \in Nat
    OBVIOUS
  <2>2. Removes(h, F, X)
    BY <1>1, <1>3, <2>1, SumRemoves
  <2> QED
    BY <2>2 DEF Removes
<1>5. g[{}] = 0 /\ \A s \in SUBSET S : \A x \in s : g[s] = F[x] + g[s \ {x}]
  <2>1. Removes(g, F, S)
    BY SumRemoves
  <2> QED
    BY <2>1 DEF Removes
<1>6. {} \in T
  BY <1>4, <1>5
<1>7. ASSUME NEW s \in SUBSET X, NEW x \in X \ s, s \in T PROVE s \cup {x} \in T
  <2>1. s \cup {x} \in SUBSET X /\ x \in s \cup {x} /\ (s \cup {x}) \ {x} = s
    OBVIOUS
  <2>2. s \cup {x} \in SUBSET S
    OBVIOUS
  <2>3. h[s \cup {x}] = F[x] + h[s] /\ g[s \cup {x}] = F[x] + g[s]
    BY <1>4, <1>5, <2>1, <2>2
  <2> QED
    BY <1>7, <2>1, <2>3
<1> HIDE DEF T
<1>8. X \in T
  BY <1>1, <1>6, <1>7, SetStepwise
<1> QED
  BY <1>8 DEF T, SumOver, h

\* Nothing sums to 0, and one element more adds its own.
LEMMA SumOne ==
    ASSUME NEW S, IsFiniteSet(S), NEW F, \A x \in S : F[x] \in Nat
    PROVE  /\ SumOver(F, {}) = 0
           /\ \A X \in SUBSET S : SumOver(F, X) \in Nat
           /\ \A X \in SUBSET S : \A x \in S \ X :
                 SumOver(F, X \cup {x}) = F[x] + SumOver(F, X)
<1>1. PICK g : IsSum(g, F, S)
  BY SumExists
<1>2. \A X \in SUBSET S : SumOver(F, X) = g[X]
  BY <1>1, SumOfSubset
<1>3. /\ g[{}] = 0
      /\ g \in [SUBSET S -> Nat]
      /\ \A s \in SUBSET S : \A x \in s : g[s] = F[x] + g[s \ {x}]
  <2>1. Removes(g, F, S)
    BY <1>1, SumRemoves
  <2> QED
    BY <2>1 DEF Removes
<1>4. ASSUME NEW X \in SUBSET S, NEW x \in S \ X
      PROVE  SumOver(F, X \cup {x}) = F[x] + SumOver(F, X)
  <2>1. (X \cup {x}) \ {x} = X /\ X \cup {x} \in SUBSET S /\ x \in X \cup {x}
    OBVIOUS
  <2>2. g[X \cup {x}] = F[x] + g[X]
    BY <1>3, <2>1
  <2> QED
    BY <1>2, <2>1, <2>2
<1> QED
  BY <1>2, <1>3, <1>4

\* The sum over two sets with nothing in common.
LEMMA SumDisjoint ==
    ASSUME NEW S, IsFiniteSet(S), NEW F, \A x \in S : F[x] \in Nat,
           NEW X \in SUBSET S, NEW Y \in SUBSET S, X \cap Y = {}
    PROVE  SumOver(F, X \cup Y) = SumOver(F, X) + SumOver(F, Y)
<1> DEFINE T == {s \in SUBSET Y : SumOver(F, X \cup s) = SumOver(F, X) + SumOver(F, s)}
<1>1. SumOver(F, {}) = 0 /\ \A s \in SUBSET S : SumOver(F, s) \in Nat
  BY SumOne
<1>2. {} \in T
  <2>1. X \cup {} = X
    OBVIOUS
  <2> QED
    BY <1>1, <2>1
<1>3. ASSUME NEW s \in SUBSET Y, NEW y \in Y \ s, s \in T PROVE s \cup {y} \in T
  <2>1. /\ s \in SUBSET S /\ X \cup s \in SUBSET S
        /\ y \in S \ s /\ y \in S \ (X \cup s)
        /\ X \cup (s \cup {y}) = (X \cup s) \cup {y}
    OBVIOUS
  <2>2. SumOver(F, s \cup {y}) = F[y] + SumOver(F, s)
    BY <2>1, SumOne
  <2>3. SumOver(F, (X \cup s) \cup {y}) = F[y] + SumOver(F, X \cup s)
    BY <2>1, SumOne
  <2>4. SumOver(F, X \cup s) = SumOver(F, X) + SumOver(F, s)
    BY <1>3
  <2>5. F[y] \in Nat /\ SumOver(F, X) \in Nat /\ SumOver(F, s) \in Nat
    BY <1>1, <2>1
  <2> DEFINE a == SumOver(F, X)
             b == SumOver(F, s)
  <2>6. SumOver(F, s \cup {y}) = F[y] + b /\ SumOver(F, X \cup (s \cup {y})) = F[y] + (a + b)
    BY <2>1, <2>2, <2>3, <2>4
  <2> HIDE DEF a, b
  <2>7. SumOver(F, X \cup (s \cup {y})) = a + SumOver(F, s \cup {y})
    BY <2>5, <2>6 DEF a, b
  <2> QED
    BY <2>7 DEF a
<1> HIDE DEF T
<1>4. IsFiniteSet(Y)
  BY FS_Subset
<1>5. \A s \in SUBSET Y : \A y \in Y \ s : s \in T => s \cup {y} \in T
  BY <1>3
<1>6. \A s \in SUBSET Y : s \in T
  BY <1>2, <1>4, <1>5, SetStepwise
<1>7. Y \in T
  BY <1>6
<1> QED
  BY <1>7 DEF T

\* Fewer elements have no larger a sum.
LEMMA SumMonotone ==
    ASSUME NEW S, IsFiniteSet(S), NEW F, \A x \in S : F[x] \in Nat,
           NEW X \in SUBSET S, NEW Y \in SUBSET X
    PROVE  SumOver(F, Y) <= SumOver(F, X)
<1> DEFINE Z == X \ Y
<1>1. Z \in SUBSET S /\ Y \in SUBSET S /\ Y \cap Z = {} /\ Y \cup Z = X
  OBVIOUS
<1> HIDE DEF Z
<1>2. SumOver(F, Y \cup Z) = SumOver(F, Y) + SumOver(F, Z)
  BY <1>1, SumDisjoint
<1>3. SumOver(F, Y) \in Nat /\ SumOver(F, Z) \in Nat
  BY <1>1, SumOne
<1> DEFINE a == SumOver(F, Y)
           b == SumOver(F, Z)
<1>4. SumOver(F, X) = a + b
  BY <1>1, <1>2
<1> HIDE DEF a, b
<1>5. a <= SumOver(F, X)
  BY <1>3, <1>4 DEF a, b
<1> QED
  BY <1>5 DEF a

\* Nothing is counted twice: where each element of S has a part of T, the parts
\* are disjoint, and the element is no larger than the sum over its part, the
\* sum over S is no larger than the sum over T.
LEMMA SumOfParts ==
    ASSUME NEW S, IsFiniteSet(S), NEW F, \A x \in S : F[x] \in Nat,
           NEW T, IsFiniteSet(T), NEW G, \A y \in T : G[y] \in Nat,
           NEW Part, \A x \in S : Part[x] \in SUBSET T,
           \A x, y \in S : x # y => Part[x] \cap Part[y] = {},
           \A x \in S : F[x] <= SumOver(G, Part[x])
    PROVE  SumOver(F, S) <= SumOver(G, T)
<1> DEFINE Parts(s) == UNION {Part[x] : x \in s}
           Good == {s \in SUBSET S : SumOver(F, s) <= SumOver(G, Parts(s))}
<1>1. \A s \in SUBSET S : Parts(s) \in SUBSET T
  OBVIOUS
<1>2. {} \in Good
  <2>1. Parts({}) = {}
    OBVIOUS
  <2>2. SumOver(F, {}) = 0 /\ SumOver(G, {}) = 0
    BY SumOne
  <2> QED
    BY <2>1, <2>2
<1>3. ASSUME NEW s \in SUBSET S, NEW x \in S \ s, s \in Good PROVE s \cup {x} \in Good
  <2>1. Parts(s \cup {x}) = Parts(s) \cup Part[x] /\ Parts(s) \cap Part[x] = {}
    OBVIOUS
  <2>2. Parts(s) \in SUBSET T /\ Part[x] \in SUBSET T
    BY <1>1
  <2>3. SumOver(F, s) <= SumOver(G, Parts(s))
    BY <1>3
  <2> HIDE DEF Parts
  <2>4. SumOver(F, s \cup {x}) = F[x] + SumOver(F, s)
    BY SumOne
  <2>5. SumOver(G, Parts(s) \cup Part[x]) = SumOver(G, Parts(s)) + SumOver(G, Part[x])
    BY <2>1, <2>2, SumDisjoint
  <2>6. /\ F[x] \in Nat /\ SumOver(F, s) \in Nat
        /\ SumOver(G, Parts(s)) \in Nat /\ SumOver(G, Part[x]) \in Nat
    BY <2>2, SumOne
  <2>7. F[x] <= SumOver(G, Part[x])
    OBVIOUS
  <2> DEFINE a == SumOver(F, s)
             b == SumOver(G, Parts(s))
             c == SumOver(G, Part[x])
  <2>8. SumOver(F, s \cup {x}) = F[x] + a /\ SumOver(G, Parts(s \cup {x})) = b + c
    BY <2>1, <2>4, <2>5
  <2>9. a <= b /\ F[x] <= c /\ F[x] \in Nat /\ a \in Nat /\ b \in Nat /\ c \in Nat
    BY <2>3, <2>6, <2>7
  <2> HIDE DEF a, b, c
  <2>10. SumOver(F, s \cup {x}) <= SumOver(G, Parts(s \cup {x}))
    BY <2>8, <2>9
  <2> QED
    BY <2>10
<1> HIDE DEF Good
<1>4. S \in Good
  BY <1>2, <1>3, SetStepwise
<1>5. SumOver(F, S) <= SumOver(G, Parts(S))
  BY <1>4 DEF Good
<1>6. SumOver(G, Parts(S)) <= SumOver(G, T)
  <2>1. Parts(S) \in SUBSET T
    BY <1>1
  <2> HIDE DEF Parts
  <2> QED
    BY <2>1, SumMonotone
<1>7. SumOver(F, S) \in Nat /\ SumOver(G, Parts(S)) \in Nat /\ SumOver(G, T) \in Nat
  <2>1. Parts(S) \in SUBSET T
    BY <1>1
  <2> HIDE DEF Parts
  <2> QED
    BY <2>1, SumOne
<1> QED
  BY <1>5, <1>6, <1>7

\* The sum over one element is its value.
LEMMA SumSingleton ==
    ASSUME NEW F, NEW x, F[x] \in Nat
    PROVE  SumOver(F, {x}) = F[x]
<1> DEFINE S == {x}
<1>1. IsFiniteSet(S) /\ \A y \in S : F[y] \in Nat
  BY FS_Singleton
<1>2. {} \in SUBSET S /\ x \in S \ {} /\ {} \cup {x} = {x}
  OBVIOUS
<1> HIDE DEF S
<1>3. SumOver(F, {}) = 0 /\ SumOver(F, {} \cup {x}) = F[x] + SumOver(F, {})
  BY <1>1, <1>2, SumOne
<1>4. SumOver(F, {x}) = F[x] + 0
  BY <1>2, <1>3
<1> QED
  BY <1>4

\* Sums are added element by element.
LEMMA SumPlus ==
    ASSUME NEW S, IsFiniteSet(S), NEW F, NEW G, NEW H,
           \A x \in S : F[x] = G[x] + H[x] /\ G[x] \in Nat /\ H[x] \in Nat
    PROVE  SumOver(F, S) = SumOver(G, S) + SumOver(H, S)
<1> DEFINE Good == {s \in SUBSET S : SumOver(F, s) = SumOver(G, s) + SumOver(H, s)}
<1>1. /\ \A x \in S : F[x] \in Nat
      /\ \A x \in S : G[x] \in Nat
      /\ \A x \in S : H[x] \in Nat
  OBVIOUS
<1>2. {} \in Good
  <2>1. SumOver(F, {}) = 0 /\ SumOver(G, {}) = 0 /\ SumOver(H, {}) = 0
    BY <1>1, SumOne
  <2> QED
    BY <2>1
<1>3. ASSUME NEW s \in SUBSET S, NEW x \in S \ s, s \in Good PROVE s \cup {x} \in Good
  <2>1. /\ SumOver(F, s \cup {x}) = F[x] + SumOver(F, s)
        /\ SumOver(G, s \cup {x}) = G[x] + SumOver(G, s)
        /\ SumOver(H, s \cup {x}) = H[x] + SumOver(H, s)
    BY <1>1, SumOne
  <2>2. SumOver(G, s) \in Nat /\ SumOver(H, s) \in Nat
    BY <1>1, SumOne
  <2> DEFINE b == SumOver(G, s)
             c == SumOver(H, s)
  <2>3. /\ SumOver(F, s \cup {x}) = (G[x] + H[x]) + (b + c)
        /\ SumOver(G, s \cup {x}) = G[x] + b
        /\ SumOver(H, s \cup {x}) = H[x] + c
        /\ G[x] \in Nat /\ H[x] \in Nat /\ b \in Nat /\ c \in Nat
    BY <1>3, <2>1, <2>2
  <2> HIDE DEF b, c
  <2>4. SumOver(F, s \cup {x}) = SumOver(G, s \cup {x}) + SumOver(H, s \cup {x})
    BY <2>3
  <2> QED
    BY <2>4
<1> HIDE DEF Good
<1>4. \A s \in SUBSET S : s \in Good
  BY <1>2, <1>3, SetStepwise
<1>5. S \in Good
  BY <1>4
<1> QED
  BY <1>5 DEF Good

\* In particular where each element of S has one of its own in T.
LEMMA SumOfImages ==
    ASSUME NEW S, IsFiniteSet(S), NEW F, \A x \in S : F[x] \in Nat,
           NEW T, IsFiniteSet(T), NEW G, \A y \in T : G[y] \in Nat,
           NEW R, \A x \in S : F[x] = 0 \/ \E y \in T : <<x, y>> \in R /\ F[x] <= G[y],
           \A x, z \in S : \A y \in T : <<x, y>> \in R /\ <<z, y>> \in R => x = z
    PROVE  SumOver(F, S) <= SumOver(G, T)
<1> DEFINE Part == [x \in S |-> {y \in T : <<x, y>> \in R}]
<1>1. /\ \A x \in S : Part[x] \in SUBSET T
      /\ \A x, z \in S : x # z => Part[x] \cap Part[z] = {}
  OBVIOUS
<1>2. ASSUME NEW x \in S PROVE F[x] <= SumOver(G, Part[x])
  <2>1. SumOver(G, Part[x]) \in Nat
    <3>1. Part[x] \in SUBSET T
      BY <1>1
    <3> HIDE DEF Part
    <3> QED
      BY <3>1, SumOne
  <2>2. CASE F[x] = 0
    <3> HIDE DEF Part
    <3> QED
      BY <2>1, <2>2
  <2>3. CASE F[x] # 0
    <3>1. PICK y \in T : <<x, y>> \in R /\ F[x] <= G[y]
      BY <2>3
    <3>2. Part[x] \in SUBSET T /\ {y} \in SUBSET Part[x]
      BY <3>1
    <3> HIDE DEF Part
    <3>3. SumOver(G, {y}) = G[y] /\ G[y] \in Nat
      BY <3>1, SumSingleton
    <3>4. SumOver(G, {y}) <= SumOver(G, Part[x])
      BY <3>2, SumMonotone
    <3> DEFINE a == SumOver(G, Part[x])
    <3>5. F[x] \in Nat /\ F[x] <= G[y] /\ G[y] \in Nat /\ G[y] <= a /\ a \in Nat
      BY <2>1, <3>1, <3>3, <3>4
    <3> HIDE DEF a
    <3>6. F[x] <= a
      BY <3>5
    <3> QED
      BY <3>6 DEF a
  <2> QED
    BY <2>2, <2>3
<1> HIDE DEF Part
<1> QED
  BY <1>1, <1>2, SumOfParts

\* SumFunction is this sum, over the domain.
LEMMA SumFunctionIsSum ==
    ASSUME NEW S, IsFiniteSet(S), NEW F, \A x \in S : F[x] \in Nat, DOMAIN F = S
    PROVE  SumFunction(F) = SumOver(F, S)
<1> DEFINE Rec(g) == g = [s \in SUBSET S |->
                            IF s = {} THEN 0
                            ELSE LET x == CHOOSE y \in s : TRUE
                                 IN  F[x] + g[s \ {x}]]
           g == CHOOSE h : Rec(h)
<1>1. SumFunction(F) = g[S]
  BY DEF SumFunction, SumFunctionOnSet, FoldFunctionOnSet, MapThenFoldSet
<1>2. \A h : Rec(h) <=> IsSum(h, F, S)
  BY DEF IsSum, Picked
<1>3. \E h : IsSum(h, F, S)
  BY SumExists
<1> HIDE DEF Rec
<1>4. IsSum(g, F, S)
  BY <1>2, <1>3
<1> HIDE DEF g
<1>5. S \in SUBSET S /\ SumOver(F, S) = g[S]
  BY <1>4, SumOfSubset
<1> QED
  BY <1>1, <1>5

\* The functions may differ elsewhere.
LEMMA SumSame ==
    ASSUME NEW S, IsFiniteSet(S), NEW F, NEW G, \A x \in S : F[x] \in Nat /\ F[x] = G[x]
    PROVE  SumOver(F, S) = SumOver(G, S)
<1>1. /\ \A x \in S : F[x] \in Nat
      /\ \A x \in S : G[x] \in Nat
  OBVIOUS
<1> DEFINE Good == {s \in SUBSET S : SumOver(F, s) = SumOver(G, s)}
<1>2. {} \in Good
  BY <1>1, SumOne
<1>3. ASSUME NEW s \in SUBSET S, NEW x \in S \ s, s \in Good PROVE s \cup {x} \in Good
  <2>1. /\ SumOver(F, s \cup {x}) = F[x] + SumOver(F, s)
        /\ SumOver(G, s \cup {x}) = G[x] + SumOver(G, s)
    BY <1>1, SumOne
  <2> QED
    BY <1>3, <2>1
<1> HIDE DEF Good
<1>4. \A s \in SUBSET S : s \in Good
  BY <1>2, <1>3, SetStepwise
<1>5. S \in Good
  BY <1>4
<1> QED
  BY <1>5 DEF Good

-----------------------------------------------------------------------------
(* Multiples and remainders.                                               *)

\* A product of numbers is one.
LEMMA Products == \A m, n \in Nat : m * n \in Nat
OBVIOUS

\* Quotient and remainder are the only numbers that fit.
LEMMA DivUnique ==
    ASSUME NEW n \in Int, NEW d \in Nat \ {0}, NEW q \in Int, NEW r \in 0 .. d - 1,
           n = d * q + r
    PROVE  n \div d = q /\ n % d = r
<1> DEFINE a == n \div d
           b == n % d
<1>1. a \in Int /\ b \in 0 .. d - 1 /\ n = d * a + b
  OBVIOUS
<1> HIDE DEF a, b
<1>2. ASSUME NEW x \in Int, NEW y \in Int, NEW u \in 0 .. d - 1, NEW v \in 0 .. d - 1,
             d * x + u = d * y + v, x < y
      PROVE  FALSE
  <2>1. PICK e \in Nat : y = (x + 1) + e
    <3>1. y - (x + 1) \in Nat /\ y = (x + 1) + (y - (x + 1))
      BY <1>2
    <3> QED
      BY <3>1
  <2>2. d * y = d * x + d + d * e
    BY <2>1
  <2>3. d * e \in Nat /\ d * x \in Int /\ d * y \in Int
    BY <2>1
  <2> DEFINE p == d * x
             s == d * y
             t == d * e
  <2>4. p + u = s + v /\ s = p + d + t /\ t \in Nat /\ p \in Int /\ s \in Int
    BY <1>2, <2>2, <2>3
  <2> HIDE DEF p, s, t
  <2> QED
    BY <2>4
<1>3. a = q
  <2>1. ~(a < q) /\ ~(q < a)
    BY <1>1, <1>2
  <2> QED
    BY <1>1, <2>1
<1>4. b = r
  <2> DEFINE p == d * q
  <2>1. p \in Int /\ n = p + b /\ n = p + r
    BY <1>1, <1>3
  <2> HIDE DEF p
  <2> QED
    BY <1>1, <2>1
<1> QED
  BY <1>3, <1>4 DEF a, b

\* Dividing twice.
LEMMA DivDiv ==
    ASSUME NEW n \in Nat, NEW p \in Nat \ {0}, NEW q \in Nat \ {0}
    PROVE  n \div (p * q) = (n \div p) \div q
<1> DEFINE a == n \div p
           r == n % p
           b == a \div q
           s == a % q
<1>1. a \in Nat /\ r \in 0 .. p - 1 /\ n = p * a + r
  OBVIOUS
<1>2. b \in Nat /\ s \in 0 .. q - 1 /\ a = q * b + s
  BY <1>1
<1> HIDE DEF a, r, b, s
<1>3. n = (p * q) * b + (p * s + r)
  <2>1. p * (q * b + s) = p * (q * b) + p * s /\ p * (q * b) = (p * q) * b
    BY <1>2
  <2>2. p * a = (p * q) * b + p * s
    BY <1>2, <2>1
  <2>3. (p * q) * b \in Int /\ p * s \in Int
    BY <1>2
  <2> DEFINE u == (p * q) * b
             v == p * s
             w == p * a
  <2>4. w = u + v /\ n = w + r /\ u \in Int /\ v \in Int
    BY <1>1, <2>2, <2>3
  <2> HIDE DEF u, v, w
  <2>5. n = u + (v + r)
    BY <1>1, <2>4
  <2> QED
    BY <2>5 DEF u, v
<1>4. p * s + r \in 0 .. p * q - 1 /\ p * q \in Nat \ {0}
  <2>1. PICK e \in Nat : q = s + 1 + e
    <3>1. q - (s + 1) \in Nat /\ q = s + 1 + (q - (s + 1))
      BY <1>2
    <3> QED
      BY <3>1
  <2>2. p * q = p * s + p + p * e
    BY <1>2, <2>1
  <2>3. p * e \in Nat /\ p * s \in Nat
    BY <1>2, <2>1
  <2> DEFINE u == p * q
             v == p * s
             w == p * e
  <2>4. u = v + p + w /\ v \in Nat /\ w \in Nat
    BY <2>2, <2>3
  <2> HIDE DEF u, v, w
  <2>5. v + r \in 0 .. u - 1 /\ u \in Nat \ {0}
    BY <1>1, <2>4
  <2> QED
    BY <2>5 DEF u, v
<1> DEFINE m == p * q
           t == p * s + r
<1>5. m \in Nat \ {0} /\ t \in 0 .. m - 1 /\ n = m * b + t
  BY <1>3, <1>4
<1> HIDE DEF m, t
<1>6. n \div m = b
  BY <1>2, <1>5, DivUnique
<1> QED
  BY <1>6 DEF m, a, b

\* Every number is a multiple and a remainder.
LEMMA DivMod ==
    ASSUME NEW n \in Int, NEW d \in Nat \ {0}
    PROVE  n \div d \in Int /\ n % d \in 0 .. d - 1 /\ n = d * (n \div d) + (n % d)
<1>1. n \div d \in Int /\ n % d \in 0 .. d - 1
  OBVIOUS
<1>2. n = d * (n \div d) + (n % d)
  OBVIOUS
<1> QED
  BY <1>1, <1>2

\* ... and the multiple of a natural number is one.
LEMMA NatDivMod ==
    ASSUME NEW n \in Nat, NEW d \in Nat \ {0}
    PROVE  n \div d \in Nat /\ n % d \in 0 .. d - 1 /\ n = d * (n \div d) + (n % d)
<1>1. n \div d \in Nat /\ n % d \in 0 .. d - 1
  OBVIOUS
<1>2. n = d * (n \div d) + (n % d)
  OBVIOUS
<1> QED
  BY <1>1, <1>2

\* A number below the divisor holds none of it.
LEMMA TooSmall ==
    ASSUME NEW n \in Nat, NEW d \in Nat, n < d
    PROVE  n \div d = 0
<1>1. d \in Nat \ {0} /\ n \in 0 .. d - 1 /\ n = d * 0 + n
  OBVIOUS
<1> QED
  BY ONLY <1>1, DivUnique

-----------------------------------------------------------------------------
(* Sums, one number after the other.                                       *)

\* A sum over an interval, one number after the other.
LEMMA SumSteps ==
    ASSUME NEW a \in Int, NEW b \in Int, NEW F, \A j \in a .. b : F[j] \in Nat
    PROVE  /\ SumOver(F, {}) = 0
           /\ \A m \in Int : m <= b => SumOver(F, a .. m) \in Nat
           /\ \A m \in a .. b : SumOver(F, a .. m) = F[m] + SumOver(F, a .. m - 1)
<1> DEFINE S == a .. b
<1>1. IsFiniteSet(S) /\ \A j \in S : F[j] \in Nat
  BY FS_Interval
<1>2. /\ SumOver(F, {}) = 0
      /\ \A X \in SUBSET S : SumOver(F, X) \in Nat
      /\ \A X \in SUBSET S : \A x \in S \ X : SumOver(F, X \cup {x}) = F[x] + SumOver(F, X)
  <2> HIDE DEF S
  <2> QED
    BY <1>1, SumOne
<1>3. ASSUME NEW m \in Int, m <= b PROVE a .. m \in SUBSET S
  <2>1. \A x \in a .. m : x \in S
    BY <1>3
  <2> QED
    BY <2>1
<1>4. ASSUME NEW m \in a .. b PROVE SumOver(F, a .. m) = F[m] + SumOver(F, a .. m - 1)
  <2>1. a .. m = (a .. m - 1) \cup {m} /\ m \in S \ (a .. m - 1)
    OBVIOUS
  <2>2. a .. m - 1 \in SUBSET S
    BY <1>3
  <2> HIDE DEF S
  <2>3. SumOver(F, (a .. m - 1) \cup {m}) = F[m] + SumOver(F, a .. m - 1)
    BY <1>2, <2>1, <2>2
  <2> QED
    BY <2>1, <2>3
<1> HIDE DEF S
<1> QED
  BY <1>2, <1>3, <1>4

\* A sum up to one place is no more than one up to a later place.
LEMMA SumGrows ==
    ASSUME NEW a \in Int, NEW b \in Int, NEW F, \A j \in a .. b : F[j] \in Nat,
           NEW m \in Int, NEW n \in Int, m <= n, n <= b
    PROVE  SumOver(F, a .. m) <= SumOver(F, a .. n)
<1> DEFINE S == a .. b
           X == a .. n
           Y == a .. m
<1>1. IsFiniteSet(S) /\ \A j \in S : F[j] \in Nat
  BY FS_Interval
<1>2. X \in SUBSET S /\ Y \in SUBSET X
  <2>1. (\A x \in X : x \in S) /\ (\A x \in Y : x \in X)
    OBVIOUS
  <2> QED
    BY <2>1
<1> HIDE DEF S, X, Y
<1>3. SumOver(F, Y) <= SumOver(F, X)
  BY <1>1, <1>2, SumMonotone
<1> QED
  BY <1>3 DEF X, Y

\* A sum of numbers that are all multiplied alike.
LEMMA SumScaled ==
    ASSUME NEW S, IsFiniteSet(S), NEW F, NEW G, NEW d \in Nat,
           \A x \in S : F[x] \in Nat /\ G[x] = F[x] * d
    PROVE  SumOver(F, S) \in Nat /\ SumOver(G, S) = SumOver(F, S) * d
<1>1. \A x \in S : F[x] \in Nat /\ G[x] \in Nat
  BY Products
<1> DEFINE Good == {s \in SUBSET S : SumOver(G, s) = SumOver(F, s) * d}
<1>2. {} \in Good
  <2>1. SumOver(F, {}) = 0 /\ SumOver(G, {}) = 0
    BY <1>1, SumOne
  <2>2. 0 * d = 0
    OBVIOUS
  <2> QED
    BY <2>1, <2>2
<1>3. ASSUME NEW s \in SUBSET S, NEW x \in S \ s, s \in Good PROVE s \cup {x} \in Good
  <2>1. /\ SumOver(F, s \cup {x}) = F[x] + SumOver(F, s)
        /\ SumOver(G, s \cup {x}) = G[x] + SumOver(G, s)
        /\ SumOver(F, s) \in Nat
    BY <1>1, SumOne
  <2>2. F[x] \in Nat /\ G[x] = F[x] * d /\ SumOver(G, s) = SumOver(F, s) * d
    BY <1>3
  <2>3. \A a, b \in Nat : (a + b) * d = a * d + b * d
    OBVIOUS
  <2> QED
    BY <2>1, <2>2, <2>3
<1> HIDE DEF Good
<1>4. \A s \in SUBSET S : s \in Good
  BY <1>2, <1>3, SetStepwise
<1>5. S \in Good
  BY <1>4
<1>6. SumOver(F, S) \in Nat
  BY <1>1, SumOne
<1> QED
  BY <1>5, <1>6 DEF Good

-----------------------------------------------------------------------------
(* The parts of a sequence, and sequences put behind each other.           *)

\* The first elements of a sequence.
LEMMA Beginning ==
    ASSUME NEW S, NEW s \in Seq(S), NEW n \in 0 .. Len(s)
    PROVE  /\ SubSeq(s, 1, n) \in Seq(S) /\ Len(SubSeq(s, 1, n)) = n
           /\ \A i \in 1 .. n : SubSeq(s, 1, n)[i] = s[i]
<1>1. n \in Int /\ 1 \in Int /\ Len(s) \in Nat /\ 0 <= n
  OBVIOUS
<1>2. \A i \in 1 .. n : s[i] \in S
  OBVIOUS
<1>3. /\ SubSeq(s, 1, n) \in Seq(S)
      /\ Len(SubSeq(s, 1, n)) = IF 1 <= n THEN n - 1 + 1 ELSE 0
      /\ \A i \in 1 .. n - 1 + 1 : SubSeq(s, 1, n)[i] = s[1 + i - 1]
  BY ONLY <1>1, <1>2, SubSeqProperties
<1>4. n - 1 + 1 = n /\ \A i \in 1 .. n : 1 + i - 1 = i
  BY <1>1
<1>5. n = IF 1 <= n THEN n ELSE 0
  BY <1>1
<1> QED
  BY ONLY <1>3, <1>4, <1>5

\* Any part of it.
LEMMA Middle ==
    ASSUME NEW S, NEW s \in Seq(S), NEW from \in Nat, NEW count \in Nat,
           from + count <= Len(s)
    PROVE  LET part == SubSeq(s, from + 1, from + count)
           IN  /\ part \in Seq(S) /\ Len(part) = count
               /\ \A j \in 1 .. count : part[j] = s[from + j]
<1> DEFINE m == from + 1
           n == from + count
           part == SubSeq(s, m, n)
<1>1. Len(s) \in Nat /\ \A i \in 1 .. Len(s) : s[i] \in S
  OBVIOUS
<1>2. m \in Int /\ n \in Int /\ n - m + 1 = count
      /\ \A j \in 1 .. count : m + j - 1 = from + j
  OBVIOUS
<1>3. \A i \in m .. n : i \in 1 .. Len(s)
  BY <1>1
<1>4. count = IF m <= n THEN n - m + 1 ELSE 0
  OBVIOUS
<1> HIDE DEF m, n
<1>5. /\ part \in Seq(S) /\ Len(part) = IF m <= n THEN n - m + 1 ELSE 0
      /\ \A i \in 1 .. n - m + 1 : part[i] = s[m + i - 1]
  BY ONLY <1>1, <1>2, <1>3, SubSeqProperties
<1>6. part \in Seq(S) /\ Len(part) = count /\ \A j \in 1 .. count : part[j] = s[from + j]
  BY ONLY <1>2, <1>4, <1>5
<1> QED
  BY <1>6 DEF m, n

\* What follows the first elements makes them longer.
LEMMA LongerStart ==
    ASSUME NEW S, NEW s \in Seq(S), NEW from \in Nat, NEW count \in Nat,
           from + count <= Len(s), NEW next \in Seq(S), Len(next) = count,
           \A j \in 1 .. count : next[j] = s[from + j]
    PROVE  SubSeq(s, 1, from) \o next = SubSeq(s, 1, from + count)
<1> DEFINE a == SubSeq(s, 1, from)
           b == SubSeq(s, 1, from + count)
           both == a \o next
<1>1. Len(s) \in Nat /\ from \in 0 .. Len(s) /\ from + count \in 0 .. Len(s)
  OBVIOUS
<1>2. /\ a \in Seq(S) /\ Len(a) = from /\ \A i \in 1 .. from : a[i] = s[i]
      /\ b \in Seq(S) /\ Len(b) = from + count /\ \A i \in 1 .. from + count : b[i] = s[i]
  BY <1>1, Beginning
<1>3. next \in Seq(S) /\ Len(next) = count /\ \A j \in 1 .. count : next[j] = s[from + j]
  OBVIOUS
<1> HIDE DEF a, b
<1>4. /\ both \in Seq(S) /\ Len(both) = from + count
      /\ \A i \in 1 .. from + count :
            both[i] = IF i <= from THEN a[i] ELSE next[i - from]
  BY ONLY <1>2, <1>3, ConcatProperties
<1> HIDE DEF both
<1>5. ASSUME NEW i \in 1 .. from + count PROVE both[i] = b[i]
  <2>1. CASE i <= from
    <3>1. i \in 1 .. from
      BY <2>1
    <3> QED
      BY ONLY <1>2, <1>4, <2>1, <3>1
  <2>2. CASE ~(i <= from)
    <3>1. i - from \in 1 .. count /\ from + (i - from) = i
      BY <2>2
    <3>2. next[i - from] = s[i]
      BY ONLY <1>3, <3>1
    <3>3. i \in 1 .. from + count
      OBVIOUS
    <3> QED
      BY ONLY <1>2, <1>4, <2>2, <3>2, <3>3
  <2> QED
    BY <2>1, <2>2
<1>6. both = b
  BY <1>2, <1>4, <1>5, SeqEqual
<1> QED
  BY <1>6 DEF both, a, b

\* The steps of a fold, as FoldLeft takes them, and one after the other.
FoldsWith(iter, A, base, F, n) ==
    /\ iter[{}] = base
    /\ \A s \in SUBSET (1 .. n) : s # {} /\ iter[s \ {Max(s)}] \in A =>
          iter[s] = F[<<iter[s \ {Max(s)}], Max(s)>>]
IsTrace(t, iter, A, base, F, n) ==
    /\ t \in [0 .. n -> A] /\ t[0] = base /\ t[n] = iter[1 .. n]
    /\ \A k \in 1 .. n : t[k] = F[<<t[k - 1], k>>]

\* A fold whose steps are those of F runs through the elements in their order.
LEMMA FoldTrace ==
    ASSUME NEW A, NEW base \in A, NEW n \in Nat, NEW F \in [A \X (1 .. n) -> A], NEW iter,
           FoldsWith(iter, A, base, F, n)
    PROVE  \E t : IsTrace(t, iter, A, base, F, n)
<1> USE DEF FoldsWith
<1> DEFINE t == [k \in 0 .. n |-> iter[1 .. k]]
           T == {k \in Nat : k <= n => iter[1 .. k] \in A}
<1>1. 1 .. 0 = {} /\ iter[1 .. 0] = base
  <2>1. 1 .. 0 = {}
    OBVIOUS
  <2> QED
    BY <2>1
<1>2. ASSUME NEW k \in 1 .. n, iter[1 .. k - 1] \in A
      PROVE  iter[1 .. k] = F[<<iter[1 .. k - 1], k>>]
  <2>1. Max(1 .. k) = k /\ (1 .. k) \ {k} = 1 .. k - 1
    BY IntervalMax
  <2>2. 1 .. k \in SUBSET (1 .. n) /\ 1 .. k # {}
    <3>1. k \in 1 .. k /\ \A y \in 1 .. k : y \in 1 .. n
      OBVIOUS
    <3> QED
      BY <3>1
  <2> DEFINE s == 1 .. k
  <2>3. s \in SUBSET (1 .. n) /\ s # {} /\ iter[s \ {Max(s)}] \in A
    BY <1>2, <2>1, <2>2
  <2> HIDE DEF s
  <2>4. iter[s] = F[<<iter[s \ {Max(s)}], Max(s)>>]
    BY <2>3
  <2> QED
    BY <2>1, <2>4 DEF s
<1>3. 0 \in T
  BY <1>1
<1>4. ASSUME NEW k \in Nat, k \in T PROVE k + 1 \in T
  <2> SUFFICES ASSUME k + 1 <= n PROVE iter[1 .. k + 1] \in A
    OBVIOUS
  <2>1. k + 1 \in 1 .. n /\ (k + 1) - 1 = k
    OBVIOUS
  <2>2. iter[1 .. k] \in A
    BY <1>4, <2>1
  <2>3. iter[1 .. k + 1] = F[<<iter[1 .. k], k + 1>>]
    BY <1>2, <2>1, <2>2
  <2>4. <<iter[1 .. k], k + 1>> \in A \X (1 .. n)
    BY <2>1, <2>2
  <2> QED
    BY <2>3, <2>4
<1> HIDE DEF T
<1>5. \A k \in Nat : k \in T
  BY <1>3, <1>4, NatStepwise
<1>6. \A k \in 0 .. n : iter[1 .. k] \in A
  BY <1>5 DEF T
<1>7. t \in [0 .. n -> A]
  BY <1>6
<1>8. \A k \in 1 .. n : iter[1 .. k] = F[<<iter[1 .. k - 1], k>>]
  <2>1. \A k \in 1 .. n : k - 1 \in 0 .. n
    OBVIOUS
  <2> QED
    BY <1>2, <1>6, <2>1
<1>9. \A k \in 1 .. n : t[k] = F[<<t[k - 1], k>>]
  <2>1. \A k \in 1 .. n : k \in 0 .. n /\ k - 1 \in 0 .. n
    OBVIOUS
  <2> QED
    BY <1>8, <2>1
<1>10. t[0] = base /\ t[n] = iter[1 .. n]
  <2>1. 0 \in 0 .. n /\ n \in 0 .. n
    OBVIOUS
  <2> QED
    BY <1>1, <2>1
<1> QED
  BY <1>7, <1>9, <1>10 DEF IsTrace

\* The function a fold is defined by exists.
IsFoldValue(g, A, base, F, n) ==
    /\ g = [s \in SUBSET (1 .. n) |-> g[s]]
    /\ g[{}] = base
    /\ \A s \in SUBSET (1 .. n) : s # {} =>
          /\ Max(s) \in 1 .. n /\ g[s \ {Max(s)}] \in A
          /\ g[s] = F[<<g[s \ {Max(s)}], Max(s)>>]

\* It is the function that runs through the trace.
LEMMA FoldValue ==
    ASSUME NEW A, NEW base \in A, NEW n \in Nat, NEW F \in [A \X (1 .. n) -> A]
    PROVE  \E g : IsFoldValue(g, A, base, F, n)
<1>1. PICK g : IsFold(g, A, base, F, n)
  BY FoldExists
<1>2. ASSUME NEW s \in SUBSET (1 .. n), s # {}
      PROVE  Max(s) \in 1 .. n /\ s \ {Max(s)} \in SUBSET (1 .. n)
  <2>1. s \in SUBSET Nat /\ \A y \in s : y <= n
    OBVIOUS
  <2>2. Max(s) \in s
    BY <1>2, <2>1, NatMax
  <2> QED
    BY <2>2
<1>3. g = [s \in SUBSET (1 .. n) |-> g[s]]
  BY <1>1 DEF IsFold
<1>4. {} \in SUBSET (1 .. n)
  OBVIOUS
<1>5. g[{}] = base
  BY <1>1, <1>4 DEF IsFold
<1>6. ASSUME NEW s \in SUBSET (1 .. n), s # {}
      PROVE  g[s \ {Max(s)}] \in A /\ g[s] = F[<<g[s \ {Max(s)}], Max(s)>>]
  BY <1>1, <1>2, <1>6 DEF IsFold
<1> QED
  BY <1>2, <1>3, <1>5, <1>6 DEF IsFoldValue

\* Flattening puts one sequence behind the other.
LEMMA FlattenSeqTrace ==
    ASSUME NEW S, NEW seqs \in Seq(Seq(S))
    PROVE  \E g \in [0 .. Len(seqs) -> Seq(S)] :
              /\ g[0] = <<>> /\ g[Len(seqs)] = FlattenSeq(seqs)
              /\ \A i \in 1 .. Len(seqs) : g[i] = g[i - 1] \o seqs[i]
<1> DEFINE n == Len(seqs)
<1>1. n \in Nat /\ \A i \in 1 .. n : seqs[i] \in Seq(S)
  OBVIOUS
<1>2. CASE n = 0
  <2>1. seqs = <<>> /\ FlattenSeq(seqs) = seqs
    BY <1>2 DEF FlattenSeq
  <2> DEFINE g == [i \in 0 .. n |-> <<>>]
  <2>2. g \in [0 .. n -> Seq(S)] /\ g[0] = <<>> /\ g[n] = <<>>
    BY <1>2
  <2>3. \A i \in 1 .. n : FALSE
    BY <1>2
  <2> QED
    BY <2>1, <2>2, <2>3
<1>3. CASE n # 0
  <2>1. PICK f : IsFlattening(f, seqs, n) /\ FlattenSeq(seqs) = f[n]
    BY <1>1, <1>3, FlattenSeqIsLast
  <2>2. \A i \in 1 .. n : f[i] = IF i = 1 THEN seqs[i] ELSE f[i - 1] \o seqs[i]
    BY <2>1 DEF IsFlattening
  <2> HIDE DEF n
  <2> DEFINE T == {i \in Nat : i \in 1 .. n => f[i] \in Seq(S)}
  <2>3. 0 \in T
    OBVIOUS
  <2>4. ASSUME NEW i \in Nat, i \in T PROVE i + 1 \in T
    <3> SUFFICES ASSUME i + 1 \in 1 .. n PROVE f[i + 1] \in Seq(S)
      OBVIOUS
    <3>1. CASE i = 0
      BY <1>1, <2>2, <3>1
    <3>2. CASE i # 0
      <4>1. i \in 1 .. n /\ (i + 1) - 1 = i /\ i + 1 # 1
        BY <1>1, <3>2
      <4>2. f[i] \in Seq(S) /\ f[i + 1] = f[i] \o seqs[i + 1] /\ seqs[i + 1] \in Seq(S)
        BY <1>1, <2>2, <2>4, <4>1
      <4> QED
        BY <4>2, ConcatProperties
    <3> QED
      BY <3>1, <3>2
  <2> HIDE DEF T
  <2>5. \A i \in Nat : i \in T
    BY <2>3, <2>4, NatStepwise
  <2>6. \A i \in 1 .. n : f[i] \in Seq(S)
    BY <2>5 DEF T
  <2> DEFINE g == [i \in 0 .. n |-> IF i = 0 THEN <<>> ELSE f[i]]
  <2>7. g \in [0 .. n -> Seq(S)]
    <3>1. <<>> \in Seq(S)
      BY EmptySeq
    <3>2. \A i \in 0 .. n : i # 0 => i \in 1 .. n
      OBVIOUS
    <3> QED
      BY <2>6, <3>1, <3>2
  <2>8. g[0] = <<>> /\ g[n] = FlattenSeq(seqs)
    BY <1>1, <1>3, <2>1
  <2>9. ASSUME NEW i \in 1 .. n PROVE g[i] = g[i - 1] \o seqs[i]
    <3>1. CASE i = 1
      <4>1. g[i] = seqs[i] /\ g[i - 1] = <<>> /\ seqs[i] \in Seq(S)
        BY <1>1, <2>2, <3>1
      <4> HIDE DEF g
      <4> QED
        BY <4>1, ConcatEmptySeq
    <3>2. CASE i # 1
      <4>1. i \in 0 .. n /\ i - 1 \in 0 .. n /\ i # 0 /\ i - 1 # 0
        BY ONLY <1>1, i \in 1 .. n, <3>2
      <4>2. g[i] = f[i] /\ g[i - 1] = f[i - 1]
        BY <4>1
      <4> HIDE DEF g
      <4> QED
        BY <2>2, <3>2, <4>2
    <3> QED
      BY <3>1, <3>2
  <2> HIDE DEF g
  <2> QED
    BY <2>7, <2>8, <2>9 DEF n
<1> QED
  BY <1>2, <1>3

\* ... and only one sequence comes out of that.
LEMMA FlattenSeqOnce ==
    ASSUME NEW S, NEW seqs \in Seq(Seq(S)), NEW h, h[0] = <<>>,
           \A i \in 1 .. Len(seqs) : h[i] = h[i - 1] \o seqs[i]
    PROVE  FlattenSeq(seqs) = h[Len(seqs)]
<1> DEFINE n == Len(seqs)
<1>1. PICK g \in [0 .. n -> Seq(S)] :
         /\ g[0] = <<>> /\ g[n] = FlattenSeq(seqs)
         /\ \A i \in 1 .. n : g[i] = g[i - 1] \o seqs[i]
  BY FlattenSeqTrace
<1>2. n \in Nat
  OBVIOUS
<1>3. \A i \in 1 .. n : h[i] = h[i - 1] \o seqs[i]
  OBVIOUS
<1> HIDE DEF n
<1> DEFINE T == {i \in Nat : i <= n => g[i] = h[i]}
<1>4. 0 \in T
  BY <1>1
<1>5. ASSUME NEW i \in Nat, i \in T PROVE i + 1 \in T
  <2> SUFFICES ASSUME i + 1 <= n PROVE g[i + 1] = h[i + 1]
    OBVIOUS
  <2>1. i + 1 \in 1 .. n /\ (i + 1) - 1 = i /\ i <= n
    BY <1>2
  <2> QED
    BY <1>1, <1>3, <1>5, <2>1
<1> HIDE DEF T
<1>6. n \in T
  BY <1>2, <1>4, <1>5, NatStepwise
<1> QED
  BY <1>1, <1>2, <1>6 DEF T, n

\* The sequences put behind each other so far.
IsConcat(g, seqs, S) ==
    /\ g \in [0 .. Len(seqs) -> Seq(S)] /\ g[0] = <<>>
    /\ \A i \in 1 .. Len(seqs) : g[i] = g[i - 1] \o seqs[i]

\* Flattening is the last of them.
LEMMA Concatenated ==
    ASSUME NEW S, NEW seqs \in Seq(Seq(S))
    PROVE  \E g : IsConcat(g, seqs, S) /\ g[Len(seqs)] = FlattenSeq(seqs)
  BY FlattenSeqTrace DEF IsConcat

\* Every sequence is found at its place.
HasParts(g, seqs) ==
    /\ \A i \in 1 .. Len(seqs) : Len(g[i]) = Len(g[i - 1]) + Len(seqs[i])
    /\ \A i \in 0 .. Len(seqs) : Len(g[i]) \in Nat /\ Len(g[i]) <= Len(g[Len(seqs)])
    /\ \A i \in 1 .. Len(seqs) : \A j \in 1 .. Len(seqs[i]) :
          g[Len(seqs)][Len(g[i - 1]) + j] = seqs[i][j]

\* No sequence that follows moves an earlier one.
LEMMA ConcatParts ==
    ASSUME NEW S, NEW seqs \in Seq(Seq(S)), NEW g, IsConcat(g, seqs, S)
    PROVE  HasParts(g, seqs)
<1> DEFINE n == Len(seqs)
<1>1. n \in Nat /\ \A i \in 1 .. n : seqs[i] \in Seq(S)
  OBVIOUS
<1>2. g \in [0 .. n -> Seq(S)] /\ g[0] = <<>> /\ \A i \in 1 .. n : g[i] = g[i - 1] \o seqs[i]
  BY DEF IsConcat
<1> HIDE DEF n
<1>3. ASSUME NEW i \in 1 .. n
      PROVE  /\ g[i - 1] \in Seq(S) /\ g[i] \in Seq(S) /\ Len(seqs[i]) \in Nat
             /\ Len(g[i - 1]) \in Nat /\ Len(g[i]) = Len(g[i - 1]) + Len(seqs[i])
             /\ \A k \in 1 .. Len(g[i - 1]) : g[i][k] = g[i - 1][k]
             /\ \A j \in 1 .. Len(seqs[i]) : g[i][Len(g[i - 1]) + j] = seqs[i][j]
  <2>1. i - 1 \in 0 .. n /\ i \in 0 .. n
    BY <1>1
  <2>2. g[i - 1] \in Seq(S) /\ g[i] \in Seq(S) /\ seqs[i] \in Seq(S)
        /\ g[i] = g[i - 1] \o seqs[i]
    BY <1>1, <1>2, <2>1
  <2> DEFINE s == g[i - 1]
             t == seqs[i]
  <2>3. s \in Seq(S) /\ t \in Seq(S) /\ g[i] = s \o t
    BY <2>2
  <2> HIDE DEF s, t
  <2>4. /\ Len(s \o t) = Len(s) + Len(t) /\ Len(s) \in Nat /\ Len(t) \in Nat
        /\ \A k \in 1 .. Len(s) + Len(t) :
              (s \o t)[k] = IF k <= Len(s) THEN s[k] ELSE t[k - Len(s)]
    BY <2>3, ConcatProperties
  <2>5. \A k \in 1 .. Len(s) : (s \o t)[k] = s[k]
    BY <2>4
  <2>6. \A j \in 1 .. Len(t) : (s \o t)[Len(s) + j] = t[j]
    <3> TAKE j \in 1 .. Len(t)
    <3>1. Len(s) + j \in 1 .. Len(s) + Len(t) /\ ~(Len(s) + j <= Len(s))
          /\ (Len(s) + j) - Len(s) = j
      BY <2>4
    <3> QED
      BY <2>4, <3>1
  <2> QED
    BY <2>2, <2>3, <2>4, <2>5, <2>6 DEF s, t
<1>4. ASSUME NEW i \in 0 .. n, NEW k \in 0 .. n, i <= k
      PROVE  /\ Len(g[i]) \in Nat /\ Len(g[i]) <= Len(g[k])
             /\ \A m \in 1 .. Len(g[i]) : g[k][m] = g[i][m]
  <2>1. Len(g[i]) \in Nat
    BY <1>2
  <2> DEFINE Extends(m) == /\ Len(g[m]) \in Nat /\ Len(g[i]) <= Len(g[m])
                           /\ \A x \in 1 .. Len(g[i]) : g[m][x] = g[i][x]
             T == {d \in Nat : i + d <= n => Extends(i + d)}
  <2>2. 0 \in T
    <3>1. i + 0 = i
      BY <1>1
    <3> QED
      BY <2>1, <3>1
  <2>3. ASSUME NEW d \in Nat, d \in T PROVE d + 1 \in T
    <3> SUFFICES ASSUME i + (d + 1) <= n PROVE Extends(i + (d + 1))
      OBVIOUS
    <3> DEFINE p == i + d
               r == i + (d + 1)
    <3>1. p <= n /\ r \in 1 .. n /\ r - 1 = p
      BY <1>1
    <3>2. Extends(p)
      BY <2>3, <3>1
    <3> HIDE DEF p, r
    <3>3. /\ Len(g[r]) = Len(g[p]) + Len(seqs[r])
          /\ Len(seqs[r]) \in Nat /\ Len(g[p]) \in Nat
          /\ \A x \in 1 .. Len(g[p]) : g[r][x] = g[p][x]
      BY <1>3, <3>1
    <3>4. Len(g[r]) \in Nat /\ Len(g[i]) <= Len(g[r])
      <4> DEFINE a == Len(g[i])
                 b == Len(g[p])
                 c == Len(g[r])
                 e == Len(seqs[r])
      <4>1. a \in Nat /\ b \in Nat /\ e \in Nat /\ a <= b /\ c = b + e
        BY <2>1, <3>2, <3>3
      <4> HIDE DEF a, b, c, e
      <4>2. c \in Nat /\ a <= c
        BY ONLY <4>1
      <4> QED
        BY <4>2 DEF a, c
    <3>5. \A x \in 1 .. Len(g[i]) : x \in 1 .. Len(g[p])
      BY <2>1, <3>2
    <3>6. Extends(r)
      BY <3>2, <3>3, <3>4, <3>5
    <3> QED
      BY <3>6 DEF r
  <2> HIDE DEF T
  <2>4. \A d \in Nat : d \in T
    BY <2>2, <2>3, NatStepwise
  <2>5. PICK e \in Nat : i + e = k
    <3>1. k - i \in Nat /\ i + (k - i) = k
      BY <1>1, <1>4
    <3> QED
      BY <3>1
  <2>6. k <= n
    BY <1>1
  <2>7. Extends(k)
    <3> HIDE DEF Extends
    <3> QED
      BY <2>4, <2>5, <2>6 DEF T
  <2> QED
    BY <2>1, <2>7
<1>5. n \in 0 .. n /\ \A i \in 0 .. n : i <= n
  BY <1>1
<1>6. \A i \in 0 .. n : Len(g[i]) \in Nat /\ Len(g[i]) <= Len(g[n])
  BY <1>4, <1>5
<1>7. ASSUME NEW i \in 1 .. n, NEW j \in 1 .. Len(seqs[i])
      PROVE  g[n][Len(g[i - 1]) + j] = seqs[i][j]
  <2>1. i \in 0 .. n
    BY <1>1
  <2>2. Len(g[i - 1]) + j \in 1 .. Len(g[i])
    <3> DEFINE a == Len(g[i - 1])
               b == Len(seqs[i])
    <3>1. a \in Nat /\ b \in Nat /\ Len(g[i]) = a + b /\ j \in 1 .. b
      BY <1>3
    <3> HIDE DEF a, b
    <3>2. a + j \in 1 .. a + b
      BY ONLY <3>1
    <3> QED
      BY <3>1, <3>2 DEF a
  <2>3. g[n][Len(g[i - 1]) + j] = g[i][Len(g[i - 1]) + j]
    BY <1>4, <1>5, <2>1, <2>2
  <2> QED
    BY <1>3, <2>3
<1> QED
  BY <1>3, <1>6, <1>7 DEF n, HasParts
=============================================================================
