------------------------- MODULE ColumnFormat_proofs -------------------------
(***************************************************************************)
(* The decoder inverts the format: what ColumnFormat says of the files of  *)
(* a column is what Vertipaq reads from them.                              *)
(***************************************************************************)
EXTENDS ColumnFormat, Vertipaq_proofs

-----------------------------------------------------------------------------
(* Powers of two.                                                          *)

\* A word holds a value at least.
LEMMA PerWord ==
    ASSUME NEW width \in 1 .. WordBits - 1
    PROVE  WordBits \div width \in Nat \ {0}
<1>1. WordBits \in Nat /\ width \in Nat \ {0} /\ width <= WordBits
  BY ScaleAssumption
<1> QED
  BY <1>1

\* The powers of two by their recursion.
LEMMA PowerNext ==
    PowerOf2[0] = 1 /\ \A n \in Nat : PowerOf2[n + 1] = 2 * PowerOf2[n]
<1>1. PowerOf2[0] = 1
  BY PowerSteps
<1>2. ASSUME NEW n \in Nat PROVE PowerOf2[n + 1] = 2 * PowerOf2[n]
  <2>1. n + 1 \in Nat /\ n + 1 # 0 /\ (n + 1) - 1 = n
    OBVIOUS
  <2> QED
    BY <2>1, PowerSteps
<1> QED
  BY <1>1, <1>2

\* The power of a sum.
LEMMA PowerPlus ==
    ASSUME NEW a \in Nat, NEW b \in Nat
    PROVE  PowerOf2[a + b] = PowerOf2[a] * PowerOf2[b]
<1> DEFINE S == {n \in Nat : PowerOf2[a + n] = PowerOf2[a] * PowerOf2[n]}
<1>1. 0 \in S
  <2>1. a + 0 = a /\ PowerOf2[a] \in Nat
    BY PowersOf2
  <2> QED
    BY <2>1, PowerNext
<1>2. ASSUME NEW n \in Nat, n \in S PROVE n + 1 \in S
  <2>1. a + (n + 1) = (a + n) + 1 /\ a + n \in Nat
    OBVIOUS
  <2>2. PowerOf2[a + (n + 1)] = 2 * PowerOf2[a + n] /\ PowerOf2[n + 1] = 2 * PowerOf2[n]
    BY <2>1, PowerNext
  <2>3. PowerOf2[a] \in Nat /\ PowerOf2[n] \in Nat
    BY PowersOf2
  <2>4. PowerOf2[a + n] = PowerOf2[a] * PowerOf2[n]
    BY <1>2
  <2> DEFINE x == PowerOf2[a]
             y == PowerOf2[n]
  <2>5. PowerOf2[a + (n + 1)] = 2 * (x * y) /\ PowerOf2[n + 1] = 2 * y
    BY <2>2, <2>4
  <2>6. x \in Nat /\ y \in Nat
    BY <2>3
  <2> HIDE DEF x, y
  <2>7. 2 * (x * y) = x * (2 * y)
    BY <2>6
  <2>8. PowerOf2[a + (n + 1)] = x * PowerOf2[n + 1]
    BY <2>5, <2>7
  <2> QED
    BY <2>8 DEF x
<1> HIDE DEF S
<1>3. b \in S
  BY <1>1, <1>2, NatStepwise
<1> QED
  BY <1>3 DEF S

-----------------------------------------------------------------------------
(* Unpacking a word.                                                       *)

\* F holds the codes C, each at its place.
IsPlaced(F, C, width, per) ==
    /\ width \in Nat \ {0} /\ per \in Nat /\ DOMAIN F = 0 .. per - 1
    /\ \A j \in 0 .. per - 1 : /\ C[j] \in 0 .. PowerOf2[width] - 1
                               /\ F[j] = C[j] * PowerOf2[width * j]

\* The codes in front of a place are less than the place's power.
LEMMA LowCodes ==
    ASSUME NEW F, NEW C, NEW width, NEW per, IsPlaced(F, C, width, per)
    PROVE  /\ \A j \in 0 .. per - 1 : F[j] \in Nat
           /\ \A m \in 0 .. per : SumOver(F, 0 .. m - 1) \in 0 .. PowerOf2[width * m] - 1
<1>0. /\ width \in Nat \ {0} /\ per \in Nat
      /\ \A j \in 0 .. per - 1 : C[j] \in 0 .. PowerOf2[width] - 1
      /\ \A j \in 0 .. per - 1 : F[j] = C[j] * PowerOf2[width * j]
  BY DEF IsPlaced
<1> USE <1>0
<1> DEFINE B == PowerOf2[width]
           P(m) == PowerOf2[width * m]
           S(m) == SumOver(F, 0 .. m - 1)
<1>1. \A m \in Nat : width * m \in Nat /\ P(m) \in Nat \ {0}
  BY PowersOf2, Products
<1>2. B \in Nat \ {0}
  BY PowersOf2
<1>3. \A m \in Nat : P(m + 1) = B * P(m)
  <2> SUFFICES ASSUME NEW m \in Nat PROVE P(m + 1) = B * P(m)
    OBVIOUS
  <2>1. width * (m + 1) = width + width * m /\ width * m \in Nat /\ width \in Nat
    BY <1>1
  <2> QED
    BY <2>1, PowerPlus
<1>4. P(0) = 1
  BY PowerNext
<1> HIDE DEF P
<1>5. \A j \in 0 .. per - 1 : C[j] \in 0 .. B - 1 /\ F[j] = C[j] * P(j)
  BY DEF P
<1> HIDE DEF B
<1>6. ASSUME NEW j \in 0 .. per - 1
      PROVE  F[j] \in Nat /\ F[j] + P(j) <= B * P(j)
  <2> DEFINE c == C[j]
             p == P(j)
  <2>1. c \in Nat /\ p \in Nat /\ F[j] = c * p
    BY <1>1, <1>2, <1>5
  <2>2. PICK e \in Nat : B = c + 1 + e
    <3>1. B - (c + 1) \in Nat /\ B = c + 1 + (B - (c + 1))
      BY <1>2, <1>5
    <3> QED
      BY <3>1
  <2> HIDE DEF c, p
  <2>3. B * p = c * p + p + e * p
    BY <2>1, <2>2
  <2>4. c * p \in Nat /\ e * p \in Nat
    BY <2>1, <2>2, Products
  <2> DEFINE x == B * p
             y == c * p
             z == e * p
  <2>5. x = y + p + z /\ y \in Nat /\ z \in Nat
    BY <2>3, <2>4
  <2> HIDE DEF x, y, z
  <2>6. y \in Nat /\ y + p <= x
    BY <2>1, <2>5
  <2>7. F[j] \in Nat /\ F[j] + p <= B * p
    BY <2>1, <2>6 DEF x, y
  <2> QED
    BY <2>7 DEF p
<1>7. /\ SumOver(F, {}) = 0
      /\ \A m \in Int : m <= per - 1 => SumOver(F, 0 .. m) \in Nat
      /\ \A m \in 0 .. per - 1 : SumOver(F, 0 .. m) = F[m] + SumOver(F, 0 .. m - 1)
  <2> DEFINE b == per - 1
  <2>1. b \in Int /\ 0 \in Int /\ \A j \in 0 .. b : F[j] \in Nat
    BY <1>6
  <2> HIDE DEF b
  <2>2. /\ SumOver(F, {}) = 0
        /\ \A m \in Int : m <= b => SumOver(F, 0 .. m) \in Nat
        /\ \A m \in 0 .. b : SumOver(F, 0 .. m) = F[m] + SumOver(F, 0 .. m - 1)
    BY <2>1, SumSteps, ZenonT(60)
  <2> QED
    BY <2>2 DEF b
<1> DEFINE T == {m \in Nat : m <= per => S(m) \in 0 .. P(m) - 1}
<1>8. 0 \in T
  <2>1. 0 .. 0 - 1 = {}
    OBVIOUS
  <2> QED
    BY <1>4, <1>7, <2>1
<1>9. ASSUME NEW m \in Nat, m \in T PROVE m + 1 \in T
  <2> SUFFICES ASSUME m + 1 <= per PROVE S(m + 1) \in 0 .. P(m + 1) - 1
    OBVIOUS
  <2>1. m \in 0 .. per - 1 /\ (m + 1) - 1 = m /\ m <= per
    OBVIOUS
  <2>2. S(m + 1) = F[m] + S(m)
    BY <1>7, <2>1
  <2>3. S(m) \in 0 .. P(m) - 1
    BY <1>9, <2>1
  <2>4. F[m] \in Nat /\ F[m] + P(m) <= P(m + 1) /\ P(m + 1) \in Nat /\ P(m) \in Nat
    BY <1>1, <1>3, <1>6, <2>1
  <2> QED
    BY <2>2, <2>3, <2>4
<1> HIDE DEF T
<1>10. \A m \in Nat : m \in T
  BY <1>8, <1>9, NatStepwise
<1>11. \A m \in 0 .. per : S(m) \in 0 .. P(m) - 1
  BY <1>10 DEF T
<1> QED
  BY <1>6, <1>11 DEF P

\* Above a place's code only multiples of the next place's power follow.
LEMMA HighCodes ==
    ASSUME NEW F, NEW C, NEW width, NEW per, IsPlaced(F, C, width, per),
           NEW k \in 0 .. per - 1
    PROVE  \E h \in Nat :
              SumOver(F, 0 .. per - 1) =
                  PowerOf2[width * k] * (PowerOf2[width] * h + C[k]) + SumOver(F, 0 .. k - 1)
<1>0. /\ width \in Nat \ {0} /\ per \in Nat
      /\ \A j \in 0 .. per - 1 : C[j] \in 0 .. PowerOf2[width] - 1
      /\ \A j \in 0 .. per - 1 : F[j] = C[j] * PowerOf2[width * j]
  BY DEF IsPlaced
<1> USE <1>0
<1> DEFINE B == PowerOf2[width]
           P(m) == PowerOf2[width * m]
           S(m) == SumOver(F, 0 .. m - 1)
           Splits(m) == \E h \in Nat : S(m) = P(k) * (B * h + C[k]) + S(k)
           T == {d \in Nat : k + 1 + d <= per => Splits(k + 1 + d)}
<1>1. /\ \A j \in 0 .. per - 1 : F[j] \in Nat
      /\ \A m \in 0 .. per : S(m) \in Nat
  <2>1. /\ \A j \in 0 .. per - 1 : F[j] \in Nat
        /\ \A m \in 0 .. per : SumOver(F, 0 .. m - 1) \in 0 .. PowerOf2[width * m] - 1
    BY LowCodes
  <2> QED
    BY <2>1
<1>2. \A m \in 0 .. per - 1 : S(m + 1) = F[m] + S(m)
  <2>1. \A m \in 0 .. per - 1 : SumOver(F, 0 .. m) = F[m] + SumOver(F, 0 .. m - 1)
    <3> DEFINE b == per - 1
    <3>1. b \in Int /\ 0 \in Int /\ \A j \in 0 .. b : F[j] \in Nat
      BY <1>1
    <3> HIDE DEF b
    <3>2. \A m \in 0 .. b : SumOver(F, 0 .. m) = F[m] + SumOver(F, 0 .. m - 1)
      BY <3>1, SumSteps
    <3> QED
      BY <3>2 DEF b
  <2>2. \A m \in 0 .. per - 1 : (m + 1) - 1 = m
    OBVIOUS
  <2> QED
    BY <2>1, <2>2
<1>3. B \in Nat \ {0} /\ \A m \in Nat : width * m \in Nat /\ P(m) \in Nat \ {0}
  BY PowersOf2, Products
<1>4. ASSUME NEW d \in Nat PROVE P(k + 1 + d) = P(k) * (B * P(d))
  <2>1. width * (k + 1 + d) = width * k + (width + width * d)
    OBVIOUS
  <2>2. width * k \in Nat /\ width * d \in Nat /\ width \in Nat
    BY <1>3
  <2>3. width + width * d \in Nat
    BY <2>2
  <2>4. PowerOf2[width * k + (width + width * d)] =
           PowerOf2[width * k] * PowerOf2[width + width * d]
    BY <2>2, <2>3, PowerPlus
  <2>5. PowerOf2[width + width * d] = PowerOf2[width] * PowerOf2[width * d]
    BY <2>2, PowerPlus
  <2> QED
    BY <2>1, <2>4, <2>5
<1>5. \A j \in 0 .. per - 1 : C[j] \in Nat /\ F[j] = C[j] * P(j)
  BY <1>3
<1> HIDE DEF B, P, S
<1>6. 0 \in T
  <2>1. S(k + 1) = F[k] + S(k) /\ F[k] = C[k] * P(k) /\ C[k] \in Nat /\ P(k) \in Nat
    BY <1>2, <1>3, <1>5
  <2>2. C[k] * P(k) = P(k) * (B * 0 + C[k])
    BY <1>3, <2>1
  <2>3. S(k + 1 + 0) = P(k) * (B * 0 + C[k]) + S(k)
    BY <2>1, <2>2
  <2> QED
    BY <2>3
<1>7. ASSUME NEW d \in Nat, d \in T PROVE d + 1 \in T
  <2> SUFFICES ASSUME k + 1 + (d + 1) <= per PROVE Splits(k + 1 + (d + 1))
    OBVIOUS
  <2> DEFINE m == k + 1 + d
  <2>1. m \in 0 .. per - 1 /\ m + 1 = k + 1 + (d + 1) /\ m <= per
    OBVIOUS
  <2>2. PICK h \in Nat : S(m) = P(k) * (B * h + C[k]) + S(k)
    BY <1>7, <2>1
  <2>3. S(m + 1) = F[m] + S(m) /\ F[m] = C[m] * P(m) /\ P(m) = P(k) * (B * P(d))
    BY <1>2, <1>4, <1>5, <2>1
  <2>4. C[m] \in Nat /\ C[k] \in Nat /\ P(k) \in Nat /\ P(d) \in Nat /\ S(k) \in Nat
    BY <1>1, <1>3, <1>5, <2>1
  <2> DEFINE c == C[m]
             p == P(k)
             q == P(d)
             e == C[k]
             g == h + c * q
  <2>5. c \in Nat /\ p \in Nat /\ q \in Nat /\ e \in Nat /\ S(k) \in Nat /\ B \in Nat
    BY <1>3, <2>4
  <2>6. S(m + 1) = c * (p * (B * q)) + (p * (B * h + e) + S(k))
    BY <2>2, <2>3
  <2>7. g \in Nat
    BY <2>5, Products
  <2> HIDE DEF m, c, p, q, e
  <2>8. c * (p * (B * q)) = p * (B * (c * q))
    BY <2>5
  <2>9. p * (B * g + e) = p * (B * (c * q)) + p * (B * h + e)
    <3>1. c * q \in Nat /\ B * (c * q) \in Nat /\ B * h \in Nat
      BY <2>5, Products
    <3>2. B * g = B * (c * q) + B * h
      BY <2>5, <3>1
    <3> DEFINE x == B * (c * q)
               y == B * h
               z == B * g
    <3>3. z = x + y /\ x \in Nat /\ y \in Nat
      BY <3>1, <3>2
    <3> HIDE DEF x, y, z
    <3>4. p * (z + e) = p * x + p * (y + e)
      BY <2>5, <3>3
    <3> QED
      BY <3>4 DEF x, y, z
  <2>10. S(m + 1) = p * (B * g + e) + S(k)
    <3>1. p * (B * (c * q)) \in Nat /\ p * (B * h + e) \in Nat
      <4>1. c * q \in Nat /\ B * (c * q) \in Nat /\ B * h \in Nat /\ B * h + e \in Nat
        BY <2>5, Products
      <4> QED
        BY <2>5, <4>1, Products
    <3> DEFINE x == p * (B * (c * q))
               y == p * (B * h + e)
               z == p * (B * g + e)
    <3>2. S(m + 1) = x + (y + S(k)) /\ z = x + y /\ x \in Nat /\ y \in Nat
      BY <2>6, <2>8, <2>9, <3>1
    <3> HIDE DEF x, y, z
    <3>3. S(m + 1) = z + S(k)
      BY <2>5, <3>2
    <3> QED
      BY <3>3 DEF z
  <2> HIDE DEF g
  <2>11. \E i \in Nat : S(m + 1) = P(k) * (B * i + C[k]) + S(k)
    BY <2>7, <2>10 DEF p, e
  <2> QED
    BY <2>1, <2>11
<1> HIDE DEF T
<1>8. \A d \in Nat : d \in T
  BY <1>6, <1>7, NatStepwise
<1>9. PICK d \in Nat : per = k + 1 + d
  <2>1. per - (k + 1) \in Nat /\ per = k + 1 + (per - (k + 1))
    OBVIOUS
  <2> QED
    BY <2>1
<1>10. Splits(per)
  BY <1>8, <1>9 DEF T
<1> QED
  BY <1>10 DEF S, P, B

\* The code at a place of a word that holds the sum of its codes.
LEMMA CodeOfWord ==
    ASSUME NEW F, NEW C, NEW width, NEW per, IsPlaced(F, C, width, per),
           NEW k \in 0 .. per - 1
    PROVE  (SumFunction(F) \div PowerOf2[width * k]) % PowerOf2[width] = C[k]
<1> DEFINE B == PowerOf2[width]
           p == PowerOf2[width * k]
           low == SumOver(F, 0 .. k - 1)
           word == SumFunction(F)
<1>1. /\ width \in Nat \ {0} /\ per \in Nat /\ DOMAIN F = 0 .. per - 1
      /\ C[k] \in 0 .. PowerOf2[width] - 1
  BY DEF IsPlaced
<1> USE <1>1
<1>2. /\ \A j \in 0 .. per - 1 : F[j] \in Nat
      /\ \A m \in 0 .. per : SumOver(F, 0 .. m - 1) \in 0 .. PowerOf2[width * m] - 1
  BY LowCodes
<1>3. PICK h \in Nat : SumOver(F, 0 .. per - 1) = p * (B * h + C[k]) + low
  <2>1. \E h \in Nat :
           SumOver(F, 0 .. per - 1) =
               PowerOf2[width * k] * (PowerOf2[width] * h + C[k]) + SumOver(F, 0 .. k - 1)
    BY HighCodes, SMTT(60)
  <2> QED
    BY <2>1
<1>4. word = SumOver(F, 0 .. per - 1)
  <2> DEFINE S == 0 .. per - 1
  <2>1. IsFiniteSet(S)
    BY FS_Interval
  <2>1a. DOMAIN F = S /\ \A x \in S : F[x] \in Nat
    BY ONLY <1>1, <1>2
  <2> HIDE DEF S
  <2>2. SumFunction(F) = SumOver(F, S)
    BY <2>1, <2>1a, SumFunctionIsSum
  <2> QED
    BY <2>2 DEF S
<1>5. B \in Nat \ {0} /\ p \in Nat \ {0} /\ low \in 0 .. p - 1 /\ C[k] \in 0 .. B - 1
  <2>1. width * k \in Nat
    BY Products
  <2> QED
    BY <1>2, <2>1, PowersOf2
<1> HIDE DEF B, p, low, word
<1>6. B * h + C[k] \in Int /\ word = p * (B * h + C[k]) + low /\ word \in Int
  <2>1. B * h \in Nat /\ C[k] \in Nat
    BY <1>5, Products
  <2>2. B * h + C[k] \in Nat
    BY <2>1
  <2>3. p * (B * h + C[k]) \in Nat
    BY <1>5, <2>2, Products
  <2> QED
    BY <1>3, <1>4, <1>5, <2>2, <2>3
<1> DEFINE q == B * h + C[k]
<1>7. q \in Int /\ q = B * h + C[k] /\ word = p * q + low
  BY <1>6
<1> HIDE DEF q
<1>8. word \div p = q
  <2>1. word \in Int /\ p \in Nat \ {0} /\ q \in Int /\ low \in 0 .. p - 1
    BY <1>5, <1>6, <1>7
  <2> QED
    BY ONLY <1>7, <2>1, DivUnique
<1>9. q % B = C[k]
  <2> DEFINE c == C[k]
  <2>1. B \in Nat \ {0} /\ h \in Int /\ c \in 0 .. B - 1 /\ q = B * h + c /\ q \in Int
    BY <1>5, <1>7
  <2> HIDE DEF c
  <2>2. q % B = c
    BY ONLY <2>1, DivUnique
  <2> QED
    BY <2>2 DEF c
<1> QED
  BY <1>8, <1>9 DEF word, p, B

-----------------------------------------------------------------------------
(* Unpacking all words.                                                    *)

\* Where unpacking looks for the code of a value.
CodeAt(words, width, i) ==
    LET per == WordBits \div width
    IN  (words[1 + (i - 1) \div per] \div PowerOf2[width * ((i - 1) % per)]) % PowerOf2[width]

\* The code of a value is where unpacking looks for it.
LEMMA CodeFound ==
    ASSUME NEW words \in Seq(Nat), NEW codes \in Seq(Nat), NEW width,
           PlacesCodes(words, codes, width), NEW i \in DOMAIN codes
    PROVE  CodeAt(words, width, i) = codes[i]
           /\ (words = << 0 >> => codes[i] = 0) /\ words # <<>>
<1> DEFINE per == WordBits \div width
           Code(m) == IF m \in DOMAIN codes THEN codes[m] ELSE 0
<1>0. /\ width \in 1 .. WordBits - 1 /\ per = WordBits \div width
      /\ \A m \in DOMAIN codes : codes[m] \in 0 .. PowerOf2[width] - 1
      /\ Len(codes) <= Len(words) * per
      /\ \A v \in DOMAIN words :
            words[v] = SumFunction([j \in 0 .. per - 1 |->
                           Code((v - 1) * per + j + 1) * PowerOf2[width * j]])
  BY DEF PlacesCodes
<1>1. width \in Nat \ {0}
  BY <1>0, ScaleAssumption
<1>2. per \in Nat \ {0}
  BY <1>0, PerWord
<1> HIDE DEF per
<1>3. DOMAIN codes = 1 .. Len(codes) /\ Len(codes) \in Nat /\ DOMAIN words = 1 .. Len(words)
      /\ Len(words) \in Nat
  OBVIOUS
<1> DEFINE k == i - 1
           total == Len(words) * per
           q == k \div per
           r == k % per
           w == 1 + q
<1>4. k \in Nat /\ k < total /\ total \in Nat
  <2>1. total \in Nat
    BY <1>2, <1>3, Products
  <2>2. Len(codes) <= total
    BY <1>0
  <2> HIDE DEF total
  <2> QED
    BY <1>3, <2>1, <2>2
<1>5. q \in 0 .. Len(words) - 1 /\ r \in Nat
  <2>1. total = Len(words) * per
    OBVIOUS
  <2> HIDE DEF k, total
  <2> QED
    BY <1>2, <1>3, <1>4, <2>1, WordOfValue
<1>6. r \in 0 .. per - 1 /\ k = per * q + r /\ q \in Nat
  <2> HIDE DEF k
  <2> QED
    BY ONLY <1>2, <1>4, NatDivMod
<1>7. i = (w - 1) * per + r + 1 /\ w \in DOMAIN words
  <2>1. i = k + 1 /\ w - 1 = q
    <3> HIDE DEF q
    <3>1. i \in Nat
      BY <1>3
    <3> QED
      BY ONLY <1>6, <3>1
  <2> HIDE DEF k, q, r
  <2>2. i = q * per + r + 1
    <3>1. per * q = q * per /\ q * per \in Nat
      BY <1>2, <1>6, Products
    <3> QED
      BY <1>6, <2>1, <3>1
  <2>3. w \in DOMAIN words
    BY <1>3, <1>5
  <2> HIDE DEF w
  <2> QED
    BY <2>1, <2>2, <2>3
<1> HIDE DEF k, total, q, r, w
<1> DEFINE C == [j \in 0 .. per - 1 |-> Code((w - 1) * per + j + 1)]
           F == [j \in 0 .. per - 1 |-> Code((w - 1) * per + j + 1) * PowerOf2[width * j]]
<1>9. \A m : Code(m) \in 0 .. PowerOf2[width] - 1
  <2>1. PowerOf2[width] \in Nat \ {0}
    BY <1>1, PowersOf2
  <2> QED
    BY <1>0, <2>1
<1>11. words[w] = SumFunction(F)
  BY <1>0, <1>7
<1>12. C[r] = codes[i]
  <2>1. C[r] = Code(i)
    <3> HIDE DEF Code
    <3> QED
      BY <1>6, <1>7
  <2> QED
    BY <2>1
<1> HIDE DEF Code
<1>13. IsPlaced(F, C, width, per)
  BY <1>1, <1>2, <1>9 DEF IsPlaced
<1> HIDE DEF C, F
<1>14. (SumFunction(F) \div PowerOf2[width * r]) % PowerOf2[width] = C[r]
  BY <1>6, <1>13, CodeOfWord
<1>15. (words[w] \div PowerOf2[width * r]) % PowerOf2[width] = codes[i]
  BY <1>11, <1>12, <1>14
<1>16. CodeAt(words, width, i) = codes[i]
  BY <1>15 DEF CodeAt, w, q, r, k, per
<1>17. words = << 0 >> => codes[i] = 0
  <2> SUFFICES ASSUME words = << 0 >> PROVE codes[i] = 0
    OBVIOUS
  <2>1. words[w] = 0
    BY <1>7
  <2>2. PowerOf2[width * r] \in Nat \ {0} /\ PowerOf2[width] \in Nat \ {0}
    <3>1. width * r \in Nat
      BY <1>1, <1>5, Products
    <3> QED
      BY <1>1, <3>1, PowersOf2
  <2> DEFINE p == PowerOf2[width * r]
             m == PowerOf2[width]
  <2>3. p \in Nat \ {0} /\ m \in Nat \ {0} /\ (0 \div p) % m = codes[i]
    BY <1>15, <2>1, <2>2
  <2> HIDE DEF p, m
  <2>4. 0 \div p = 0 /\ 0 % m = 0
    BY <2>3
  <2> QED
    BY <2>3, <2>4
<1> QED
  BY <1>7, <1>16, <1>17

\* The values are the codes, from the base on; others may follow.
IsUnpacked(values, codes, base) ==
    /\ values \in Seq(Ids) /\ Len(codes) <= Len(values)
    /\ \A i \in DOMAIN codes : values[i] = (base + codes[i]) % IdSpace

\* Unpacking gives the codes that were packed, from the base on.
LEMMA CodesUnpacked ==
    ASSUME NEW seg, seg.sub_segment \in Seq(Nat), NEW codes \in Seq(Nat), NEW width,
           NEW base \in Int, HoldsCodes(seg.sub_segment, codes, width)
    PROVE  /\ PackedValues(seg, Len(codes), base, width).wild = FALSE
           /\ IsUnpacked(PackedValues(seg, Len(codes), base, width).value, codes, base)
<1> USE DEF IsUnpacked
<1> DEFINE words == seg.sub_segment
           n == Len(codes)
           packed == PackedValues(seg, n, base, width)
<1>1. n \in Nat /\ DOMAIN codes = 1 .. n /\ words \in Seq(Nat)
  OBVIOUS
<1>2. packed.value \in Seq(Ids)
  <2>1. \A m \in Nat : PackedValues(seg, m, base, width).value \in Seq(Ids)
    BY PackedIds
  <2> QED
    BY <1>1, <2>1
<1>3. \A v : Right(v).value = v /\ Right(v).wild = FALSE
  BY DEF Right
<1>4. CASE n = 0
  <2>1. packed = Right(<<>>)
    BY <1>4 DEF PackedValues
  <2> QED
    BY <1>1, <1>2, <1>3, <1>4, <2>1
<1>5. CASE n # 0 /\ words = << 0 >> /\ \A i \in DOMAIN codes : codes[i] = 0
  <2>1. packed = Right([k \in 1 .. n |-> base % IdSpace])
    <3>1. words # <<>>
      BY <1>5
    <3> QED
      BY <1>5, <3>1 DEF PackedValues
  <2>2. \A i \in DOMAIN codes : base + codes[i] = base
    BY <1>5
  <2> QED
    BY <1>1, <1>2, <1>3, <2>1, <2>2
<1> DEFINE per == WordBits \div width
<1>6. CASE n # 0 /\ PlacesCodes(words, codes, width)
  <2>1. width \in 1 .. WordBits - 1 /\ n <= Len(words) * per
    BY <1>6 DEF PlacesCodes
  <2>3. \A i \in DOMAIN codes : CodeAt(words, width, i) = codes[i]
    <3> HIDE DEF words, n
    <3> QED
      BY <1>1, <1>6, CodeFound
  <2>4. words # <<>> /\ (words = << 0 >> => \A i \in DOMAIN codes : codes[i] = 0)
    <3>1. 1 \in DOMAIN codes
      BY <1>1, <1>6
    <3> HIDE DEF words, n
    <3> QED
      BY <1>1, <1>6, <3>1, CodeFound
  <2>5. CASE words = << 0 >>
    BY <1>6, <1>5, <2>4, <2>5
  <2>6. CASE words # << 0 >>
    <3>1. packed = Right(ReadBitPacked(words, width, base))
      BY <1>6, <2>1, <2>4, <2>6 DEF PackedValues
    <3> DEFINE V == [k \in 1 .. Len(words) * per |->
                        (base + CodeAt(words, width, k)) % IdSpace]
    <3>2. packed.value = V /\ packed.wild = FALSE
      BY <1>3, <3>1 DEF ReadBitPacked, CodeAt
    <3>3. Len(words) * per \in Nat
      <4>1. Len(words) \in Nat
        BY <1>1
      <4>2. per \in Nat
        BY <2>1, PerWord
      <4> HIDE DEF words, per
      <4> QED
        BY <4>1, <4>2, Products
    <3> DEFINE total == Len(words) * per
    <3>4. Len(V) = total
      <4> HIDE DEF per, words
      <4> QED
        BY <3>3
    <3>5. \A i \in 1 .. n : V[i] = (base + CodeAt(words, width, i)) % IdSpace
      <4>1. \A i \in 1 .. n : i \in 1 .. total
        <5> HIDE DEF per
        <5> QED
          BY <2>1, <3>3, <1>1
      <4> HIDE DEF per, n, words
      <4> QED
        BY <4>1
    <3> HIDE DEF V, total
    <3> QED
      BY <1>1, <1>2, <2>1, <2>3, <3>2, <3>4, <3>5 DEF total
  <2> QED
    BY <2>5, <2>6
<1> QED
  BY <1>4, <1>6, <1>5 DEF HoldsCodes

-----------------------------------------------------------------------------
(* The ids of the rows.                                                    *)

\* Rows counted run by run.
LEMMA RowsCounted ==
    ASSUME NEW runs \in Seq(Runs), NEW packed \in SUBSET (DOMAIN runs)
    PROVE  /\ RowsBefore(runs, 1) = 0 /\ PackedRowsBefore(runs, packed, 1) = 0
           /\ \A k \in 1 .. Len(runs) :
                 /\ RowsBefore(runs, k) \in Nat /\ PackedRowsBefore(runs, packed, k) \in Nat
                 /\ RowsBefore(runs, k + 1) = RowsBefore(runs, k) + runs[k].repeat_value
                 /\ PackedRowsBefore(runs, packed, k + 1) =
                       PackedRowsBefore(runs, packed, k)
                       + (IF k \in packed THEN runs[k].repeat_value ELSE 0)
                 /\ RowsBefore(runs, k + 1) <= RowsBefore(runs, Len(runs) + 1)
                 /\ PackedRowsBefore(runs, packed, k + 1)
                       <= PackedRowsBefore(runs, packed, Len(runs) + 1)
<1> DEFINE n == Len(runs)
           S == 1 .. n
           F == [i \in S |-> runs[i].repeat_value]
           Up(k) == 1 .. k - 1
           In(k) == packed \cap (1 .. k - 1)
<1>1. n \in Nat /\ DOMAIN runs = S /\ \A i \in S : F[i] = runs[i].repeat_value /\ F[i] \in Nat
  <2>1. n \in Nat /\ DOMAIN runs = S /\ \A i \in S : runs[i] \in Runs
    OBVIOUS
  <2>2. \A e \in Runs : e.repeat_value \in Nat
    BY DEF Runs
  <2> QED
    BY <2>1, <2>2
<1>2. IsFiniteSet(S)
  BY <1>1, FS_Interval
<1>3. \A k \in 1 .. n + 1 : Up(k) \in SUBSET S /\ In(k) \in SUBSET S
  <2> SUFFICES ASSUME NEW k \in 1 .. n + 1 PROVE Up(k) \in SUBSET S
    OBVIOUS
  <2>1. \A x \in Up(k) : x \in S
    BY <1>1
  <2> QED
    BY <2>1
<1>4. \A k \in 1 .. n : /\ Up(k + 1) = Up(k) \cup {k} /\ k \in S \ Up(k) /\ k \in S \ In(k)
                        /\ In(k + 1) = IF k \in packed THEN In(k) \cup {k} ELSE In(k)
                        /\ k \in 1 .. n + 1 /\ k + 1 \in 1 .. n + 1
  <2> SUFFICES ASSUME NEW k \in 1 .. n
               PROVE  /\ Up(k + 1) = Up(k) \cup {k} /\ k \in S \ Up(k) /\ k \in S \ In(k)
                      /\ In(k + 1) = IF k \in packed THEN In(k) \cup {k} ELSE In(k)
                      /\ k \in 1 .. n + 1 /\ k + 1 \in 1 .. n + 1
    OBVIOUS
  <2>1. Up(k + 1) = Up(k) \cup {k} /\ k \notin Up(k) /\ k \in 1 .. n + 1 /\ k + 1 \in 1 .. n + 1
    BY <1>1
  <2> QED
    BY <2>1
<1>5. Up(1) = {} /\ In(1) = {}
  OBVIOUS
<1>6. \A k \in 1 .. n + 1 : Up(k) \subseteq Up(n + 1) /\ In(k) \subseteq In(n + 1)
  <2> SUFFICES ASSUME NEW k \in 1 .. n + 1 PROVE Up(k) \subseteq Up(n + 1)
    OBVIOUS
  <2>1. \A x \in Up(k) : x \in Up(n + 1)
    BY <1>1
  <2> QED
    BY <2>1
<1>7. ASSUME NEW k \in 1 .. n + 1
      PROVE  /\ RowsBefore(runs, k) = SumOver(F, Up(k))
             /\ PackedRowsBefore(runs, packed, k) = SumOver(F, In(k))
  <2> DEFINE U == Up(k)
             I == In(k)
             G == [i \in U |-> runs[i].repeat_value]
             H == [i \in I |-> runs[i].repeat_value]
  <2>1. U \in SUBSET S /\ I \in SUBSET S
    BY <1>3
  <2>2. RowsBefore(runs, k) = SumFunction(G) /\ PackedRowsBefore(runs, packed, k) = SumFunction(H)
    BY DEF RowsBefore, PackedRowsBefore
  <2> HIDE DEF S, F, U, I, n
  <2>3. IsFiniteSet(U) /\ IsFiniteSet(I)
    BY <1>2, <2>1, FS_Subset
  <2>4. /\ DOMAIN G = U /\ \A x \in U : G[x] \in Nat /\ G[x] = F[x]
        /\ DOMAIN H = I /\ \A x \in I : H[x] \in Nat /\ H[x] = F[x]
    BY <1>1, <2>1
  <2> HIDE DEF G, H
  <2>5. SumFunction(G) = SumOver(G, U) /\ SumFunction(H) = SumOver(H, I)
    BY <2>3, <2>4, SumFunctionIsSum
  <2>6. SumOver(G, U) = SumOver(F, U) /\ SumOver(H, I) = SumOver(F, I)
    BY <2>3, <2>4, SumSame
  <2> QED
    BY <2>2, <2>5, <2>6 DEF U, I
<1> HIDE DEF S, F, Up, In
<1>8. /\ SumOver(F, {}) = 0 /\ \A X \in SUBSET S : SumOver(F, X) \in Nat
      /\ \A X \in SUBSET S : \A x \in S \ X : SumOver(F, X \cup {x}) = F[x] + SumOver(F, X)
  BY <1>1, <1>2, SumOne
<1>9. \A X \in SUBSET S : \A Y \in SUBSET X : SumOver(F, Y) <= SumOver(F, X)
  BY <1>1, <1>2, SumMonotone
<1>10. 1 \in 1 .. n + 1 /\ n + 1 \in 1 .. n + 1
  BY <1>1
<1>11. RowsBefore(runs, 1) = 0 /\ PackedRowsBefore(runs, packed, 1) = 0
  BY <1>5, <1>7, <1>8, <1>10
<1>12. ASSUME NEW k \in 1 .. n
       PROVE  /\ RowsBefore(runs, k) \in Nat /\ PackedRowsBefore(runs, packed, k) \in Nat
              /\ RowsBefore(runs, k + 1) = RowsBefore(runs, k) + runs[k].repeat_value
              /\ PackedRowsBefore(runs, packed, k + 1) =
                    PackedRowsBefore(runs, packed, k)
                    + (IF k \in packed THEN runs[k].repeat_value ELSE 0)
              /\ RowsBefore(runs, k + 1) <= RowsBefore(runs, n + 1)
              /\ PackedRowsBefore(runs, packed, k + 1)
                    <= PackedRowsBefore(runs, packed, n + 1)
  <2>1. k \in 1 .. n + 1 /\ k + 1 \in 1 .. n + 1 /\ k \in S
    BY <1>4
  <2>2. /\ RowsBefore(runs, k) = SumOver(F, Up(k))
        /\ RowsBefore(runs, k + 1) = SumOver(F, Up(k + 1))
        /\ RowsBefore(runs, n + 1) = SumOver(F, Up(n + 1))
        /\ PackedRowsBefore(runs, packed, k) = SumOver(F, In(k))
        /\ PackedRowsBefore(runs, packed, k + 1) = SumOver(F, In(k + 1))
        /\ PackedRowsBefore(runs, packed, n + 1) = SumOver(F, In(n + 1))
    BY <1>7, <1>10, <2>1
  <2>3. SumOver(F, Up(k)) \in Nat /\ SumOver(F, In(k)) \in Nat /\ F[k] \in Nat
        /\ F[k] = runs[k].repeat_value
    BY <1>1, <1>3, <1>8, <2>1
  <2>4. SumOver(F, Up(k + 1)) = F[k] + SumOver(F, Up(k))
    BY <1>3, <1>4, <1>8, <2>1
  <2>5. SumOver(F, In(k + 1)) = IF k \in packed THEN F[k] + SumOver(F, In(k)) ELSE SumOver(F, In(k))
    BY <1>3, <1>4, <1>8, <2>1
  <2>6. SumOver(F, Up(k + 1)) <= SumOver(F, Up(n + 1))
        /\ SumOver(F, In(k + 1)) <= SumOver(F, In(n + 1))
    BY <1>3, <1>6, <1>9, <1>10, <2>1
  <2> QED
    BY <2>2, <2>3, <2>4, <2>5, <2>6
<1> QED
  BY <1>11, <1>12

\* A number below the ids' space is an id.
LEMMA SmallId == \A x \in Ids : x % IdSpace = x
<1> SUFFICES ASSUME NEW x \in Ids PROVE x % IdSpace = x
  OBVIOUS
<1>1. IdSpace \in Nat \ {0} /\ x \in Int /\ x \in 0 .. IdSpace - 1 /\ 0 \in Int
  BY ScaleAssumption DEF Ids
<1>2. x = IdSpace * 0 + x
  BY <1>1
<1> QED
  BY ONLY <1>1, <1>2, DivUnique

\* What has been read before a run, and what is left to read of it.
BeforeRun(c, e, isPacked, from, place) ==
    /\ c.ids \in Seq(Ids) /\ c.codes \in Seq(Nat)
    /\ e.data_value \in Ids /\ e.repeat_value \in Nat /\ from \in Nat /\ place \in Nat
    /\ from + e.repeat_value <= Len(c.ids)
    /\ isPacked => place + e.repeat_value <= Len(c.codes)
    /\ HoldsRun(c, e, isPacked, from, place)

\* What has been read so far.
HasRead(acc, c, from, place) ==
    /\ acc \in RunsRead
    /\ acc.ids = SubSeq(c.ids, 1, from) /\ acc.offset = place /\ acc.wild = FALSE

\* Taking a run adds its rows.
LEMMA RunTaken ==
    ASSUME NEW c, NEW e, NEW isPacked, NEW from, NEW place, NEW values, NEW acc,
           BeforeRun(c, e, isPacked, from, place),
           IsUnpacked(values, c.codes, SmallestId(c)), HasRead(acc, c, from, place)
    PROVE  HasRead(TakeRun(values, acc, e), c, from + e.repeat_value,
                   IF isPacked THEN place + e.repeat_value ELSE place)
<1> DEFINE ids == c.ids
           codes == c.codes
           base == SmallestId(c)
           r == e.repeat_value
           d == e.data_value
<1>1. /\ ids \in Seq(Ids) /\ codes \in Seq(Nat) /\ d \in Ids /\ r \in Nat
      /\ from \in Nat /\ place \in Nat /\ from + r <= Len(ids)
      /\ isPacked => place + r <= Len(codes)
  BY DEF BeforeRun
<1>2. /\ values \in Seq(Ids) /\ Len(codes) <= Len(values)
      /\ \A i \in DOMAIN codes : values[i] = (base + codes[i]) % IdSpace
  BY DEF IsUnpacked
<1>3. IF isPacked
      THEN d + place = Marker /\ \A j \in 1 .. r : ids[from + j] = base + codes[place + j]
      ELSE d + place # Marker /\ \A j \in 1 .. r : ids[from + j] = d
  BY DEF BeforeRun, HoldsRun
<1>4. /\ acc \in RunsRead
      /\ acc.ids = SubSeq(ids, 1, from) /\ acc.offset = place /\ acc.wild = FALSE
  BY DEF HasRead
<1>5. ASSUME NEW x \in Seq(Ids), NEW o \in Nat
      PROVE  /\ [acc EXCEPT !.ids = x] \in RunsRead
             /\ [acc EXCEPT !.ids = x].ids = x /\ [acc EXCEPT !.ids = x].offset = place
             /\ [acc EXCEPT !.ids = x].wild = FALSE
             /\ [acc EXCEPT !.ids = x, !.offset = o] \in RunsRead
             /\ [acc EXCEPT !.ids = x, !.offset = o].ids = x
             /\ [acc EXCEPT !.ids = x, !.offset = o].offset = o
             /\ [acc EXCEPT !.ids = x, !.offset = o].wild = FALSE
  BY ONLY <1>4, <1>5 DEF RunsRead
<1> HIDE DEF ids, codes, base
<1>6. CASE ~isPacked
  <2> DEFINE next == [j \in 1 .. r |-> d]
  <2>1. next \in Seq(Ids) /\ Len(next) = r /\ \A j \in 1 .. r : next[j] = d
    <3> HIDE DEF r, d
    <3> QED
      BY ONLY <1>1
  <2>2. TakeRun(values, acc, e) = [acc EXCEPT !.ids = SubSeq(ids, 1, from) \o next]
    BY <1>3, <1>4, <1>6 DEF TakeRun, IsMarker
  <2>3. \A j \in 1 .. r : next[j] = ids[from + j]
    BY <1>3, <1>6, <2>1
  <2> HIDE DEF next, r, d
  <2>4. SubSeq(ids, 1, from) \o next = SubSeq(ids, 1, from + r)
    BY ONLY <1>1, <2>1, <2>3, LongerStart, ZenonT(60)
  <2> DEFINE x == SubSeq(ids, 1, from + r)
  <2>5. x \in Seq(Ids)
    <3>1. from + r \in 0 .. Len(ids)
      BY <1>1
    <3> QED
      BY ONLY <1>1, <3>1, Beginning
  <2>6. TakeRun(values, acc, e) = [acc EXCEPT !.ids = x]
    BY <2>2, <2>4
  <2> HIDE DEF x
  <2>7. HasRead([acc EXCEPT !.ids = x], c, from + r, place)
    BY <1>5, <2>5 DEF HasRead, x, ids
  <2> QED
    BY <1>6, <2>6, <2>7 DEF r
<1>7. CASE isPacked
  <2> DEFINE next == SubSeq(values, place + 1, place + r)
             all == SubSeq(ids, 1, from) \o next
  <2>1. /\ place + r <= Len(codes) /\ place + r <= Len(values)
        /\ Len(codes) \in Nat /\ DOMAIN codes = 1 .. Len(codes)
        /\ Len(ids) \in Nat /\ \A i \in 1 .. Len(ids) : ids[i] \in Ids
    <3>1. Len(codes) \in Nat /\ Len(values) \in Nat /\ Len(ids) \in Nat
      BY <1>1, <1>2
    <3> HIDE DEF r
    <3> QED
      BY <1>1, <1>2, <1>7, <3>1
  <2>2. next \in Seq(Ids) /\ Len(next) = r /\ \A j \in 1 .. r : next[j] = values[place + j]
    <3> HIDE DEF r
    <3> QED
      BY ONLY <1>1, <1>2, <2>1, Middle
  <2>3. TakeRun(values, acc, e) = [acc EXCEPT !.ids = all, !.offset = place + r]
    <3>1. ~(acc.offset + e.repeat_value > Len(values)) /\ IsMarker(e, acc.offset)
      <4>1. acc.offset + e.repeat_value = place + r /\ place + r \in Nat /\ Len(values) \in Nat
        BY <1>1, <1>2, <1>4
      <4> QED
        BY <1>3, <1>4, <1>7, <2>1, <4>1 DEF IsMarker
    <3> QED
      BY <1>4, <3>1 DEF TakeRun
  <2> HIDE DEF next, r, d
  <2>4. ASSUME NEW j \in 1 .. r PROVE next[j] = ids[from + j]
    <3>1. place + j \in DOMAIN codes /\ from + j \in 1 .. Len(ids)
      BY <1>1, <2>1
    <3>2. next[j] = (base + codes[place + j]) % IdSpace
      BY <1>2, <2>2, <3>1
    <3>3. ids[from + j] = base + codes[place + j] /\ ids[from + j] \in Ids
      BY <1>3, <1>7, <2>1, <3>1
    <3> QED
      BY <3>2, <3>3, SmallId
  <2>5. all = SubSeq(ids, 1, from + r)
    BY ONLY <1>1, <2>2, <2>4, LongerStart, ZenonT(60)
  <2>6. all \in Seq(Ids) /\ place + r \in Nat
    <3>1. from + r \in 0 .. Len(ids)
      BY <1>1
    <3>2. SubSeq(ids, 1, from + r) \in Seq(Ids)
      BY ONLY <1>1, <3>1, Beginning
    <3>3. place + r \in Nat
      BY ONLY <1>1
    <3> HIDE DEF all
    <3> QED
      BY ONLY <2>5, <3>2, <3>3
  <2> HIDE DEF all
  <2>7. HasRead([acc EXCEPT !.ids = all, !.offset = place + r], c, from + r, place + r)
    BY <1>5, <2>5, <2>6, ZenonT(60) DEF HasRead, ids
  <2> QED
    BY <1>7, <2>3, <2>7 DEF r
<1> QED
  BY <1>6, <1>7

\* Reading the runs gives the ids back.
LEMMA IdsRead ==
    ASSUME NEW c, HoldsIds(c), Len(c.idf) = 1, SmallestId(c) \in Int,
           c.idf[1].primary_segment \in Seq(Runs), c.idf[1].sub_segment \in Seq(Nat)
    PROVE  ReadRLEBitPackedHybrid(c.idf, c.meta.count_bit_packed, SmallestId(c),
                                  bit_width(c.meta)) = Right(c.ids)
<1> DEFINE part == c.idf[1]
           runs == part.primary_segment
           n == Len(runs)
           base == SmallestId(c)
           packed == c.packed
           width == bit_width(c.meta)
           entries == c.meta.count_bit_packed
           Rows(k) == RowsBefore(runs, k)
           Place(k) == PackedRowsBefore(runs, packed, k)
           unpacked == PackedValues(part, entries, base, width)
           values == unpacked.value
           start == [ids |-> <<>>, offset |-> 0, wild |-> unpacked.wild]
           all == TakeRuns(values, start, runs)
<1>1. /\ c.ids \in Seq(Ids) /\ c.codes \in Seq(Nat) /\ packed \in SUBSET (DOMAIN runs)
      /\ HoldsCodes(part.sub_segment, c.codes, width)
      /\ entries = Len(c.codes)
      /\ Len(c.ids) = Rows(n + 1) /\ Len(c.codes) = Place(n + 1)
      /\ \A k \in DOMAIN runs : HoldsRun(c, runs[k], k \in packed, Rows(k), Place(k))
  BY DEF HoldsIds, Ids
<1>2. /\ runs \in Seq(Runs) /\ part.sub_segment \in Seq(Nat) /\ base \in Int /\ n = Len(runs)
      /\ c.idf # <<>>
  OBVIOUS
<1>3. ReadRLEBitPackedHybrid(c.idf, entries, base, width) =
         IF all.wild THEN Wrong ELSE Right(all.ids)
  BY <1>2 DEF ReadRLEBitPackedHybrid, TakeRuns
<1>4. unpacked.wild = FALSE /\ IsUnpacked(values, c.codes, base)
  <2> DEFINE codes == c.codes
             p == PackedValues(part, Len(codes), base, width)
  <2>1. unpacked = p /\ base = SmallestId(c)
    BY <1>1
  <2>2. /\ codes \in Seq(Nat) /\ HoldsCodes(part.sub_segment, codes, width)
        /\ part.sub_segment \in Seq(Nat) /\ base \in Int
    BY <1>1
  <2> HIDE DEF part, codes, base, width
  <2>3. p.wild = FALSE /\ IsUnpacked(p.value, codes, base)
    BY ONLY <2>2, CodesUnpacked
  <2> HIDE DEF p, unpacked
  <2> QED
    BY <2>1, <2>3 DEF codes
<1> HIDE DEF runs, packed, part, n, unpacked, base, entries, width
<1>5. /\ Rows(1) = 0 /\ Place(1) = 0
      /\ \A k \in 1 .. n :
            /\ Rows(k) \in Nat /\ Place(k) \in Nat
            /\ Rows(k + 1) = Rows(k) + runs[k].repeat_value
            /\ Place(k + 1) = Place(k) + (IF k \in packed THEN runs[k].repeat_value ELSE 0)
            /\ Rows(k + 1) <= Rows(n + 1) /\ Place(k + 1) <= Place(n + 1)
  <2>1. packed \in SUBSET (DOMAIN runs) /\ runs \in Seq(Runs) /\ n = Len(runs)
    BY <1>1, <1>2
  <2>2. /\ RowsBefore(runs, 1) = 0 /\ PackedRowsBefore(runs, packed, 1) = 0
        /\ \A k \in 1 .. Len(runs) :
              /\ RowsBefore(runs, k) \in Nat /\ PackedRowsBefore(runs, packed, k) \in Nat
              /\ RowsBefore(runs, k + 1) = RowsBefore(runs, k) + runs[k].repeat_value
              /\ PackedRowsBefore(runs, packed, k + 1) =
                    PackedRowsBefore(runs, packed, k)
                    + (IF k \in packed THEN runs[k].repeat_value ELSE 0)
              /\ RowsBefore(runs, k + 1) <= RowsBefore(runs, Len(runs) + 1)
              /\ PackedRowsBefore(runs, packed, k + 1)
                    <= PackedRowsBefore(runs, packed, Len(runs) + 1)
    BY ONLY <2>1, RowsCounted
  <2> QED
    BY <2>1, <2>2
<1>6. /\ n \in Nat /\ DOMAIN runs = 1 .. n
      /\ \A k \in 1 .. n : runs[k].repeat_value \in Nat /\ runs[k].data_value \in Ids
  <2>1. n \in Nat /\ DOMAIN runs = 1 .. n /\ \A k \in 1 .. n : runs[k] \in Runs
    BY ONLY <1>2
  <2>2. \A e \in Runs : e.repeat_value \in Nat /\ e.data_value \in Ids
    BY DEF Runs, Ids
  <2> QED
    BY ONLY <2>1, <2>2
<1> HIDE DEF Rows, Place, values
<1>7. HasRead(start, c, 0, 0)
  <2>1. <<>> \in Seq(Ids) /\ unpacked.wild = FALSE
    BY <1>4, EmptySeq
  <2>2. SubSeq(c.ids, 1, 0) = <<>>
    BY SubSeqEmpty
  <2> QED
    BY ONLY <2>1, <2>2 DEF start, RunsRead, HasRead
<1> HIDE DEF start
<1>8. values \in Seq(Ids)
  BY <1>4 DEF IsUnpacked
<1>9. PICK t \in [0 .. n -> RunsRead] :
         /\ t[0] = start
         /\ \A k \in 1 .. n : t[k] = TakeRun(values, t[k - 1], runs[k])
         /\ all = t[n]
  <2>1. start \in RunsRead
    BY <1>7 DEF HasRead
  <2> QED
    BY ONLY <1>2, <1>8, <2>1, RunsTrace
<1> HIDE DEF all
<1> DEFINE Got(k) == HasRead(t[k], c, Rows(k + 1), Place(k + 1))
           T == {k \in Nat : k <= n => Got(k)}
<1>10. 0 \in T
  <2>1. Rows(0 + 1) = 0 /\ Place(0 + 1) = 0
    BY <1>5
  <2>2. HasRead(t[0], c, 0, 0)
    BY <1>7, <1>9
  <2>3. Got(0)
    BY <2>1, <2>2
  <2> QED
    BY <2>3
<1>11. ASSUME NEW m \in Nat, m \in T PROVE m + 1 \in T
  <2> SUFFICES ASSUME m + 1 <= n PROVE Got(m + 1)
    OBVIOUS
  <2> DEFINE k == m + 1
             e == runs[k]
  <2>1. k \in 1 .. n /\ k - 1 = m /\ m <= n /\ k \in DOMAIN runs
    BY <1>6
  <2>2. HasRead(t[m], c, Rows(k), Place(k))
    BY <1>11, <2>1
  <2>3. t[k] = TakeRun(values, t[m], e)
    BY <1>9, <2>1
  <2> DEFINE isPacked == k \in packed
  <2>3a. isPacked \in BOOLEAN /\ isPacked = (k \in packed)
    OBVIOUS
  <2> HIDE DEF k
  <2>4. BeforeRun(c, e, isPacked, Rows(k), Place(k))
    <3>1. HoldsRun(c, e, k \in packed, Rows(k), Place(k))
      BY <1>1, <2>1
    <3>2. Rows(k) + e.repeat_value <= Len(c.ids)
      BY <1>1, <1>5, <2>1
    <3>3. k \in packed => Place(k) + e.repeat_value <= Len(c.codes)
      BY <1>1, <1>5, <2>1
    <3> QED
      BY <1>1, <1>5, <1>6, <2>1, <3>1, <3>2, <3>3 DEF BeforeRun
  <2> HIDE DEF isPacked, e
  <2>5. HasRead(TakeRun(values, t[m], e), c, Rows(k) + e.repeat_value,
                IF isPacked THEN Place(k) + e.repeat_value ELSE Place(k))
    <3> HIDE DEF values, Rows, Place
    <3>1. IsUnpacked(values, c.codes, SmallestId(c))
      BY <1>4 DEF base
    <3> QED
      BY ONLY <2>2, <2>4, <3>1, RunTaken
  <2>6. Rows(k + 1) = Rows(k) + e.repeat_value
        /\ Place(k + 1) = IF isPacked THEN Place(k) + e.repeat_value ELSE Place(k)
    BY <1>5, <2>1 DEF isPacked, e
  <2>7. Got(k)
    BY ONLY <2>3, <2>5, <2>6
  <2> QED
    BY <2>7 DEF k
<1> HIDE DEF T
<1>12. n \in T
  BY <1>6, <1>10, <1>11, NatStepwise
<1>13. HasRead(all, c, Rows(n + 1), Place(n + 1))
  BY <1>6, <1>9, <1>12 DEF T
<1>14. SubSeq(c.ids, 1, Rows(n + 1)) = c.ids
  BY <1>1, SubSeqFull
<1>15. all.wild = FALSE /\ all.ids = c.ids
  BY <1>13, <1>14 DEF HasRead
<1> QED
  BY <1>3, <1>15 DEF base, entries, width

-----------------------------------------------------------------------------
(* Canonical Huffman codes.                                                *)

Lengths == Seq(0 .. 15)

\* What a symbol uses up of all the words of 15 bits, and where its share of
\* them begins.
Weights(lengths) == [i \in Coded(lengths) |-> PowerOf2[15 - lengths[i]]]
Place(lengths, i) == SumOver(Weights(lengths), CodedBefore(lengths, i))
CodeValue(lengths, i) ==
    SumFunction([j \in CodedBefore(lengths, i) |-> PowerOf2[lengths[i] - lengths[j]]])

\* What a symbol with a code has.
LEMMA CodedTypes ==
    ASSUME NEW lengths \in Lengths
    PROVE  /\ IsFiniteSet(Coded(lengths)) /\ Coded(lengths) \in SUBSET Nat
           /\ \A i \in Coded(lengths) :
                 /\ lengths[i] \in 1 .. 15 /\ i \in DOMAIN lengths
                 /\ Weights(lengths)[i] \in Nat \ {0}
                 /\ Weights(lengths)[i] = PowerOf2[15 - lengths[i]]
                 /\ IsFiniteSet(CodedBefore(lengths, i))
                 /\ CodedBefore(lengths, i) \in SUBSET Coded(lengths)
                 /\ i \notin CodedBefore(lengths, i)
<1>1. DOMAIN lengths = 1 .. Len(lengths) /\ Len(lengths) \in Nat
      /\ \A i \in DOMAIN lengths : lengths[i] \in 0 .. 15
  BY DEF Lengths
<1>2. Coded(lengths) \in SUBSET (1 .. Len(lengths))
  BY <1>1 DEF Coded
<1>3. IsFiniteSet(Coded(lengths))
  <2>1. IsFiniteSet(1 .. Len(lengths))
    BY <1>1, FS_Interval
  <2> QED
    BY <1>2, <2>1, FS_Subset
<1>4. ASSUME NEW i \in Coded(lengths)
      PROVE  /\ lengths[i] \in 1 .. 15 /\ i \in DOMAIN lengths
             /\ CodedBefore(lengths, i) \in SUBSET Coded(lengths)
             /\ i \notin CodedBefore(lengths, i)
  <2>1. lengths[i] \in 1 .. 15 /\ i \in DOMAIN lengths /\ i \in Nat
    BY <1>1 DEF Coded
  <2> QED
    BY <2>1 DEF CodedBefore, ShorterFirst
<1>5. \A n \in 1 .. 15 : PowerOf2[15 - n] \in Nat \ {0}
  BY PowersOf2
<1>6. \A i \in Coded(lengths) : Weights(lengths)[i] = PowerOf2[15 - lengths[i]]
  BY DEF Weights
<1>7. \A i \in Coded(lengths) : IsFiniteSet(CodedBefore(lengths, i))
  BY <1>3, <1>4, FS_Subset
<1>8. \A i \in Coded(lengths) : Weights(lengths)[i] \in Nat \ {0}
  BY <1>4, <1>5, <1>6
<1>9. Coded(lengths) \in SUBSET Nat
  BY <1>1, <1>2
<1> QED
  BY <1>3, <1>4, <1>6, <1>7, <1>8, <1>9

\* The order of the codes.
LEMMA CodesOrdered ==
    ASSUME NEW lengths \in Lengths
    PROVE  /\ \A i, j \in Coded(lengths) :
                 i = j \/ i \in CodedBefore(lengths, j) \/ j \in CodedBefore(lengths, i)
           /\ \A i, j, k \in Coded(lengths) :
                 i \in CodedBefore(lengths, j) /\ j \in CodedBefore(lengths, k) =>
                    i \in CodedBefore(lengths, k)
           /\ \A i, j \in Coded(lengths) :
                 i \in CodedBefore(lengths, j) => lengths[i] <= lengths[j]
<1>1. \A i \in Coded(lengths) : lengths[i] \in Nat /\ i \in Nat
  BY CodedTypes
<1> QED
  BY <1>1 DEF CodedBefore, ShorterFirst

\* Values are places in words of 15 bits, seen from the code's own length.
LEMMA ValueIsPlace ==
    ASSUME NEW lengths \in Lengths, NEW i \in Coded(lengths)
    PROVE  /\ CodeValue(lengths, i) \in Nat
           /\ Place(lengths, i) = CodeValue(lengths, i) * PowerOf2[15 - lengths[i]]
<1> DEFINE B == CodedBefore(lengths, i)
           F == [j \in B |-> PowerOf2[lengths[i] - lengths[j]]]
           d == PowerOf2[15 - lengths[i]]
<1>1. IsFiniteSet(B) /\ B \in SUBSET Coded(lengths) /\ lengths[i] \in 1 .. 15
  BY CodedTypes
<1>2. d \in Nat /\ DOMAIN F = B
  BY <1>1, PowersOf2
<1>3. \A j \in B : F[j] \in Nat /\ Weights(lengths)[j] = F[j] * d
  <2> TAKE j \in B
  <2>1. lengths[j] \in 1 .. 15 /\ lengths[j] <= lengths[i]
        /\ Weights(lengths)[j] = PowerOf2[15 - lengths[j]]
    BY <1>1, CodedTypes, CodesOrdered
  <2>2. lengths[i] - lengths[j] \in Nat /\ 15 - lengths[i] \in Nat
        /\ (lengths[i] - lengths[j]) + (15 - lengths[i]) = 15 - lengths[j]
    <3>1. \A a, b \in 1 .. 15 : b <= a =>
             a - b \in Nat /\ 15 - a \in Nat /\ (a - b) + (15 - a) = 15 - b
      OBVIOUS
    <3> QED
      BY ONLY <1>1, <2>1, <3>1
  <2>3. PowerOf2[15 - lengths[j]] = PowerOf2[lengths[i] - lengths[j]] * PowerOf2[15 - lengths[i]]
    BY <2>2, PowerPlus
  <2> QED
    BY <2>1, <2>2, <2>3, PowersOf2
<1> HIDE DEF F, d, B
<1>4. SumFunction(F) = SumOver(F, B)
  BY <1>1, <1>2, <1>3, SumFunctionIsSum
<1>5. SumOver(F, B) \in Nat /\ SumOver(Weights(lengths), B) = SumOver(F, B) * d
  BY <1>1, <1>2, <1>3, SumScaled
<1> QED
  BY <1>4, <1>5 DEF CodeValue, Place, F, B, d

\* The shares of two symbols are apart.
LEMMA PlacesApart ==
    ASSUME NEW lengths \in Lengths, NEW i \in Coded(lengths), NEW j \in Coded(lengths),
           i \in CodedBefore(lengths, j)
    PROVE  Place(lengths, i) + PowerOf2[15 - lengths[i]] <= Place(lengths, j)
<1> DEFINE W == Weights(lengths)
           B(k) == CodedBefore(lengths, k)
           C == Coded(lengths)
<1>1. IsFiniteSet(C) /\ \A x \in C : W[x] \in Nat
  BY CodedTypes
<1>2. B(i) \in SUBSET C /\ B(j) \in SUBSET C /\ i \in C \ B(i)
      /\ W[i] = PowerOf2[15 - lengths[i]]
  BY CodedTypes
<1>3. B(i) \cup {i} \in SUBSET B(j)
  BY <1>2, CodesOrdered
<1> HIDE DEF W, B, C
<1>4. SumOver(W, B(i) \cup {i}) = W[i] + SumOver(W, B(i))
      /\ SumOver(W, B(i)) \in Nat /\ SumOver(W, B(j)) \in Nat
  BY <1>1, <1>2, SumOne
<1>5. SumOver(W, B(i) \cup {i}) <= SumOver(W, B(j))
  BY <1>1, <1>2, <1>3, SumMonotone
<1>6. W[i] \in Nat
  BY <1>1, <1>2
<1>7. SumOver(W, B(i)) + W[i] <= SumOver(W, B(j))
  BY <1>4, <1>5, <1>6
<1> QED
  BY <1>7, <1>2 DEF Place, W, B

\* No share goes beyond all words.
LEMMA PlacesFit ==
    ASSUME NEW lengths \in Lengths, HasPrefixCode(lengths), NEW i \in Coded(lengths)
    PROVE  Place(lengths, i) + PowerOf2[15 - lengths[i]] <= PowerOf2[15]
<1> DEFINE W == Weights(lengths)
           B == CodedBefore(lengths, i)
           C == Coded(lengths)
<1>1. IsFiniteSet(C) /\ \A x \in C : W[x] \in Nat
  BY CodedTypes
<1>2. B \in SUBSET C /\ i \in C \ B /\ W[i] = PowerOf2[15 - lengths[i]]
  BY CodedTypes
<1>3. DOMAIN W = C /\ SumFunction(W) <= PowerOf2[15]
  BY DEF HasPrefixCode, Weights
<1>4. SumFunction(W) = SumOver(W, C)
  <2> HIDE DEF W, C
  <2> QED
    BY <1>1, <1>3, SumFunctionIsSum
<1> HIDE DEF W, B, C
<1>5. SumOver(W, B \cup {i}) = W[i] + SumOver(W, B)
      /\ SumOver(W, B) \in Nat /\ SumOver(W, B \cup {i}) \in Nat /\ SumOver(W, C) \in Nat
  <2>1. B \cup {i} \in SUBSET C
    BY <1>2
  <2> QED
    BY <1>1, <1>2, <2>1, SumOne
<1>6. SumOver(W, B \cup {i}) <= SumOver(W, C)
  <2>1. B \cup {i} \in SUBSET C /\ C \in SUBSET C
    BY <1>2
  <2> QED
    BY <1>1, <2>1, SumMonotone
<1>7. W[i] \in Nat /\ PowerOf2[15] \in Nat
  BY <1>1, <1>2, PowersOf2
<1>8. SumOver(W, B) + W[i] <= PowerOf2[15]
  BY <1>3, <1>4, <1>5, <1>6, <1>7
<1> QED
  BY <1>8, <1>2 DEF Place, W, B

\* A value fits in the bits of its code.
LEMMA ValueFits ==
    ASSUME NEW lengths \in Lengths, HasPrefixCode(lengths), NEW i \in Coded(lengths)
    PROVE  CodeValue(lengths, i) \in 0 .. PowerOf2[lengths[i]] - 1
<1> DEFINE v == CodeValue(lengths, i)
           d == PowerOf2[15 - lengths[i]]
           p == PowerOf2[lengths[i]]
<1>1. lengths[i] \in 1 .. 15 /\ v \in Nat
  BY CodedTypes, ValueIsPlace
<1>2. d \in Nat \ {0} /\ p \in Nat \ {0}
  BY <1>1, PowersOf2
<1>3. PowerOf2[15] = p * d
  <2>1. lengths[i] \in Nat /\ 15 - lengths[i] \in Nat /\ lengths[i] + (15 - lengths[i]) = 15
    BY <1>1
  <2> QED
    BY <2>1, PowerPlus
<1>4. v * d + d <= p * d
  BY <1>3, PlacesFit, ValueIsPlace
<1> HIDE DEF v, d, p
<1>5. ~(p <= v)
  <2> SUFFICES ASSUME p <= v PROVE FALSE
    OBVIOUS
  <2>1. p * d <= v * d
    <3>1. PICK e \in Nat : v = p + e
      <4>1. v - p \in Nat /\ v = p + (v - p)
        BY <1>1, <1>2
      <4> QED
        BY <4>1
    <3>2. v * d = p * d + e * d /\ e * d \in Nat /\ p * d \in Nat
      BY <1>2, <3>1, Products
    <3> QED
      BY <3>2
  <2>2. p * d \in Nat /\ v * d \in Nat
    BY <1>1, <1>2, Products
  <2> DEFINE x == p * d
             y == v * d
  <2>3. x \in Nat /\ y \in Nat /\ y + d <= x /\ x <= y
    BY <1>4, <2>1, <2>2
  <2> HIDE DEF x, y
  <2> QED
    BY <1>2, <2>3
<1> QED
  BY <1>1, <1>2, <1>5 DEF v, p

\* Halving gives away the last bit.
LEMMA Halving ==
    ASSUME NEW x \in Nat, NEW m \in Nat
    PROVE  /\ x \div PowerOf2[m] \in Nat
           /\ x \div PowerOf2[m] =
                 2 * (x \div PowerOf2[m + 1]) + ((x \div PowerOf2[m]) % 2)
<1> DEFINE p == PowerOf2[m]
           y == x \div p
<1>1. p \in Nat \ {0} /\ PowerOf2[m + 1] = p * 2
  <2>1. PowerOf2[m] \in Nat \ {0} /\ PowerOf2[m + 1] = 2 * PowerOf2[m]
    BY PowersOf2, PowerNext
  <2> HIDE DEF y
  <2> QED
    BY <2>1
<1> HIDE DEF p
<1>2. x \div (p * 2) = y \div 2
  BY <1>1, DivDiv
<1>3. y \in Nat
  BY <1>1, NatDivMod
<1> HIDE DEF y
<1>4. y = 2 * (y \div 2) + (y % 2)
  BY <1>3
<1>5. y = 2 * (x \div PowerOf2[m + 1]) + (y % 2)
  BY <1>1, <1>2, <1>4
<1> QED
  BY <1>3, <1>5 DEF y, p

\* A number is all its bits: what starts with the bits of a code has its value.
LEMMA BitsDetermine ==
    ASSUME NEW a \in Nat, NEW b \in Nat, a <= b,
           NEW v \in 0 .. PowerOf2[a] - 1, NEW w \in 0 .. PowerOf2[b] - 1,
           \A k \in 1 .. a : Bits(v, a)[k] = Bits(w, b)[k]
    PROVE  w \div PowerOf2[b - a] = v
<1>1. PowerOf2[a] \in Nat \ {0} /\ PowerOf2[b] \in Nat \ {0} /\ v \in Nat /\ w \in Nat
  BY PowersOf2
<1> DEFINE T == {k \in Nat : k <= a => v \div PowerOf2[a - k] = w \div PowerOf2[b - k]}
<1>2. 0 \in T
  <2>1. a - 0 = a /\ b - 0 = b
    OBVIOUS
  <2>2. v \div PowerOf2[a] = 0 /\ w \div PowerOf2[b] = 0
    <3>1. v < PowerOf2[a] /\ w < PowerOf2[b]
      BY <1>1
    <3> QED
      BY <1>1, <3>1, TooSmall
  <2> QED
    BY <2>1, <2>2
<1>3. ASSUME NEW k \in Nat, k \in T PROVE k + 1 \in T
  <2> SUFFICES ASSUME k + 1 <= a
               PROVE  v \div PowerOf2[a - (k + 1)] = w \div PowerOf2[b - (k + 1)]
    OBVIOUS
  <2> DEFINE m == a - (k + 1)
             n == b - (k + 1)
  <2>1. m \in Nat /\ n \in Nat /\ m + 1 = a - k /\ n + 1 = b - k /\ k <= a
        /\ k + 1 \in 1 .. a /\ k + 1 \in 1 .. b
    OBVIOUS
  <2>2. v \div PowerOf2[m + 1] = w \div PowerOf2[n + 1]
    BY <1>3, <2>1
  <2>3. (v \div PowerOf2[m]) % 2 = (w \div PowerOf2[n]) % 2
    <3>1. Bits(v, a)[k + 1] = Bits(w, b)[k + 1]
      BY <2>1
    <3> QED
      BY <2>1, <3>1 DEF Bits
  <2> HIDE DEF m, n
  <2>4. /\ v \div PowerOf2[m] = 2 * (v \div PowerOf2[m + 1]) + ((v \div PowerOf2[m]) % 2)
        /\ w \div PowerOf2[n] = 2 * (w \div PowerOf2[n + 1]) + ((w \div PowerOf2[n]) % 2)
    BY <1>1, <2>1, Halving
  <2>5. v \div PowerOf2[m] = w \div PowerOf2[n]
    BY <2>2, <2>3, <2>4
  <2> QED
    BY <2>5 DEF m, n
<1> HIDE DEF T
<1>4. a \in T
  BY <1>2, <1>3, NatStepwise
<1>5. v \div PowerOf2[a - a] = w \div PowerOf2[b - a]
  BY <1>4 DEF T
<1>6. v \div PowerOf2[a - a] = v
  <2>1. a - a = 0 /\ PowerOf2[0] = 1 /\ v = 1 * v + 0 /\ 0 \in 0 .. 1 - 1 /\ 1 \in Nat \ {0}
    BY PowerNext
  <2>2. v \div 1 = v
    BY ONLY <1>1, <2>1, DivUnique
  <2> QED
    BY <2>1, <2>2
<1> QED
  BY <1>5, <1>6

\* No code begins with another one.
LEMMA PrefixFree ==
    ASSUME NEW lengths \in Lengths, HasPrefixCode(lengths),
           NEW i \in Coded(lengths), NEW j \in Coded(lengths), lengths[i] <= lengths[j],
           \A k \in 1 .. lengths[i] :
              CanonicalCode(lengths, i)[k] = CanonicalCode(lengths, j)[k]
    PROVE  i = j
<1> DEFINE a == lengths[i]
           b == lengths[j]
           v == CodeValue(lengths, i)
           w == CodeValue(lengths, j)
           q == PowerOf2[b - a]
           d == PowerOf2[15 - a]
           e == PowerOf2[15 - b]
           r == w % q
<1>1. a \in 1 .. 15 /\ b \in 1 .. 15 /\ a <= b
  BY CodedTypes
<1>2. v \in 0 .. PowerOf2[a] - 1 /\ w \in 0 .. PowerOf2[b] - 1
  BY ValueFits
<1>3. \A k \in 1 .. a : Bits(v, a)[k] = Bits(w, b)[k]
  BY DEF CanonicalCode, CodeValue
<1>4. Place(lengths, i) = v * d /\ Place(lengths, j) = w * e
  BY ValueIsPlace
<1>5. i \in CodedBefore(lengths, j) => Place(lengths, i) + d <= Place(lengths, j)
  BY PlacesApart
<1>6. j \in CodedBefore(lengths, i) => Place(lengths, j) + e <= Place(lengths, i)
  BY PlacesApart
<1>7. i = j \/ i \in CodedBefore(lengths, j) \/ j \in CodedBefore(lengths, i)
  BY CodesOrdered
<1> HIDE DEF a, b, v, w, q, d, e, r
<1>8. w \div PowerOf2[b - a] = v
  BY <1>1, <1>2, <1>3, BitsDetermine
<1>9. q \in Nat \ {0} /\ e \in Nat \ {0} /\ d = q * e
  <2>1. b - a \in Nat /\ 15 - b \in Nat /\ (b - a) + (15 - b) = 15 - a
    BY <1>1
  <2> QED
    BY <2>1, PowerPlus, PowersOf2 DEF q, d, e
<1>10. v \in Nat /\ w \in Nat
  <2>1. PowerOf2[a] \in Nat /\ PowerOf2[b] \in Nat
    BY <1>1, PowersOf2
  <2> QED
    BY <1>2, <2>1
<1>11. w = q * v + r /\ r \in 0 .. q - 1
  BY <1>8, <1>9, <1>10, NatDivMod DEF q, r
<1>12. w * e = v * d + r * e /\ r * e < d /\ r * e \in Nat /\ v * d \in Nat /\ d \in Nat
  <2>1. r \in Nat /\ q - r \in Nat \ {0}
    BY <1>9, <1>11
  <2>2. d = r * e + (q - r) * e /\ (q - r) * e \in Nat \ {0}
    <3>1. \A x \in Nat \ {0}, y \in Nat \ {0} : x * y \in Nat \ {0}
      OBVIOUS
    <3> QED
      BY <1>9, <2>1, <3>1
  <2>3. r * e \in Nat /\ v * d \in Nat /\ d \in Nat
    BY <1>9, <1>10, <2>1, Products
  <2>4. w * e = v * d + r * e
    BY <1>9, <1>10, <1>11, <2>1
  <2> DEFINE f == (q - r) * e
             g == r * e
  <2>5. g \in Nat /\ f \in Nat \ {0} /\ d = g + f
    BY <2>2, <2>3
  <2> HIDE DEF f, g
  <2>6. g < d
    BY <2>5
  <2> QED
    BY <2>3, <2>4, <2>6 DEF g
<1> DEFINE x == v * d
           y == w * e
           z == r * e
<1>13. y = x + z /\ z < d /\ z \in Nat /\ x \in Nat /\ d \in Nat
  BY <1>12
<1>14. i \in CodedBefore(lengths, j) => x + d <= y
  BY <1>4, <1>5
<1>15. j \in CodedBefore(lengths, i) => y + e <= x
  BY <1>4, <1>6
<1> HIDE DEF x, y, z
<1> QED
  BY <1>7, <1>9, <1>13, <1>14, <1>15

-----------------------------------------------------------------------------
(* generate_codes gives the canonical codes.                               *)

Rank(lengths, i) == Cardinality(CodedBefore(lengths, i))

\* Every symbol with a code has a rank of its own, and every rank its symbol.
LEMMA Ranks ==
    ASSUME NEW lengths \in Lengths
    PROVE  /\ Cardinality(Coded(lengths)) \in Nat
           /\ \A i \in Coded(lengths) : Rank(lengths, i) \in 0 .. Cardinality(Coded(lengths)) - 1
           /\ \A i, j \in Coded(lengths) :
                 i \in CodedBefore(lengths, j) <=> Rank(lengths, i) < Rank(lengths, j)
           /\ \A k \in 0 .. Cardinality(Coded(lengths)) - 1 :
                 \E i \in Coded(lengths) : Rank(lengths, i) = k
<1> DEFINE C == Coded(lengths)
           N == Cardinality(C)
           B(i) == CodedBefore(lengths, i)
           R(i) == Rank(lengths, i)
<1>1. IsFiniteSet(C) /\ N \in Nat
  BY CodedTypes, FS_CardinalityType
<1>2. \A i \in C : B(i) \in SUBSET C /\ i \notin B(i) /\ IsFiniteSet(B(i)) /\ R(i) \in Nat
  BY CodedTypes, FS_CardinalityType DEF Rank
<1>3. ASSUME NEW i \in C PROVE R(i) \in 0 .. N - 1
  <2>1. B(i) \in SUBSET C /\ B(i) # C
    BY <1>2
  <2>2. R(i) <= N /\ R(i) # N
    BY <1>1, <2>1, FS_Subset DEF Rank
  <2> QED
    BY <1>1, <1>2, <2>2
<1>4. ASSUME NEW i \in C, NEW j \in C, i \in B(j) PROVE R(i) < R(j)
  <2>1. B(i) \in SUBSET B(j) /\ B(i) # B(j)
    BY <1>2, <1>4, CodesOrdered
  <2>2. IsFiniteSet(B(j))
    BY <1>2
  <2>3. R(i) <= R(j) /\ R(i) # R(j)
    BY <2>1, <2>2, FS_Subset DEF Rank
  <2> QED
    BY <1>2, <2>3
<1>5. ASSUME NEW i \in C, NEW j \in C, R(i) < R(j) PROVE i \in B(j)
  <2>1. i = j \/ i \in B(j) \/ j \in B(i)
    BY CodesOrdered
  <2> QED
    BY <1>2, <1>4, <1>5, <2>1
<1>6. ASSUME NEW k \in 0 .. N - 1 PROVE \E i \in C : R(i) = k
  <2> DEFINE T == 0 .. N - 1
             f == [i \in C |-> R(i)]
  <2>1. f \in [C -> T]
    BY <1>3
  <2>2. \A i, j \in C : f[i] = f[j] => i = j
    <3> TAKE i, j \in C
    <3>1. i = j \/ i \in B(j) \/ j \in B(i)
      BY CodesOrdered
    <3> QED
      BY <1>2, <1>4, <3>1
  <2>3. f \in Injection(C, T)
    BY <2>1, <2>2 DEF Injection, IsInjective
  <2>4. IsFiniteSet(T) /\ Cardinality(T) = N
    BY <1>1, FS_Interval
  <2> HIDE DEF f, T
  <2>5. f \in Surjection(C, T)
    BY <2>3, <2>4, FS_Injection
  <2>6. \E i \in C : f[i] = k
    BY <2>5 DEF Surjection, T
  <2> QED
    BY <2>6 DEF f
<1> QED
  BY <1>1, <1>3, <1>4, <1>5, <1>6

\* The symbols in the order of their ranks.
LEMMA SortedSymbols ==
    ASSUME NEW lengths \in Lengths
    PROVE  /\ DOMAIN Sorted(lengths) = 1 .. Cardinality(Coded(lengths))
           /\ \A k \in DOMAIN Sorted(lengths) :
                 /\ Sorted(lengths)[k] \in Coded(lengths)
                 /\ Rank(lengths, Sorted(lengths)[k]) = k - 1
           /\ \A i \in Coded(lengths) : \E k \in DOMAIN Sorted(lengths) : Sorted(lengths)[k] = i
<1> DEFINE C == Coded(lengths)
           N == Cardinality(C)
           s == Sorted(lengths)
<1>1. DOMAIN s = 1 .. N
  BY DEF Sorted
<1>2. N \in Nat
  BY Ranks
<1>3. ASSUME NEW k \in 1 .. N PROVE s[k] \in C /\ Rank(lengths, s[k]) = k - 1
  <2>1. k - 1 \in 0 .. N - 1
    BY <1>2
  <2>2. \E i \in C : Cardinality(CodedBefore(lengths, i)) = k - 1
    BY <2>1, Ranks DEF Rank
  <2>3. s[k] = CHOOSE i \in C : Cardinality(CodedBefore(lengths, i)) = k - 1
    BY DEF Sorted
  <2> QED
    BY <2>2, <2>3 DEF Rank
<1>4. ASSUME NEW i \in C PROVE \E k \in 1 .. N : s[k] = i
  <2> DEFINE k == Rank(lengths, i) + 1
  <2>1. Rank(lengths, i) \in 0 .. N - 1
    BY Ranks
  <2>2. k \in 1 .. N /\ k - 1 = Rank(lengths, i)
    BY <1>2, <2>1
  <2> HIDE DEF k
  <2>3. s[k] \in C /\ Rank(lengths, s[k]) = Rank(lengths, i)
    BY <1>3, <2>2
  <2>4. s[k] = i \/ s[k] \in CodedBefore(lengths, i) \/ i \in CodedBefore(lengths, s[k])
    BY <2>3, CodesOrdered
  <2>5. s[k] = i
    <3>1. ~(Rank(lengths, i) < Rank(lengths, i))
      BY <2>1
    <3> QED
      BY <2>3, <2>4, <3>1, Ranks
  <2> QED
    BY <2>2, <2>5
<1> QED
  BY <1>1, <1>3, <1>4

\* The value of a code, from the one before it.
LEMMA NextValue ==
    ASSUME NEW lengths \in Lengths, NEW i \in Coded(lengths), NEW j \in Coded(lengths),
           Rank(lengths, j) = Rank(lengths, i) + 1
    PROVE  CodeValue(lengths, j) =
              (CodeValue(lengths, i) + 1) * PowerOf2[lengths[j] - lengths[i]]
<1> DEFINE B(k) == CodedBefore(lengths, k)
           W == Weights(lengths)
           C == Coded(lengths)
           a == lengths[i]
           b == lengths[j]
           v == CodeValue(lengths, i)
           w == CodeValue(lengths, j)
           q == PowerOf2[b - a]
           e == PowerOf2[15 - b]
<1>1. \A k \in C : Rank(lengths, k) \in Int
  BY Ranks
<1>2. i \in B(j)
  BY <1>1, Ranks
<1>3. B(j) = B(i) \cup {i}
  <2>1. ASSUME NEW k \in B(j) PROVE k \in B(i) \cup {i}
    <3>1. k \in C /\ Rank(lengths, k) < Rank(lengths, j)
      BY CodedTypes, Ranks
    <3>2. k = i \/ k \in B(i) \/ i \in B(k)
      BY <3>1, CodesOrdered
    <3>3. ~(Rank(lengths, i) < Rank(lengths, k))
      BY <1>1, <3>1
    <3> QED
      BY <3>1, <3>2, <3>3, Ranks
  <2>2. ASSUME NEW k \in B(i) PROVE k \in B(j)
    <3>1. k \in C
      BY CodedTypes
    <3> QED
      BY <1>2, <3>1, CodesOrdered
  <2> QED
    BY <1>2, <2>1, <2>2
<1>4. IsFiniteSet(C) /\ (\A x \in C : W[x] \in Nat) /\ B(i) \in SUBSET C /\ i \in C \ B(i)
      /\ W[i] = PowerOf2[15 - a]
  BY CodedTypes
<1>5. Place(lengths, j) = PowerOf2[15 - a] + Place(lengths, i)
  <2> HIDE DEF W, B, C, a
  <2>1. SumOver(W, B(i) \cup {i}) = W[i] + SumOver(W, B(i))
    BY <1>4, SumOne
  <2> QED
    BY <1>3, <1>4, <2>1 DEF Place, W, B
<1>6. v \in Nat /\ w \in Nat /\ Place(lengths, i) = v * PowerOf2[15 - a]
      /\ Place(lengths, j) = w * e
  BY ValueIsPlace
<1>7. a \in 1 .. 15 /\ b \in 1 .. 15 /\ a <= b
  BY <1>2, CodedTypes, CodesOrdered
<1> HIDE DEF a, b, v, w, q, e
<1>8. q \in Nat \ {0} /\ e \in Nat \ {0} /\ PowerOf2[15 - a] = q * e
  <2>1. b - a \in Nat /\ 15 - b \in Nat /\ (b - a) + (15 - b) = 15 - a
    BY <1>7
  <2> QED
    BY <2>1, PowerPlus, PowersOf2 DEF q, e
<1>9. w * e = q * e + v * (q * e)
  BY <1>5, <1>6, <1>8
<1>10. w * e = ((v + 1) * q) * e
  <2>1. ((v + 1) * q) * e = q * e + v * (q * e)
    BY <1>6, <1>8
  <2> QED
    BY <1>9, <2>1
<1>11. w = (v + 1) * q
  <2>1. \A x \in Nat, y \in Nat, z \in Nat \ {0} : x * z = y * z => x = y
    <3> TAKE x \in Nat, y \in Nat, z \in Nat \ {0}
    <3> HAVE x * z = y * z
    <3>1. x * z = z * x + 0 /\ y * z = z * y + 0 /\ 0 \in 0 .. z - 1 /\ x * z \in Int
      OBVIOUS
    <3>2. x = (x * z) \div z /\ y = (y * z) \div z
      BY <3>1, DivUnique
    <3> QED
      BY <3>2
  <2>2. (v + 1) * q \in Nat /\ w \in Nat
    BY <1>6, <1>8, Products
  <2> QED
    BY <1>8, <1>10, <2>1, <2>2
<1> QED
  BY <1>11 DEF v, w, q, a, b

\* The values generate_codes gives in the order of the ranks.
GivesValues(codes, lengths) ==
    codes = [k \in DOMAIN Sorted(lengths) |->
                IF k = 1 THEN 0
                ELSE (codes[k - 1] + 1)
                     * PowerOf2[lengths[Sorted(lengths)[k]] - lengths[Sorted(lengths)[k - 1]]]]
ValuesGiven(lengths) == CHOOSE codes : GivesValues(codes, lengths)

\* The first code is all zeros.
LEMMA FirstValue ==
    ASSUME NEW lengths \in Lengths, NEW i \in Coded(lengths), Rank(lengths, i) = 0
    PROVE  CodeValue(lengths, i) = 0
<1> DEFINE v == CodeValue(lengths, i)
           d == PowerOf2[15 - lengths[i]]
<1>1. CodedBefore(lengths, i) = {}
  <2>1. IsFiniteSet(CodedBefore(lengths, i))
    BY CodedTypes
  <2> QED
    BY <2>1, FS_EmptySet DEF Rank
<1>2. Place(lengths, i) = 0
  <2>1. IsFiniteSet(Coded(lengths)) /\ \A x \in Coded(lengths) : Weights(lengths)[x] \in Nat
    BY CodedTypes
  <2>2. SumOver(Weights(lengths), {}) = 0
    BY <2>1, SumOne
  <2> QED
    BY <1>1, <2>2 DEF Place
<1>3. v \in Nat /\ v * d = 0
  BY <1>2, ValueIsPlace
<1>4. d \in Nat \ {0}
  BY CodedTypes
<1> HIDE DEF v, d
<1>5. v = 0
  <2> SUFFICES ASSUME v # 0 PROVE FALSE
    OBVIOUS
  <2>1. \A x \in Nat \ {0}, y \in Nat \ {0} : x * y # 0
    OBVIOUS
  <2> QED
    BY <1>3, <1>4, <2>1
<1> QED
  BY <1>5 DEF v

\* They are the values of the canonical code.
LEMMA ValuesCanonical ==
    ASSUME NEW lengths \in Lengths
    PROVE  \A k \in DOMAIN Sorted(lengths) :
              ValuesGiven(lengths)[k] = CodeValue(lengths, Sorted(lengths)[k])
<1> DEFINE N == Cardinality(Coded(lengths))
           s == Sorted(lengths)
           g == [k \in DOMAIN s |-> CodeValue(lengths, s[k])]
           c == ValuesGiven(lengths)
<1>1. DOMAIN s = 1 .. N /\ N \in Nat
  BY Ranks, SortedSymbols
<1>2. \A k \in DOMAIN s : s[k] \in Coded(lengths) /\ Rank(lengths, s[k]) = k - 1
  BY SortedSymbols
<1>3. ASSUME NEW k \in DOMAIN s, k = 1 PROVE CodeValue(lengths, s[k]) = 0
  BY <1>2, <1>3, FirstValue
<1>4. ASSUME NEW k \in DOMAIN s, k # 1
      PROVE  /\ k - 1 \in DOMAIN s
             /\ CodeValue(lengths, s[k]) =
                   (CodeValue(lengths, s[k - 1]) + 1)
                   * PowerOf2[lengths[s[k]] - lengths[s[k - 1]]]
  <2>1. k - 1 \in DOMAIN s /\ k - 1 = ((k - 1) - 1) + 1
    BY <1>1, <1>4
  <2>2. Rank(lengths, s[k]) = Rank(lengths, s[k - 1]) + 1
    BY <1>2, <2>1
  <2> HIDE DEF s
  <2> QED
    BY <1>2, <2>1, <2>2, NextValue
<1>5. GivesValues(g, lengths)
  <2>1. \A k \in DOMAIN s : k # 1 => g[k] =
           (g[k - 1] + 1) * PowerOf2[lengths[s[k]] - lengths[s[k - 1]]]
    BY <1>4
  <2>2. \A k \in DOMAIN s : k = 1 => g[k] = 0
    BY <1>3
  <2> QED
    BY <2>1, <2>2 DEF GivesValues
<1>6. GivesValues(c, lengths)
  BY <1>5 DEF ValuesGiven
<1>7. \A k \in DOMAIN s :
         c[k] = IF k = 1 THEN 0
                ELSE (c[k - 1] + 1) * PowerOf2[lengths[s[k]] - lengths[s[k - 1]]]
  BY <1>6 DEF GivesValues
<1> HIDE DEF c, s, g
<1> DEFINE T == {k \in Nat : k \in DOMAIN s => c[k] = CodeValue(lengths, s[k])}
<1>8. 0 \in T
  BY <1>1
<1>9. ASSUME NEW k \in Nat, k \in T PROVE k + 1 \in T
  <2> SUFFICES ASSUME k + 1 \in DOMAIN s PROVE c[k + 1] = CodeValue(lengths, s[k + 1])
    OBVIOUS
  <2>1. CASE k = 0
    <3>1. k + 1 = 1
      BY <2>1
    <3> QED
      BY <1>3, <1>7, <3>1
  <2>2. CASE k # 0
    <3>1. (k + 1) - 1 = k /\ k + 1 # 1
      BY <2>2
    <3>2. k \in DOMAIN s
      BY <1>4, <3>1
    <3>3. c[k] = CodeValue(lengths, s[k])
      BY <1>9, <3>2
    <3>4. c[k + 1] = (c[k] + 1) * PowerOf2[lengths[s[k + 1]] - lengths[s[k]]]
      BY <1>7, <3>1
    <3>5. CodeValue(lengths, s[k + 1]) =
             (CodeValue(lengths, s[k]) + 1) * PowerOf2[lengths[s[k + 1]] - lengths[s[k]]]
      BY <1>4, <3>1
    <3> QED
      BY <3>3, <3>4, <3>5
  <2> QED
    BY <2>1, <2>2
<1> HIDE DEF T
<1>10. \A k \in Nat : k \in T
  BY <1>8, <1>9, NatStepwise
<1> QED
  BY <1>1, <1>10 DEF T, s, c

\* Every symbol with a code gets the canonical one.
LEMMA CodesGenerated ==
    ASSUME NEW lengths \in Lengths
    PROVE  GenerateCodes(lengths) =
              {<<CanonicalCode(lengths, i), i - 1>> : i \in Coded(lengths)}
<1> DEFINE s == Sorted(lengths)
<1>1. GenerateCodes(lengths) =
         {<<Bits(ValuesGiven(lengths)[k], lengths[s[k]]), s[k] - 1>> : k \in DOMAIN s}
  BY DEF GenerateCodes, ValuesGiven, GivesValues
<1>2. \A k \in DOMAIN s :
         Bits(ValuesGiven(lengths)[k], lengths[s[k]]) = CanonicalCode(lengths, s[k])
  <2> TAKE k \in DOMAIN s
  <2>1. ValuesGiven(lengths)[k] = CodeValue(lengths, s[k])
    BY ValuesCanonical
  <2> QED
    BY <2>1 DEF CanonicalCode, CodeValue
<1>3. /\ \A k \in DOMAIN s : s[k] \in Coded(lengths)
      /\ \A i \in Coded(lengths) : \E k \in DOMAIN s : s[k] = i
  BY SortedSymbols
<1> HIDE DEF s
<1> QED
  BY <1>1, <1>2, <1>3

-----------------------------------------------------------------------------
(* The tree of the codes.                                                  *)

\* Four bits give a length of at most 15.
LEMMA LengthsInBytes ==
    ASSUME NEW bytes \in Seq(Bytes)
    PROVE  DecompressEncodeArray(bytes) \in Lengths
<1> DEFINE L == DecompressEncodeArray(bytes)
<1>1. Len(bytes) \in Nat /\ \A i \in 1 .. Len(bytes) : bytes[i] \in 0 .. 255
  <2>1. Len(bytes) \in Nat /\ \A i \in 1 .. Len(bytes) : bytes[i] \in Bytes
    OBVIOUS
  <2> QED
    BY <2>1 DEF Bytes
<1>2. \A b \in 0 .. 255 : b % 16 \in 0 .. 15 /\ (b \div 16) % 16 \in 0 .. 15
  OBVIOUS
<1>3. ASSUME NEW i \in 1 .. 2 * Len(bytes) PROVE L[i] \in 0 .. 15
  <2>1. CASE i % 2 = 1
    <3>1. (i + 1) \div 2 \in 1 .. Len(bytes)
      BY <1>1, <2>1
    <3> QED
      BY <1>1, <1>2, <2>1, <3>1, ZenonT(60) DEF DecompressEncodeArray
  <2>2. CASE i % 2 # 1
    <3>1. i \div 2 \in 1 .. Len(bytes)
      BY <1>1, <2>2
    <3> QED
      BY <1>1, <1>2, <2>2, <3>1 DEF DecompressEncodeArray
  <2> QED
    BY <2>1, <2>2
<1>4. L = [i \in 1 .. 2 * Len(bytes) |-> L[i]] /\ 2 * Len(bytes) \in Nat
  BY <1>1 DEF DecompressEncodeArray
<1> HIDE DEF L
<1>5. L \in Seq(0 .. 15)
  BY <1>3, <1>4
<1> QED
  BY <1>5 DEF L, Lengths

\* A canonical code has as many bits as its length says.
LEMMA CodeTypes ==
    ASSUME NEW lengths \in Lengths, NEW i \in Coded(lengths)
    PROVE  /\ CanonicalCode(lengths, i) \in Seq({0, 1})
           /\ Len(CanonicalCode(lengths, i)) = lengths[i]
           /\ DOMAIN CanonicalCode(lengths, i) = 1 .. lengths[i]
           /\ lengths[i] \in 1 .. 15
<1> DEFINE v == CodeValue(lengths, i)
           n == lengths[i]
           c == CanonicalCode(lengths, i)
<1>1. n \in 1 .. 15 /\ v \in Nat
  BY CodedTypes, ValueIsPlace
<1>2. c = [k \in 1 .. n |-> (v \div PowerOf2[n - k]) % 2]
  BY DEF CanonicalCode, CodeValue, Bits
<1> HIDE DEF v, n, c
<1>3. \A k \in 1 .. n : (v \div PowerOf2[n - k]) % 2 \in {0, 1}
  <2> TAKE k \in 1 .. n
  <2>1. n - k \in Nat
    BY <1>1
  <2>2. v \div PowerOf2[n - k] \in Nat
    BY <1>1, <2>1, Halving
  <2> QED
    BY <2>2
<1>4. c \in Seq({0, 1}) /\ Len(c) = n /\ DOMAIN c = 1 .. n
  <2>1. c \in [1 .. n -> {0, 1}] /\ n \in Nat
    BY <1>1, <1>2, <1>3
  <2> QED
    BY <2>1
<1> QED
  BY <1>1, <1>4 DEF n, c

\* The nodes of the tree are the beginnings of the codes, its leaves the codes.
Beginnings(code) == {SubSeq(code, 1, k) : k \in 0 .. Len(code)}
IsTreeOf(tree, lengths) ==
    /\ <<>> \in tree.nodes /\ ~IsLeaf(tree, <<>>)
    /\ \A i \in Coded(lengths) :
          /\ tree.symbol[CanonicalCode(lengths, i)] = i - 1
          /\ \A k \in 0 .. lengths[i] :
                /\ SubSeq(CanonicalCode(lengths, i), 1, k) \in tree.nodes
                /\ IsLeaf(tree, SubSeq(CanonicalCode(lengths, i), 1, k)) <=> k = lengths[i]
HasNodes(tree, lengths) ==
    /\ tree.nodes = {<<>>} \cup UNION {Beginnings(CanonicalCode(lengths, i)) : i \in Coded(lengths)}
    /\ \A i \in Coded(lengths) :
          CanonicalCode(lengths, i) \in tree.nodes =>
             tree.symbol[CanonicalCode(lengths, i)] = i - 1

\* The nodes and symbols of the tree BuildHuffmanTree makes.
LEMMA TreeOfCodes ==
    ASSUME NEW bytes \in Seq(Bytes), HasPrefixCode(DecompressEncodeArray(bytes))
    PROVE  HasNodes(BuildHuffmanTree(bytes), DecompressEncodeArray(bytes))
<1> DEFINE lengths == DecompressEncodeArray(bytes)
           tree == BuildHuffmanTree(bytes)
           codes == {<<CanonicalCode(lengths, i), i - 1>> : i \in Coded(lengths)}
           Ends(node) == {c \in codes : c[1] = node}
           Code(i) == CanonicalCode(lengths, i)
<1>1. lengths \in Lengths /\ HasPrefixCode(lengths)
  BY LengthsInBytes
<1>2. GenerateCodes(lengths) = codes
  BY <1>1, CodesGenerated
<1>3. tree.nodes = {<<>>} \cup UNION {Beginnings(Code(i)) : i \in Coded(lengths)}
  <2>1. tree.nodes = {<<>>} \cup UNION {Beginnings(c[1]) : c \in codes}
    BY <1>2 DEF BuildHuffmanTree, Beginnings
  <2>2. {Beginnings(c[1]) : c \in codes} = {Beginnings(Code(i)) : i \in Coded(lengths)}
    <3> DEFINE Pair(i) == <<Code(i), i - 1>>
    <3>1. \A i \in Coded(lengths) : Pair(i)[1] = Code(i)
      OBVIOUS
    <3>3. codes = {Pair(i) : i \in Coded(lengths)}
      OBVIOUS
    <3> HIDE DEF Code, lengths, Pair, codes
    <3>2. /\ \A c \in codes : \E i \in Coded(lengths) : c[1] = Code(i)
          /\ \A i \in Coded(lengths) : \E c \in codes : c[1] = Code(i)
      BY <3>1, <3>3
    <3> QED
      BY <3>2
  <2> QED
    BY <2>1, <2>2
<1>4. \A node \in tree.nodes :
         tree.symbol[node] =
            IF Ends(node) = {} THEN 0 ELSE (CHOOSE c \in Ends(node) : TRUE)[2]
  BY <1>2 DEF BuildHuffmanTree
<1>5. ASSUME NEW i \in Coded(lengths), Code(i) \in tree.nodes
      PROVE  tree.symbol[Code(i)] = i - 1
  <2>1. Ends(Code(i)) = {<<Code(i), i - 1>>}
    <3>1. ASSUME NEW j \in Coded(lengths), Code(j) = Code(i) PROVE j = i
      <4>1. lengths[i] = lengths[j]
        BY <1>1, <3>1, CodeTypes
      <4>2. lengths[i] <= lengths[j]
        BY <1>1, <4>1, CodeTypes
      <4> HIDE DEF lengths
      <4> QED
        BY <1>1, <3>1, <4>2, PrefixFree
    <3>2. \A c \in codes : c[1] = Code(i) => c = <<Code(i), i - 1>>
      <4> TAKE c \in codes
      <4>1. PICK j \in Coded(lengths) : c = <<Code(j), j - 1>>
        OBVIOUS
      <4> HIDE DEF lengths, Code
      <4> QED
        BY <3>1, <4>1
    <3>3. <<Code(i), i - 1>> \in codes
      OBVIOUS
    <3> HIDE DEF codes, Code, lengths
    <3> QED
      BY <3>2, <3>3
  <2> DEFINE x == <<Code(i), i - 1>>
  <2>2. (CHOOSE c \in {x} : TRUE) = x
    OBVIOUS
  <2>3. Ends(Code(i)) = {x} /\ {x} # {}
    BY <2>1
  <2>4. x[2] = i - 1
    OBVIOUS
  <2> HIDE DEF Ends, Code, x, lengths, tree, codes
  <2> QED
    BY <1>4, <1>5, <2>2, <2>3, <2>4
<1> QED
  BY <1>3, <1>5 DEF HasNodes

\* A beginning of a code and the next bit.
LEMMA CodeBeginnings ==
    ASSUME NEW code \in Seq({0, 1}), NEW k \in 0 .. Len(code)
    PROVE  /\ SubSeq(code, 1, k) \in Seq({0, 1}) /\ Len(SubSeq(code, 1, k)) = k
           /\ \A m \in 1 .. k : SubSeq(code, 1, k)[m] = code[m]
           /\ k = Len(code) => SubSeq(code, 1, k) = code
           /\ k < Len(code) =>
                 /\ Append(SubSeq(code, 1, k), code[k + 1]) = SubSeq(code, 1, k + 1)
                 /\ code[k + 1] \in {0, 1}
<1>1. Len(code) \in Nat /\ k \in Nat
  OBVIOUS
<1>2. SubSeq(code, 1, k) \in Seq({0, 1}) /\ Len(SubSeq(code, 1, k)) = k
      /\ \A m \in 1 .. k : SubSeq(code, 1, k)[m] = code[m]
  BY Beginning
<1>3. ASSUME k = Len(code) PROVE SubSeq(code, 1, k) = code
  BY <1>3, SubSeqFull
<1>4. ASSUME k < Len(code)
      PROVE  /\ Append(SubSeq(code, 1, k), code[k + 1]) = SubSeq(code, 1, k + 1)
             /\ code[k + 1] \in {0, 1}
  <2>1. k + 1 \in 1 .. Len(code)
    BY <1>1, <1>4
  <2>2. code[k + 1] \in {0, 1}
    BY <2>1
  <2> DEFINE a == SubSeq(code, 1, k)
             b == SubSeq(code, 1, k + 1)
  <2>3. b \in Seq({0, 1}) /\ Len(b) = k + 1 /\ \A m \in 1 .. k + 1 : b[m] = code[m]
    <3>1. k + 1 \in 0 .. Len(code)
      BY <2>1
    <3> QED
      BY <3>1, Beginning
  <2> HIDE DEF a, b
  <2>4. Append(a, code[k + 1]) \in Seq({0, 1}) /\ Len(Append(a, code[k + 1])) = k + 1
        /\ \A m \in 1 .. k + 1 :
              Append(a, code[k + 1])[m] = IF m = k + 1 THEN code[k + 1] ELSE a[m]
    <3>1. a \in Seq({0, 1}) /\ Len(a) = k
      BY <1>2 DEF a
    <3> QED
      BY <2>2, <3>1
  <2>5. \A m \in 1 .. k + 1 : Append(a, code[k + 1])[m] = b[m]
    <3> TAKE m \in 1 .. k + 1
    <3>1. CASE m = k + 1
      BY <2>3, <2>4, <3>1
    <3>2. CASE m # k + 1
      <4>1. m \in 1 .. k
        BY <1>1, <3>2
      <4> QED
        BY <1>2, <2>3, <2>4, <3>2, <4>1 DEF a
    <3> QED
      BY <3>1, <3>2
  <2>6. Append(a, code[k + 1]) = b
    BY <2>3, <2>4, <2>5, SeqEqual
  <2> QED
    BY <2>2, <2>6 DEF a, b
<1> QED
  BY <1>2, <1>3, <1>4

\* In it a code leads to a leaf, and no beginning of the code is one.
LEMMA TreeBuilt ==
    ASSUME NEW bytes \in Seq(Bytes), HasPrefixCode(DecompressEncodeArray(bytes))
    PROVE  IsTreeOf(BuildHuffmanTree(bytes), DecompressEncodeArray(bytes))
<1> DEFINE lengths == DecompressEncodeArray(bytes)
           tree == BuildHuffmanTree(bytes)
           Code(i) == CanonicalCode(lengths, i)
<1>1. lengths \in Lengths /\ HasPrefixCode(lengths) /\ HasNodes(tree, lengths)
  BY LengthsInBytes, TreeOfCodes
<1> HIDE DEF lengths, tree
<1>2. \A i \in Coded(lengths) : Code(i) \in Seq({0, 1}) /\ Len(Code(i)) = lengths[i]
                               /\ lengths[i] \in 1 .. 15
  BY <1>1, CodeTypes
<1>3. ASSUME NEW i \in Coded(lengths), NEW k \in 0 .. lengths[i]
      PROVE  SubSeq(Code(i), 1, k) \in tree.nodes
  <2>1. SubSeq(Code(i), 1, k) \in Beginnings(Code(i))
    BY <1>2 DEF Beginnings
  <2> HIDE DEF Code
  <2> QED
    BY <1>1, <2>1 DEF HasNodes, Code
<1>4. ASSUME NEW node \in tree.nodes
      PROVE  node = <<>> \/ \E j \in Coded(lengths) : \E m \in 0 .. lengths[j] :
                               node = SubSeq(Code(j), 1, m)
  <2>1. node = <<>> \/ \E j \in Coded(lengths) : node \in Beginnings(Code(j))
    BY <1>1 DEF HasNodes
  <2> HIDE DEF Code
  <2> QED
    BY <1>2, <2>1 DEF Beginnings
<1>5. ASSUME NEW i \in Coded(lengths), NEW k \in 0 .. lengths[i], k < lengths[i]
      PROVE  ~IsLeaf(tree, SubSeq(Code(i), 1, k))
  <2>1. k + 1 \in 0 .. lengths[i]
    BY <1>2, <1>5
  <2>2. SubSeq(Code(i), 1, k + 1) \in tree.nodes
    BY <1>3, <2>1
  <2> HIDE DEF Code
  <2>3. Append(SubSeq(Code(i), 1, k), Code(i)[k + 1]) = SubSeq(Code(i), 1, k + 1)
        /\ Code(i)[k + 1] \in {0, 1}
    BY <1>2, <1>5, CodeBeginnings
  <2> QED
    BY <2>2, <2>3 DEF IsLeaf
<1>6. ASSUME NEW i \in Coded(lengths) PROVE IsLeaf(tree, Code(i))
  <2> SUFFICES ASSUME NEW b \in {0, 1}, Append(Code(i), b) \in tree.nodes PROVE FALSE
    BY DEF IsLeaf
  <2> DEFINE c == Code(i)
             n == lengths[i]
             a == Append(c, b)
  <2>1. a \in Seq({0, 1}) /\ Len(a) = n + 1 /\ (\A k \in 1 .. n : a[k] = c[k]) /\ n \in 1 .. 15
    <3>1. c \in Seq({0, 1}) /\ Len(c) = n /\ n \in 1 .. 15
      BY <1>2
    <3> HIDE DEF c, n
    <3> QED
      BY <3>1
  <2>2. a # <<>>
    <3> HIDE DEF a, n
    <3> QED
      BY <2>1
  <2>3. PICK j \in Coded(lengths) : \E m \in 0 .. lengths[j] : a = SubSeq(Code(j), 1, m)
    BY <1>4, <2>2
  <2>9. PICK m \in 0 .. lengths[j] : a = SubSeq(Code(j), 1, m)
    BY <2>3
  <2> HIDE DEF Code, c, n, a
  <2>4. Len(SubSeq(Code(j), 1, m)) = m
        /\ \A k \in 1 .. m : SubSeq(Code(j), 1, m)[k] = Code(j)[k]
    BY <1>2, CodeBeginnings
  <2>5. m = n + 1 /\ lengths[j] \in 1 .. 15
    BY <1>2, <2>1, <2>9, <2>4
  <2>6. \A k \in 1 .. n : c[k] = Code(j)[k]
    <3> TAKE k \in 1 .. n
    <3>1. k \in 1 .. m
      BY <2>1, <2>5
    <3> QED
      BY <2>1, <2>9, <2>4, <3>1
  <2>7. n <= lengths[j]
    BY <2>1, <2>5
  <2>8. i = j
    <3>1. \A k \in 1 .. lengths[i] :
             CanonicalCode(lengths, i)[k] = CanonicalCode(lengths, j)[k]
      BY <2>6 DEF c, n, Code
    <3>2. lengths[i] <= lengths[j]
      BY <2>7 DEF n
    <3> QED
      BY <1>1, <3>1, <3>2, PrefixFree
  <2> QED
    BY <2>1, <2>5, <2>8 DEF n
<1>7. \A i \in Coded(lengths) : SubSeq(Code(i), 1, lengths[i]) = Code(i)
  <2> TAKE i \in Coded(lengths)
  <2>1. Code(i) \in Seq({0, 1}) /\ lengths[i] = Len(Code(i)) /\ Len(Code(i)) \in 0 .. Len(Code(i))
    BY <1>2
  <2> HIDE DEF Code
  <2> QED
    BY <2>1, CodeBeginnings
<1>8. ASSUME NEW i \in Coded(lengths)
      PROVE  /\ tree.symbol[Code(i)] = i - 1
             /\ \A k \in 0 .. lengths[i] :
                   /\ SubSeq(Code(i), 1, k) \in tree.nodes
                   /\ IsLeaf(tree, SubSeq(Code(i), 1, k)) <=> k = lengths[i]
  <2>1. lengths[i] \in 0 .. lengths[i] /\ lengths[i] \in 1 .. 15
    BY <1>2
  <2>2. Code(i) \in tree.nodes
    BY <1>3, <1>7, <2>1
  <2>3. tree.symbol[Code(i)] = i - 1
    BY <1>1, <2>2 DEF HasNodes
  <2>4. ASSUME NEW k \in 0 .. lengths[i]
        PROVE  IsLeaf(tree, SubSeq(Code(i), 1, k)) <=> k = lengths[i]
    <3>1. CASE k = lengths[i]
      BY <1>6, <1>7, <3>1
    <3>2. CASE k # lengths[i]
      BY <1>5, <2>1, <3>2
    <3> QED
      BY <3>1, <3>2
  <2> QED
    BY <1>3, <2>3, <2>4
<1>9. <<>> \in tree.nodes /\ ~IsLeaf(tree, <<>>)
  <2>1. PICK i \in Coded(lengths) : TRUE
    BY <1>1 DEF HasPrefixCode
  <2>2. 0 \in 0 .. lengths[i] /\ 0 < lengths[i]
    BY <1>2, SMTT(60)
  <2>3. SubSeq(Code(i), 1, 0) = <<>>
    BY <1>2, SubSeqEmpty
  <2> QED
    BY <1>3, <1>5, <2>2, <2>3
<1> QED
  BY <1>8, <1>9 DEF IsTreeOf, lengths, tree

-----------------------------------------------------------------------------
(* Bits and characters in bytes.                                           *)

\* The number of bytes.
LEMMA EighthPower == PowerOf2[8] = 256
<1>1. PowerOf2[1] = 2 /\ PowerOf2[2] = 4 /\ PowerOf2[3] = 8 /\ PowerOf2[4] = 16
  <2>1. PowerOf2[0 + 1] = 2 * PowerOf2[0] /\ PowerOf2[1 + 1] = 2 * PowerOf2[1]
        /\ PowerOf2[2 + 1] = 2 * PowerOf2[2] /\ PowerOf2[3 + 1] = 2 * PowerOf2[3]
    BY PowerNext
  <2>2. 0 + 1 = 1 /\ 1 + 1 = 2 /\ 2 + 1 = 3 /\ 3 + 1 = 4
    OBVIOUS
  <2>3. PowerOf2[0] = 1
    BY PowerNext
  <2> QED
    BY ONLY <2>1, <2>2, <2>3
<1>2. PowerOf2[4 + 4] = PowerOf2[4] * PowerOf2[4]
  BY PowerPlus
<1>3. 4 + 4 = 8 /\ 16 * 16 = 256
  OBVIOUS
<1> QED
  BY ONLY <1>1, <1>2, <1>3

\* Bits from the eighth on are bits of the high byte.
LEMMA HighByte ==
    ASSUME NEW low \in Bytes, NEW high \in Bytes, NEW m \in Nat
    PROVE  (low + 256 * high) \div PowerOf2[8 + m] = high \div PowerOf2[m]
<1> DEFINE w == low + 256 * high
           p == PowerOf2[m]
<1>1. low \in 0 .. 256 - 1 /\ high \in Nat /\ w \in Nat /\ w = 256 * high + low
  BY DEF Bytes
<1>2. p \in Nat \ {0} /\ PowerOf2[8 + m] = 256 * p
  <2>1. PowerOf2[8 + m] = PowerOf2[8] * PowerOf2[m]
    BY PowerPlus
  <2> QED
    BY <2>1, EighthPower, PowersOf2
<1> HIDE DEF w, p
<1>3. w \div 256 = high
  BY <1>1, DivUnique
<1>4. w \div (256 * p) = (w \div 256) \div p
  BY <1>1, <1>2, DivDiv
<1> QED
  BY <1>2, <1>3, <1>4 DEF w, p

\* Bits below are bits of the low byte.
LEMMA LowByte ==
    ASSUME NEW low \in Bytes, NEW high \in Bytes, NEW m \in 0 .. 7
    PROVE  ((low + 256 * high) \div PowerOf2[m]) % 2 = (low \div PowerOf2[m]) % 2
<1> DEFINE w == low + 256 * high
           p == PowerOf2[m]
           t == PowerOf2[7 - m]
           x == low \div p
           y == low % p
           u == t * high
<1>1. low \in Nat /\ high \in Nat /\ m \in Nat /\ 7 - m \in Nat /\ m + (7 - m) = 7
      /\ (m + (7 - m)) + 1 = 8
  BY DEF Bytes
<1>2. p \in Nat \ {0} /\ t \in Nat \ {0} /\ 256 = 2 * (p * t)
  <2>1. PowerOf2[m + (7 - m)] = PowerOf2[m] * PowerOf2[7 - m]
    BY <1>1, PowerPlus
  <2>2. PowerOf2[7 + 1] = 2 * PowerOf2[7] /\ 7 + 1 = 8
    BY PowerNext
  <2>3. PowerOf2[8] = 2 * PowerOf2[7]
    BY <2>2
  <2> QED
    BY <1>1, <2>1, <2>3, EighthPower, PowersOf2
<1> HIDE DEF p, t
<1>3. x \in Nat /\ y \in 0 .. p - 1 /\ low = p * x + y
  BY <1>1, <1>2, NatDivMod, ZenonT(60)
<1>4. u \in Nat
  BY <1>1, <1>2, Products
<1>5. w = p * (x + 2 * u) + y
  <2>1. 256 * high = p * (2 * u)
    BY <1>1, <1>2
  <2>2. p * (x + 2 * u) = p * x + p * (2 * u)
    BY <1>2, <1>3, <1>4
  <2> HIDE DEF x, y, u
  <2> DEFINE a == p * x
             b == p * (2 * u)
             d == p * (x + 2 * u)
             e == 256 * high
  <2>3. low = a + y /\ e = b /\ d = a + b /\ w = low + e /\ a \in Nat /\ b \in Nat /\ y \in Int
    <3>1. a \in Nat /\ b \in Nat
      BY <1>2, <1>3, <1>4, Products
    <3>2. y \in Int
      BY <1>2, <1>3
    <3> QED
      BY <1>3, <2>1, <2>2, <3>1, <3>2
  <2> HIDE DEF a, b, d, e, w
  <2>4. w = d + y
    BY <2>3
  <2> QED
    BY <2>4 DEF d
<1> HIDE DEF x, y, u
<1>6. w \div p = x + 2 * u
  <2>1. w \in Int /\ x + 2 * u \in Int
    <3>1. w \in Int
      BY <1>1
    <3> QED
      BY <1>3, <1>4, <3>1
  <2> HIDE DEF w
  <2> QED
    BY <1>2, <1>3, <1>5, <2>1, DivUnique
<1>7. (x + 2 * u) % 2 = x % 2
  BY <1>3, <1>4
<1> QED
  BY <1>6, <1>7 DEF x, p

\* Swapping bytes and counting bits from the highest finds the stored bit.
LEMMA BitStored ==
    ASSUME NEW buffer \in Seq(Bytes), Len(buffer) % 2 = 0,
           NEW position \in 0 .. 8 * Len(buffer) - 1
    PROVE  BitAt(buffer, position) = StoredBit(buffer, position)
<1> DEFINE q == position \div 16
           r == position % 16
           low == buffer[2 * q + 1]
           high == buffer[2 * q + 2]
<1>1. q \in Nat /\ r \in 0 .. 15 /\ position = 16 * q + r /\ 2 * q + 2 <= Len(buffer)
      /\ Len(buffer) \in Nat
  <2>1. Len(buffer) \in Nat
    OBVIOUS
  <2> QED
    BY <2>1
<1> HIDE DEF q, r
<1>2. low \in Bytes /\ high \in Bytes
  <2>1. 2 * q + 1 \in 1 .. Len(buffer) /\ 2 * q + 2 \in 1 .. Len(buffer)
    BY <1>1
  <2> QED
    BY <2>1
<1>3. StoredBit(buffer, position) = ((low + 256 * high) \div PowerOf2[15 - r]) % 2
  <2>1. (2 * q + 1) + 1 = 2 * q + 2
    BY <1>1
  <2> QED
    BY <2>1 DEF StoredBit, q, r
<1>4. CASE r < 8
  <2>1. position \div 8 = 2 * q /\ position % 8 = r
    <3>1. position = 8 * (2 * q) + r /\ r \in 0 .. 8 - 1 /\ 2 * q \in Int /\ position \in Int
      BY <1>1, <1>4
    <3> DEFINE a == 2 * q
    <3>2. position = 8 * a + r /\ r \in 0 .. 8 - 1 /\ a \in Int /\ position \in Int
      BY <3>1
    <3> HIDE DEF a
    <3>3. position \div 8 = a /\ position % 8 = r
      BY ONLY <3>2, DivUnique
    <3> QED
      BY <3>3 DEF a
  <2>2. (2 * q) % 2 = 0 /\ (2 * q + 1) + 1 = 2 * q + 2 /\ 7 - r \in Nat /\ 8 + (7 - r) = 15 - r
    BY <1>1, <1>4
  <2>3. BitAt(buffer, position) = (high \div PowerOf2[7 - r]) % 2
    BY <2>1, <2>2 DEF BitAt
  <2>4. (low + 256 * high) \div PowerOf2[15 - r] = high \div PowerOf2[7 - r]
    <3> DEFINE m == 7 - r
    <3>1. m \in Nat /\ 15 - r = 8 + m
      BY <2>2
    <3> HIDE DEF m, low, high
    <3>2. (low + 256 * high) \div PowerOf2[8 + m] = high \div PowerOf2[m]
      BY <1>2, <3>1, HighByte
    <3> QED
      BY <3>1, <3>2 DEF m
  <2> QED
    BY <1>3, <2>3, <2>4
<1>5. CASE ~(r < 8)
  <2>1. position \div 8 = 2 * q + 1 /\ position % 8 = r - 8
    <3>1. position = 8 * (2 * q + 1) + (r - 8) /\ r - 8 \in 0 .. 8 - 1 /\ 2 * q + 1 \in Int
          /\ position \in Int
      BY <1>1, <1>5
    <3> DEFINE a == 2 * q + 1
               b == r - 8
    <3>2. position = 8 * a + b /\ b \in 0 .. 8 - 1 /\ a \in Int /\ position \in Int
      BY <3>1
    <3> HIDE DEF a, b
    <3>3. position \div 8 = a /\ position % 8 = b
      BY ONLY <3>2, DivUnique
    <3> QED
      BY <3>3 DEF a, b
  <2>2. (2 * q + 1) % 2 # 0 /\ ((2 * q + 1) - 1) + 1 = 2 * q + 1 /\ 15 - r \in 0 .. 7
        /\ 7 - (r - 8) = 15 - r
    BY <1>1, <1>5
  <2>3. BitAt(buffer, position) = (low \div PowerOf2[15 - r]) % 2
    BY <2>1, <2>2 DEF BitAt
  <2>4. ((low + 256 * high) \div PowerOf2[15 - r]) % 2 = (low \div PowerOf2[15 - r]) % 2
    BY <1>2, <2>2, LowByte
  <2> QED
    BY <1>3, <2>3, <2>4
<1> QED
  BY <1>4, <1>5

\* ISO 8859-1 is the beginning of Unicode.
LEMMA SymbolsInUtf8 ==
    ASSUME NEW c \in Bytes
    PROVE  /\ Iso88591ToUtf8(c) = Utf8(c) /\ Utf8(c) \in Seq(Nat)
<1>1. c \in 0 .. 255
  BY DEF Bytes
<1>2. CASE c < 128
  <2>1. ~(c >= 128)
    BY <1>1, <1>2
  <2> QED
    BY <1>1, <1>2, <2>1 DEF Iso88591ToUtf8, Utf8
<1>3. CASE ~(c < 128)
  <2> DEFINE a == 194 + (IF c > 191 THEN 1 ELSE 0)
             b == (c % 64) + 128
             d == 192 + (c \div 64)
             e == 128 + (c % 64)
  <2>1. a = d /\ b = e /\ d \in Nat /\ e \in Nat
    BY <1>1, <1>3
  <2>2. Iso88591ToUtf8(c) = <<a, b>> /\ Utf8(c) = <<d, e>>
    BY <1>1, <1>3 DEF Iso88591ToUtf8, Utf8
  <2> HIDE DEF a, b, d, e
  <2>3. <<d, e>> \in Seq(Nat)
    BY <2>1
  <2> QED
    BY <2>1, <2>2, <2>3
<1> QED
  BY <1>2, <1>3

-----------------------------------------------------------------------------
(* The loop over the bits of a text.                                       *)

\* One step of the loop: what was found is taken, then a bit is followed.
DecodeStates == [node : Seq({0, 1}), text : Seq(Nat)]
HasSymbols(tree) == \A node \in tree.nodes : tree.symbol[node] \in Nat

Taken(tree, acc) ==
    IF acc.node \in tree.nodes /\ IsLeaf(tree, acc.node)
    THEN [acc EXCEPT !.text = @ \o Iso88591ToUtf8(tree.symbol[acc.node]), !.node = <<>>]
    ELSE acc
Followed(tree, acc, bit) == [Taken(tree, acc) EXCEPT !.node = Append(@, bit)]
FollowBits(buffer, tree, base, positions) ==
    FoldLeft(LAMBDA acc, position : Followed(tree, acc, BitAt(buffer, position)),
             base, positions)

\* DecodeSubstring is this loop.
LEMMA DecodedByBits ==
    ASSUME NEW buffer, NEW tree, NEW start, NEW end
    PROVE  DecodeSubstring(buffer, tree, start, end) =
              IF FollowBits(buffer, tree, [node |-> <<>>, text |-> <<>>],
                            [i \in 1 .. end - start |-> start + i - 1]).node \in tree.nodes
              THEN Right(Taken(tree, FollowBits(buffer, tree, [node |-> <<>>, text |-> <<>>],
                                        [i \in 1 .. end - start |-> start + i - 1])).text)
              ELSE Wrong
  BY DEF DecodeSubstring, FollowBits, Followed, Taken

\* At a leaf the symbol goes to the text, and the root is next.
LEMMA TakenLeaf ==
    ASSUME NEW tree, HasSymbols(tree), NEW acc \in DecodeStates,
           acc.node \in tree.nodes, IsLeaf(tree, acc.node)
    PROVE  /\ Taken(tree, acc) \in DecodeStates /\ Taken(tree, acc).node = <<>>
           /\ Taken(tree, acc).text = acc.text \o Iso88591ToUtf8(tree.symbol[acc.node])
<1> DEFINE more == Iso88591ToUtf8(tree.symbol[acc.node])
<1>1. tree.symbol[acc.node] \in Nat
  BY DEF HasSymbols
<1>2. \A c \in Nat : Iso88591ToUtf8(c) \in Seq(Nat)
  <2> TAKE c \in Nat
  <2> DEFINE a == 194 + (IF c > 191 THEN 1 ELSE 0)
             b == (c % 64) + 128
  <2>1. a \in Nat /\ b \in Nat
    OBVIOUS
  <2>2. Iso88591ToUtf8(c) = IF c >= 128 THEN <<a, b>> ELSE <<c>>
    BY DEF Iso88591ToUtf8
  <2> HIDE DEF a, b
  <2> QED
    BY <2>1, <2>2
<1>3. more \in Seq(Nat)
  BY <1>1, <1>2
<1>4. acc.text \in Seq(Nat) /\ <<>> \in Seq({0, 1})
  BY DEF DecodeStates
<1>5. Taken(tree, acc) = [acc EXCEPT !.text = @ \o more, !.node = <<>>]
  BY DEF Taken
<1> HIDE DEF more
<1>6. acc.text \o more \in Seq(Nat)
  BY <1>3, <1>4, ConcatProperties
<1> QED
  BY <1>4, <1>5, <1>6 DEF DecodeStates, more

\* A bit leads from a leaf to below the root, from any other node further.
LEMMA FollowedFrom ==
    ASSUME NEW tree, HasSymbols(tree), NEW acc \in DecodeStates, NEW bit \in {0, 1}
    PROVE  /\ Followed(tree, acc, bit) \in DecodeStates
           /\ acc.node \in tree.nodes /\ IsLeaf(tree, acc.node) =>
                 /\ Followed(tree, acc, bit).node = <<bit>>
                 /\ Followed(tree, acc, bit).text =
                       acc.text \o Iso88591ToUtf8(tree.symbol[acc.node])
           /\ ~IsLeaf(tree, acc.node) =>
                 /\ Followed(tree, acc, bit).node = Append(acc.node, bit)
                 /\ Followed(tree, acc, bit).text = acc.text
<1> DEFINE at == Taken(tree, acc)
           next == Followed(tree, acc, bit)
<1>1. at \in DecodeStates
  BY TakenLeaf DEF Taken
<1>2. next = [at EXCEPT !.node = Append(@, bit)]
  BY DEF Followed
<1>3. ~IsLeaf(tree, acc.node) => at = acc
  BY DEF Taken
<1>4. acc.node \in tree.nodes /\ IsLeaf(tree, acc.node) =>
         at.node = <<>> /\ at.text = acc.text \o Iso88591ToUtf8(tree.symbol[acc.node])
  BY TakenLeaf
<1> HIDE DEF at, next
<1>5. at.node \in Seq({0, 1}) /\ at.text \in Seq(Nat)
  BY <1>1 DEF DecodeStates
<1>6. Append(at.node, bit) \in Seq({0, 1})
  BY <1>5
<1>7. next \in DecodeStates /\ next.node = Append(at.node, bit) /\ next.text = at.text
  BY <1>1, <1>2, <1>6 DEF DecodeStates
<1>8. Append(<<>>, bit) = <<bit>>
  OBVIOUS
<1>9. acc.node \in tree.nodes /\ IsLeaf(tree, acc.node) =>
         next.node = <<bit>> /\ next.text = acc.text \o Iso88591ToUtf8(tree.symbol[acc.node])
  BY <1>4, <1>7, <1>8
<1>10. ~IsLeaf(tree, acc.node) => next.node = Append(acc.node, bit) /\ next.text = acc.text
  BY <1>3, <1>7
<1> QED
  BY <1>7, <1>9, <1>10 DEF next

\* The states of the loop, bit by bit.
IsBitsTrace(t, buffer, tree, base, positions, n) ==
    /\ t \in [0 .. n -> DecodeStates]
    /\ t[0] = base /\ t[n] = FollowBits(buffer, tree, base, positions)
    /\ \A k \in 1 .. n : t[k] = Followed(tree, t[k - 1], BitAt(buffer, positions[k]))

\* Every run of the loop has them.
LEMMA BitsTrace ==
    ASSUME NEW buffer, NEW tree, HasSymbols(tree), NEW base \in DecodeStates,
           NEW positions, NEW n \in Nat, DOMAIN positions = 1 .. n,
           \A i \in 1 .. n : BitAt(buffer, positions[i]) \in {0, 1}
    PROVE  \E t : IsBitsTrace(t, buffer, tree, base, positions, n)
<1> DEFINE A == DecodeStates
           NextState(acc, i) == Followed(tree, acc, BitAt(buffer, positions[i]))
           F == [x \in A \X (1 .. n) |-> NextState(x[1], x[2])]
           Eq(f) == f = [s \in SUBSET (1 .. n) |->
                            IF s = {} THEN base
                            ELSE NextState(f[s \ {Max(s)}], Max(s))]
           iter == CHOOSE f : Eq(f)
<1>1. \A acc \in A : \A i \in 1 .. n : NextState(acc, i) \in A
  BY FollowedFrom
<1>2. FollowBits(buffer, tree, base, positions) = iter[1 .. n]
  BY DEF FollowBits, FoldLeft, MapThenFoldSet
<1> HIDE DEF NextState, A
<1>3. F \in [A \X (1 .. n) -> A] /\ base \in A /\ n \in Nat
  <2>1. base \in A
    BY DEF A
  <2> QED
    BY <1>1, <2>1
<1>4. \A acc \in A : \A i \in 1 .. n : F[<<acc, i>>] = NextState(acc, i)
  OBVIOUS
<1> HIDE DEF F
<1>5. PICK g : IsFoldValue(g, A, base, F, n)
  BY ONLY <1>3, FoldValue
<1>6. Eq(g)
  <2>1. \A s \in SUBSET (1 .. n) :
           g[s] = IF s = {} THEN base ELSE NextState(g[s \ {Max(s)}], Max(s))
    BY <1>4, <1>5 DEF IsFoldValue
  <2> QED
    BY <1>5, <2>1 DEF IsFoldValue
<1>7. Eq(iter)
  BY <1>6
<1> HIDE DEF iter
<1>8. \A s \in SUBSET (1 .. n) :
         iter[s] = IF s = {} THEN base ELSE NextState(iter[s \ {Max(s)}], Max(s))
  BY <1>7
<1> HIDE DEF Eq
<1>9. iter[{}] = base
  BY <1>8
<1>10. FoldsWith(iter, A, base, F, n)
  BY <1>4, <1>5, <1>8, <1>9 DEF FoldsWith, IsFoldValue
<1>11. PICK t : IsTrace(t, iter, A, base, F, n)
  BY ONLY <1>3, <1>10, FoldTrace
<1>12. \A k \in 1 .. n : t[k] = NextState(t[k - 1], k)
  <2> TAKE k \in 1 .. n
  <2>1. t[k - 1] \in A
    BY <1>11 DEF IsTrace
  <2> QED
    BY <1>4, <1>11, <2>1 DEF IsTrace
<1> QED
  BY <1>2, <1>11, <1>12 DEF A, NextState, IsTrace, IsBitsTrace

-----------------------------------------------------------------------------
(* A text and its codes: the bits follow each other in codes, and the text *)
(* grows by one symbol at the end of every code.                           *)

\* The codes of a text in the tree, and its characters in UTF-8.
Decodes(tree, lengths, text, codes, utf, bits, chars) ==
    /\ lengths \in Lengths /\ IsTreeOf(tree, lengths) /\ HasSymbols(tree)
    /\ text \in Seq(Bytes) /\ codes \in Seq(Seq({0, 1})) /\ utf \in Seq(Seq(Nat))
    /\ Len(codes) = Len(text) /\ Len(utf) = Len(text)
    /\ \A k \in 1 .. Len(text) :
          /\ text[k] + 1 \in Coded(lengths)
          /\ codes[k] = CanonicalCode(lengths, text[k] + 1) /\ utf[k] = Utf8(text[k])
    /\ IsConcat(bits, codes, {0, 1}) /\ IsConcat(chars, utf, Nat)

\* After q bits: within or at the end of a code, its symbol not yet taken.
HasFollowed(acc, q, codes, bits, chars) ==
    \/ q = 0 /\ acc.node = <<>> /\ acc.text = <<>>
    \/ \E m \in 1 .. Len(codes) : \E j \in 1 .. Len(codes[m]) :
          /\ q = Len(bits[m - 1]) + j
          /\ acc.node = SubSeq(codes[m], 1, j) /\ acc.text = chars[m - 1]

\* A code that was followed to its end, or not yet.
LeadsTo(tree, code, char) ==
    /\ code \in Seq({0, 1}) /\ Len(code) \in Nat \ {0}
    /\ \A j \in 0 .. Len(code) :
          /\ SubSeq(code, 1, j) \in tree.nodes
          /\ IsLeaf(tree, SubSeq(code, 1, j)) <=> j = Len(code)
    /\ Iso88591ToUtf8(tree.symbol[SubSeq(code, 1, Len(code))]) = char
    /\ SubSeq(code, 1, 1) = <<code[1]>> /\ code[1] \in {0, 1}

\* Every code of the text is followed to its symbol.
LEMMA CodeFollowed ==
    ASSUME NEW tree, NEW lengths, NEW text, NEW codes, NEW utf, NEW bits, NEW chars,
           Decodes(tree, lengths, text, codes, utf, bits, chars),
           NEW m \in 1 .. Len(codes)
    PROVE  LeadsTo(tree, codes[m], utf[m])
<1> DEFINE i == text[m] + 1
           code == codes[m]
<1>1. i \in Coded(lengths) /\ code = CanonicalCode(lengths, i) /\ utf[m] = Utf8(text[m])
      /\ text[m] \in Bytes /\ lengths \in Lengths
  BY DEF Decodes
<1>2. i - 1 = text[m]
  <2>1. \A x \in Bytes : x \in Nat /\ (x + 1) - 1 = x
    BY DEF Bytes
  <2> QED
    BY <1>1, <2>1
<1> HIDE DEF i, code
<1>3. code \in Seq({0, 1}) /\ Len(code) = lengths[i] /\ lengths[i] \in 1 .. 15
  BY <1>1, CodeTypes
<1>4. IsTreeOf(tree, lengths)
  BY DEF Decodes
<1>5. \A j \in 0 .. Len(code) :
         /\ SubSeq(code, 1, j) \in tree.nodes
         /\ IsLeaf(tree, SubSeq(code, 1, j)) <=> j = Len(code)
  BY <1>1, <1>3, <1>4 DEF IsTreeOf
<1>6. tree.symbol[code] = i - 1
  BY <1>1, <1>4 DEF IsTreeOf
<1>7. SubSeq(code, 1, Len(code)) = code
  BY <1>3, SubSeqFull
<1>8. Iso88591ToUtf8(tree.symbol[SubSeq(code, 1, Len(code))]) = utf[m]
  BY <1>1, <1>2, <1>6, <1>7, SymbolsInUtf8
<1>9. SubSeq(code, 1, 1) = <<code[1]>> /\ code[1] \in {0, 1}
  <2>1. 0 \in 0 .. Len(code) /\ 0 < Len(code) /\ 0 + 1 = 1
    BY <1>3
  <2>2. Append(SubSeq(code, 1, 0), code[1]) = SubSeq(code, 1, 1) /\ code[1] \in {0, 1}
    BY <1>3, <2>1, CodeBeginnings
  <2>3. SubSeq(code, 1, 0) = <<>>
    BY <1>3, SubSeqEmpty
  <2>4. Append(<<>>, code[1]) = <<code[1]>>
    OBVIOUS
  <2> QED
    BY <2>2, <2>3, <2>4
<1> QED
  BY <1>3, <1>5, <1>8, <1>9, SMTT(60) DEF code, LeadsTo

\* Where the bits of every code are among all bits.
BitsInOrder(codes, utf, bits, chars) ==
    /\ Len(codes) \in Nat /\ bits[0] = <<>> /\ chars[0] = <<>> /\ Len(bits[0]) = 0
    /\ \A i \in 1 .. Len(codes) :
          /\ Len(bits[i]) = Len(bits[i - 1]) + Len(codes[i])
          /\ chars[i] = chars[i - 1] \o utf[i]
    /\ \A i \in 0 .. Len(codes) :
          Len(bits[i]) \in Nat /\ Len(bits[i]) <= Len(bits[Len(codes)])
    /\ \A i \in 1 .. Len(codes) : \A j \in 1 .. Len(codes[i]) :
          bits[Len(codes)][Len(bits[i - 1]) + j] = codes[i][j]

\* The codes lie one behind the other.
LEMMA BitsOfCodes ==
    ASSUME NEW tree, NEW lengths, NEW text, NEW codes, NEW utf, NEW bits, NEW chars,
           Decodes(tree, lengths, text, codes, utf, bits, chars)
    PROVE  BitsInOrder(codes, utf, bits, chars)
<1>1. codes \in Seq(Seq({0, 1})) /\ IsConcat(bits, codes, {0, 1})
      /\ utf \in Seq(Seq(Nat)) /\ IsConcat(chars, utf, Nat) /\ Len(utf) = Len(codes)
  BY DEF Decodes
<1>2. HasParts(bits, codes)
  BY ONLY <1>1, ConcatParts
<1>3. bits[0] = <<>> /\ chars[0] = <<>>
      /\ \A i \in 1 .. Len(codes) : chars[i] = chars[i - 1] \o utf[i]
  BY <1>1 DEF IsConcat
<1>4. Len(codes) \in Nat /\ Len(<<>>) = 0
  BY <1>1
<1> QED
  BY <1>2, <1>3, <1>4 DEF HasParts, BitsInOrder

\* The next bit goes on in the code, or begins the next one.
LEMMA BitFollowed ==
    ASSUME NEW tree, NEW lengths, NEW text, NEW codes, NEW utf, NEW bits, NEW chars,
           Decodes(tree, lengths, text, codes, utf, bits, chars),
           NEW acc \in DecodeStates, NEW q \in Nat, q < Len(bits[Len(codes)]),
           HasFollowed(acc, q, codes, bits, chars)
    PROVE  /\ bits[Len(codes)][q + 1] \in {0, 1}
           /\ HasFollowed(Followed(tree, acc, bits[Len(codes)][q + 1]), q + 1,
                          codes, bits, chars)
<1> DEFINE n == Len(codes)
           bit == bits[n][q + 1]
           next == Followed(tree, acc, bit)
<1>1. BitsInOrder(codes, utf, bits, chars)
  BY BitsOfCodes
<1>2. n \in Nat /\ bits[0] = <<>> /\ chars[0] = <<>> /\ Len(bits[0]) = 0
  BY <1>1 DEF BitsInOrder
<1>3. /\ \A i \in 1 .. n : /\ Len(bits[i]) = Len(bits[i - 1]) + Len(codes[i])
                           /\ chars[i] = chars[i - 1] \o utf[i]
      /\ \A i \in 0 .. n : Len(bits[i]) \in Nat /\ Len(bits[i]) <= Len(bits[n])
      /\ \A i \in 1 .. n : \A j \in 1 .. Len(codes[i]) :
            bits[n][Len(bits[i - 1]) + j] = codes[i][j]
  BY <1>1 DEF BitsInOrder
<1>4. \A m \in 1 .. n :
         /\ codes[m] \in Seq({0, 1}) /\ Len(codes[m]) \in Nat \ {0}
         /\ \A j \in 0 .. Len(codes[m]) :
               /\ SubSeq(codes[m], 1, j) \in tree.nodes
               /\ IsLeaf(tree, SubSeq(codes[m], 1, j)) <=> j = Len(codes[m])
         /\ Iso88591ToUtf8(tree.symbol[SubSeq(codes[m], 1, Len(codes[m]))]) = utf[m]
         /\ SubSeq(codes[m], 1, 1) = <<codes[m][1]>> /\ codes[m][1] \in {0, 1}
  BY CodeFollowed DEF LeadsTo
<1>5. HasSymbols(tree) /\ ~IsLeaf(tree, <<>>)
  BY DEF Decodes, IsTreeOf
<1>6. bit \in {0, 1} =>
         /\ acc.node \in tree.nodes /\ IsLeaf(tree, acc.node) =>
               /\ next.node = <<bit>>
               /\ next.text = acc.text \o Iso88591ToUtf8(tree.symbol[acc.node])
         /\ ~IsLeaf(tree, acc.node) =>
               next.node = Append(acc.node, bit) /\ next.text = acc.text
  BY <1>5, FollowedFrom
<1> DEFINE Goal == bit \in {0, 1} /\ HasFollowed(next, q + 1, codes, bits, chars)
<1>7. ASSUME NEW m \in 1 .. n, q = Len(bits[m - 1]), bit \in {0, 1} =>
             next.node = <<bit>> /\ next.text = chars[m - 1]
      PROVE  Goal
  <2>1. 1 \in 1 .. Len(codes[m])
    BY <1>4
  <2>2. bit = codes[m][1]
    BY <1>3, <1>7, <2>1
  <2>3. bit \in {0, 1} /\ next.node = SubSeq(codes[m], 1, 1) /\ next.text = chars[m - 1]
    BY <1>4, <1>7, <2>2
  <2> HIDE DEF bit, next
  <2> QED
    BY <1>7, <2>1, <2>3 DEF HasFollowed, n
<1>8. ASSUME q = 0 /\ acc.node = <<>> /\ acc.text = <<>> PROVE Goal
  <2>1. 1 \in 1 .. n /\ 1 - 1 = 0
    <3>1. n # 0
      BY <1>2, <1>8
    <3> QED
      BY <1>2, <3>1
  <2>2. Append(<<>>, bit) = <<bit>>
    OBVIOUS
  <2> HIDE DEF n, bit, next, Goal
  <2>3. q = Len(bits[1 - 1]) /\ acc.text = chars[1 - 1]
    BY <1>2, <1>8, <2>1
  <2>4. bit \in {0, 1} => next.node = <<bit>> /\ next.text = chars[1 - 1]
    BY <1>5, <1>6, <1>8, <2>2, <2>3
  <2> QED
    BY <1>7, <2>1, <2>3, <2>4
<1>9. ASSUME \E m \in 1 .. n : \E j \in 1 .. Len(codes[m]) :
                /\ q = Len(bits[m - 1]) + j
                /\ acc.node = SubSeq(codes[m], 1, j) /\ acc.text = chars[m - 1]
      PROVE  Goal
  <2>1. PICK m \in 1 .. n : \E j \in 1 .. Len(codes[m]) :
              /\ q = Len(bits[m - 1]) + j
              /\ acc.node = SubSeq(codes[m], 1, j) /\ acc.text = chars[m - 1]
    BY <1>9
  <2>2. PICK j \in 1 .. Len(codes[m]) :
              /\ q = Len(bits[m - 1]) + j
              /\ acc.node = SubSeq(codes[m], 1, j) /\ acc.text = chars[m - 1]
    BY <2>1
  <2>3. Len(bits[m - 1]) \in Nat /\ codes[m] \in Seq({0, 1}) /\ Len(codes[m]) \in Nat \ {0}
        /\ Len(bits[m]) = Len(bits[m - 1]) + Len(codes[m])
    <3>1. m - 1 \in 0 .. n
      BY <1>2
    <3> QED
      BY <1>3, <1>4, <3>1
  <2>4. CASE j # Len(codes[m])
    <3>1. j + 1 \in 1 .. Len(codes[m]) /\ q + 1 = Len(bits[m - 1]) + (j + 1)
          /\ j \in 0 .. Len(codes[m]) /\ j < Len(codes[m])
      <4> DEFINE a == Len(bits[m - 1])
                 b == Len(codes[m])
      <4>1. a \in Nat /\ b \in Nat \ {0} /\ j \in 1 .. b /\ q = a + j /\ j # b
        BY <2>2, <2>3, <2>4
      <4> HIDE DEF a, b
      <4>2. j + 1 \in 1 .. b /\ q + 1 = a + (j + 1) /\ j \in 0 .. b /\ j < b
        BY ONLY <4>1
      <4> QED
        BY <4>2 DEF a, b
    <3>2. bit = codes[m][j + 1]
      <4>1. bits[n][Len(bits[m - 1]) + (j + 1)] = codes[m][j + 1]
        BY <1>3, <3>1
      <4> QED
        BY <3>1, <4>1
    <3>3. ~IsLeaf(tree, acc.node)
      BY <1>4, <2>2, <2>4, <3>1
    <3>4. Append(SubSeq(codes[m], 1, j), codes[m][j + 1]) = SubSeq(codes[m], 1, j + 1)
          /\ codes[m][j + 1] \in {0, 1}
      BY <2>3, <3>1, CodeBeginnings
    <3> HIDE DEF bit, next
    <3>5. bit \in {0, 1} /\ next.node = SubSeq(codes[m], 1, j + 1) /\ next.text = chars[m - 1]
      BY <1>6, <2>2, <3>2, <3>3, <3>4
    <3> QED
      BY <3>1, <3>5 DEF HasFollowed, n
  <2>5. CASE j = Len(codes[m])
    <3>1. q = Len(bits[m])
      BY <2>2, <2>3, <2>5
    <3>2. m + 1 \in 1 .. n /\ (m + 1) - 1 = m /\ j \in 0 .. Len(codes[m])
      <4>1. m # n
        BY <3>1
      <4> QED
        BY <1>2, <2>3, <2>5, <4>1
    <3>3. acc.node \in tree.nodes /\ IsLeaf(tree, acc.node)
          /\ Iso88591ToUtf8(tree.symbol[acc.node]) = utf[m]
      BY <1>4, <2>2, <2>5, <3>2
    <3>4. chars[m] = chars[m - 1] \o utf[m]
      BY <1>3
    <3> HIDE DEF bit, next, Goal
    <3>5. bit \in {0, 1} => next.node = <<bit>> /\ next.text = chars[(m + 1) - 1]
      BY <1>6, <2>2, <3>2, <3>3, <3>4
    <3>6. q = Len(bits[(m + 1) - 1])
      BY <3>1, <3>2
    <3> QED
      BY <1>7, <3>2, <3>5, <3>6
  <2> QED
    BY <2>4, <2>5
<1> QED
  BY <1>8, <1>9 DEF HasFollowed

\* After the last bit the last symbol is still to be taken.
LEMMA AllFollowed ==
    ASSUME NEW tree, NEW lengths, NEW text, NEW codes, NEW utf, NEW bits, NEW chars,
           Decodes(tree, lengths, text, codes, utf, bits, chars),
           NEW acc \in DecodeStates,
           HasFollowed(acc, Len(bits[Len(codes)]), codes, bits, chars)
    PROVE  acc.node \in tree.nodes /\ Taken(tree, acc).text = chars[Len(codes)]
<1> DEFINE n == Len(codes)
           q == Len(bits[n])
<1>1. BitsInOrder(codes, utf, bits, chars)
  BY BitsOfCodes
<1>2. n \in Nat /\ bits[0] = <<>> /\ chars[0] = <<>> /\ Len(bits[0]) = 0
  BY <1>1 DEF BitsInOrder
<1>3. /\ \A i \in 1 .. n : /\ Len(bits[i]) = Len(bits[i - 1]) + Len(codes[i])
                           /\ chars[i] = chars[i - 1] \o utf[i]
      /\ \A i \in 0 .. n : Len(bits[i]) \in Nat /\ Len(bits[i]) <= q
  BY <1>1 DEF BitsInOrder
<1>4. \A m \in 1 .. n :
         /\ codes[m] \in Seq({0, 1}) /\ Len(codes[m]) \in Nat \ {0}
         /\ \A j \in 0 .. Len(codes[m]) :
               /\ SubSeq(codes[m], 1, j) \in tree.nodes
               /\ IsLeaf(tree, SubSeq(codes[m], 1, j)) <=> j = Len(codes[m])
         /\ Iso88591ToUtf8(tree.symbol[SubSeq(codes[m], 1, Len(codes[m]))]) = utf[m]
  BY CodeFollowed DEF LeadsTo
<1>5. HasSymbols(tree) /\ <<>> \in tree.nodes /\ ~IsLeaf(tree, <<>>)
  BY DEF Decodes, IsTreeOf
<1>6. \/ q = 0 /\ acc.node = <<>> /\ acc.text = <<>>
      \/ \E m \in 1 .. n : \E j \in 1 .. Len(codes[m]) :
              /\ q = Len(bits[m - 1]) + j
              /\ acc.node = SubSeq(codes[m], 1, j) /\ acc.text = chars[m - 1]
  BY DEF HasFollowed
<1>7. ASSUME NEW m \in 1 .. n
      PROVE  /\ Len(bits[m - 1]) \in Nat /\ Len(codes[m]) \in Nat \ {0} /\ q \in Nat
             /\ Len(bits[m]) = Len(bits[m - 1]) + Len(codes[m]) /\ Len(bits[m]) <= q
  <2>1. m - 1 \in 0 .. n /\ m \in 0 .. n /\ n \in 0 .. n
    BY <1>2
  <2> QED
    BY <1>3, <1>4, <2>1
<1> HIDE DEF n, q
<1>8. CASE q = 0 /\ acc.node = <<>> /\ acc.text = <<>>
  <2>1. n = 0
    <3> SUFFICES ASSUME n # 0 PROVE FALSE
      OBVIOUS
    <3>1. 1 \in 1 .. n
      BY <1>2
    <3> DEFINE a == Len(bits[1 - 1])
               b == Len(codes[1])
               c == Len(bits[1])
    <3>2. a \in Nat /\ b \in Nat \ {0} /\ c = a + b /\ c <= 0
      BY <1>7, <1>8, <3>1
    <3> HIDE DEF a, b, c
    <3> QED
      BY <3>2
  <2>2. Taken(tree, acc) = acc
    BY <1>5, <1>8 DEF Taken
  <2> QED
    BY <1>2, <1>5, <1>8, <2>1, <2>2 DEF n
<1>9. CASE \E m \in 1 .. n : \E j \in 1 .. Len(codes[m]) :
              /\ q = Len(bits[m - 1]) + j
              /\ acc.node = SubSeq(codes[m], 1, j) /\ acc.text = chars[m - 1]
  <2>1. PICK m \in 1 .. n : \E j \in 1 .. Len(codes[m]) :
              /\ q = Len(bits[m - 1]) + j
              /\ acc.node = SubSeq(codes[m], 1, j) /\ acc.text = chars[m - 1]
    BY <1>9
  <2>2. PICK j \in 1 .. Len(codes[m]) :
              /\ q = Len(bits[m - 1]) + j
              /\ acc.node = SubSeq(codes[m], 1, j) /\ acc.text = chars[m - 1]
    BY <2>1
  <2> DEFINE a == Len(bits[m - 1])
             b == Len(codes[m])
             c == Len(bits[m])
  <2>3. a \in Nat /\ b \in Nat \ {0} /\ q \in Nat /\ c = a + b /\ c <= q /\ q = a + j
        /\ j \in 1 .. b
    BY <1>7, <2>2
  <2>4. j = b /\ c = q
    <3> HIDE DEF a, b, c
    <3> QED
      BY ONLY <2>3
  <2>5. m = n
    <3> SUFFICES ASSUME m # n PROVE FALSE
      OBVIOUS
    <3>1. m + 1 \in 1 .. n /\ (m + 1) - 1 = m
      BY <1>2
    <3> DEFINE d == Len(codes[m + 1])
               e == Len(bits[m + 1])
    <3>2. d \in Nat \ {0} /\ e = Len(bits[(m + 1) - 1]) + d /\ e <= q
      BY <1>7, <3>1
    <3>3. e = c + d
      BY <3>1, <3>2
    <3> HIDE DEF a, b, c, d, e
    <3> QED
      BY ONLY <2>3, <2>4, <3>2, <3>3
  <2>6. j \in 0 .. Len(codes[m])
    BY <2>3, <2>4
  <2>7. acc.node \in tree.nodes /\ IsLeaf(tree, acc.node)
        /\ Iso88591ToUtf8(tree.symbol[acc.node]) = utf[m]
    BY <1>4, <2>2, <2>4, <2>6
  <2>8. Taken(tree, acc).text = acc.text \o Iso88591ToUtf8(tree.symbol[acc.node])
    BY <1>5, <2>7, TakenLeaf
  <2>9. Taken(tree, acc).text = chars[m]
    BY <1>3, <2>2, <2>7, <2>8
  <2> QED
    BY <2>5, <2>7, <2>9 DEF n
<1> QED
  BY <1>6, <1>8, <1>9

\* Every node of a built tree has a symbol, if only 0.
LEMMA SymbolsOfTree ==
    ASSUME NEW bytes \in Seq(Bytes)
    PROVE  HasSymbols(BuildHuffmanTree(bytes))
<1> DEFINE lengths == DecompressEncodeArray(bytes)
           tree == BuildHuffmanTree(bytes)
           codes == GenerateCodes(lengths)
           Ends(node) == {c \in codes : c[1] = node}
<1>1. lengths \in Lengths
  BY LengthsInBytes
<1>2. \A node \in tree.nodes :
         tree.symbol[node] =
            IF Ends(node) = {} THEN 0 ELSE (CHOOSE c \in Ends(node) : TRUE)[2]
  BY DEF BuildHuffmanTree
<1>3. codes = {<<CanonicalCode(lengths, i), i - 1>> : i \in Coded(lengths)}
  BY <1>1, CodesGenerated
<1>4. \A c \in codes : c[2] \in Nat
  <2> TAKE c \in codes
  <2>1. PICK i \in Coded(lengths) : c = <<CanonicalCode(lengths, i), i - 1>>
    BY <1>3
  <2>2. i \in Nat \ {0}
    <3>1. lengths \in Seq(0 .. 15) /\ i \in DOMAIN lengths
      BY <1>1, CodedTypes DEF Lengths
    <3> HIDE DEF lengths
    <3> QED
      BY <3>1
  <2>3. c[2] = i - 1 /\ i - 1 \in Nat
    BY <2>1, <2>2
  <2> QED
    BY <2>3
<1>5. ASSUME NEW node \in tree.nodes PROVE tree.symbol[node] \in Nat
  <2>1. CASE Ends(node) = {}
    <3> HIDE DEF tree, Ends
    <3> QED
      BY <1>2, <2>1
  <2>2. CASE Ends(node) # {}
    <3>1. (CHOOSE c \in Ends(node) : TRUE) \in codes
      BY <2>2
    <3> DEFINE c == CHOOSE c \in Ends(node) : TRUE
    <3>2. c \in codes /\ tree.symbol[node] = c[2]
      BY <1>2, <2>2, <3>1
    <3> HIDE DEF tree, Ends, c, codes
    <3> QED
      BY <1>4, <3>2
  <2> QED
    BY <2>1, <2>2
<1> QED
  BY <1>5 DEF HasSymbols

\* A text of ISO 8859-1 in UTF-8.
InUtf8(text) == FlattenSeq([k \in DOMAIN text |-> Utf8(text[k])])

\* A text comes out of its bits.
LEMMA TextDecoded ==
    ASSUME NEW page, page.encode_array \in Seq(Bytes),
           page.compressed_string_buffer \in Seq(Bytes),
           Len(page.compressed_string_buffer) % 2 = 0,
           HasPrefixCode(DecompressEncodeArray(page.encode_array)),
           NEW text \in Seq(Bytes), NEW start \in Nat,
           NEW end \in 0 .. 8 * Len(page.compressed_string_buffer),
           HoldsBits(page, start, end, text)
    PROVE  DecodeSubstring(page.compressed_string_buffer,
                           BuildHuffmanTree(page.encode_array), start, end)
              = Right(InUtf8(text))
<1> DEFINE buffer == page.compressed_string_buffer
           lengths == DecompressEncodeArray(page.encode_array)
           tree == BuildHuffmanTree(page.encode_array)
           codes == [k \in DOMAIN text |-> CanonicalCode(lengths, text[k] + 1)]
           utf == [k \in DOMAIN text |-> Utf8(text[k])]
           all == FlattenSeq(codes)
           n == end - start
           positions == [i \in 1 .. n |-> start + i - 1]
           base == [node |-> <<>>, text |-> <<>>]
<1>1. lengths \in Lengths /\ HasPrefixCode(lengths) /\ IsTreeOf(tree, lengths)
      /\ HasSymbols(tree)
  BY LengthsInBytes, TreeBuilt, SymbolsOfTree
<1>2. /\ \A k \in DOMAIN text : text[k] + 1 \in Coded(lengths)
      /\ end = start + Len(all)
      /\ \A k \in DOMAIN all : StoredBit(buffer, start + k - 1) = all[k]
  BY DEF HoldsBits
<1>3. buffer \in Seq(Bytes) /\ Len(buffer) % 2 = 0 /\ end \in 0 .. 8 * Len(buffer)
  OBVIOUS
<1>4. DecodeSubstring(buffer, tree, start, end) =
         IF FollowBits(buffer, tree, base, positions).node \in tree.nodes
         THEN Right(Taken(tree, FollowBits(buffer, tree, base, positions)).text)
         ELSE Wrong
  BY DecodedByBits
<1>5. DOMAIN text = 1 .. Len(text) /\ Len(text) \in Nat /\ \A k \in 1 .. Len(text) : text[k] \in Bytes
  OBVIOUS
<1> HIDE DEF buffer, lengths, tree
<1>6. codes \in Seq(Seq({0, 1})) /\ Len(codes) = Len(text)
      /\ \A k \in 1 .. Len(text) : codes[k] = CanonicalCode(lengths, text[k] + 1)
  <2>1. \A k \in 1 .. Len(text) : CanonicalCode(lengths, text[k] + 1) \in Seq({0, 1})
    BY <1>1, <1>2, <1>5, CodeTypes
  <2> QED
    BY <1>5, <2>1
<1>7. utf \in Seq(Seq(Nat)) /\ Len(utf) = Len(text)
      /\ \A k \in 1 .. Len(text) : utf[k] = Utf8(text[k])
  <2>1. \A k \in 1 .. Len(text) : Utf8(text[k]) \in Seq(Nat)
    BY <1>5, SymbolsInUtf8
  <2> QED
    BY <1>5, <2>1
<1>8. InUtf8(text) = FlattenSeq(utf)
  BY DEF InUtf8
<1> HIDE DEF codes, utf
<1>9. PICK bits : IsConcat(bits, codes, {0, 1}) /\ bits[Len(codes)] = FlattenSeq(codes)
  BY <1>6, Concatenated
<1>10. PICK chars : IsConcat(chars, utf, Nat) /\ chars[Len(utf)] = FlattenSeq(utf)
  BY <1>7, Concatenated
<1>11. Decodes(tree, lengths, text, codes, utf, bits, chars)
  BY <1>1, <1>2, <1>5, <1>6, <1>7, <1>9, <1>10 DEF Decodes
<1>12. all \in Seq({0, 1}) /\ all = bits[Len(codes)]
  <2>1. bits[Len(codes)] \in Seq({0, 1})
    BY <1>6, <1>9 DEF IsConcat
  <2> QED
    BY <1>9, <2>1
<1> HIDE DEF all
<1>13. n = Len(all) /\ n \in Nat /\ DOMAIN all = 1 .. n
  BY <1>2, <1>12
<1> HIDE DEF n
<1>14. DOMAIN positions = 1 .. n /\ \A i \in 1 .. n : BitAt(buffer, positions[i]) = all[i]
  <2>1. ASSUME NEW i \in 1 .. n PROVE BitAt(buffer, positions[i]) = all[i]
    <3>1. positions[i] = start + i - 1
      OBVIOUS
    <3>2. start + i - 1 \in 0 .. 8 * Len(buffer) - 1
      <4> DEFINE m == 8 * Len(buffer)
      <4>1. m \in Nat /\ end = start + n /\ end \in 0 .. m
        BY <1>2, <1>3, <1>13
      <4> HIDE DEF m
      <4>2. start + i - 1 \in 0 .. m - 1
        BY <1>13, <4>1
      <4> QED
        BY <4>2 DEF m
    <3> DEFINE p == start + i - 1
    <3>3. p \in 0 .. 8 * Len(buffer) - 1
      BY <3>2
    <3> HIDE DEF p
    <3>4. BitAt(buffer, p) = StoredBit(buffer, p)
      BY ONLY <1>3, <3>3, BitStored
    <3> QED
      BY <1>2, <1>13, <3>1, <3>4 DEF p
  <2> QED
    BY <2>1
<1>15. \A i \in 1 .. n : BitAt(buffer, positions[i]) \in {0, 1}
  <2>1. \A i \in 1 .. n : all[i] \in {0, 1}
    BY <1>12, <1>13
  <2> QED
    BY <1>14, <2>1
<1>16. base \in DecodeStates /\ base.node = <<>> /\ base.text = <<>>
  BY DEF DecodeStates
<1> HIDE DEF positions, base
<1>17. PICK t : IsBitsTrace(t, buffer, tree, base, positions, n)
  <2>1. HasSymbols(tree) /\ base \in DecodeStates /\ n \in Nat /\ DOMAIN positions = 1 .. n
        /\ \A i \in 1 .. n : BitAt(buffer, positions[i]) \in {0, 1}
    BY <1>1, <1>13, <1>14, <1>15, <1>16
  <2> QED
    BY ONLY <2>1, BitsTrace
<1>18. /\ t \in [0 .. n -> DecodeStates]
       /\ t[0] = base /\ t[n] = FollowBits(buffer, tree, base, positions)
       /\ \A k \in 1 .. n : t[k] = Followed(tree, t[k - 1], BitAt(buffer, positions[k]))
  BY <1>17 DEF IsBitsTrace
<1> DEFINE T == {q \in Nat : q <= n => HasFollowed(t[q], q, codes, bits, chars)}
<1>19. 0 \in T
  BY <1>16, <1>18 DEF HasFollowed
<1>20. ASSUME NEW q \in Nat, q \in T PROVE q + 1 \in T
  <2> SUFFICES ASSUME q + 1 <= n PROVE HasFollowed(t[q + 1], q + 1, codes, bits, chars)
    OBVIOUS
  <2>1. q \in 0 .. n /\ q + 1 \in 1 .. n /\ (q + 1) - 1 = q /\ q < Len(bits[Len(codes)])
    BY <1>12, <1>13
  <2>2. HasFollowed(t[q], q, codes, bits, chars) /\ t[q] \in DecodeStates
    <3>1. q <= n
      BY <2>1
    <3> QED
      BY <1>18, <1>20, <2>1, <3>1
  <2>3. HasFollowed(Followed(tree, t[q], bits[Len(codes)][q + 1]), q + 1, codes, bits, chars)
    BY <1>11, <2>1, <2>2, BitFollowed
  <2>4. t[q + 1] = Followed(tree, t[q], bits[Len(codes)][q + 1])
    BY <1>12, <1>14, <1>18, <2>1
  <2> QED
    BY <2>3, <2>4
<1> HIDE DEF T
<1>21. n \in T
  BY <1>13, <1>19, <1>20, NatStepwise
<1> DEFINE last == FollowBits(buffer, tree, base, positions)
<1>22. last \in DecodeStates /\ HasFollowed(last, Len(bits[Len(codes)]), codes, bits, chars)
  <2>1. t[n] \in DecodeStates
    BY <1>13, <1>18
  <2> QED
    BY <1>12, <1>13, <1>18, <1>21, <2>1 DEF T
<1> HIDE DEF last
<1>23. last.node \in tree.nodes /\ Taken(tree, last).text = chars[Len(codes)]
  BY <1>11, <1>22, AllFollowed
<1>24. chars[Len(codes)] = InUtf8(text)
  BY <1>6, <1>7, <1>8, <1>10
<1>25. DecodeSubstring(buffer, tree, start, end) = Right(InUtf8(text))
  BY <1>4, <1>23, <1>24 DEF last
<1> QED
  BY <1>25 DEF buffer, tree

-----------------------------------------------------------------------------
(* A compressed page.                                                      *)

\* Strings that are read without a wild pointer.
ReadStrings == [wild : {FALSE}, value : Seq(Nat)]

\* The texts of a page, and perhaps empty ones behind them.
HoldsPageStrings(strings, page, texts, more) ==
    /\ strings \in Seq(ReadStrings) /\ Len(strings) = Len(texts) + more
    /\ \A i \in 1 .. Len(texts) : Text(strings[i].value) = TextOf(page, texts[i])

\* A text of bytes is one of numbers.
LEMMA BytesAreNumbers ==
    /\ \A b \in Bytes : b \in Nat
    /\ \A s \in Seq(Bytes) : s \in Seq(Nat)
<1>1. \A b \in Bytes : b \in Nat
  BY DEF Bytes
<1>2. ASSUME NEW s \in Seq(Bytes) PROVE s \in Seq(Nat)
  <2>1. Len(s) \in Nat /\ s = [i \in 1 .. Len(s) |-> s[i]] /\ \A i \in 1 .. Len(s) : s[i] \in Bytes
    OBVIOUS
  <2>2. s \in [1 .. Len(s) -> Nat]
    BY <1>1, <2>1
  <2> QED
    BY <2>1, <2>2
<1> QED
  BY <1>1, <1>2

\* ... and so it is in UTF-8.
LEMMA Utf8Text ==
    ASSUME NEW text \in Seq(Bytes)
    PROVE  InUtf8(text) \in Seq(Nat)
<1> DEFINE utf == [k \in DOMAIN text |-> Utf8(text[k])]
<1>1. DOMAIN text = 1 .. Len(text) /\ Len(text) \in Nat /\ \A k \in 1 .. Len(text) : text[k] \in Bytes
  OBVIOUS
<1>2. \A k \in 1 .. Len(text) : Utf8(text[k]) \in Seq(Nat)
  BY <1>1, SymbolsInUtf8
<1>3. utf \in Seq(Seq(Nat))
  BY <1>1, <1>2
<1> HIDE DEF utf
<1>4. FlattenSeq(utf) \in Seq(Nat)
  BY <1>3, FlattenSeqRange
<1> QED
  BY <1>4 DEF InUtf8, utf

\* A compressed page.
LEMMA CompressedPageRead ==
    ASSUME NEW page, page.page_compressed = 1, NEW starts, NEW texts \in Seq(Seq(Bytes)),
           HoldsCompressed(page, starts, texts)
    PROVE  HoldsPageStrings(CompressedStrings(page, starts), page, texts, 0)
<1> DEFINE buffer == page.compressed_string_buffer
           total == page.store_total_bits
           tree == BuildHuffmanTree(page.encode_array)
           End(i) == IF i < Len(starts) THEN starts[i + 1] ELSE total
           strings == CompressedStrings(page, starts)
           n == Len(texts)
<1>1. /\ page.encode_array \in Seq(Bytes) /\ buffer \in Seq(Bytes)
      /\ HasPrefixCode(DecompressEncodeArray(page.encode_array))
      /\ Len(buffer) % 2 = 0 /\ total \in 0 .. 8 * Len(buffer)
      /\ starts \in Seq(0 .. total) /\ Len(starts) = n
      /\ \A i \in DOMAIN texts : HoldsBits(page, starts[i], End(i), texts[i])
  BY DEF HoldsCompressed
<1>2. n \in Nat /\ DOMAIN texts = 1 .. n /\ DOMAIN starts = 1 .. n
      /\ \A i \in 1 .. n : texts[i] \in Seq(Bytes) /\ starts[i] \in 0 .. total
  BY <1>1
<1>3. strings = [i \in 1 .. n |-> DecodeSubstring(buffer, tree, starts[i], End(i))]
  BY <1>2 DEF CompressedStrings
<1>4. Len(buffer) \in Nat
  BY <1>1
<1> HIDE DEF strings, tree, n
<1>5. ASSUME NEW i \in 1 .. n
      PROVE  strings[i] = Right(InUtf8(texts[i]))
  <2>1. starts[i] \in 0 .. total /\ End(i) \in 0 .. total
    <3>1. CASE i < Len(starts)
      <4>1. i + 1 \in 1 .. n
        BY <1>1, <1>2, <3>1
      <4> QED
        BY <1>2, <3>1, <4>1
    <3>2. CASE ~(i < Len(starts))
      <4>1. total \in 0 .. total
        BY <1>1, <1>4
      <4> QED
        BY <1>2, <3>2, <4>1
    <3> QED
      BY <3>1, <3>2
  <2>2. texts[i] \in Seq(Bytes) /\ HoldsBits(page, starts[i], End(i), texts[i])
    BY <1>1, <1>2
  <2> DEFINE start == starts[i]
             end == End(i)
             text == texts[i]
  <2>3. start \in Nat /\ end \in 0 .. 8 * Len(buffer)
    <3> HIDE DEF start, end
    <3>1. start \in 0 .. total /\ end \in 0 .. total
      BY <2>1 DEF start, end
    <3> DEFINE m == 8 * Len(buffer)
    <3>2. total \in 0 .. m /\ m \in Nat
      BY <1>1, <1>4
    <3> HIDE DEF m, total
    <3>3. start \in Nat /\ end \in 0 .. m
      BY ONLY <3>1, <3>2
    <3> QED
      BY <3>3 DEF m
  <2>4. text \in Seq(Bytes) /\ HoldsBits(page, start, end, text)
    BY <2>2
  <2>5. strings[i] = DecodeSubstring(buffer, tree, start, end)
    BY <1>3
  <2> HIDE DEF start, end, text
  <2>6. DecodeSubstring(buffer, tree, start, end) = Right(InUtf8(text))
    BY <1>1, <2>3, <2>4, TextDecoded DEF tree
  <2> QED
    BY <2>5, <2>6 DEF text
<1>6. \A i \in 1 .. n : strings[i] \in ReadStrings /\ strings[i].value = InUtf8(texts[i])
  <2> TAKE i \in 1 .. n
  <2>1. InUtf8(texts[i]) \in Seq(Nat)
    BY <1>2, Utf8Text
  <2>2. \A v \in Seq(Nat) : Right(v) \in ReadStrings /\ Right(v).value = v
    BY DEF Right, ReadStrings
  <2> QED
    BY <1>5, <2>1, <2>2
<1>7. strings \in Seq(ReadStrings) /\ Len(strings) = n
  BY <1>2, <1>3, <1>6
<1>8. \A i \in 1 .. n : Text(InUtf8(texts[i])) = TextOf(page, texts[i])
  BY DEF TextOf, InUtf8
<1> QED
  BY <1>2, <1>6, <1>7, <1>8 DEF HoldsPageStrings, strings, n

-----------------------------------------------------------------------------
(* The loop over the characters of a plain page.                           *)

\* One step of the loop: a zero ends a string.
LineStates == [done : Seq(ReadStrings), token : Seq(Nat)]

PutChar(acc, c) ==
    IF c = 0 THEN [done |-> Append(acc.done, Right(acc.token)), token |-> <<>>]
    ELSE [acc EXCEPT !.token = Append(@, c)]
PutChars(base, chars) == FoldLeft(PutChar, base, chars)

\* UncompressedStrings is this loop, and what has no zero behind it.
LEMMA LinesByChars ==
    ASSUME NEW page
    PROVE  UncompressedStrings(page) =
              IF PutChars([done |-> <<>>, token |-> <<>>],
                          page.uncompressed_character_buffer).token = <<>>
              THEN PutChars([done |-> <<>>, token |-> <<>>],
                            page.uncompressed_character_buffer).done
              ELSE Append(PutChars([done |-> <<>>, token |-> <<>>],
                                   page.uncompressed_character_buffer).done,
                          Right(PutChars([done |-> <<>>, token |-> <<>>],
                                   page.uncompressed_character_buffer).token))
  BY DEF UncompressedStrings, PutChars, PutChar

\* What a character changes.
LEMMA PutFrom ==
    ASSUME NEW acc \in LineStates, NEW c \in Nat
    PROVE  /\ PutChar(acc, c) \in LineStates
           /\ c = 0 => /\ PutChar(acc, c).done = Append(acc.done, Right(acc.token))
                       /\ PutChar(acc, c).token = <<>>
           /\ c # 0 => /\ PutChar(acc, c).done = acc.done
                       /\ PutChar(acc, c).token = Append(acc.token, c)
<1>1. acc.done \in Seq(ReadStrings) /\ acc.token \in Seq(Nat)
  BY DEF LineStates
<1>2. Right(acc.token) \in ReadStrings /\ <<>> \in Seq(Nat)
  BY <1>1 DEF Right, ReadStrings
<1>3. Append(acc.done, Right(acc.token)) \in Seq(ReadStrings)
      /\ Append(acc.token, c) \in Seq(Nat)
  <2> DEFINE r == Right(acc.token)
             d == acc.done
             k == acc.token
  <2>1. r \in ReadStrings /\ d \in Seq(ReadStrings) /\ k \in Seq(Nat)
    BY <1>1, <1>2
  <2> HIDE DEF r, d, k
  <2>2. Append(d, r) \in Seq(ReadStrings) /\ Append(k, c) \in Seq(Nat)
    BY <2>1
  <2> QED
    BY <2>2 DEF r, d, k
<1>4. CASE c = 0
  <2>1. PutChar(acc, c) = [done |-> Append(acc.done, Right(acc.token)), token |-> <<>>]
    BY <1>4 DEF PutChar
  <2> DEFINE d == Append(acc.done, Right(acc.token))
  <2>2. d \in Seq(ReadStrings) /\ PutChar(acc, c) = [done |-> d, token |-> <<>>]
    BY <1>3, <2>1
  <2> HIDE DEF d
  <2>3. PutChar(acc, c) \in LineStates /\ PutChar(acc, c).done = d /\ PutChar(acc, c).token = <<>>
    BY <1>2, <2>2 DEF LineStates
  <2> QED
    BY <1>4, <2>3 DEF d
<1>5. CASE c # 0
  <2> DEFINE k == Append(acc.token, c)
             next == PutChar(acc, c)
  <2>1. next = [acc EXCEPT !.token = k] /\ k \in Seq(Nat)
    BY <1>3, <1>5 DEF PutChar
  <2> HIDE DEF k, next
  <2>2. next \in LineStates /\ next.done = acc.done /\ next.token = k
    BY <1>1, <2>1 DEF LineStates
  <2> QED
    BY <1>5, <2>2 DEF k, next
<1> QED
  BY <1>4, <1>5

\* The states of the loop, character by character.
IsLineTrace(t, base, chars) ==
    /\ t \in [0 .. Len(chars) -> LineStates]
    /\ t[0] = base /\ t[Len(chars)] = PutChars(base, chars)
    /\ \A k \in 1 .. Len(chars) : t[k] = PutChar(t[k - 1], chars[k])

\* Every run of the loop has them.
LEMMA LineTrace ==
    ASSUME NEW base \in LineStates, NEW chars \in Seq(Nat)
    PROVE  \E t : IsLineTrace(t, base, chars)
<1> DEFINE A == LineStates
           n == Len(chars)
           NextState(acc, i) == PutChar(acc, chars[i])
           F == [x \in A \X (1 .. n) |-> NextState(x[1], x[2])]
           Eq(f) == f = [s \in SUBSET (1 .. n) |->
                            IF s = {} THEN base
                            ELSE NextState(f[s \ {Max(s)}], Max(s))]
           iter == CHOOSE f : Eq(f)
<1>0. n \in Nat /\ DOMAIN chars = 1 .. n /\ \A i \in 1 .. n : chars[i] \in Nat
  OBVIOUS
<1>1. \A acc \in A : \A i \in 1 .. n : NextState(acc, i) \in A
  BY <1>0, PutFrom
<1>2. PutChars(base, chars) = iter[1 .. n]
  BY <1>0 DEF PutChars, FoldLeft, MapThenFoldSet
<1> HIDE DEF NextState, A, n
<1>3. F \in [A \X (1 .. n) -> A] /\ base \in A /\ n \in Nat
  <2>1. base \in A
    BY DEF A
  <2> QED
    BY <1>0, <1>1, <2>1
<1>4. \A acc \in A : \A i \in 1 .. n : F[<<acc, i>>] = NextState(acc, i)
  OBVIOUS
<1> HIDE DEF F
<1>5. PICK g : IsFoldValue(g, A, base, F, n)
  BY ONLY <1>3, FoldValue
<1>6. Eq(g)
  <2>1. \A s \in SUBSET (1 .. n) :
           g[s] = IF s = {} THEN base ELSE NextState(g[s \ {Max(s)}], Max(s))
    BY <1>4, <1>5 DEF IsFoldValue
  <2> QED
    BY <1>5, <2>1 DEF IsFoldValue
<1>7. Eq(iter)
  BY <1>6
<1> HIDE DEF iter
<1>8. \A s \in SUBSET (1 .. n) :
         iter[s] = IF s = {} THEN base ELSE NextState(iter[s \ {Max(s)}], Max(s))
  BY <1>7
<1> HIDE DEF Eq
<1>9. iter[{}] = base
  BY <1>8
<1>10. FoldsWith(iter, A, base, F, n)
  BY <1>4, <1>5, <1>8, <1>9 DEF FoldsWith, IsFoldValue
<1>11. PICK t : IsTrace(t, iter, A, base, F, n)
  BY ONLY <1>3, <1>10, FoldTrace
<1>12. \A k \in 1 .. n : t[k] = NextState(t[k - 1], k)
  <2> TAKE k \in 1 .. n
  <2>1. t[k - 1] \in A
    BY <1>0, <1>11 DEF IsTrace
  <2> QED
    BY <1>4, <1>11, <2>1 DEF IsTrace
<1> QED
  BY <1>2, <1>11, <1>12 DEF A, NextState, IsTrace, IsLineTrace, n

\* The strings taken after the first so many zeros.
Finished(texts, m) ==
    [i \in 1 .. m |-> Right(IF i \in 1 .. Len(texts) THEN texts[i] ELSE <<>>)]

\* One more zero finishes one more string, an empty one behind the texts.
LEMMA FinishedNext ==
    ASSUME NEW texts \in Seq(Seq(Bytes)), NEW m \in Nat
    PROVE  /\ Finished(texts, m) \in Seq(ReadStrings) /\ Len(Finished(texts, m)) = m
           /\ Append(Finished(texts, m),
                     Right(IF m + 1 \in 1 .. Len(texts) THEN texts[m + 1] ELSE <<>>))
              = Finished(texts, m + 1)
<1> DEFINE Line(i) == Right(IF i \in 1 .. Len(texts) THEN texts[i] ELSE <<>>)
<1>1. \A i \in Nat : Line(i) \in ReadStrings
  <2> TAKE i \in Nat
  <2> DEFINE v == IF i \in 1 .. Len(texts) THEN texts[i] ELSE <<>>
  <2>1. v \in Seq(Nat)
    <3>1. \A j \in 1 .. Len(texts) : texts[j] \in Seq(Bytes)
      OBVIOUS
    <3>2. <<>> \in Seq(Nat)
      OBVIOUS
    <3> QED
      BY <3>1, <3>2, BytesAreNumbers
  <2>2. \A x \in Seq(Nat) : Right(x) \in ReadStrings
    BY DEF Right, ReadStrings
  <2> QED
    BY <2>1, <2>2
<1>2. \A k \in Nat : Finished(texts, k) = [i \in 1 .. k |-> Line(i)]
  BY DEF Finished
<1> HIDE DEF Line
<1>3. \A k \in Nat : /\ Finished(texts, k) \in Seq(ReadStrings)
                     /\ Len(Finished(texts, k)) = k
                     /\ \A i \in 1 .. k : Finished(texts, k)[i] = Line(i)
  <2> TAKE k \in Nat
  <2>1. \A i \in 1 .. k : Line(i) \in ReadStrings
    BY <1>1
  <2> DEFINE s == [i \in 1 .. k |-> Line(i)]
  <2>2. s \in Seq(ReadStrings) /\ Len(s) = k /\ \A i \in 1 .. k : s[i] = Line(i)
    BY <2>1
  <2> QED
    BY <1>2, <2>2
<1> DEFINE a == Finished(texts, m)
           b == Finished(texts, m + 1)
           x == Line(m + 1)
<1>4. /\ a \in Seq(ReadStrings) /\ Len(a) = m /\ (\A i \in 1 .. m : a[i] = Line(i))
      /\ b \in Seq(ReadStrings) /\ Len(b) = m + 1 /\ (\A i \in 1 .. m + 1 : b[i] = Line(i))
      /\ x \in ReadStrings /\ x = Line(m + 1)
  BY <1>1, <1>3
<1> HIDE DEF a, b, x
<1>5. Append(a, x) = b
  <2>1. Append(a, x) \in Seq(ReadStrings) /\ Len(Append(a, x)) = m + 1
        /\ \A i \in 1 .. m + 1 : Append(a, x)[i] = IF i = m + 1 THEN x ELSE a[i]
    BY <1>4
  <2>2. \A i \in 1 .. m + 1 : Append(a, x)[i] = b[i]
    <3> TAKE i \in 1 .. m + 1
    <3>1. i = m + 1 \/ i \in 1 .. m
      OBVIOUS
    <3> QED
      BY <1>4, <2>1, <3>1
  <2> QED
    BY <1>4, <2>1, <2>2, SeqEqual
<1> QED
  BY <1>4, <1>5 DEF a, b, x, Line

-----------------------------------------------------------------------------
(* The texts of a plain page are its lines.                                *)

\* A text and the zero behind it are the characters from one place to another.
HasLine(chars, text, from, to) ==
    /\ text \in Seq(Nat) /\ from \in Nat
    /\ to = from + Len(text) + 1 /\ to <= Len(chars) /\ chars[to] = 0
    /\ \A j \in 1 .. Len(text) : text[j] # 0 /\ chars[from + j] = text[j]

\* From one place to another one string is finished.
TakesLine(t, text, from, to) ==
    t[to].done = Append(t[from].done, Right(text)) /\ t[to].token = <<>>

\* They become the next string.
LEMMA LineTaken ==
    ASSUME NEW base, NEW chars \in Seq(Nat), NEW t, IsLineTrace(t, base, chars),
           NEW text, NEW p, NEW q, HasLine(chars, text, p, q), t[p].token = <<>>
    PROVE  TakesLine(t, text, p, q)
<1> DEFINE n == Len(text)
           total == Len(chars)
<1>1. /\ text \in Seq(Nat) /\ p \in Nat
      /\ q = p + n + 1 /\ q <= total /\ chars[q] = 0
      /\ \A j \in 1 .. n : text[j] # 0 /\ chars[p + j] = text[j]
  BY DEF HasLine
<1>2. /\ n \in Nat /\ total \in Nat /\ p \in Nat /\ p + n + 1 <= total
      /\ (\A i \in 1 .. total : chars[i] \in Nat) /\ (\A j \in 1 .. n : text[j] \in Nat)
  BY <1>1, SMTT(60)
<1>3. /\ \A k \in 0 .. total : t[k] \in LineStates
      /\ \A k \in 1 .. total : t[k] = PutChar(t[k - 1], chars[k])
  BY DEF IsLineTrace
<1> DEFINE Put(j) == t[p + j].done = t[p].done /\ t[p + j].token = SubSeq(text, 1, j)
           S == {j \in Nat : j <= n => Put(j)}
<1>4. 0 \in S
  <2>1. p + 0 = p /\ SubSeq(text, 1, 0) = <<>>
    BY <1>1
  <2> QED
    BY <2>1
<1>5. ASSUME NEW j \in Nat, j \in S PROVE j + 1 \in S
  <2> SUFFICES ASSUME j + 1 <= n PROVE Put(j + 1)
    OBVIOUS
  <2>1. Put(j)
    BY <1>2, <1>5
  <2>2. p + (j + 1) \in 1 .. total /\ (p + (j + 1)) - 1 = p + j /\ p + j \in 0 .. total
        /\ j + 1 \in 1 .. n
    <3> HIDE DEF n, total
    <3> QED
      BY ONLY <1>2, j \in Nat, j + 1 <= n
  <2> DEFINE s == p + (j + 1)
             r == p + j
             c == chars[s]
  <2>3. t[s] = PutChar(t[r], c) /\ t[r] \in LineStates /\ c \in Nat /\ c # 0 /\ c = text[j + 1]
    BY <1>1, <1>2, <1>3, <2>2
  <2>4. SubSeq(text, 1, j + 1) = Append(SubSeq(text, 1, j), text[j + 1])
    <3>1. text \in Seq(Nat) /\ j + 1 \in 1 .. Len(text)
      BY <1>1, <2>2
    <3> HIDE DEF n
    <3> QED
      BY <3>1
  <2>5. t[r].done = t[p].done /\ t[r].token = SubSeq(text, 1, j)
    BY <2>1
  <2> HIDE DEF s, r, c
  <2>6. t[s].done = t[r].done /\ t[s].token = Append(t[r].token, c)
    <3> DEFINE acc == t[r]
    <3>1. acc \in LineStates /\ c \in Nat /\ c # 0 /\ t[s] = PutChar(acc, c)
      BY <2>3
    <3> HIDE DEF acc
    <3>2. PutChar(acc, c).done = acc.done /\ PutChar(acc, c).token = Append(acc.token, c)
      BY ONLY <3>1, PutFrom
    <3> QED
      BY <3>1, <3>2 DEF acc
  <2>7. t[s].done = t[p].done /\ t[s].token = SubSeq(text, 1, j + 1)
    BY <2>3, <2>4, <2>5, <2>6
  <2> QED
    BY <2>7 DEF s
<1> HIDE DEF S
<1>6. \A j \in Nat : j \in S
  BY <1>4, <1>5, NatStepwise
<1>7. Put(n)
  <2> HIDE DEF Put, n
  <2>1. n \in S /\ n <= n
    BY <1>2, <1>6
  <2> QED
    BY <2>1 DEF S
<1>8. SubSeq(text, 1, n) = text
  BY <1>1
<1> DEFINE r == p + n
<1>9. q \in 1 .. total /\ q - 1 = r /\ r \in 0 .. total
  BY <1>1, <1>2
<1>10. t[q] = PutChar(t[r], chars[q]) /\ t[r] \in LineStates /\ chars[q] = 0
  BY <1>1, <1>3, <1>9
<1>11. t[r].done = t[p].done /\ t[r].token = text
  BY <1>7, <1>8
<1> HIDE DEF r
<1>12. t[q].done = Append(t[r].done, Right(t[r].token)) /\ t[q].token = <<>>
  <2>1. 0 \in Nat
    OBVIOUS
  <2> DEFINE z == chars[q]
  <2>2. z = 0 /\ z \in Nat /\ t[q] = PutChar(t[r], z)
    BY <1>10, <2>1
  <2> DEFINE s == t[r]
  <2>3. s \in LineStates
    BY <1>10
  <2> HIDE DEF z, s
  <2>4. PutChar(s, z).done = Append(s.done, Right(s.token)) /\ PutChar(s, z).token = <<>>
    BY ONLY <2>2, <2>3, PutFrom
  <2> QED
    BY <2>2, <2>4 DEF s
<1> QED
  BY <1>11, <1>12 DEF TakesLine

\* So many strings are finished, and nothing of the next is there.
HasLines(t, p, texts, m) == t[p].done = Finished(texts, m) /\ t[p].token = <<>>

\* The texts, each with its zero, and the zeros that are left.
Lines(texts) == [i \in DOMAIN texts |-> Append(texts[i], 0)]
Zeros(n) == [i \in 1 .. n |-> 0]

\* A line is its text and a zero.
LEMMA LinesAreTexts ==
    ASSUME NEW texts \in Seq(Seq(Bytes))
    PROVE  /\ Lines(texts) \in Seq(Seq(Nat)) /\ Len(Lines(texts)) = Len(texts)
           /\ \A i \in 1 .. Len(texts) :
                 /\ texts[i] \in Seq(Nat)
                 /\ Len(Lines(texts)[i]) = Len(texts[i]) + 1
                 /\ Lines(texts)[i][Len(texts[i]) + 1] = 0
                 /\ \A j \in 1 .. Len(texts[i]) : Lines(texts)[i][j] = texts[i][j]
<1>1. DOMAIN texts = 1 .. Len(texts) /\ Len(texts) \in Nat
      /\ \A i \in 1 .. Len(texts) : texts[i] \in Seq(Bytes)
  OBVIOUS
<1>2. \A i \in 1 .. Len(texts) : texts[i] \in Seq(Nat)
  BY <1>1, BytesAreNumbers
<1>3. \A x \in Seq(Nat) :
         /\ Append(x, 0) \in Seq(Nat) /\ Len(Append(x, 0)) = Len(x) + 1
         /\ Append(x, 0)[Len(x) + 1] = 0
         /\ \A j \in 1 .. Len(x) : Append(x, 0)[j] = x[j]
  OBVIOUS
<1> DEFINE Line(i) == Append(texts[i], 0)
           lines == [i \in 1 .. Len(texts) |-> Line(i)]
<1>4. \A i \in 1 .. Len(texts) : Line(i) \in Seq(Nat)
  BY <1>2, <1>3
<1>5. Lines(texts) = lines
  BY <1>1 DEF Lines
<1>6. lines \in Seq(Seq(Nat)) /\ Len(lines) = Len(texts)
      /\ \A i \in 1 .. Len(texts) : lines[i] = Line(i)
  <2> HIDE DEF Line
  <2> QED
    BY <1>1, <1>4
<1> HIDE DEF lines
<1> QED
  BY <1>2, <1>3, <1>5, <1>6

\* All lines of a page are finished in their order.
LEMMA LinesTaken ==
    ASSUME NEW texts \in Seq(Seq(Bytes)), \A i \in DOMAIN texts : 0 \notin Range(texts[i]),
           NEW g, IsConcat(g, Lines(texts), Nat), NEW chars \in Seq(Nat), NEW t,
           NEW base, IsLineTrace(t, base, chars), Len(g[Len(texts)]) <= Len(chars),
           \A i \in 1 .. Len(g[Len(texts)]) : chars[i] = g[Len(texts)][i],
           t[0].done = <<>> /\ t[0].token = <<>>
    PROVE  HasLines(t, Len(g[Len(texts)]), texts, Len(texts))
<1> DEFINE n == Len(texts)
           lines == Lines(texts)
           S == {m \in Nat : m <= n => HasLines(t, Len(g[m]), texts, m)}
<1>1. n \in Nat /\ DOMAIN texts = 1 .. n /\ Len(lines) = n /\ lines \in Seq(Seq(Nat))
  BY LinesAreTexts
<1>2. HasParts(g, lines) /\ g[0] = <<>>
  <2>1. HasParts(g, lines)
    <3> HIDE DEF lines
    <3>1. IsConcat(g, lines, Nat)
      BY DEF lines
    <3> QED
      BY <1>1, <3>1, ConcatParts
  <2> QED
    BY <2>1 DEF IsConcat
<1>3. \A i \in 1 .. n :
         /\ texts[i] \in Seq(Nat) /\ Len(lines[i]) = Len(texts[i]) + 1
         /\ lines[i][Len(texts[i]) + 1] = 0
         /\ \A j \in 1 .. Len(texts[i]) : lines[i][j] = texts[i][j]
  BY LinesAreTexts
<1> HIDE DEF lines
<1>4. 0 \in S
  <2>1. Finished(texts, 0) = <<>>
    BY DEF Finished
  <2>2. Len(g[0]) = 0
    BY <1>2
  <2> QED
    BY <2>1, <2>2 DEF HasLines
<1>5. ASSUME NEW m \in Nat, m \in S PROVE m + 1 \in S
  <2> SUFFICES ASSUME m + 1 <= n PROVE HasLines(t, Len(g[m + 1]), texts, m + 1)
    OBVIOUS
  <2>1. HasLines(t, Len(g[m]), texts, m)
    BY <1>1, <1>5
  <2>2. m + 1 \in 1 .. n /\ (m + 1) - 1 = m /\ m \in 0 .. n /\ m + 1 \in 0 .. n
    BY <1>1
  <2> DEFINE text == texts[m + 1]
             p == Len(g[m])
             q == Len(g[m + 1])
             line == lines[m + 1]
             total == Len(g[n])
             k == Len(text)
             x == Len(line)
  <2>3. /\ text \in Seq(Nat) /\ x = k + 1 /\ line[k + 1] = 0
        /\ \A j \in 1 .. k : line[j] = text[j]
    BY <1>3, <2>2
  <2>4. /\ q = p + x /\ p \in Nat /\ q \in Nat /\ q <= total /\ total \in Nat
        /\ \A j \in 1 .. x : g[n][p + j] = line[j]
    <3>1. \A i \in 0 .. n : Len(g[i]) \in Nat /\ Len(g[i]) <= Len(g[n])
      BY <1>1, <1>2 DEF HasParts
    <3>2. \A i \in 1 .. n : Len(g[i]) = Len(g[i - 1]) + Len(lines[i])
      BY <1>1, <1>2 DEF HasParts
    <3>3. \A i \in 1 .. n : \A j \in 1 .. Len(lines[i]) : g[n][Len(g[i - 1]) + j] = lines[i][j]
      BY <1>1, <1>2 DEF HasParts
    <3>4. n \in 0 .. n
      BY <1>1
    <3> QED
      BY <2>2, <3>1, <3>2, <3>3, <3>4
  <2>5. \A j \in 1 .. k : text[j] # 0
    <3>1. 0 \notin Range(text)
      BY <1>1, <2>2
    <3>2. \A j \in 1 .. k : text[j] \in Range(text)
      BY <2>3, SMTT(60) DEF Range
    <3> QED
      BY <3>1, <3>2
  <2>6. total <= Len(chars) /\ Len(chars) \in Nat
        /\ \A i \in 1 .. total : chars[i] = g[n][i]
    OBVIOUS
  <2>7. t[p].done = Finished(texts, m) /\ t[p].token = <<>>
    BY <2>1 DEF HasLines
  <2>8. k \in Nat
    BY <2>3
  <2>9. /\ p + k + 1 <= Len(chars) /\ p + k + 1 = q
        /\ \A j \in 1 .. x : p + j \in 1 .. total
    <3> DEFINE l == Len(chars)
    <3>1. l \in Nat /\ total <= l
      BY <2>6
    <3> HIDE DEF p, q, total, k, x, l
    <3>2. p + k + 1 <= l /\ p + k + 1 = q /\ \A j \in 1 .. x : p + j \in 1 .. total
      BY ONLY <2>3, <2>4, <2>8, <3>1, SMTT(60)
    <3> QED
      BY <3>2 DEF l
  <2>10. \A j \in 1 .. x : chars[p + j] = line[j]
    BY <2>4, <2>6, <2>9
  <2>11. (\A j \in 1 .. k : chars[p + j] = text[j]) /\ chars[p + k + 1] = 0
    <3> HIDE DEF p, k, x, text, line
    <3>1. \A j \in 1 .. k : j \in 1 .. x
      BY <2>3, <2>8
    <3>2. k + 1 \in 1 .. x /\ p + (k + 1) = p + k + 1
      BY <2>3, <2>4, <2>8, SMTT(60)
    <3> QED
      BY <2>3, <2>10, <3>1, <3>2
  <2>12. HasLine(chars, text, p, q)
    BY <2>3, <2>4, <2>5, <2>9, <2>11 DEF HasLine
  <2> HIDE DEF text, p, q
  <2>14. TakesLine(t, text, p, q)
    BY <2>7, <2>12, LineTaken
  <2>13. Append(Finished(texts, m), Right(text)) = Finished(texts, m + 1)
    BY <1>1, <2>2, FinishedNext DEF text
  <2> QED
    BY <2>7, <2>13, <2>14 DEF HasLines, TakesLine, q
<1> HIDE DEF S
<1>6. \A m \in Nat : m \in S
  BY <1>4, <1>5, NatStepwise
<1> QED
  BY <1>1, <1>6 DEF S

\* Every zero behind them finishes an empty string.
LEMMA ZerosTaken ==
    ASSUME NEW texts \in Seq(Seq(Bytes)), NEW chars \in Seq(Nat), NEW t, NEW base,
           IsLineTrace(t, base, chars), NEW total \in Nat, NEW rest \in Nat,
           total + rest <= Len(chars), \A i \in 1 .. rest : chars[total + i] = 0,
           HasLines(t, total, texts, Len(texts))
    PROVE  HasLines(t, total + rest, texts, Len(texts) + rest)
<1> DEFINE n == Len(texts)
           size == Len(chars)
           S == {k \in Nat : k <= rest => HasLines(t, total + k, texts, n + k)}
<1>1. n \in Nat /\ size \in Nat /\ total + rest <= size
  OBVIOUS
<1>2. 0 \in S
  <2>1. total + 0 = total /\ n + 0 = n
    BY <1>1
  <2> QED
    BY <2>1
<1> HIDE DEF n, size
<1>3. ASSUME NEW k \in Nat, k \in S PROVE k + 1 \in S
  <2> SUFFICES ASSUME k + 1 <= rest PROVE HasLines(t, total + (k + 1), texts, n + (k + 1))
    OBVIOUS
  <2> DEFINE p == total + k
             q == total + (k + 1)
             m == n + k
  <2>1. HasLines(t, p, texts, m)
    BY <1>3
  <2>2. /\ p \in Nat /\ q = p + 0 + 1 /\ q <= size /\ m \in Nat /\ m + 1 = n + (k + 1)
        /\ k + 1 \in 1 .. rest
    BY <1>1
  <2>3. chars[q] = 0
    BY <2>2
  <2>4. ~(m + 1 \in 1 .. n)
    BY <1>1
  <2> HIDE DEF p, q, m
  <2>5. <<>> \in Seq(Nat) /\ Len(<<>>) = 0
    OBVIOUS
  <2>6. HasLine(chars, <<>>, p, q)
    BY <2>2, <2>3, <2>5 DEF HasLine, size
  <2>7. t[p].done = Finished(texts, m) /\ t[p].token = <<>>
    BY <2>1 DEF HasLines
  <2>8. TakesLine(t, <<>>, p, q)
    BY <2>6, <2>7, LineTaken
  <2>9. Append(Finished(texts, m), Right(<<>>)) = Finished(texts, m + 1)
    BY <2>2, <2>4, FinishedNext DEF n
  <2>10. HasLines(t, q, texts, m + 1)
    BY <2>7, <2>8, <2>9 DEF HasLines, TakesLine
  <2> QED
    BY <2>2, <2>10 DEF q
<1> HIDE DEF S
<1>4. \A k \in Nat : k \in S
  BY <1>2, <1>3, NatStepwise
<1>5. rest \in S /\ rest <= rest
  BY <1>4
<1> QED
  BY <1>5 DEF S, n

\* A plain page.
LEMMA PlainPageRead ==
    ASSUME NEW page, page.page_compressed = 0, NEW texts \in Seq(Seq(Bytes)),
           HoldsPlain(page, texts)
    PROVE  HoldsPageStrings(UncompressedStrings(page), page, texts,
                            page.remaining_store_available)
<1> DEFINE n == Len(texts)
           lines == Lines(texts)
           rest == page.remaining_store_available
           zeros == [i \in 1 .. rest |-> 0]
           chars == page.uncompressed_character_buffer
           base == [done |-> <<>>, token |-> <<>>]
<1>1. /\ rest \in Nat /\ chars = FlattenSeq(lines) \o zeros
      /\ \A i \in DOMAIN texts : 0 \notin Range(texts[i])
  BY DEF HoldsPlain, Lines
<1>2. n \in Nat /\ lines \in Seq(Seq(Nat)) /\ Len(lines) = n
  BY LinesAreTexts
<1>3. PICK g : IsConcat(g, lines, Nat) /\ g[n] = FlattenSeq(lines)
  <2> HIDE DEF lines
  <2> QED
    BY <1>2, Concatenated
<1>4. g[n] \in Seq(Nat)
  <2>1. n \in 0 .. n
    BY <1>2
  <2> HIDE DEF lines
  <2> QED
    BY <1>2, <1>3, <2>1 DEF IsConcat
<1>5. zeros \in Seq(Nat) /\ Len(zeros) = rest /\ \A i \in 1 .. rest : zeros[i] = 0
  BY <1>1
<1> DEFINE flat == g[n]
           total == Len(flat)
<1>6. /\ chars \in Seq(Nat) /\ Len(chars) = total + rest /\ total \in Nat
      /\ (\A i \in 1 .. total : chars[i] = flat[i])
      /\ \A i \in 1 .. rest : chars[total + i] = 0
  <2>1. flat \in Seq(Nat) /\ zeros \in Seq(Nat) /\ chars = flat \o zeros /\ Len(zeros) = rest
        /\ \A i \in 1 .. rest : zeros[i] = 0
    BY <1>1, <1>3, <1>4, <1>5
  <2> HIDE DEF flat, zeros, chars, rest
  <2>2. /\ flat \o zeros \in Seq(Nat) /\ Len(flat \o zeros) = total + rest /\ total \in Nat
        /\ \A i \in 1 .. total + rest :
              (flat \o zeros)[i] = IF i <= total THEN flat[i] ELSE zeros[i - total]
    BY <2>1, ConcatProperties
  <2> HIDE DEF total
  <2>3. (\A i \in 1 .. total : i \in 1 .. total + rest /\ i <= total)
        /\ \A i \in 1 .. rest : /\ total + i \in 1 .. total + rest /\ ~(total + i <= total)
                                /\ (total + i) - total = i
    BY <1>1, <2>2 DEF rest
  <2> QED
    BY <2>1, <2>2, <2>3
<1>7. base \in LineStates /\ base.done = <<>> /\ base.token = <<>>
  <2>1. <<>> \in Seq(ReadStrings) /\ <<>> \in Seq(Nat)
    OBVIOUS
  <2> QED
    BY <2>1 DEF LineStates
<1>8. UncompressedStrings(page) =
         IF PutChars(base, chars).token = <<>> THEN PutChars(base, chars).done
         ELSE Append(PutChars(base, chars).done, Right(PutChars(base, chars).token))
  BY LinesByChars
<1> HIDE DEF base, lines, chars, zeros, rest
<1>9. PICK t : IsLineTrace(t, base, chars)
  BY <1>6, <1>7, LineTrace
<1>10. t[0].done = <<>> /\ t[0].token = <<>>
  BY <1>7, <1>9 DEF IsLineTrace
<1>11. HasLines(t, total, texts, n)
  <2>1. IsConcat(g, Lines(texts), Nat)
    BY <1>3 DEF lines
  <2>2. Len(g[Len(texts)]) <= Len(chars)
        /\ \A i \in 1 .. Len(g[Len(texts)]) : chars[i] = g[Len(texts)][i]
    <3>1. total <= total + rest
      BY <1>1, <1>6
    <3> QED
      BY <1>6, <3>1
  <2> QED
    BY <1>1, <1>6, <1>9, <1>10, <2>1, <2>2, LinesTaken
<1>12. HasLines(t, total + rest, texts, n + rest)
  <2> DEFINE x == total + rest
  <2>1. x <= Len(chars) /\ x \in Nat
    BY <1>1, <1>6
  <2> HIDE DEF total
  <2> QED
    BY <1>1, <1>6, <1>9, <1>11, <2>1, ZerosTaken
<1>13. PutChars(base, chars).done = Finished(texts, n + rest)
       /\ PutChars(base, chars).token = <<>>
  <2>1. t[Len(chars)] = PutChars(base, chars)
    BY <1>9 DEF IsLineTrace
  <2> HIDE DEF total
  <2> QED
    BY <1>6, <1>12, <2>1 DEF HasLines
<1>14. UncompressedStrings(page) = Finished(texts, n + rest)
  BY <1>8, <1>13
<1> DEFINE strings == Finished(texts, n + rest)
<1>15. n + rest \in Nat /\ \A i \in 1 .. n : i \in 1 .. n + rest
  <2> HIDE DEF n
  <2> QED
    BY <1>1, <1>2
<1>16. strings \in Seq(ReadStrings) /\ Len(strings) = n + rest
  BY <1>15, FinishedNext
<1>17. \A i \in 1 .. n : Text(strings[i].value) = TextOf(page, texts[i])
  <2> TAKE i \in 1 .. n
  <2>1. strings[i] = Right(texts[i])
    BY <1>15 DEF Finished
  <2> QED
    BY <2>1 DEF Right, TextOf
<1> QED
  BY <1>14, <1>16, <1>17 DEF HoldsPageStrings, rest

-----------------------------------------------------------------------------
(* The pages of a dictionary, one behind the other.                        *)

\* The values that are texts.
TextValues == {Text(s) : s \in Seq(Nat)}

\* Every entry has its string, and perhaps there are more strings.
Matches(strings, entries) ==
    /\ Len(entries) <= Len(strings)
    /\ \A i \in 1 .. Len(entries) : Text(strings[i].value) = entries[i]

\* Matching goes on behind entries that have no string too many.
LEMMA MatchesConcat ==
    ASSUME NEW s \in Seq(ReadStrings), NEW x \in Seq(ReadStrings),
           NEW e \in Seq(TextValues), NEW y \in Seq(TextValues),
           Matches(s, e), Len(s) = Len(e), Matches(x, y)
    PROVE  /\ Matches(s \o x, e \o y)
           /\ Len(x) = Len(y) => Len(s \o x) = Len(e \o y)
<1> DEFINE n == Len(s)
           l == Len(x)
           m == Len(y)
           sx == s \o x
           ey == e \o y
<1>1. n \in Nat /\ l \in Nat /\ m \in Nat /\ Len(e) = n /\ m <= l
  BY DEF Matches
<1>2. /\ Len(sx) = n + l
      /\ \A i \in 1 .. n + l : sx[i] = IF i <= n THEN s[i] ELSE x[i - n]
  BY ConcatProperties
<1>3. /\ Len(ey) = n + m
      /\ \A i \in 1 .. n + m : ey[i] = IF i <= n THEN e[i] ELSE y[i - n]
  BY <1>1, ConcatProperties
<1>4. /\ \A i \in 1 .. n : Text(s[i].value) = e[i]
      /\ \A i \in 1 .. m : Text(x[i].value) = y[i]
  BY <1>1 DEF Matches
<1> HIDE DEF n, l, m, sx, ey
<1>5. ASSUME NEW i \in 1 .. n + m PROVE Text(sx[i].value) = ey[i]
  <2>1. i \in 1 .. n + l /\ (i <= n => i \in 1 .. n) /\ (~(i <= n) => i - n \in 1 .. m)
    BY <1>1
  <2>2. CASE i <= n
    BY <1>2, <1>3, <1>4, <2>1, <2>2
  <2>3. CASE ~(i <= n)
    BY <1>2, <1>3, <1>4, <2>1, <2>3
  <2> QED
    BY <2>2, <2>3
<1>6. n + m <= n + l
  BY <1>1
<1> QED
  BY <1>2, <1>3, <1>5, <1>6 DEF Matches, l, m, sx, ey

\* Only the strings of the last page may be more than its entries.
MatchesPages(strings, entries) ==
    /\ strings \in Seq(Seq(ReadStrings)) /\ entries \in Seq(Seq(TextValues))
    /\ Len(strings) = Len(entries)
    /\ \A i \in 1 .. Len(strings) :
          /\ Matches(strings[i], entries[i])
          /\ i < Len(strings) => Len(strings[i]) = Len(entries[i])

\* Pages whose strings match their entries match as a whole.
LEMMA PagesMatch ==
    ASSUME NEW strings, NEW entries, MatchesPages(strings, entries)
    PROVE  /\ FlattenSeq(strings) \in Seq(ReadStrings)
           /\ FlattenSeq(entries) \in Seq(TextValues)
           /\ Matches(FlattenSeq(strings), FlattenSeq(entries))
<1> DEFINE n == Len(strings)
<1>1. /\ strings \in Seq(Seq(ReadStrings)) /\ entries \in Seq(Seq(TextValues))
      /\ n \in Nat /\ Len(entries) = n
  BY DEF MatchesPages
<1>2. \A i \in 1 .. n : /\ Matches(strings[i], entries[i])
                        /\ i < n => Len(strings[i]) = Len(entries[i])
                        /\ strings[i] \in Seq(ReadStrings) /\ entries[i] \in Seq(TextValues)
  BY <1>1 DEF MatchesPages
<1>3. PICK g : IsConcat(g, strings, ReadStrings) /\ g[n] = FlattenSeq(strings)
  BY <1>1, Concatenated
<1>4. PICK h : IsConcat(h, entries, TextValues) /\ h[n] = FlattenSeq(entries)
  BY <1>1, Concatenated
<1>5. /\ \A i \in 0 .. n : g[i] \in Seq(ReadStrings) /\ h[i] \in Seq(TextValues)
      /\ g[0] = <<>> /\ h[0] = <<>>
      /\ \A i \in 1 .. n : g[i] = g[i - 1] \o strings[i] /\ h[i] = h[i - 1] \o entries[i]
  BY <1>1, <1>3, <1>4 DEF IsConcat
<1> HIDE DEF n
<1> DEFINE Good(m) == Matches(g[m], h[m]) /\ (m < n => Len(g[m]) = Len(h[m]))
           S == {m \in Nat : m <= n => Good(m)}
<1>6. 0 \in S
  <2>1. Matches(<<>>, <<>>)
    BY DEF Matches
  <2> QED
    BY <1>5, <2>1
<1>7. ASSUME NEW m \in Nat, m \in S PROVE m + 1 \in S
  <2> SUFFICES ASSUME m + 1 <= n PROVE Good(m + 1)
    OBVIOUS
  <2>1. m < n /\ m <= n /\ m \in 0 .. n /\ m + 1 \in 1 .. n /\ (m + 1) - 1 = m
    BY <1>1
  <2>2. Matches(g[m], h[m]) /\ Len(g[m]) = Len(h[m])
    BY <1>7, <2>1
  <2> DEFINE s == g[m]
             e == h[m]
             x == strings[m + 1]
             y == entries[m + 1]
  <2>3. /\ s \in Seq(ReadStrings) /\ e \in Seq(TextValues)
        /\ x \in Seq(ReadStrings) /\ y \in Seq(TextValues)
        /\ Matches(s, e) /\ Len(s) = Len(e) /\ Matches(x, y)
        /\ m + 1 < n => Len(x) = Len(y)
    BY <1>2, <1>5, <2>1, <2>2
  <2>4. g[m + 1] = s \o x /\ h[m + 1] = e \o y
    BY <1>5, <2>1
  <2> HIDE DEF s, e, x, y
  <2>5. Matches(s \o x, e \o y) /\ (Len(x) = Len(y) => Len(s \o x) = Len(e \o y))
    BY <2>3, MatchesConcat
  <2> QED
    BY <2>3, <2>4, <2>5
<1> HIDE DEF S
<1>8. \A m \in Nat : m \in S
  BY <1>6, <1>7, NatStepwise
<1>9. Matches(g[n], h[n])
  <2> HIDE DEF Good
  <2>1. n \in S /\ n <= n
    BY <1>1, <1>8
  <2>2. Good(n)
    BY <2>1 DEF S
  <2> QED
    BY <2>2 DEF Good
<1>10. n \in 0 .. n
  BY <1>1
<1> QED
  BY <1>3, <1>4, <1>5, <1>9, <1>10

-----------------------------------------------------------------------------
(* Every page is read as its texts.                                        *)

\* The pages of an ordinary dictionary.
PagesInOrder(pages) ==
    /\ pages \in Seq(Range(pages))
    /\ \A i \in DOMAIN pages :
          /\ pages[i].page_compressed \in {0, 1}
          /\ pages[i].page_compressed = 0 /\ i < Len(pages) =>
                pages[i].remaining_store_available = 0

\* The entries of a page.
PageEntries(page, texts) == [i \in DOMAIN texts |-> TextOf(page, texts[i])]

\* They are texts, one for each text written.
LEMMA PageEntriesAreTexts ==
    ASSUME NEW page, NEW texts \in Seq(Seq(Bytes))
    PROVE  /\ PageEntries(page, texts) \in Seq(TextValues)
           /\ Len(PageEntries(page, texts)) = Len(texts)
           /\ \A i \in 1 .. Len(texts) : PageEntries(page, texts)[i] = TextOf(page, texts[i])
<1> DEFINE n == Len(texts)
<1>1. n \in Nat /\ DOMAIN texts = 1 .. n /\ \A i \in 1 .. n : texts[i] \in Seq(Bytes)
  OBVIOUS
<1>2. \A i \in 1 .. n : TextOf(page, texts[i]) \in TextValues
  <2> TAKE i \in 1 .. n
  <2>1. texts[i] \in Seq(Nat) /\ InUtf8(texts[i]) \in Seq(Nat)
    BY <1>1, BytesAreNumbers, Utf8Text
  <2>2. TextOf(page, texts[i]) = Text(texts[i]) \/ TextOf(page, texts[i]) = Text(InUtf8(texts[i]))
    BY DEF TextOf, InUtf8
  <2> QED
    BY <2>1, <2>2 DEF TextValues
<1>3. PageEntries(page, texts) = [i \in 1 .. n |-> TextOf(page, texts[i])]
  BY <1>1 DEF PageEntries
<1> HIDE DEF n
<1> QED
  BY <1>1, <1>2, <1>3 DEF n

\* What was written in a page.
HoldsPage(dict, p, texts) ==
    /\ dict.pages[p].page_compressed \in {0, 1}
    /\ dict.pages[p].page_compressed = 0 => HoldsPlain(dict.pages[p], texts)
    /\ dict.pages[p].page_compressed = 1 =>
          HoldsCompressed(dict.pages[p], HandlesOf(dict.handles, p - 1), texts)

\* Nothing lies between a page and the next.
IsFull(page) == page.page_compressed = 0 => page.remaining_store_available = 0

\* A page of either kind gives its texts.
LEMMA PageRead ==
    ASSUME NEW dict, NEW p, NEW texts \in Seq(Seq(Bytes)), HoldsPage(dict, p, texts)
    PROVE  /\ PageStrings(dict, p) \in Seq(ReadStrings)
           /\ Matches(PageStrings(dict, p), PageEntries(dict.pages[p], texts))
           /\ IsFull(dict.pages[p]) =>
                 Len(PageStrings(dict, p)) = Len(PageEntries(dict.pages[p], texts))
<1> DEFINE page == dict.pages[p]
           strings == PageStrings(dict, p)
           entries == PageEntries(page, texts)
           n == Len(texts)
<1>1. n \in Nat /\ entries \in Seq(TextValues) /\ Len(entries) = n
      /\ \A i \in 1 .. n : entries[i] = TextOf(page, texts[i])
  <2>1. n \in Nat
    OBVIOUS
  <2> HIDE DEF page
  <2> QED
    BY <2>1, PageEntriesAreTexts
<1>2. PICK more \in Nat : /\ HoldsPageStrings(strings, page, texts, more)
                          /\ IsFull(page) => more = 0
  <2>1. CASE page.page_compressed = 0
    <3> DEFINE more == page.remaining_store_available
    <3>1. HoldsPlain(page, texts)
      BY <2>1 DEF HoldsPage
    <3>2. more \in Nat
      BY <3>1 DEF HoldsPlain
    <3>3. strings = UncompressedStrings(page)
      BY <2>1 DEF PageStrings
    <3> HIDE DEF page, strings
    <3>4. HoldsPageStrings(UncompressedStrings(page), page, texts, more)
      BY <2>1, <3>1, PlainPageRead
    <3>5. IsFull(page) => more = 0
      BY <2>1 DEF IsFull
    <3> QED
      BY <3>2, <3>3, <3>4, <3>5
  <2>2. CASE page.page_compressed = 1
    <3> DEFINE starts == HandlesOf(dict.handles, p - 1)
    <3>1. HoldsCompressed(page, starts, texts)
      BY <2>2 DEF HoldsPage
    <3>2. strings = CompressedStrings(page, starts)
      BY <2>2 DEF PageStrings
    <3> HIDE DEF page, strings, starts
    <3>3. HoldsPageStrings(CompressedStrings(page, starts), page, texts, 0)
      BY <2>2, <3>1, CompressedPageRead
    <3> QED
      BY <3>2, <3>3
  <2> QED
    BY <2>1, <2>2 DEF HoldsPage
<1>3. strings \in Seq(ReadStrings) /\ Len(strings) = n + more
      /\ \A i \in 1 .. n : Text(strings[i].value) = TextOf(page, texts[i])
  BY <1>2 DEF HoldsPageStrings
<1> HIDE DEF strings, entries, n, page
<1>4. n <= n + more /\ (more = 0 => n + more = n)
  BY <1>1, <1>2
<1> QED
  BY <1>1, <1>2, <1>3, <1>4 DEF Matches, strings, entries, page

\* The strings of all pages.
AllStrings(dict) == FlattenSeq([i \in DOMAIN dict.pages |-> PageStrings(dict, i)])

\* The strings of a dictionary are its texts.
LEMMA TextsRead ==
    ASSUME NEW c, HoldsTexts(c), PagesInOrder(c.dictionary.pages),
           c.dictionary.dictionary_type = "STRING"
    PROVE  /\ AllStrings(c.dictionary) \in Seq(ReadStrings)
           /\ Entries(c) \in Seq(TextValues)
           /\ Matches(AllStrings(c.dictionary), Entries(c))
<1> DEFINE dict == c.dictionary
           n == Len(dict.pages)
           strings == [i \in DOMAIN dict.pages |-> PageStrings(dict, i)]
           entries == [p \in DOMAIN c.texts |-> PageEntries(dict.pages[p], c.texts[p])]
<1>1. /\ n \in Nat /\ DOMAIN dict.pages = 1 .. n
      /\ \A i \in 1 .. n : /\ dict.pages[i].page_compressed \in {0, 1}
                           /\ dict.pages[i].page_compressed = 0 /\ i < n =>
                                 dict.pages[i].remaining_store_available = 0
  BY DEF PagesInOrder
<1>2. c.texts \in Seq(Seq(Seq(Bytes))) /\ Len(c.texts) = n
  BY DEF HoldsTexts
<1>3. DOMAIN c.texts = 1 .. n /\ \A i \in 1 .. n : c.texts[i] \in Seq(Seq(Bytes))
  BY <1>1, <1>2
<1>4. \A i \in 1 .. n :
         /\ dict.pages[i].page_compressed = 0 => HoldsPlain(dict.pages[i], c.texts[i])
         /\ dict.pages[i].page_compressed = 1 =>
               HoldsCompressed(dict.pages[i], HandlesOf(dict.handles, i - 1), c.texts[i])
  <2> TAKE i \in 1 .. n
  <2>1. IF dict.pages[i].page_compressed = 0 THEN HoldsPlain(dict.pages[i], c.texts[i])
        ELSE HoldsCompressed(dict.pages[i], HandlesOf(dict.handles, i - 1), c.texts[i])
    BY <1>1 DEF HoldsTexts
  <2> QED
    BY <2>1
<1>5. /\ Entries(c) = FlattenSeq(entries) /\ AllStrings(dict) = FlattenSeq(strings)
  BY DEF Entries, PageEntries, AllStrings
<1>6. ASSUME NEW i \in 1 .. n
      PROVE  /\ strings[i] \in Seq(ReadStrings) /\ entries[i] \in Seq(TextValues)
             /\ Matches(strings[i], entries[i])
             /\ i < n => Len(strings[i]) = Len(entries[i])
  <2> DEFINE texts == c.texts[i]
             page == dict.pages[i]
  <2>1. texts \in Seq(Seq(Bytes))
    BY <1>3
  <2>2. HoldsPage(dict, i, texts) /\ (i < n => IsFull(page))
    BY <1>1, <1>4 DEF HoldsPage, IsFull
  <2>3. strings[i] = PageStrings(dict, i) /\ entries[i] = PageEntries(page, texts)
    BY <1>1, <1>3
  <2> HIDE DEF texts, strings, entries, dict
  <2>4. /\ PageStrings(dict, i) \in Seq(ReadStrings)
        /\ Matches(PageStrings(dict, i), PageEntries(page, texts))
        /\ IsFull(page) => Len(PageStrings(dict, i)) = Len(PageEntries(page, texts))
    BY <2>1, <2>2, PageRead
  <2>5. PageEntries(page, texts) \in Seq(TextValues)
    BY <2>1, PageEntriesAreTexts
  <2> QED
    BY <2>2, <2>3, <2>4, <2>5
<1>7. MatchesPages(strings, entries)
  <2>1. strings \in [1 .. n -> Seq(ReadStrings)] /\ entries \in [1 .. n -> Seq(TextValues)]
    <3>1. DOMAIN strings = 1 .. n /\ DOMAIN entries = 1 .. n
          /\ strings = [i \in 1 .. n |-> strings[i]] /\ entries = [i \in 1 .. n |-> entries[i]]
      BY <1>1, <1>3
    <3> HIDE DEF strings, entries, n
    <3> QED
      BY <1>6, <3>1
  <2> HIDE DEF strings, entries, n
  <2>2. /\ strings \in Seq(Seq(ReadStrings)) /\ entries \in Seq(Seq(TextValues))
        /\ Len(strings) = n /\ Len(entries) = n
    BY <1>1, <2>1
  <2> QED
    BY <1>6, <2>2 DEF MatchesPages
<1> HIDE DEF strings, entries
<1> QED
  BY <1>5, <1>7, PagesMatch

-----------------------------------------------------------------------------
(* The dictionary holds its entries.                                       *)

\* The value read for an entry: numbers keep the digits printed.
ReadsEntry(got, entry) ==
    \/ entry \in TextValues /\ got = entry
    \/ \E n \in Int : \E x \in Int :
          /\ entry = Number(n) /\ got = Number(x)
          /\ 2 * (x - n) \in -Digit .. Digit /\ (n % Digit = 0 => x = n)

\* A dictionary of all entries from the first id on, and of no smaller id.
HoldsEntries(read, first, entries) ==
    /\ read.wild = FALSE
    /\ \A id \in DOMAIN read.value : id >= first
    /\ DOMAIN entries = 1 .. Len(entries) /\ Len(entries) \in Nat
    /\ \A i \in 1 .. Len(entries) :
          /\ first + i - 1 \in DOMAIN read.value
          /\ ReadsEntry(read.value[first + i - 1], entries[i])

\* Printing rounds to a digit, and not at all where there is nothing to round.
LEMMA PrintedNear ==
    ASSUME NEW n \in Int
    PROVE  /\ Printed(n) \in Int /\ 2 * (Printed(n) - n) \in -Digit .. Digit
           /\ n % Digit = 0 => Printed(n) = n
<1> DEFINE h == Digit \div 2
           m == n + h
           q == m \div Digit
           r == m % Digit
<1>1. Digit \in Nat \ {0}
  BY ScaleAssumption
<1>2. h \in 0 .. Digit - 1 /\ 2 * h <= Digit /\ Digit <= 2 * h + 1
  BY <1>1
<1> HIDE DEF h
<1>3. m \in Int /\ q \in Int /\ r \in 0 .. Digit - 1 /\ m = Digit * q + r
  BY <1>1, <1>2
<1>4. Printed(n) = Digit * q
  BY DEF Printed, h
<1> DEFINE p == Digit * q
<1>5. p \in Int /\ n + h = p + r
  BY <1>1, <1>3
<1>6. Printed(n) = p
  BY <1>4
<1> HIDE DEF m, q, r, p
<1>7. 2 * (p - n) \in -Digit .. Digit
  BY <1>1, <1>2, <1>3, <1>5
<1>8. ASSUME n % Digit = 0 PROVE p = n
  <2> DEFINE k == n \div Digit
  <2>1. k \in Int /\ n = Digit * k
    BY <1>1, <1>8
  <2> HIDE DEF k
  <2>2. m = Digit * k + h
    BY <2>1 DEF m
  <2>3. q = k
    BY <1>1, <1>2, <1>3, <2>1, <2>2, DivUnique DEF q
  <2> QED
    BY <2>1, <2>3 DEF p
<1> QED
  BY <1>5, <1>6, <1>7, <1>8

\* The dictionary that gives the values the ids from the first on.
DictionaryOf(first, values) == [id \in first .. first + Len(values) - 1 |-> values[id - first + 1]]

\* It holds the entries that the values are read for.
LEMMA EntriesHeld ==
    ASSUME NEW first \in Nat, NEW S, NEW values \in Seq(S), NEW entries, Len(entries) \in Nat,
           DOMAIN entries = 1 .. Len(entries), Len(entries) <= Len(values),
           \A i \in 1 .. Len(entries) : ReadsEntry(values[i], entries[i])
    PROVE  HoldsEntries(Right(DictionaryOf(first, values)), first, entries)
<1> DEFINE n == Len(values)
           e == Len(entries)
           d == DictionaryOf(first, values)
<1>1. n \in Nat /\ e \in Nat /\ e <= n
  OBVIOUS
<1>2. DOMAIN d = first .. first + n - 1
      /\ \A id \in first .. first + n - 1 : d[id] = values[id - first + 1]
  BY DEF DictionaryOf
<1>3. Right(d).wild = FALSE /\ Right(d).value = d
  BY DEF Right
<1> HIDE DEF n, e, d
<1>4. \A id \in DOMAIN d : id >= first
  BY <1>1, <1>2
<1>5. ASSUME NEW i \in 1 .. e
      PROVE  first + i - 1 \in DOMAIN d /\ ReadsEntry(d[first + i - 1], entries[i])
  <2> DEFINE id == first + i - 1
  <2>1. id \in first .. first + n - 1 /\ id - first + 1 = i
    BY <1>1
  <2> HIDE DEF id
  <2>2. d[id] = values[i]
    BY <1>2, <2>1
  <2>3. ReadsEntry(values[i], entries[i])
    BY DEF e
  <2> QED
    BY <1>2, <2>1, <2>2, <2>3 DEF id
<1> QED
  BY <1>3, <1>4, <1>5 DEF HoldsEntries, d, e

\* What is written in a dictionary of a known type.
HoldsDictionary(c) ==
    /\ c.dictionary.dictionary_type \in {"STRING", "LONG", "REAL"}
    /\ IF c.dictionary.dictionary_type = "STRING"
       THEN HoldsTexts(c) /\ PagesInOrder(c.dictionary.pages)
       ELSE c.dictionary.values \in Seq(Int)

\* The dictionary of a written column is read entry by entry.
LEMMA DictionaryRead ==
    ASSUME NEW c, HoldsDictionary(c), NEW first \in Nat
    PROVE  HoldsEntries(ReadDictionary(c.dictionary, first), first, Entries(c))
<1> DEFINE dict == c.dictionary
           entries == Entries(c)
<1>1. CASE dict.dictionary_type = "STRING"
  <2> DEFINE strings == AllStrings(dict)
             TextAt(i) == Text(strings[i].value)
             values == [i \in DOMAIN strings |-> TextAt(i)]
  <2>1. HoldsTexts(c) /\ PagesInOrder(dict.pages)
    BY <1>1 DEF HoldsDictionary
  <2>2. /\ strings \in Seq(ReadStrings) /\ entries \in Seq(TextValues)
        /\ Matches(strings, entries)
    BY <1>1, <2>1, TextsRead
  <2>3. DOMAIN strings = 1 .. Len(strings) /\ Len(strings) \in Nat
        /\ \A i \in 1 .. Len(strings) : strings[i] \in ReadStrings
    <3> HIDE DEF strings
    <3> QED
      BY <2>2
  <2>4. \A i \in 1 .. Len(strings) : strings[i].wild = FALSE /\ TextAt(i) \in TextValues
    <3> HIDE DEF strings
    <3> QED
      BY <2>3 DEF ReadStrings, TextValues
  <2>5. ~ \E i \in DOMAIN strings : strings[i].wild
    BY <2>3, <2>4
  <2>6. ReadDictionary(dict, first) = Right(DictionaryOf(first, values))
    BY <1>1, <2>5 DEF ReadDictionary, DictionaryOf, AllStrings
  <2> HIDE DEF strings
  <2>7. \A i \in 1 .. Len(strings) : TextAt(i) \in TextValues
    BY <2>4
  <2>8. values = [i \in 1 .. Len(strings) |-> TextAt(i)]
    BY <2>3
  <2> HIDE DEF TextAt
  <2>9. values \in Seq(TextValues) /\ Len(values) = Len(strings)
        /\ \A i \in 1 .. Len(strings) : values[i] = TextAt(i)
    BY <2>3, <2>7, <2>8
  <2> HIDE DEF values, entries
  <2>10. Len(entries) \in Nat /\ DOMAIN entries = 1 .. Len(entries) /\ Len(entries) <= Len(values)
    BY <2>2, <2>9 DEF Matches
  <2>11. ASSUME NEW i \in 1 .. Len(entries)
         PROVE  ReadsEntry(values[i], entries[i])
    <3>1. i \in 1 .. Len(strings)
      BY <2>3, <2>9, <2>10
    <3>2. values[i] = entries[i]
      BY <2>2, <2>9, <3>1 DEF Matches, TextAt
    <3>3. entries[i] \in TextValues
      BY <2>7, <2>9, <3>1, <3>2
    <3> QED
      BY <3>2, <3>3 DEF ReadsEntry
  <2>12. HoldsEntries(Right(DictionaryOf(first, values)), first, entries)
    BY <2>9, <2>10, <2>11, EntriesHeld
  <2> QED
    BY <2>6, <2>12 DEF entries
<1>2. CASE dict.dictionary_type # "STRING"
  <2> DEFINE ValueAt(i) == Number(Printed(dict.values[i]))
             values == [i \in DOMAIN dict.values |-> ValueAt(i)]
             n == Len(dict.values)
             Numbers == {Number(x) : x \in Int}
  <2>1. dict.dictionary_type \in {"LONG", "REAL"} /\ dict.values \in Seq(Int)
    BY <1>2 DEF HoldsDictionary
  <2>2. n \in Nat /\ DOMAIN dict.values = 1 .. n /\ \A i \in 1 .. n : dict.values[i] \in Int
    BY <2>1
  <2>3. ReadDictionary(dict, first) = Right(DictionaryOf(first, values))
    <3> DEFINE type == dict.dictionary_type
    <3>1. (type = "LONG" \/ type = "REAL") /\ type # "STRING" /\ type \in {"LONG", "REAL"}
      BY <2>1
    <3> HIDE DEF type
    <3>2. ReadDictionary(dict, first) =
             LET all == CASE type = "STRING" ->
                               [i \in DOMAIN AllStrings(dict) |-> Text(AllStrings(dict)[i].value)]
                          [] type \in {"LONG", "REAL"} -> values
             IN  IF type \notin {"STRING", "LONG", "REAL"} THEN Wrong
                 ELSE IF type = "STRING"
                         /\ \E i \in DOMAIN AllStrings(dict) : AllStrings(dict)[i].wild THEN Wrong
                 ELSE Right([id \in first .. first + Len(all) - 1 |-> all[id - first + 1]])
      BY DEF ReadDictionary, AllStrings, type
    <3> HIDE DEF values
    <3> QED
      BY <3>1, <3>2 DEF DictionaryOf
  <2>4. entries = [i \in 1 .. n |-> Number(dict.values[i])]
    BY <1>2, <2>2 DEF Entries
  <2>5. \A i \in 1 .. n : ValueAt(i) \in Numbers
    BY <2>2, PrintedNear
  <2>6. values = [i \in 1 .. n |-> ValueAt(i)]
    BY <2>2
  <2>7. values \in Seq(Numbers) /\ Len(values) = n /\ \A i \in 1 .. n : values[i] = ValueAt(i)
    <3> HIDE DEF ValueAt, n, Numbers
    <3> QED
      BY <2>2, <2>5, <2>6
  <2>8. Len(entries) = n /\ DOMAIN entries = 1 .. n
        /\ \A i \in 1 .. n : entries[i] = Number(dict.values[i])
    <3> HIDE DEF entries, n
    <3> QED
      BY <2>2, <2>4
  <2>9. ASSUME NEW i \in 1 .. n
        PROVE  ReadsEntry(values[i], entries[i])
    <3> DEFINE x == dict.values[i]
    <3>1. x \in Int /\ values[i] = Number(Printed(x)) /\ entries[i] = Number(x)
      BY <2>2, <2>7, <2>8
    <3> HIDE DEF x, values, entries
    <3>2. Printed(x) \in Int /\ 2 * (Printed(x) - x) \in -Digit .. Digit
          /\ (x % Digit = 0 => Printed(x) = x)
      BY <3>1, PrintedNear
    <3> DEFINE y == Printed(x)
    <3> HIDE DEF y
    <3>4. y \in Int /\ values[i] = Number(y) /\ 2 * (y - x) \in -Digit .. Digit /\ (x % Digit = 0 => y = x)
      BY <3>1, <3>2 DEF y
    <3> QED
      BY <3>1, <3>4 DEF ReadsEntry
  <2> HIDE DEF values, entries, n, Numbers
  <2>10. HoldsEntries(Right(DictionaryOf(first, values)), first, entries)
    BY <2>2, <2>7, <2>8, <2>9, EntriesHeld
  <2> QED
    BY <2>3, <2>10 DEF entries
<1> QED
  BY <1>1, <1>2

-----------------------------------------------------------------------------
(* The value of a row.                                                     *)

\* A whole number is printed and truncated as itself.
LEMMA WholeNumbers ==
    ASSUME NEW n \in Int, n % Unit = 0
    PROVE  n % Digit = 0 /\ Truncated(n) = n \div Unit
<1> DEFINE q == n \div Unit
           u == Unit \div Digit
<1>1. Unit \in Nat \ {0} /\ Digit \in Nat \ {0} /\ Unit % Digit = 0
  BY ScaleAssumption
<1>2. q \in Int /\ n = Unit * q
  BY <1>1
<1>3. u \in Int /\ Unit = Digit * u
  BY <1>1
<1> HIDE DEF q, u
<1>4. n % Digit = 0
  <2>1. u * q \in Int /\ n = Digit * (u * q)
    <3>1. u * q \in Int
      BY <1>2, <1>3
    <3>2. (Digit * u) * q = Digit * (u * q)
      BY <1>1, <1>2, <1>3
    <3> QED
      BY <1>2, <1>3, <3>1, <3>2
  <2> DEFINE k == u * q
  <2>2. k \in Int /\ n = Digit * k
    BY <2>1
  <2> HIDE DEF k
  <2>3. 0 \in 0 .. Digit - 1 /\ n = Digit * k + 0
    BY <1>1, <2>2
  <2> QED
    BY <1>1, <2>2, <2>3, DivUnique
<1>5. CASE n >= 0
  BY <1>4, <1>5 DEF Truncated
<1>6. CASE ~(n >= 0)
  <2> DEFINE m == -n
             k == -q
  <2>1. m \in Int /\ k \in Int /\ m = Unit * k + 0 /\ 0 \in 0 .. Unit - 1
    BY <1>1, <1>2
  <2> HIDE DEF m, k
  <2>2. m \div Unit = k
    BY <1>1, <2>1, DivUnique
  <2>3. (-n) \div Unit = -q
    BY <2>2 DEF m, k
  <2>4. -(-q) = q
    BY <1>2
  <2>5. Truncated(n) = -((-n) \div Unit)
    BY <1>6 DEF Truncated
  <2> QED
    BY <1>4, <2>3, <2>4, <2>5 DEF q
<1> QED
  BY <1>5, <1>6

\* A value but a number or an empty text is read as itself.
LEMMA SameIsRead ==
    ASSUME NEW v, v # Empty, v[1] # "number"
    PROVE  ReadsAs(v, v)
BY DEF ReadsAs

\* Which values are numbers, and which are empty.
LEMMA KindsOfValues ==
    /\ Null # Empty /\ Null[1] # "number"
    /\ Empty[1] # "number"
    /\ \A n : /\ Decimal(n) # Empty /\ Decimal(n)[1] # "number"
              /\ Date(n) # Empty /\ Date(n)[1] # "number"
              /\ Number(n) # Empty /\ Number(n)[1] = "number" /\ Number(n)[2] = n
    /\ \A t \in TextValues : t[1] # "number"
<1>1. /\ Null[1] = "null" /\ Empty[1] = "text"
      /\ \A n : /\ Decimal(n)[1] = "decimal" /\ Date(n)[1] = "date"
                /\ Number(n)[1] = "number" /\ Number(n)[2] = n
      /\ \A t \in TextValues : t[1] = "text"
  BY DEF Null, Empty, Text, Decimal, Date, Number, TextValues
<1> QED
  BY <1>1

\* The dictionary in use is the column's.
DictionaryInUse ==
    /\ HoldsEntries(Right(dictionary), column.first, Entries(column))
    /\ meta.min_data_id = column.first

\* The id in front of the dictionary is read as NULL.
LEMMA BlankRead ==
    ASSUME column.Dictionary, column.first \in Nat, DictionaryInUse,
           NEW id, id = column.first - 1, ~RowThrows(id)
    PROVE  ReadsAs(RowValue(id), Null)
<1>1. \A x \in DOMAIN dictionary : x >= column.first
  BY DEF DictionaryInUse, HoldsEntries, Right
<1>2. Lookup(id) = Empty
  <2>1. ~(id >= column.first)
    OBVIOUS
  <2> QED
    BY <1>1, <2>1 DEF Lookup
<1>3. ~(column.DataType = TypeDate) /\ ~(column.DataType = TypeDecimal)
  BY <1>2, KindsOfValues DEF RowThrows, Converts
<1>4. RowValue(id) = Null
  BY <1>2, <1>3 DEF RowValue
<1> QED
  BY <1>4, KindsOfValues, SameIsRead

\* The id of an entry is read as the value written, decimals and dates too.
LEMMA EntryRead ==
    ASSUME column.Dictionary, column.first \in Nat, DictionaryInUse,
           column.DataType = TypeDate => column.first = 3,
           NEW i \in DOMAIN Entries(column), NEW id, id = column.first + i - 1,
           NEW v, IsEntryOf(column, Entries(column)[i], v)
    PROVE  ReadsAs(RowValue(id), v)
<1> DEFINE entry == Entries(column)[i]
           got == dictionary[id]
<1>1. id \in DOMAIN dictionary /\ ReadsEntry(got, entry)
  <2>1. HoldsEntries(Right(dictionary), column.first, Entries(column))
    BY DEF DictionaryInUse
  <2>2. Right(dictionary).value = dictionary
    BY DEF Right
  <2> QED
    BY <2>1, <2>2 DEF HoldsEntries
<1>2. Lookup(id) = got
  BY <1>1 DEF Lookup
<1> HIDE DEF entry, got
<1>3. TypeDate # TypeDecimal
  BY DEF TypeDate, TypeDecimal
<1>4. CASE column.DataType \in {TypeDecimal, TypeDate}
  <2>1. /\ entry[1] = "number" /\ entry[2] % Unit = 0
        /\ v = IF column.DataType = TypeDecimal THEN Decimal(entry[2] \div Unit)
               ELSE Date(entry[2] \div Unit - DayOfSerial)
    BY <1>4 DEF IsEntryOf, entry
  <2>2. PICK n \in Int : /\ entry = Number(n)
                         /\ n % Digit = 0 => got = Number(n)
    BY <1>1, <2>1, KindsOfValues DEF ReadsEntry
  <2>3. entry[2] = n /\ n % Unit = 0
    BY <2>1, <2>2, KindsOfValues
  <2>4. n % Digit = 0 /\ Truncated(n) = n \div Unit
    BY <2>3, WholeNumbers
  <2>5. Lookup(id)[2] = n
    BY <1>2, <2>2, <2>4, KindsOfValues
  <2>6. CASE column.DataType = TypeDecimal
    <3>1. RowValue(id) = Decimal(n \div Unit) /\ v = Decimal(n \div Unit)
      <4>1. RowValue(id) = Decimal(Truncated(Lookup(id)[2]))
        BY <1>3, <2>6 DEF RowValue
      <4> QED
        BY <2>1, <2>3, <2>4, <2>5, <2>6, <4>1
    <3> QED
      BY <3>1, KindsOfValues, SameIsRead
  <2>7. CASE column.DataType = TypeDate
    <3> DEFINE day == n \div Unit
    <3>1. day \in Int
      BY ScaleAssumption
    <3>2. RowValue(id) = Date(day - EpochAdjustment - meta.min_data_id)
          /\ v = Date(day - DayOfSerial)
      BY <1>3, <2>1, <2>3, <2>4, <2>5, <2>7 DEF RowValue
    <3>3. meta.min_data_id = 3
      BY <2>7 DEF DictionaryInUse
    <3> HIDE DEF day
    <3>4. day - EpochAdjustment - meta.min_data_id = day - DayOfSerial
      BY <3>1, <3>3 DEF EpochAdjustment, DayOfSerial
    <3> QED
      BY <3>2, <3>4, KindsOfValues, SameIsRead
  <2> QED
    BY <1>4, <2>6, <2>7
<1>5. CASE column.DataType \notin {TypeDecimal, TypeDate}
  <2>1. v = entry
    BY <1>5 DEF IsEntryOf, entry
  <2>2. RowValue(id) = IF got = Empty THEN Null ELSE got
    BY <1>2, <1>5 DEF RowValue
  <2>3. CASE entry \in TextValues /\ got = entry
    <3>1. CASE v = Empty
      BY <2>1, <2>2, <2>3, <3>1, KindsOfValues DEF ReadsAs
    <3>2. CASE v # Empty
      <4>1. RowValue(id) = v /\ v[1] # "number"
        BY <2>1, <2>2, <2>3, <3>2, KindsOfValues
      <4> QED
        BY <3>2, <4>1, SameIsRead
    <3> QED
      BY <3>1, <3>2
  <2>4. CASE entry \notin TextValues
    <3>1. PICK n \in Int : \E x \in Int :
             /\ entry = Number(n) /\ got = Number(x) /\ 2 * (x - n) \in -Digit .. Digit
      BY <1>1, <2>4 DEF ReadsEntry
    <3>2. PICK x \in Int :
             /\ entry = Number(n) /\ got = Number(x) /\ 2 * (x - n) \in -Digit .. Digit
      BY <3>1
    <3>3. /\ RowValue(id) = Number(x) /\ v = Number(n)
          /\ v # Empty /\ v[1] = "number" /\ v[2] = n
          /\ Number(x)[1] = "number" /\ Number(x)[2] = x
      BY <2>1, <2>2, <3>2, KindsOfValues
    <3> QED
      BY <3>2, <3>3 DEF ReadsAs
  <2>5. entry \in TextValues => got = entry
    BY <1>1, KindsOfValues DEF ReadsEntry
  <2> QED
    BY <2>3, <2>4, <2>5
<1> QED
  BY <1>4, <1>5

\* Without a dictionary the id itself gives the value.
LEMMA DirectRead ==
    ASSUME ~column.Dictionary, NEW id, NEW v, IsDirect(column, id, v)
    PROVE  ReadsAs(RowValue(id), v)
<1> DEFINE n == id + column.BaseId
<1>1. /\ n \in 0 .. IdSpace - 1
      /\ v = IF column.DataType = TypeDecimal THEN Decimal(n \div column.Magnitude)
             ELSE Number((n \div column.Magnitude) * Unit)
  BY DEF IsDirect
<1>2. n % IdSpace = n
  <2> HIDE DEF n
  <2>1. IdSpace \in Nat
    BY ScaleAssumption
  <2> QED
    BY <1>1, <2>1
<1>3. DirectValue(id) = n \div column.Magnitude
  BY <1>2 DEF DirectValue
<1> HIDE DEF n
<1>4. RowValue(id) = v
  BY <1>1, <1>3 DEF RowValue
<1>5. CASE column.DataType = TypeDecimal
  BY <1>1, <1>4, <1>5, KindsOfValues, SameIsRead
<1>6. CASE column.DataType # TypeDecimal
  <2>1. v # Empty
    BY <1>1, <1>6, KindsOfValues
  <2> QED
    BY <1>4, <2>1 DEF ReadsAs
<1> QED
  BY <1>5, <1>6

\* A row is read as it was written.
LEMMA RowRead ==
    ASSUME Ordinary(column), Encoded(column), column.first \in Nat,
           column.Dictionary => DictionaryInUse,
           NEW i \in DOMAIN column.ids, ~RowThrows(column.ids[i])
    PROVE  ReadsAs(RowValue(column.ids[i]), column.written[i])
<1> DEFINE id == column.ids[i]
           v == column.written[i]
<1>1. IsIdOf(column, id, v)
  BY DEF Encoded
<1>2. column.DataType = TypeDate => column.first = 3
  BY DEF Ordinary
<1> HIDE DEF id, v
<1>3. CASE ~column.Dictionary
  BY <1>1, <1>3, DirectRead DEF IsIdOf, id, v
<1>4. CASE column.Dictionary
  <2>1. CASE column.IsNullable /\ id = SmallestId(column) /\ v = Null
    <3>1. id = column.first - 1
      BY <1>4, <2>1 DEF SmallestId
    <3>2. ~RowThrows(id)
      BY DEF id
    <3>3. ReadsAs(RowValue(id), Null)
      BY <1>4, <3>1, <3>2, BlankRead
    <3> QED
      BY <2>1, <3>3 DEF id, v
  <2>2. ASSUME NEW k \in DOMAIN Entries(column), id = column.first + k - 1,
               IsEntryOf(column, Entries(column)[k], v)
        PROVE  ReadsAs(RowValue(id), v)
    BY <1>2, <1>4, <2>2, EntryRead
  <2> QED
    BY <1>1, <1>4, <2>1, <2>2 DEF IsIdOf, id, v
<1> QED
  BY <1>3, <1>4

-----------------------------------------------------------------------------
(* The column is read as it was written.                                   *)

\* What the proof of a step needs of a written column.
LEMMA WrittenColumn ==
    ASSUME column \in Columns, IsWritten(column)
    PROVE  /\ column.first \in Nat /\ column.meta.min_data_id = column.first
           /\ HoldsIds(column) /\ Len(column.idf) = 1 /\ SmallestId(column) \in Int
           /\ column.idf[1].primary_segment \in Seq(Runs)
           /\ column.idf[1].sub_segment \in Seq(Nat)
           /\ column.meta.count_bit_packed = Len(column.codes)
           /\ column.ids \in Seq(0 .. IdSpace - 1)
           /\ column.Dictionary => HoldsDictionary(column)
<1>1. Ordinary(column) /\ Encoded(column) /\ WellFormedColumn(column)
  BY ColumnsAssumption DEF IsWritten
<1>2. column.meta.min_data_id = column.first /\ column.first \in Nat
  BY <1>1, ScaleAssumption DEF Ordinary, WellFormedColumn
<1>3. HoldsIds(column) /\ Len(column.idf) = 1
  BY <1>1 DEF Encoded, Ordinary
<1>4. SmallestId(column) \in Int
  BY <1>2 DEF SmallestId
<1>5. 1 \in DOMAIN column.idf
  BY <1>1, <1>3 DEF WellFormedColumn, IsSeq
<1>6. column.idf[1].primary_segment \in Seq(Runs) /\ column.idf[1].sub_segment \in Seq(Nat)
  BY <1>1, <1>5 DEF WellFormedColumn
<1>7. column.meta.count_bit_packed = Len(column.codes) /\ column.ids \in Seq(0 .. IdSpace - 1)
  BY <1>3 DEF HoldsIds
<1>8. ASSUME column.Dictionary PROVE HoldsDictionary(column)
  <2>1. column.dictionary.dictionary_type \in {"STRING", "LONG", "REAL"}
    BY <1>1, <1>8 DEF Ordinary
  <2>2. CASE column.dictionary.dictionary_type = "STRING"
    <3>1. HoldsTexts(column)
      BY <1>1, <1>8, <2>2 DEF Encoded
    <3>2. PagesInOrder(column.dictionary.pages)
      <4>1. column.dictionary.pages \in Seq(Range(column.dictionary.pages))
        BY <1>1, <1>8 DEF WellFormedColumn, IsSeq
      <4> QED
        BY <1>1, <1>8, <2>2, <4>1 DEF Ordinary, PagesInOrder
    <3> QED
      BY <2>1, <2>2, <3>1, <3>2 DEF HoldsDictionary
  <2>3. CASE column.dictionary.dictionary_type # "STRING"
    <3>1. column.dictionary.values \in Seq(Int)
      BY <1>1, <1>8, <2>3 DEF Encoded
    <3> QED
      BY <2>1, <2>3, <3>1 DEF HoldsDictionary
  <2> QED
    BY <2>2, <2>3
<1> QED
  BY <1>2, <1>3, <1>4, <1>6, <1>7, <1>8

\* Its dictionary follows no wild pointer and holds its entries.
LEMMA WrittenDictionary ==
    ASSUME column \in Columns, IsWritten(column), column.Dictionary
    PROVE  /\ ReadDictionary(column.dictionary, column.first).wild = FALSE
           /\ HoldsEntries(Right(ReadDictionary(column.dictionary, column.first).value),
                           column.first, Entries(column))
<1> DEFINE read == ReadDictionary(column.dictionary, column.first)
<1>1. HoldsDictionary(column) /\ column.first \in Nat
  BY WrittenColumn
<1>2. HoldsEntries(read, column.first, Entries(column))
  BY <1>1, DictionaryRead
<1> HIDE DEF read
<1>3. Right(read.value).wild = FALSE /\ Right(read.value).value = read.value
  BY DEF Right
<1> QED
  BY <1>2, <1>3 DEF HoldsEntries, read

\* The segment's metadata once it is read.
MetaRead ==
    meta = [min_data_id |-> column.first, count_bit_packed |-> Len(column.codes),
            bit_width |-> bit_width(column.meta)]

\* One step of a written column.
LEMMA NextDecoded ==
    ASSUME ColumnInv, DecodedInv, IsWritten(column), [Next]_vars
    PROVE  DecodedInv'
<1>1. /\ column \in Columns /\ row \in Nat /\ row <= Len(indices)
      /\ phase \in {"meta", "idf", "dictionary"} => row = 0
      /\ phase = "dictionary" => column.Dictionary
      /\ phase \in {"meta", "idf", "dictionary", "rows", "done", "failed", "wild"}
  BY DEF ColumnInv, TypeOK, RowsInOrder, ReaderInv
<1>2. /\ phase \in {"idf", "dictionary", "rows", "done"} \/ row > 0 => MetaRead
      /\ phase \in {"dictionary", "rows", "done"} \/ row > 0 => indices = column.ids
      /\ column.Dictionary /\ (phase \in {"rows", "done"} \/ row > 0) =>
            dictionary = ReadDictionary(column.dictionary, column.first).value
      /\ \A i \in 1 .. row : ~RowThrows(indices[i])
      /\ phase = "wild" => parse = "wild"
  BY DEF DecodedInv, MetaRead
<1> DEFINE Goal ==
      /\ phase' \in {"idf", "dictionary", "rows", "done"} \/ row' > 0 => MetaRead'
      /\ phase' \in {"dictionary", "rows", "done"} \/ row' > 0 => indices' = column.ids
      /\ column.Dictionary /\ (phase' \in {"rows", "done"} \/ row' > 0) =>
            dictionary' = ReadDictionary(column.dictionary, column.first).value
      /\ \A i \in 1 .. row' : ~RowThrows(indices[i])'
      /\ phase' = "wild" => parse' = "wild"
<1>3. column' = column
  BY <1>1 DEF Next, vars, OpenDocument, ReadDocument, ReadIdfMetadata, DecodeIndices,
              DecodeDictionary, ProcessRows, EndOfRows, Over
<1>4. ASSUME UNCHANGED <<meta, indices, dictionary, row>>,
             phase' = phase \/ phase' \in {"failed", "wild"} \/ (phase = "rows" /\ phase' = "done"),
             phase' = "wild" => parse' = "wild"
      PROVE  Goal
  <2>1. \A i \in 1 .. row' : ~RowThrows(indices[i])'
    <3> TAKE i \in 1 .. row'
    <3>1. ~RowThrows(indices[i])
      BY <1>2, <1>4
    <3>2. indices'[i] = indices[i]
      BY <1>4
    <3> QED
      BY <1>3, <1>4, <3>1, <3>2 DEF RowThrows, Converts, Lookup, Truncated
  <2>2. MetaRead' <=> MetaRead
    BY <1>3, <1>4 DEF MetaRead, bit_width
  <2>3. /\ phase' \in {"idf", "dictionary", "rows", "done"} =>
              phase \in {"idf", "dictionary", "rows", "done"}
        /\ phase' \in {"dictionary", "rows", "done"} => phase \in {"dictionary", "rows", "done"}
        /\ phase' \in {"rows", "done"} => phase \in {"rows", "done"}
    BY <1>4
  <2> QED
    BY <1>2, <1>4, <2>1, <2>2, <2>3
<1>5. ASSUME OpenDocument \/ EndOfRows \/ Over \/ UNCHANGED vars PROVE Goal
  <2>1. /\ UNCHANGED <<meta, indices, dictionary, row>>
        /\ phase' = phase \/ (phase = "rows" /\ phase' = "done")
        /\ phase' = "wild" => parse' = "wild"
    BY <1>2, <1>5 DEF OpenDocument, EndOfRows, Over, vars, decoderVars, layoutVars
  <2> HIDE DEF Goal
  <2> QED
    BY <1>4, <2>1
<1>6. ASSUME ReadDocument PROVE Goal
  <2>1. /\ UNCHANGED <<meta, indices, dictionary, row>>
        /\ phase' = phase \/ phase' \in {"failed", "wild"}
        /\ phase' = "wild" => parse' = "wild"
    BY <1>2, <1>6 DEF ReadDocument, decoderVars
  <2> HIDE DEF Goal
  <2> QED
    BY <1>4, <2>1
<1>7. ASSUME ReadIdfMetadata PROVE Goal
  <2>1. /\ phase' = "idf" /\ row' = 0
        /\ meta' = [min_data_id |-> column.meta.min_data_id,
                    count_bit_packed |-> column.meta.count_bit_packed,
                    bit_width |-> bit_width(column.meta)]
    BY <1>1, <1>7 DEF ReadIdfMetadata
  <2>2. MetaRead'
    BY <1>1, <1>3, <2>1, WrittenColumn DEF MetaRead, bit_width
  <2>3. 1 .. row' = {} /\ ~(row' > 0)
    BY <2>1
  <2> QED
    BY <2>1, <2>2, <2>3
<1>8. ASSUME DecodeIndices PROVE Goal
  <2>1. /\ phase = "idf" /\ UNCHANGED <<meta, row>> /\ row = 0
        /\ indices' = ReadRLEBitPackedHybrid(column.idf, meta.count_bit_packed,
                                             PackedBase, meta.bit_width).value
        /\ phase' = IF ReadRLEBitPackedHybrid(column.idf, meta.count_bit_packed,
                                              PackedBase, meta.bit_width).wild THEN "wild"
                    ELSE IF column.Dictionary THEN "dictionary" ELSE "rows"
    BY <1>1, <1>8 DEF DecodeIndices
  <2>2. MetaRead
    BY <1>2, <2>1
  <2>3. /\ meta.count_bit_packed = column.meta.count_bit_packed
        /\ meta.bit_width = bit_width(column.meta) /\ meta.min_data_id = column.first
    BY <1>1, <2>2, WrittenColumn DEF MetaRead
  <2>4. PackedBase = SmallestId(column)
    <3>1. column.first \in Nat
      BY <1>1, WrittenColumn
    <3> QED
      BY <2>3, <3>1 DEF PackedBase, SmallestId, NullAdjustment
  <2>5. ReadRLEBitPackedHybrid(column.idf, column.meta.count_bit_packed, SmallestId(column),
                               bit_width(column.meta)) = Right(column.ids)
    BY <1>1, WrittenColumn, IdsRead
  <2>6. indices' = column.ids /\ phase' = IF column.Dictionary THEN "dictionary" ELSE "rows"
    BY <2>1, <2>3, <2>4, <2>5 DEF Right
  <2>7. MetaRead'
    BY <1>3, <2>1, <2>2 DEF MetaRead, bit_width
  <2>8. 1 .. row' = {} /\ ~(row' > 0)
    BY <2>1
  <2> QED
    BY <2>6, <2>7, <2>8
<1>9. ASSUME DecodeDictionary PROVE Goal
  <2>1. /\ phase = "dictionary" /\ UNCHANGED <<meta, indices, row>> /\ row = 0
        /\ column.Dictionary
        /\ dictionary' = ReadDictionary(column.dictionary, meta.min_data_id).value
        /\ phase' = IF ReadDictionary(column.dictionary, meta.min_data_id).wild THEN "wild"
                    ELSE "rows"
    BY <1>1, <1>9 DEF DecodeDictionary
  <2>2. MetaRead /\ indices = column.ids
    BY <1>2, <2>1
  <2>3. meta.min_data_id = column.first
    BY <2>2 DEF MetaRead
  <2>4. ReadDictionary(column.dictionary, column.first).wild = FALSE
    BY <1>1, <2>1, WrittenDictionary
  <2>5. phase' = "rows" /\ dictionary' = ReadDictionary(column.dictionary, column.first).value
    BY <2>1, <2>3, <2>4
  <2>6. MetaRead'
    BY <1>3, <2>1, <2>2 DEF MetaRead, bit_width
  <2>7. 1 .. row' = {} /\ ~(row' > 0)
    BY <2>1
  <2> QED
    BY <2>1, <2>2, <2>5, <2>6, <2>7
<1>10. ASSUME ProcessRows PROVE Goal
  <2>1. phase = "rows" /\ row < Len(indices) /\ UNCHANGED <<meta, indices, dictionary>>
    BY <1>10 DEF ProcessRows
  <2>2. CASE \E i \in 1 .. RowCount : RowThrows(ChunkIds[i])
    <3>1. phase' = "failed" /\ UNCHANGED row
      BY <1>10, <2>2 DEF ProcessRows
    <3> HIDE DEF Goal
    <3> QED
      BY <1>4, <2>1, <3>1
  <2>3. CASE ~ \E i \in 1 .. RowCount : RowThrows(ChunkIds[i])
    <3>1. phase' = "rows" /\ row' = row + RowCount
      BY <1>10, <2>1, <2>3 DEF ProcessRows
    <3>2. MetaRead /\ indices = column.ids
          /\ (column.Dictionary =>
                dictionary = ReadDictionary(column.dictionary, column.first).value)
      BY <1>2, <2>1
    <3>3. MetaRead'
      BY <1>3, <2>1, <3>2 DEF MetaRead, bit_width
    <3>4. ASSUME NEW i \in 1 .. row' PROVE ~RowThrows(indices[i])'
      <4> DEFINE count == RowCount
                 from == row + 1
                 to == row + count
                 S == 0 .. IdSpace - 1
      <4>1. indices \in Seq(S) /\ Len(indices) \in Nat
        BY <1>1, <3>2, WrittenColumn
      <4>2. count \in Nat /\ row + count <= Len(indices)
        BY <1>1, <2>1, <4>1, ChunkAssumption DEF RowCount
      <4>3. ~RowThrows(indices[i])
        <5>1. CASE i \in 1 .. row
          BY <1>2, <5>1
        <5>2. CASE i \notin 1 .. row
          <6> DEFINE k == i - row
          <6>1. k \in 1 .. count /\ from + k - 1 = i
            <7> HIDE DEF count
            <7> QED
              BY <1>1, <3>1, <4>2, <5>2 DEF count
          <6>2. ChunkIds = SubSeq(indices, from, to)
            BY DEF ChunkIds
          <6>3. /\ from \in Int /\ to \in Int /\ to - from + 1 = count
                /\ \A j \in from .. to : indices[j] \in S
            <7> HIDE DEF count, S
            <7>1. \A j \in from .. to : j \in 1 .. Len(indices)
              BY <1>1, <4>1, <4>2
            <7>2. \A j \in 1 .. Len(indices) : indices[j] \in S
              BY <4>1
            <7>3. from \in Int /\ to \in Int /\ to - from + 1 = count
              BY <1>1, <4>2
            <7> QED
              BY <7>1, <7>2, <7>3
          <6> HIDE DEF k, from, to, count, S
          <6>4. \A j \in 1 .. to - from + 1 : SubSeq(indices, from, to)[j] = indices[from + j - 1]
            BY <6>3, SubSeqProperties
          <6>5. ChunkIds[k] = indices[i]
            BY <6>1, <6>2, <6>3, <6>4
          <6> QED
            BY <2>3, <6>1, <6>5 DEF count
        <5> QED
          BY <5>1, <5>2
      <4>4. indices'[i] = indices[i]
        BY <2>1
      <4> QED
        BY <1>3, <2>1, <4>3, <4>4 DEF RowThrows, Converts, Lookup, Truncated
    <3> QED
      BY <2>1, <3>1, <3>2, <3>3, <3>4
  <2> QED
    BY <2>2, <2>3
<1>11. Goal
  <2> HIDE DEF Goal
  <2> QED
    BY <1>5, <1>6, <1>7, <1>8, <1>9, <1>10 DEF Next
<1> QED
  BY <1>3, <1>11 DEF DecodedInv, MetaRead

\* The inductive invariant holds at every step.
LEMMA DecodedAlways == Spec => []DecodedInv
<1>1. Init => DecodedInv
  BY DEF Init, DecodedInv
<1>2. ColumnInv /\ DecodedInv /\ [Next]_vars => DecodedInv'
  <2> SUFFICES ASSUME ColumnInv, DecodedInv, [Next]_vars PROVE DecodedInv'
    OBVIOUS
  <2>1. CASE IsWritten(column)
    BY <2>1, NextDecoded
  <2>2. CASE ~IsWritten(column)
    <3>1. column' = column
      BY DEF Next, vars, OpenDocument, ReadDocument, ReadIdfMetadata, DecodeIndices,
             DecodeDictionary, ProcessRows, EndOfRows, Over
    <3>2. ~IsWritten(column')
      BY <2>2, <3>1
    <3> QED
      BY <3>2 DEF DecodedInv
  <2> QED
    BY <2>1, <2>2
<1> QED
  BY <1>1, <1>2, ColumnInvariant, PTL DEF Spec

\* What it says of the rows that are out.
LEMMA RowsOfWritten == ColumnInv /\ DecodedInv => RowsAreWritten
<1> SUFFICES ASSUME ColumnInv, DecodedInv, Ordinary(column), Encoded(column)
             PROVE  /\ \A i \in DOMAIN output :
                          /\ i \in DOMAIN column.written
                          /\ ReadsAs(output[i], column.written[i])
                    /\ phase = "done" => Len(output) = Len(column.written)
  BY DEF RowsAreWritten
<1>1. /\ column \in Columns /\ row \in Nat /\ row <= Len(indices) /\ Len(output) = row
      /\ output = [i \in 1 .. row |-> RowValue(indices[i])]
      /\ phase = "done" => row = Len(indices)
  BY DEF ColumnInv, TypeOK, RowsInOrder
<1>2. IsWritten(column)
  BY DEF IsWritten
<1>3. Len(column.written) = Len(column.ids) /\ DOMAIN column.written = 1 .. Len(column.written)
  BY DEF Encoded, IsSeq
<1>4. phase = "done" => Len(output) = Len(column.written)
  BY <1>1, <1>2, <1>3 DEF DecodedInv
<1>5. ASSUME NEW i \in 1 .. row
      PROVE  i \in DOMAIN column.written /\ ReadsAs(output[i], column.written[i])
  <2>1. row > 0
    BY <1>1
  <2>2. /\ indices = column.ids /\ MetaRead /\ ~RowThrows(indices[i])
        /\ column.Dictionary =>
              dictionary = ReadDictionary(column.dictionary, column.first).value
    BY <1>2, <2>1 DEF DecodedInv, MetaRead
  <2>3. column.Dictionary => DictionaryInUse
    BY <1>1, <1>2, <2>2, WrittenDictionary DEF DictionaryInUse, MetaRead
  <2>4. column.ids \in Seq(0 .. IdSpace - 1) /\ column.first \in Nat
    BY <1>1, <1>2, WrittenColumn
  <2>5. i \in DOMAIN column.ids
    BY <1>1, <2>2, <2>4
  <2>6. ReadsAs(RowValue(column.ids[i]), column.written[i])
    BY <2>2, <2>3, <2>4, <2>5, RowRead
  <2>7. output[i] = RowValue(column.ids[i])
    BY <1>1, <2>2
  <2>8. i \in DOMAIN column.written
    BY <1>3, <2>4, <2>5
  <2> QED
    BY <2>6, <2>7, <2>8
<1> QED
  BY <1>1, <1>4, <1>5

\* The rows of an ordinary column come out as they were written, in order and
\* all of them, whatever its size, its codes and the order of the steps.
\* (initializeColumnData, processVertipaqData)
THEOREM ReadsWhatWasWritten == Spec => []RowsAreWritten
<1> QED
  BY ColumnInvariant, DecodedAlways, RowsOfWritten, PTL

\* A wild pointer is followed only where a union was not reached, unless the
\* column is not ordinary. (_clean_up, initializeColumnData)
THEOREM WildOnlyWithoutUnions == Spec => []WildOnlyThroughUnions
<1>1. ColumnInv /\ DecodedInv => WildOnlyThroughUnions
  BY DEF ColumnInv, UnionsOnly, DecodedInv, IsWritten, WildOnlyThroughUnions
<1> QED
  BY <1>1, ColumnInvariant, DecodedAlways, PTL
=============================================================================
