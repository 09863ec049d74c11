--------------------------- MODULE MachineProofs ---------------------------
(***************************************************************************)
(* Proofs about Machine and UserMemory, for every width of the bytes, size *)
(* of the pages, page table, program and arguments.                        *)
(***************************************************************************)
EXTENDS Machine, TLAPS, FunctionTheorems, FiniteSetTheorems, SequenceTheorems, WellFoundedInduction

-----------------------------------------------------------------------------
(* Powers of two, counted as sets of subsets, and the sizes made of them. *)

(* A non-empty set of naturals has a least element: what induction over a  *)
(* loop's turns rests on here.                                             *)
LEMMA LeastNatural ==
    ASSUME NEW T \in SUBSET Nat, T # {}
    PROVE  \E n \in T : \A k \in T : n <= k
<1>1. PICK n \in T : \A k \in T : ~(<<k, n>> \in OpToRel(<, Nat))
      BY NatLessThanWellFounded, WFMin
<1>2. ASSUME NEW k \in T PROVE n <= k
  <2>1. k \in Nat /\ n \in Nat
        OBVIOUS
  <2>2. ~(k < n)
        BY <1>1, <2>1 DEF OpToRel
  <2> QED BY <2>1, <2>2
<1> QED BY <1>2

(* A set that has 0, and n + 1 with every n, has every natural up to top. *)
LEMMA Counting ==
    ASSUME NEW T, NEW top \in Nat, 0 \in T, \A n \in 0 .. top - 1 : n \in T => n + 1 \in T
    PROVE  \A n \in 0 .. top : n \in T
<1> SUFFICES ASSUME NEW x \in 0 .. top, x \notin T PROVE FALSE
    OBVIOUS
<1> DEFINE Missing == {n \in 0 .. top : n \notin T}
<1>1. Missing \in SUBSET Nat /\ Missing # {}
      OBVIOUS
<1>2. PICK n \in Missing : \A k \in Missing : n <= k
      BY <1>1, LeastNatural
<1>3. n # 0 /\ n \in 0 .. top
      BY <1>2
<1>4. n - 1 \in 0 .. top - 1 /\ n - 1 \in 0 .. top /\ ~(n <= n - 1)
      BY <1>3
<1>5. n - 1 \in T
      BY <1>2, <1>4
<1>6. n - 1 + 1 \in T
      BY <1>4, <1>5
<1> QED BY <1>2, <1>3, <1>6

LEMMA PowType == \A n \in Nat : 2 ^ n \in Nat \ {0}
<1> TAKE n \in Nat
<1>1. IsFiniteSet(1 .. n) /\ Cardinality(1 .. n) = n
      BY FS_Interval
<1>2. IsFiniteSet(SUBSET (1 .. n)) /\ Cardinality(SUBSET (1 .. n)) = 2 ^ n
      BY <1>1, FS_SUBSET
<1>3. Cardinality(SUBSET (1 .. n)) \in Nat
      BY <1>2, FS_CardinalityType
<1>4. {} \in SUBSET (1 .. n)
      OBVIOUS
<1>5. Cardinality(SUBSET (1 .. n)) # 0
      BY <1>2, <1>4, FS_EmptySet
<1> QED BY <1>2, <1>3, <1>5

(* Half of the subsets of 1 .. n + 1 have n + 1. *)
LEMMA PowStep == \A n \in Nat : 2 ^ (n + 1) = 2 * 2 ^ n
<1> TAKE n \in Nat
<1> DEFINE A == SUBSET (1 .. n)
           B == {T \in SUBSET (1 .. n + 1) : n + 1 \in T}
           f == [T \in A |-> T \cup {n + 1}]
<1>1. /\ IsFiniteSet(1 .. n) /\ Cardinality(1 .. n) = n
      /\ IsFiniteSet(1 .. n + 1) /\ Cardinality(1 .. n + 1) = n + 1
      BY FS_Interval
<1>2. /\ IsFiniteSet(A) /\ Cardinality(A) = 2 ^ n
      /\ Cardinality(SUBSET (1 .. n + 1)) = 2 ^ (n + 1)
      BY <1>1, FS_SUBSET
<1>3. n + 1 \notin 1 .. n /\ \A x : x \in 1 .. n + 1 <=> x \in 1 .. n \/ x = n + 1
      OBVIOUS
<1>4. SUBSET (1 .. n + 1) = A \cup B
      BY <1>3, Zenon
<1>5. A \cap B = {}
      BY <1>3, Zenon
<1>6. f \in Bijection(A, B)
  <2>1. f \in [A -> B]
    <3>1. ASSUME NEW T \in A PROVE T \cup {n + 1} \in B
          BY <1>3, Zenon
    <3> QED BY <3>1
  <2>2. ASSUME NEW S1 \in A, NEW S2 \in A, f[S1] = f[S2] PROVE S1 = S2
    <3>1. S1 \cup {n + 1} = S2 \cup {n + 1}
          BY <2>2
    <3>2. n + 1 \notin S1 /\ n + 1 \notin S2
          BY <1>3
    <3> QED BY <3>1, <3>2
  <2>3. ASSUME NEW T \in B PROVE \E R \in A : f[R] = T
    <3>1. T \ {n + 1} \in A
          BY <1>3, Zenon
    <3>2. T = (T \ {n + 1}) \cup {n + 1}
          BY Zenon
    <3> QED BY <3>1, <3>2
  <2> HIDE DEF A, B, f
  <2>4. f \in Injection(A, B)
        BY <2>1, <2>2, Fun_IsInj
  <2>5. f \in Surjection(A, B)
        BY <2>1, <2>3, Fun_IsSurj
  <2> QED BY <2>4, <2>5, Fun_IsBij
<1>7. IsFiniteSet(B) /\ Cardinality(B) = 2 ^ n
  <2> HIDE DEF A, B, f
  <2>1. ExistsBijection(A, B)
        BY <1>6 DEF ExistsBijection
  <2> QED BY <1>2, <2>1, FS_Bijection
<1>8. Cardinality(A \cup B) = 2 ^ n + 2 ^ n - Cardinality({})
      BY <1>2, <1>7, <1>5, FS_Union
<1>9. Cardinality({}) = 0 /\ 2 ^ n \in Nat
      BY FS_EmptySet, PowType
<1> HIDE DEF A, B
<1>10. 2 ^ (n + 1) = 2 ^ n + 2 ^ n - Cardinality({})
       BY <1>2, <1>4, <1>8, Zenon
<1> QED BY <1>9, <1>10

(* 2 ^ (n + k) = 2 ^ n * 2 ^ k, by counting k up. *)
LEMMA PowAdd == \A n, k \in Nat : 2 ^ (n + k) = 2 ^ n * 2 ^ k
<1> TAKE n, k \in Nat
<1> DEFINE T == {j \in Nat : 2 ^ (n + j) = 2 ^ n * 2 ^ j}
<1>1. 0 \in T
  <2>1. 2 ^ 0 = 1
    <3>1. IsFiniteSet({}) /\ Cardinality({}) = 0
          BY FS_EmptySet
    <3>2. SUBSET {} = {{}}
          BY Zenon
    <3>3. Cardinality(SUBSET {}) = 2 ^ 0
          BY <3>1, FS_SUBSET
    <3>4. Cardinality({{}}) = 1
          BY FS_Singleton
    <3> QED BY <3>2, <3>3, <3>4
  <2> QED BY <2>1, PowType
<1>2. ASSUME NEW j \in 0 .. k - 1, j \in T PROVE j + 1 \in T
  <2>1. j \in Nat /\ n + j \in Nat /\ n + (j + 1) = (n + j) + 1
        OBVIOUS
  <2>2. 2 ^ ((n + j) + 1) = 2 * 2 ^ (n + j) /\ 2 ^ (j + 1) = 2 * 2 ^ j
        BY <2>1, PowStep
  <2>3. 2 ^ (n + j) = 2 ^ n * 2 ^ j
        BY <1>2
  <2>4. 2 ^ n \in Nat /\ 2 ^ j \in Nat
        BY <2>1, PowType
  <2>5. \A x, y \in Nat : 2 * (x * y) = x * (2 * y)
        OBVIOUS
  <2> QED BY <2>1, <2>2, <2>3, <2>4, <2>5
<1> HIDE DEF T
<1>3. k \in T
      BY <1>1, <1>2, Counting
<1> QED BY <1>3 DEF T

(* The sizes of one to four bytes. *)
LEMMA SpanProduct ==
    ASSUME NEW n \in Nat, NEW k \in Nat
    PROVE  /\ Span(n) \in Nat \ {0}
           /\ Span(n + k) = Span(n) * Span(k)
<1>1. n * ByteBits \in Nat /\ k * ByteBits \in Nat /\ (n + k) * ByteBits = n * ByteBits + k * ByteBits
      BY MemoryAssumption DEF MemoryAssumption
<1>2. 2 ^ (n * ByteBits + k * ByteBits) = 2 ^ (n * ByteBits) * 2 ^ (k * ByteBits)
      BY <1>1, PowAdd
<1>3. 2 ^ (n * ByteBits) \in Nat \ {0}
      BY <1>1, PowType
<1> QED BY <1>1, <1>2, <1>3 DEF Span

LEMMA SpanType == \A n \in Nat : Span(n) \in Nat /\ Span(n) > 0
<1> TAKE n \in Nat
<1>1. Span(n) \in Nat \ {0}
      BY SpanProduct
<1> QED BY <1>1

LEMMA Sizes ==
    /\ ByteSize \in Nat /\ ByteSize >= 2 /\ ByteSize % 2 = 0
    /\ Span(0) = 1 /\ Span(1) = ByteSize
    /\ Span(2) \in Nat /\ Span(2) = ByteSize * ByteSize
    /\ Span(3) \in Nat /\ Span(3) = ByteSize * Span(2)
    /\ WordSize \in Nat /\ WordSize = ByteSize * Span(3)
<1>1. ByteBits \in Nat /\ ByteBits # 0
      BY MemoryAssumption DEF MemoryAssumption
<1>2. Span(1) = 2 ^ ByteBits
      BY <1>1 DEF Span
<1>3. ByteBits - 1 \in Nat /\ ByteBits = (ByteBits - 1) + 1
      BY <1>1
<1>4. 2 ^ ((ByteBits - 1) + 1) = 2 * 2 ^ (ByteBits - 1) /\ 2 ^ (ByteBits - 1) \in Nat \ {0}
      BY <1>3, PowStep, PowType
<1>5. ByteSize = 2 * 2 ^ (ByteBits - 1)
      BY <1>2, <1>3, <1>4 DEF ByteSize
<1>6. \A x \in Nat \ {0} : 2 * x \in Nat /\ 2 * x >= 2 /\ (2 * x) % 2 = 0
      OBVIOUS
<1>7. Span(1 + 1) = Span(1) * Span(1) /\ Span(1 + 2) = Span(1) * Span(2) /\ Span(1 + 3) = Span(1) * Span(3)
      BY SpanProduct
<1>8. Span(0 + 1) = Span(0) * Span(1) /\ Span(0) \in Nat /\ Span(2) \in Nat /\ Span(3) \in Nat /\ Span(4) \in Nat
      BY SpanProduct
<1>9. ByteSize \in Nat /\ ByteSize >= 2 /\ ByteSize % 2 = 0
      BY <1>4, <1>5, <1>6
<1>10. \A x, y \in Nat : x >= 2 /\ x = y * x => y = 1
  <2> SUFFICES ASSUME NEW x \in Nat, NEW y \in Nat, x >= 2, x = y * x PROVE y = 1
      OBVIOUS
  <2>1. (y - 1) * x = 0
        OBVIOUS
  <2> QED BY <2>1
<1>11. Span(1) = Span(0) * Span(1)
       BY <1>8
<1>12. Span(0) = 1
       BY <1>8, <1>9, <1>10, <1>11 DEF ByteSize
<1> QED BY <1>7, <1>8, <1>9, <1>12 DEF ByteSize, WordSize

-----------------------------------------------------------------------------
(* Division and remainder. *)

LEMMA DivMod ==
    ASSUME NEW a \in Int, NEW b \in Nat, b > 0
    PROVE  /\ a \div b \in Int /\ a % b \in Nat /\ a % b < b
           /\ a = b * (a \div b) + (a % b)
OBVIOUS

LEMMA DivModUnique ==
    ASSUME NEW b \in Nat, b > 0, NEW q \in Int, NEW r \in Nat, r < b
    PROVE  (b * q + r) \div b = q /\ (b * q + r) % b = r
OBVIOUS

(* A multiple of b more is seen in the quotient only. *)
LEMMA DivModShift ==
    ASSUME NEW b \in Nat, b > 0, NEW a \in Int, NEW k \in Int
    PROVE  (a + b * k) \div b = a \div b + k /\ (a + b * k) % b = a % b
<1> DEFINE q == a \div b
           r == a % b
<1>1. q \in Int /\ r \in Nat /\ r < b /\ a = b * q + r
      BY DivMod
<1> HIDE DEF q, r
<1>2. a + b * k = b * (q + k) + r /\ q + k \in Int
      BY <1>1
<1>3. (b * (q + k) + r) % b = r /\ (b * (q + k) + r) \div b = q + k
      BY <1>1, <1>2, DivModUnique
<1> QED BY <1>2, <1>3 DEF q, r

LEMMA SmallDivMod ==
    ASSUME NEW b \in Nat, b > 0, NEW a \in Nat, a < b
    PROVE  a \div b = 0 /\ a % b = a
OBVIOUS

-----------------------------------------------------------------------------
(* Words and their bits. *)

LEMMA UType == \A x \in Int : U(x) \in Word
<1>1. WordSize \in Nat /\ WordSize > 0
      BY Sizes, SpanProduct DEF WordSize
<1> TAKE x \in Int
<1>2. x % WordSize \in Nat /\ x % WordSize < WordSize
      BY <1>1, DivMod
<1> QED BY <1>1, <1>2 DEF U, Word

(* Among the places below n, those in P are the ones of w. *)
OnesAre(n, w, P) == \A k \in 0 .. n - 1 : (w \div 2 ^ k) % 2 = 1 <=> k \in P

(* Every set of places is that of the ones of some number. *)
LEMMA OnesExist ==
    ASSUME NEW top \in Nat
    PROVE  \A P \in SUBSET (0 .. top - 1) : \E w \in 0 .. 2 ^ top - 1 : OnesAre(top, w, P)
<1> DEFINE T == {n \in Nat : \A P \in SUBSET (0 .. n - 1) : \E w \in 0 .. 2 ^ n - 1 : OnesAre(n, w, P)}
<1>1. 0 \in T
  <2>1. 2 ^ 0 \in Nat \ {0}
        BY PowType
  <2>2. 0 \in 0 .. 2 ^ 0 - 1
        BY <2>1
  <2>3. 0 .. 0 - 1 = {}
        OBVIOUS
  <2>4. \A P : OnesAre(0, 0, P)
        BY <2>3 DEF OnesAre
  <2> QED BY <2>2, <2>4
<1>2. ASSUME NEW n \in 0 .. top - 1, n \in T PROVE n + 1 \in T
  <2>0. n \in Nat /\ 2 ^ n \in Nat \ {0} /\ 2 ^ (n + 1) = 2 * 2 ^ n
        BY PowType, PowStep
  <2> SUFFICES ASSUME NEW P \in SUBSET (0 .. (n + 1) - 1)
               PROVE  \E w \in 0 .. 2 ^ (n + 1) - 1 : OnesAre(n + 1, w, P)
      BY <2>0
  <2>1. P \ {n} \in SUBSET (0 .. n - 1)
        BY <2>0
  <2>2. PICK w0 \in 0 .. 2 ^ n - 1 : OnesAre(n, w0, P \ {n})
        BY <1>2, <2>1
  <2> DEFINE w == w0 + 2 ^ n * (IF n \in P THEN 1 ELSE 0)
  <2>3. w0 \in Nat /\ w0 < 2 ^ n /\ w \in 0 .. 2 ^ (n + 1) - 1
        BY <2>0, <2>2
  <2>4. (w \div 2 ^ n) % 2 = 1 <=> n \in P
    <3>1. w0 \div 2 ^ n = 0
          BY <2>0, <2>3, SmallDivMod
    <3>2. w \div 2 ^ n = 0 + (IF n \in P THEN 1 ELSE 0)
          BY <2>0, <2>3, <3>1, DivModShift
    <3> QED BY <3>2
  <2>5. ASSUME NEW k \in 0 .. n - 1 PROVE (w \div 2 ^ k) % 2 = (w0 \div 2 ^ k) % 2
    <3> DEFINE d == 2 ^ k
               e == 2 ^ ((n - k) - 1)
               c == IF n \in P THEN 1 ELSE 0
               g == 2 * (e * c)
    <3>1. k \in Nat /\ (n - k) - 1 \in Nat /\ n = k + (((n - k) - 1) + 1)
          BY <2>0
    <3>2. d \in Nat /\ d > 0 /\ e \in Nat
          BY <3>1, PowType
    <3>3. 2 ^ (((n - k) - 1) + 1) = 2 * e
          BY <3>1, PowStep
    <3>4. ((n - k) - 1) + 1 \in Nat
          BY <3>1
    <3>5. 2 ^ n = d * (2 * e)
          BY <3>1, <3>3, <3>4, PowAdd
    <3>6. c \in Int /\ w = w0 + 2 ^ n * c
          OBVIOUS
    <3> HIDE DEF d, e, c, w
    <3>7. w = w0 + d * g /\ e * c \in Int /\ g \in Int
          BY <2>3, <3>2, <3>5, <3>6
    <3> HIDE DEF g
    <3>8. w \div d = w0 \div d + g
          BY <2>3, <3>2, <3>7, DivModShift
    <3>9. w0 \div d \in Int
          BY <2>3, <3>2, DivMod
    <3>10. \A x, y \in Int : (x + 2 * y) % 2 = x % 2
          OBVIOUS
    <3>11. (w0 \div d + g) % 2 = (w0 \div d) % 2
          BY <3>7, <3>9, <3>10 DEF g
    <3> QED BY <3>8, <3>11 DEF d
  <2> HIDE DEF w
  <2>6. OnesAre(n + 1, w, P)
    <3> SUFFICES ASSUME NEW k \in 0 .. (n + 1) - 1
                 PROVE  (w \div 2 ^ k) % 2 = 1 <=> k \in P
        BY DEF OnesAre
    <3>1. CASE k = n
          BY <2>4, <3>1
    <3>2. CASE k # n
      <4>1. k \in 0 .. n - 1
            BY <2>0, <3>2
      <4> QED BY <2>2, <2>5, <3>2, <4>1 DEF OnesAre
    <3> QED BY <3>1, <3>2
  <2> QED BY <2>3, <2>6
<1> HIDE DEF T
<1>3. top \in T
      BY <1>1, <1>2, Counting
<1> QED BY <1>3 DEF T

LEMMA WithOnesType == \A P \in SUBSET (0 .. Bits - 1) : WithOnes(P) \in Word /\ Ones(WithOnes(P)) = P
<1> TAKE P \in SUBSET (0 .. Bits - 1)
<1>1. Bits \in Nat /\ WordSize = 2 ^ Bits
      BY MemoryAssumption DEF MemoryAssumption, Bits, WordSize, Span
<1>2. PICK w \in 0 .. 2 ^ Bits - 1 : OnesAre(Bits, w, P)
      BY <1>1, OnesExist
<1>3. w \in Word /\ Ones(w) = P
      BY <1>1, <1>2 DEF Word, Ones, OnesAre
<1> QED BY <1>3 DEF WithOnes

-----------------------------------------------------------------------------
(* Mult. *)

(* z is what the loop's variables are after each turn up to n. *)
Turns(z, n, a, b) ==
    z = [i \in 0 .. n |-> IF i = 0 THEN [lo |-> 0, hi |-> 0, bHi |-> 0, bLo |-> b]
                          ELSE MultTurn(z[i - 1], (a \div 2 ^ (i - 1)) % 2 = 1)]

(* The loop has such a history. *)
LEMMA TurnsExist ==
    ASSUME NEW top \in Nat, NEW a, NEW b
    PROVE  \E z : Turns(z, top, a, b)
<1> DEFINE T == {n \in Nat : \E z : Turns(z, n, a, b)}
           s == [lo |-> 0, hi |-> 0, bHi |-> 0, bLo |-> b]
           next(y, i) == MultTurn(y, (a \div 2 ^ (i - 1)) % 2 = 1)
<1>1. 0 \in T
  <2>1. Turns([i \in 0 .. 0 |-> s], 0, a, b)
    <3>1. \A i \in 0 .. 0 : i = 0
          OBVIOUS
    <3> QED BY <3>1, Zenon DEF Turns
  <2> QED BY <2>1
<1>2. ASSUME NEW n \in 0 .. top - 1, n \in T PROVE n + 1 \in T
  <2>1. PICK z : Turns(z, n, a, b)
        BY <1>2
  <2> DEFINE z2 == [i \in 0 .. n + 1 |-> IF i = n + 1 THEN next(z[n], n + 1) ELSE z[i]]
  <2> HIDE DEF next, s
  <2>2. ASSUME NEW i \in 0 .. n + 1
        PROVE  z2[i] = IF i = 0 THEN s ELSE next(z2[i - 1], i)
    <3>1. CASE i = n + 1
      <4>1. n \in 0 .. n + 1 /\ n # n + 1 /\ i # 0 /\ i - 1 = n
            BY <3>1
      <4> QED BY <3>1, <4>1
    <3>2. CASE i # n + 1
      <4>1. i \in 0 .. n
            BY <3>2
      <4>2. z[i] = IF i = 0 THEN s ELSE next(z[i - 1], i)
            BY <2>1, <4>1 DEF Turns, s, next
      <4>3. i # 0 => i - 1 \in 0 .. n + 1 /\ i - 1 # n + 1
            BY <4>1
      <4> QED BY <3>2, <4>2, <4>3
    <3> QED BY <3>1, <3>2
  <2>3. z2 = [i \in 0 .. n + 1 |-> IF i = 0 THEN s ELSE next(z2[i - 1], i)]
    <3>1. z2 = [i \in 0 .. n + 1 |-> z2[i]]
          OBVIOUS
    <3> HIDE DEF z2
    <3> QED BY <2>2, <3>1
  <2>4. Turns(z2, n + 1, a, b)
        BY <2>3 DEF Turns, s, next
  <2> HIDE DEF z2
  <2> QED BY <2>4
<1> HIDE DEF T
<1>3. top \in T
      BY <1>1, <1>2, Counting
<1> QED BY <1>3 DEF T

(* MultLoop is the last entry of the history. *)
LEMMA LoopTurns ==
    ASSUME NEW a, NEW b
    PROVE  \E z : Turns(z, Bits, a, b) /\ MultLoop(a, b) = z[Bits]
<1> DEFINE z == CHOOSE z : Turns(z, Bits, a, b)
<1>1. Bits \in Nat
      BY MemoryAssumption DEF MemoryAssumption, Bits
<1>2. Turns(z, Bits, a, b)
      BY <1>1, TurnsExist
<1>3. MultLoop(a, b) = z[Bits]
      BY DEF MultLoop, Turns
<1> QED BY <1>2, <1>3

LEMMA WordFacts == WordSize \in Nat /\ WordSize > 1 /\ WordSize % 2 = 0 /\ 2 * (WordSize \div 2) = WordSize
<1>1. PICK h \in Nat : ByteSize = 2 * h
      BY Sizes
<1>2. Span(3) \in Nat \ {0}
      BY SpanProduct
<1>3. h * Span(3) \in Nat \ {0} /\ WordSize = 2 * (h * Span(3))
      BY <1>1, <1>2, Sizes
<1> QED BY <1>3

LEMMA USmall ==
    ASSUME NEW x \in Int
    PROVE  /\ 0 <= x /\ x < WordSize => U(x) = x
           /\ WordSize <= x /\ x < 2 * WordSize => U(x) = x - WordSize
           /\ -WordSize <= x /\ x < 0 => U(x) = x + WordSize
<1>1. WordSize \in Nat /\ WordSize > 0
      BY WordFacts
<1>2. ASSUME NEW k \in Int PROVE (x + WordSize * k) % WordSize = x % WordSize
      BY <1>1, DivModShift
<1>3. \A y \in Int : 0 <= y /\ y < WordSize => y % WordSize = y
      BY <1>1, SmallDivMod
<1>4. (x - WordSize) % WordSize = x % WordSize /\ (x + WordSize) % WordSize = x % WordSize
  <2>1. -1 \in Int /\ 1 \in Int /\ x + WordSize * (-1) = x - WordSize /\ x + WordSize * 1 = x + WordSize
        BY <1>1
  <2> QED BY <1>2, <2>1
<1> QED BY <1>1, <1>3, <1>4 DEF U

LEMMA SignIs == \A w \in Word : /\ Sign(w) <=> w >= WordSize \div 2
                                /\ S(w) = IF Sign(w) THEN w - WordSize ELSE w
BY WordFacts DEF Word, Sign, S

(* A sum of double words, with the carry found as the code does. *)
LEMMA DoubleSum ==
    ASSUME NEW l1 \in Word, NEW h1 \in Word, NEW l2 \in Word, NEW h2 \in Word
    PROVE  LET l == U(l1 + l2)
               h == U(h1 + h2 + (IF l < l2 THEN 1 ELSE 0))
           IN  /\ l \in Word /\ h \in Word
               /\ \E c \in {0, 1} : h * WordSize + l = (h1 * WordSize + l1) + (h2 * WordSize + l2)
                                                       - c * (WordSize * WordSize)
<1> DEFINE l == U(l1 + l2)
           k == IF l < l2 THEN 1 ELSE 0
           h == U(h1 + h2 + k)
<1>1. WordSize \in Nat /\ WordSize > 0 /\ l1 \in Int /\ l2 \in Int /\ h1 \in Int /\ h2 \in Int
      BY WordFacts DEF Word
<1>2. l1 + l2 \in Int /\ 0 <= l1 + l2 /\ l1 + l2 < 2 * WordSize
      BY <1>1 DEF Word
<1>3. l \in Word /\ l1 + l2 = l + k * WordSize
  <2>1. CASE l1 + l2 < WordSize
    <3>1. l = l1 + l2
          BY <1>2, <2>1, USmall
    <3> QED BY <1>1, <1>2, <2>1, <3>1 DEF Word
  <2>2. CASE l1 + l2 >= WordSize
    <3>1. l = l1 + l2 - WordSize
          BY <1>1, <1>2, <2>2, USmall
    <3>2. l < l2
          BY <1>1, <3>1 DEF Word
    <3> QED BY <1>1, <1>2, <2>2, <3>1, <3>2 DEF Word
  <2> QED BY <1>1, <1>2, <2>1, <2>2
<1>4. k \in {0, 1} /\ h1 + h2 + k \in Int /\ 0 <= h1 + h2 + k /\ h1 + h2 + k < 2 * WordSize
      BY <1>1 DEF Word
<1> HIDE DEF l, k
<1>5. h \in Word /\ \E c \in {0, 1} : h1 + h2 + k = h + c * WordSize
  <2>1. CASE h1 + h2 + k < WordSize
    <3>1. h = h1 + h2 + k
          BY <1>4, <2>1, USmall
    <3> QED BY <1>1, <1>4, <2>1, <3>1 DEF Word
  <2>2. CASE h1 + h2 + k >= WordSize
    <3>1. h = h1 + h2 + k - WordSize
          BY <1>1, <1>4, <2>2, USmall
    <3> QED BY <1>1, <1>4, <2>2, <3>1 DEF Word
  <2> QED BY <1>1, <1>4, <2>1, <2>2
<1> HIDE DEF h
<1>6. PICK c \in {0, 1} : h1 + h2 + k = h + c * WordSize
      BY <1>5
<1>7. l \in Int /\ h \in Int /\ k \in Int /\ c \in Int
      BY <1>3, <1>4, <1>5, <1>1 DEF Word
<1>8. h * WordSize + l = (h1 * WordSize + l1) + (h2 * WordSize + l2) - c * (WordSize * WordSize)
  <2>1. h = h1 + h2 + k - c * WordSize /\ l = l1 + l2 - k * WordSize
        BY <1>1, <1>3, <1>6, <1>7
  <2> QED BY <1>1, <1>7, <2>1
<1> QED BY <1>3, <1>5, <1>8 DEF l, k, h

(* Twice a double word. *)
LEMMA DoubleShift ==
    ASSUME NEW l1 \in Word, NEW h1 \in Word
    PROVE  LET l == U(2 * l1)
               h == U(2 * h1 + (IF Sign(l1) THEN 1 ELSE 0))
           IN  /\ l \in Word /\ h \in Word
               /\ \E c \in {0, 1} : h * WordSize + l = 2 * (h1 * WordSize + l1) - c * (WordSize * WordSize)
<1>1. WordSize \in Nat /\ WordSize > 0 /\ l1 \in Int /\ h1 \in Int
      BY WordFacts DEF Word
<1>2. U(l1 + l1) = U(2 * l1) /\ h1 + h1 = 2 * h1
      BY <1>1
<1>3. (U(2 * l1) < l1) <=> Sign(l1)
  <2>1. Sign(l1) <=> l1 >= WordSize \div 2
        BY SignIs
  <2>2. 0 <= 2 * l1 /\ 2 * l1 < 2 * WordSize /\ 2 * l1 \in Int
        BY <1>1 DEF Word
  <2>3. CASE Sign(l1)
    <3>1. U(2 * l1) = 2 * l1 - WordSize
          BY <1>1, <2>1, <2>2, <2>3, USmall, WordFacts
    <3> QED BY <1>1, <2>3, <3>1 DEF Word
  <2>4. CASE ~Sign(l1)
    <3>1. U(2 * l1) = 2 * l1
          BY <1>1, <2>1, <2>2, <2>4, USmall, WordFacts
    <3> QED BY <1>1, <2>2, <2>4, <3>1
  <2> QED BY <2>3, <2>4
<1>4. (IF U(2 * l1) < l1 THEN 1 ELSE 0) = (IF Sign(l1) THEN 1 ELSE 0)
      BY <1>3
<1> DEFINE l == U(l1 + l1)
           k == IF l < l1 THEN 1 ELSE 0
           h == U(h1 + h1 + k)
<1>5. /\ l \in Word /\ h \in Word
      /\ \E c \in {0, 1} : h * WordSize + l = (h1 * WordSize + l1) + (h1 * WordSize + l1)
                                              - c * (WordSize * WordSize)
      BY DoubleSum
<1>6. l = U(2 * l1) /\ h = U(2 * h1 + (IF Sign(l1) THEN 1 ELSE 0))
      BY <1>2, <1>4
<1> HIDE DEF l, k, h
<1>7. PICK c \in {0, 1} : h * WordSize + l = (h1 * WordSize + l1) + (h1 * WordSize + l1)
                                            - c * (WordSize * WordSize)
      BY <1>5
<1>8. h1 * WordSize + l1 \in Int /\ c * (WordSize * WordSize) \in Int
      BY <1>1, <1>7
<1>9. \A v, w \in Int : v + v - w = 2 * v - w
      OBVIOUS
<1>10. \E d \in {0, 1} : h * WordSize + l = 2 * (h1 * WordSize + l1) - d * (WordSize * WordSize)
      BY <1>7, <1>8, <1>9
<1> QED BY <1>5, <1>6, <1>10, Zenon

(* Two words as one number. *)
Double(h, l) == h * WordSize + l

LEMMA DoubleType == \A h, l \in Word : Double(h, l) \in Nat /\ Double(h, l) < WordSize * WordSize
<1> TAKE h, l \in Word
<1>1. WordSize \in Nat /\ h \in Nat /\ l \in Nat /\ h <= WordSize - 1 /\ l <= WordSize - 1
      BY WordFacts DEF Word
<1>2. h * WordSize <= (WordSize - 1) * WordSize
      BY <1>1
<1>3. (WordSize - 1) * WordSize + WordSize = WordSize * WordSize
      BY <1>1
<1> QED BY <1>1, <1>2, <1>3 DEF Double

(* What one turn does to the two numbers of the loop: b is added to the    *)
(* sum when a has a one there, and b is doubled; a carry out of the upper  *)
(* word is lost.                                                           *)
Words(y) == y.lo \in Word /\ y.hi \in Word /\ y.bHi \in Word /\ y.bLo \in Word

LEMMA TurnStep ==
    ASSUME NEW y, Words(y), NEW one \in BOOLEAN
    PROVE  LET t == MultTurn(y, one)
           IN  /\ Words(t)
               /\ \E c \in {0, 1} : Double(t.hi, t.lo) = Double(y.hi, y.lo)
                       + (IF one THEN Double(y.bHi, y.bLo) ELSE 0) - c * (WordSize * WordSize)
               /\ \E d \in {0, 1} : Double(t.bHi, t.bLo) = 2 * Double(y.bHi, y.bLo)
                                                           - d * (WordSize * WordSize)
<1> DEFINE t == MultTurn(y, one)
<1>1. WordSize \in Nat /\ y.lo \in Int /\ y.hi \in Int /\ y.bHi \in Int /\ y.bLo \in Int
      BY WordFacts DEF Word, Words
<1>2. t.bLo \in Word /\ t.bHi \in Word /\ \E d \in {0, 1} :
        t.bHi * WordSize + t.bLo = 2 * (y.bHi * WordSize + y.bLo) - d * (WordSize * WordSize)
  <2>1. /\ t.bHi = U(2 * y.bHi + (IF Sign(y.bLo) THEN 1 ELSE 0))
        /\ t.bLo = U(2 * y.bLo)
        BY DEF MultTurn
  <2> HIDE DEF t
  <2> QED BY <2>1, DoubleShift DEF Words
<1>3. t.lo \in Word /\ t.hi \in Word /\ \E c \in {0, 1} : Double(t.hi, t.lo) = Double(y.hi, y.lo)
                       + (IF one THEN Double(y.bHi, y.bLo) ELSE 0) - c * (WordSize * WordSize)
  <2>1. CASE one
    <3>1. /\ t.lo = U(y.lo + y.bLo)
          /\ t.hi = U(y.hi + y.bHi + (IF U(y.lo + y.bLo) < y.bLo THEN 1 ELSE 0))
          BY <2>1 DEF MultTurn
    <3> DEFINE l == U(y.lo + y.bLo)
               h == U(y.hi + y.bHi + (IF l < y.bLo THEN 1 ELSE 0))
    <3>3. l \in Word /\ h \in Word /\ \E c \in {0, 1} : h * WordSize + l =
              (y.hi * WordSize + y.lo) + (y.bHi * WordSize + y.bLo) - c * (WordSize * WordSize)
      <4>1. y.lo \in Word /\ y.hi \in Word /\ y.bLo \in Word /\ y.bHi \in Word
            BY DEF Words
      <4> DEFINE p == y.lo
                 q == y.hi
                 r == y.bLo
                 u == y.bHi
      <4> HIDE DEF p, q, r, u, t
      <4>2. p \in Word /\ q \in Word /\ r \in Word /\ u \in Word
            BY <4>1 DEF p, q, r, u
      <4> DEFINE l2 == U(p + r)
                 h2 == U(q + u + (IF l2 < r THEN 1 ELSE 0))
      <4>3. l2 \in Word /\ h2 \in Word /\ \E c \in {0, 1} : h2 * WordSize + l2 =
              (q * WordSize + p) + (u * WordSize + r) - c * (WordSize * WordSize)
            BY <4>2, DoubleSum
      <4> QED BY <4>3 DEF p, q, r, u
    <3>4. t.lo = l /\ t.hi = h
          BY <3>1
    <3> HIDE DEF t, l, h
    <3>2. t.lo \in Word /\ t.hi \in Word /\ \E c \in {0, 1} : t.hi * WordSize + t.lo =
              (y.hi * WordSize + y.lo) + (y.bHi * WordSize + y.bLo) - c * (WordSize * WordSize)
          BY <3>3, <3>4, Zenon
    <3> QED BY <2>1, <3>2 DEF Double
  <2>2. CASE ~one
    <3>1. t.lo = y.lo /\ t.hi = y.hi
          BY <2>2 DEF MultTurn
    <3> HIDE DEF t
    <3>2. Double(y.hi, y.lo) \in Int /\ 0 * (WordSize * WordSize) = 0
          BY <1>1 DEF Double
    <3>3. Double(t.hi, t.lo) = Double(y.hi, y.lo) + 0 - 0 * (WordSize * WordSize)
          BY <3>1, <3>2
    <3> QED BY <2>2, <3>1, <3>3 DEF Words
  <2> QED BY <2>1, <2>2
<1> HIDE DEF t
<1>4. Words(t)
      BY <1>2, <1>3 DEF Words
<1>5. \E d \in {0, 1} : Double(t.bHi, t.bLo) = 2 * Double(y.bHi, y.bLo) - d * (WordSize * WordSize)
      BY <1>2 DEF Double
<1> QED BY <1>3, <1>4, <1>5 DEF t

(* The bits of a above place i, without the lowest of them. *)
LEMMA HalfStep ==
    ASSUME NEW a \in Nat, NEW i \in Nat
    PROVE  /\ a \div 2 ^ i \in Nat /\ a \div 2 ^ (i + 1) \in Nat
           /\ a \div 2 ^ i = 2 * (a \div 2 ^ (i + 1)) + (IF (a \div 2 ^ i) % 2 = 1 THEN 1 ELSE 0)
<1> DEFINE p == 2 ^ i
           q == a \div p
           r == a % p
           u == q \div 2
           v == q % 2
<1>1. p \in Nat /\ p > 0 /\ 2 ^ (i + 1) = 2 * p
      BY PowType, PowStep
<1> HIDE DEF p
<1>2. q \in Int /\ r \in Nat /\ r < p /\ a = p * q + r
      BY <1>1, DivMod
<1>3. q \in Nat
  <2>1. ASSUME q < 0 PROVE FALSE
    <3>1. q <= -1 /\ p * q <= p * (-1)
          BY <1>1, <1>2, <2>1
    <3> HIDE DEF q, r
    <3> QED BY <1>1, <1>2, <3>1
  <2> QED BY <1>2, <2>1
<1> HIDE DEF q, r
<1>4. u \in Nat /\ v \in {0, 1} /\ q = 2 * u + v
      BY <1>3
<1> HIDE DEF u
<1>5. a = (2 * p) * u + (p * v + r) /\ p * v + r \in Nat /\ p * v + r < 2 * p
  <2> HIDE DEF v
  <2>1. a = p * (2 * u + v) + r
        BY <1>2, <1>4
  <2> QED BY <1>1, <1>2, <1>4, <2>1
<1>6. 2 * p \in Nat /\ 2 * p > 0
      BY <1>1
<1> HIDE DEF v
<1>7. a \div (2 * p) = u
      BY <1>4, <1>5, <1>6, DivModUnique
<1>8. v = IF q % 2 = 1 THEN 1 ELSE 0
      BY <1>4 DEF v
<1>9. a \div 2 ^ (i + 1) = u /\ a \div 2 ^ i = q
      BY <1>1, <1>7 DEF p, q
<1> QED BY <1>3, <1>4, <1>8, <1>9

(* Before turn i the sum so far, and b as shifted so often times the bits  *)
(* of a that are left, make the product, but for lost double words.        *)
LoopInv(y, i, a, b) ==
    /\ Words(y)
    /\ \E q \in Int : Double(y.hi, y.lo) + (a \div 2 ^ i) * Double(y.bHi, y.bLo)
                      = a * b + q * (WordSize * WordSize)

LEMMA LoopStep ==
    ASSUME NEW a \in Word, NEW b \in Word, NEW i \in Nat, NEW y, LoopInv(y, i, a, b)
    PROVE  LoopInv(MultTurn(y, (a \div 2 ^ i) % 2 = 1), i + 1, a, b)
<1> DEFINE one == (a \div 2 ^ i) % 2 = 1
           t == MultTurn(y, one)
           M == WordSize * WordSize
           acc == Double(y.hi, y.lo)
           sh  == Double(y.bHi, y.bLo)
           acc2 == Double(t.hi, t.lo)
           sh2  == Double(t.bHi, t.bLo)
           u  == a \div 2 ^ i
           u2 == a \div 2 ^ (i + 1)
           e == IF one THEN 1 ELSE 0
<1>1. a \in Nat /\ b \in Nat /\ WordSize \in Nat /\ M \in Nat
      BY WordFacts DEF Word
<1>2. u \in Nat /\ u2 \in Nat /\ u = 2 * u2 + e /\ e \in {0, 1}
      BY <1>1, HalfStep
<1>3. Words(y)
      BY DEF LoopInv
<1>4. one \in BOOLEAN
      OBVIOUS
<1> HIDE DEF one
<1>5. /\ Words(t)
      /\ \E c \in {0, 1} : acc2 = acc + (IF one THEN sh ELSE 0) - c * M
      /\ \E d \in {0, 1} : sh2 = 2 * sh - d * M
      BY <1>3, <1>4, TurnStep
<1>6. PICK q \in Int : acc + u * sh = a * b + q * M
      BY DEF LoopInv
<1>7. acc \in Int /\ sh \in Int
      BY <1>3, DoubleType DEF Words
<1> HIDE DEF t, M, acc, sh, acc2, sh2, u, u2
<1>8. PICK c \in {0, 1} : acc2 = acc + (IF one THEN sh ELSE 0) - c * M
      BY <1>5
<1>9. PICK d \in {0, 1} : sh2 = 2 * sh - d * M
      BY <1>5
<1>10. acc2 = acc + e * sh - c * M
      BY <1>7, <1>8
<1> HIDE DEF e
<1>11. acc2 + u2 * sh2 = (acc + u * sh) - (c + u2 * d) * M
  <2>1. u2 * sh2 = 2 * (u2 * sh) - (u2 * d) * M
    <3>1. c \in Int /\ d \in Int
          BY <1>8, <1>9
    <3> QED BY <1>1, <1>2, <1>7, <1>9, <3>1
  <2>2. u * sh = 2 * (u2 * sh) + e * sh
        BY <1>2, <1>7
  <2>3. (c + u2 * d) * M = c * M + (u2 * d) * M
        BY <1>1, <1>2
  <2>4. u2 * sh \in Int /\ e * sh \in Int /\ c * M \in Int /\ (u2 * d) * M \in Int
        BY <1>1, <1>2, <1>7
  <2> QED BY <1>7, <1>10, <2>1, <2>2, <2>3, <2>4
<1>12. acc2 + u2 * sh2 = a * b + (q - (c + u2 * d)) * M /\ q - (c + u2 * d) \in Int
  <2>1. q - (c + u2 * d) \in Int /\ a * b \in Int /\ q * M \in Int /\ (c + u2 * d) * M \in Int
        BY <1>1, <1>2
  <2>2. (q - (c + u2 * d)) * M = q * M - (c + u2 * d) * M
        BY <1>1, <1>2
  <2> QED BY <1>6, <1>11, <2>1, <2>2
<1>13. \E q2 \in Int : acc2 + u2 * sh2 = a * b + q2 * M
      BY <1>12
<1> QED BY <1>5, <1>13 DEF LoopInv, t, one, M, acc2, sh2, u2

LEMMA ZeroBits == 0 * ByteBits = 0
BY MemoryAssumption DEF MemoryAssumption

(* The loop's product, modulo a double word. *)
LEMMA LoopProduct ==
    ASSUME NEW a \in Word, NEW b \in Word
    PROVE  LET p == MultLoop(a, b)
           IN  /\ p.lo \in Word /\ p.hi \in Word
               /\ \E q \in Int : Double(p.hi, p.lo) = a * b + q * (WordSize * WordSize)
<1>1. PICK z : Turns(z, Bits, a, b) /\ MultLoop(a, b) = z[Bits]
      BY LoopTurns
<1>2. Bits \in Nat /\ WordSize = 2 ^ Bits
      BY MemoryAssumption DEF MemoryAssumption, Bits, WordSize, Span
<1>3. a \in Nat /\ b \in Nat /\ WordSize \in Nat /\ WordSize > 0 /\ a < WordSize
      BY WordFacts DEF Word
<1> DEFINE T == {i \in 0 .. Bits : LoopInv(z[i], i, a, b)}
<1>4. 0 \in T
  <2>1. z[0] = [lo |-> 0, hi |-> 0, bHi |-> 0, bLo |-> b]
        BY <1>1, <1>2 DEF Turns
  <2>2. Words(z[0])
        BY <1>3, <2>1 DEF Words, Word
  <2>3. 2 ^ 0 = 1 /\ a \div 2 ^ 0 = a
    <3>1. Span(0) = 2 ^ 0
          BY ZeroBits, Zenon DEF Span
    <3> QED BY <1>3, <3>1, Sizes
  <2>4. Double(z[0].hi, z[0].lo) = 0 /\ Double(z[0].bHi, z[0].bLo) = b
        BY <1>3, <2>1 DEF Double
  <2>5. 0 + a * b = a * b + 0 * (WordSize * WordSize)
        BY <1>3
  <2>6. LoopInv(z[0], 0, a, b)
        BY <2>2, <2>3, <2>4, <2>5 DEF LoopInv
  <2> QED BY <1>2, <2>6
<1>5. ASSUME NEW n \in 0 .. Bits - 1, n \in T PROVE n + 1 \in T
  <2>1. n \in Nat /\ n + 1 \in 0 .. Bits /\ n + 1 # 0 /\ (n + 1) - 1 = n
        BY <1>2
  <2>2. z[n + 1] = MultTurn(z[n], (a \div 2 ^ n) % 2 = 1)
        BY <1>1, <2>1 DEF Turns
  <2>3. LoopInv(z[n], n, a, b)
        BY <1>5
  <2>4. LoopInv(z[n + 1], n + 1, a, b)
        BY <2>1, <2>2, <2>3, LoopStep
  <2> QED BY <2>1, <2>4
<1> HIDE DEF T
<1>6. Bits \in T
      BY <1>2, <1>4, <1>5, Counting
<1> DEFINE p == MultLoop(a, b)
<1>7. LoopInv(p, Bits, a, b)
      BY <1>1, <1>6 DEF T
<1> HIDE DEF p
<1>8. a \div 2 ^ Bits = 0
      BY <1>2, <1>3, SmallDivMod
<1>9. PICK q \in Int : Double(p.hi, p.lo) + 0 * Double(p.bHi, p.bLo) = a * b + q * (WordSize * WordSize)
      BY <1>7, <1>8 DEF LoopInv
<1>10. Words(p)
      BY <1>7 DEF LoopInv
<1>11. Double(p.hi, p.lo) \in Int /\ Double(p.bHi, p.bLo) \in Int
      BY <1>10, DoubleType DEF Words
<1>12. Double(p.hi, p.lo) + 0 * Double(p.bHi, p.bLo) = Double(p.hi, p.lo)
      BY <1>11
<1>13. \E r \in Int : Double(p.hi, p.lo) = a * b + r * (WordSize * WordSize)
      BY <1>9, <1>12
<1> QED BY <1>10, <1>13 DEF p, Words

(* Complement changes the sign, modulo a double word. *)
LEMMA ComplementNegates ==
    ASSUME NEW p, p.lo \in Word, p.hi \in Word
    PROVE  LET c == Complement(p)
           IN  /\ c.lo \in Word /\ c.hi \in Word
               /\ \E q \in Int : Double(c.hi, c.lo) = -Double(p.hi, p.lo) + q * (WordSize * WordSize)
<1> DEFINE l == p.lo
           h == p.hi
           cl == U(-l)
           ch == U(WordSize - 1 - h + (IF l = 0 THEN 1 ELSE 0))
           M == WordSize * WordSize
<1>1. WordSize \in Nat /\ WordSize > 0 /\ l \in Nat /\ h \in Nat /\ l < WordSize /\ h < WordSize
      BY WordFacts DEF Word
<1>2. Complement(p).lo = cl /\ Complement(p).hi = ch
      BY DEF Complement
<1> HIDE DEF l, h
<1>3. cl \in Word /\ ch \in Word /\ \E q \in Int : ch * WordSize + cl = -(h * WordSize + l) + q * M
  <2>1. CASE l # 0
    <3>1. cl = WordSize - l
          BY <1>1, <2>1, USmall
    <3>2. WordSize - 1 - h + (IF l = 0 THEN 1 ELSE 0) = WordSize - 1 - h
          BY <1>1, <2>1
    <3>3. ch = WordSize - 1 - h
          BY <1>1, <3>2, USmall
    <3>4. (WordSize - 1 - h) * WordSize = M - WordSize - h * WordSize
          BY <1>1
    <3>5. M \in Int /\ h * WordSize \in Int
          BY <1>1
    <3> HIDE DEF M, cl, ch
    <3>6. ch * WordSize + cl = -(h * WordSize + l) + 1 * M
          BY <1>1, <3>1, <3>3, <3>4, <3>5
    <3>7. cl \in Word /\ ch \in Word
          BY <1>1, <2>1, <3>1, <3>3 DEF Word
    <3> QED BY <3>6, <3>7
  <2>2. CASE l = 0 /\ h # 0
    <3>1. cl = 0
          BY <1>1, <2>2, USmall
    <3>2. WordSize - 1 - h + (IF l = 0 THEN 1 ELSE 0) = WordSize - h
          BY <1>1, <2>2
    <3>3. ch = WordSize - h
          BY <1>1, <2>2, <3>2, USmall
    <3>4. (WordSize - h) * WordSize = M - h * WordSize
          BY <1>1
    <3>5. M \in Int /\ h * WordSize \in Int
          BY <1>1
    <3> HIDE DEF M, cl, ch
    <3>6. ch * WordSize + cl = -(h * WordSize + l) + 1 * M
          BY <1>1, <2>2, <3>1, <3>3, <3>4, <3>5
    <3>7. cl \in Word /\ ch \in Word
          BY <1>1, <2>2, <3>1, <3>3 DEF Word
    <3> QED BY <3>6, <3>7
  <2>3. CASE l = 0 /\ h = 0
    <3>1. cl = 0
          BY <1>1, <2>3, USmall
    <3>2. WordSize - 1 - h + (IF l = 0 THEN 1 ELSE 0) = WordSize
          BY <1>1, <2>3
    <3>3. ch = 0
          BY <1>1, <3>2, USmall
    <3>5. M \in Int
          BY <1>1
    <3> HIDE DEF M, cl, ch
    <3>6. ch * WordSize + cl = -(h * WordSize + l) + 0 * M
          BY <1>1, <2>3, <3>1, <3>3, <3>5
    <3>7. cl \in Word /\ ch \in Word
          BY <1>1, <3>1, <3>3 DEF Word
    <3> QED BY <3>6, <3>7
  <2> QED BY <2>1, <2>2, <2>3
<1> HIDE DEF cl, ch, M
<1> QED BY <1>2, <1>3 DEF Double, l, h, M

(* A word's magnitude. *)
Magnitude(w) == IF Sign(w) THEN U(-w) ELSE w

LEMMA MagnitudeIs ==
    ASSUME NEW w \in Word
    PROVE  /\ Magnitude(w) \in Word /\ S(w) \in Int
           /\ S(w) = (IF Sign(w) THEN -Magnitude(w) ELSE Magnitude(w))
           /\ w = 0 <=> Magnitude(w) = 0
<1>1. WordSize \in Nat /\ WordSize > 1 /\ 2 * (WordSize \div 2) = WordSize /\ w \in Nat /\ w < WordSize
      BY WordFacts DEF Word
<1>2. S(w) = IF Sign(w) THEN w - WordSize ELSE w
      BY SignIs
<1>3. Sign(w) <=> w >= WordSize \div 2
      BY SignIs
<1>4. CASE Sign(w)
  <2>1. w > 0
        BY <1>1, <1>3, <1>4
  <2>2. U(-w) = WordSize - w
        BY <1>1, <2>1, USmall
  <2> QED BY <1>1, <1>2, <1>4, <2>1, <2>2 DEF Magnitude, Word
<1>5. CASE ~Sign(w)
      BY <1>1, <1>2, <1>5 DEF Magnitude, Word
<1> QED BY <1>4, <1>5

(* HI and LO after a multiplication. *)
LEMMA MultProduct ==
    ASSUME NEW a \in Word, NEW b \in Word, NEW signedArith \in BOOLEAN
    PROVE  LET p == Mult(a, b, signedArith)
           IN  /\ p.lo \in Word /\ p.hi \in Word
               /\ p.hi * WordSize + p.lo =
                      (IF signedArith THEN S(a) * S(b) ELSE a * b) % (WordSize * WordSize)
<1> DEFINE p == Mult(a, b, signedArith)
           M == WordSize * WordSize
           product == IF signedArith THEN S(a) * S(b) ELSE a * b
<1>1. WordSize \in Nat /\ WordSize > 0 /\ M \in Nat /\ M > 0
      BY WordFacts
<1>2. product \in Int
  <2>1. a \in Int /\ b \in Int /\ S(a) \in Int /\ S(b) \in Int
        BY <1>1, MagnitudeIs DEF Word
  <2> QED BY <2>1
<1>3. p.lo \in Word /\ p.hi \in Word /\ \E q \in Int : Double(p.hi, p.lo) = product + q * M
  <2>1. CASE ~signedArith
    <3>1. p = MultLoop(a, b) /\ product = a * b
          BY <2>1 DEF Mult
    <3> HIDE DEF p, product
    <3> QED BY <3>1, LoopProduct
  <2>2. CASE signedArith
    <3> DEFINE x == Magnitude(a)
               y == Magnitude(b)
               r == MultLoop(x, y)
    <3>1. p = IF Sign(a) # Sign(b) /\ a # 0 /\ b # 0 THEN Complement(r) ELSE r
          BY <2>2 DEF Mult, Magnitude
    <3>2. x \in Word /\ y \in Word /\ x \in Int /\ y \in Int
          BY <1>1, MagnitudeIs DEF Word
    <3>3. /\ S(a) = (IF Sign(a) THEN -x ELSE x) /\ (a = 0 <=> x = 0)
          /\ S(b) = (IF Sign(b) THEN -y ELSE y) /\ (b = 0 <=> y = 0)
          BY MagnitudeIs
    <3>4. product = S(a) * S(b)
          BY <2>2
    <3>8. S(a) \in Int /\ S(b) \in Int
          BY MagnitudeIs
    <3> HIDE DEF p, product, x, y, r, M
    <3>5. r.lo \in Word /\ r.hi \in Word /\ \E q \in Int : Double(r.hi, r.lo) = x * y + q * M
          BY <3>2, LoopProduct DEF r, M
    <3>6. CASE Sign(a) # Sign(b) /\ a # 0 /\ b # 0
      <4>1. product = -(x * y)
        <5>0. (Sign(a) /\ ~Sign(b)) \/ (~Sign(a) /\ Sign(b))
              BY <3>6, SMT DEF Sign
        <5>1. product = (-x) * y \/ product = x * (-y)
              BY <3>3, <3>4, <5>0
        <5> QED BY <3>2, <5>1
      <4>2. PICK q \in Int : Double(r.hi, r.lo) = x * y + q * M
            BY <3>5
      <4>3. p = Complement(r)
            BY <3>1, <3>6
      <4>4. /\ p.lo \in Word /\ p.hi \in Word
            /\ \E q2 \in Int : Double(p.hi, p.lo) = -Double(r.hi, r.lo) + q2 * M
            BY <3>5, <4>3, ComplementNegates DEF M
      <4>5. PICK q2 \in Int : Double(p.hi, p.lo) = -Double(r.hi, r.lo) + q2 * M
            BY <4>4
      <4>6. Double(p.hi, p.lo) = product + (q2 - q) * M
        <5>1. x * y \in Int /\ q * M \in Int /\ q2 * M \in Int /\ (q2 - q) * M = q2 * M - q * M
              BY <1>1, <3>2
        <5> QED BY <4>1, <4>2, <4>5, <5>1
      <4>7. q2 - q \in Int
            OBVIOUS
      <4> QED BY <4>4, <4>6, <4>7
    <3>7. CASE ~(Sign(a) # Sign(b) /\ a # 0 /\ b # 0)
      <4>1. p = r
            BY <3>1, <3>7
      <4>2. product = x * y
        <5>1. CASE Sign(a) = Sign(b)
          <6>1. product = (-x) * (-y) \/ product = x * y
                BY <3>3, <3>4, <5>1
          <6> QED BY <3>2, <6>1
        <5>2. CASE x = 0
          <6>0. S(a) = -x \/ S(a) = x
                BY <3>3
          <6>1. S(a) = 0 /\ S(b) \in Int
                BY <3>2, <3>8, <5>2, <6>0
          <6> QED BY <3>2, <3>4, <5>2, <6>1
        <5>3. CASE y = 0
          <6>0. S(b) = -y \/ S(b) = y
                BY <3>3
          <6>1. S(b) = 0 /\ S(a) \in Int
                BY <3>2, <3>8, <5>3, <6>0
          <6> QED BY <3>2, <3>4, <5>3, <6>1
        <5> QED BY <3>3, <3>7, <5>1, <5>2, <5>3
      <4> QED BY <3>5, <4>1, <4>2
    <3> QED BY <3>6, <3>7
  <2> QED BY <2>1, <2>2
<1> HIDE DEF p, product, M
<1>4. PICK q \in Int : Double(p.hi, p.lo) = product + q * M
      BY <1>3
<1>5. Double(p.hi, p.lo) \in Nat /\ Double(p.hi, p.lo) < M
      BY <1>3, DoubleType DEF M
<1>6. product = M * (-q) + Double(p.hi, p.lo) /\ -q \in Int
      BY <1>1, <1>2, <1>4, <1>5
<1>7. product % M = Double(p.hi, p.lo)
      BY <1>1, <1>5, <1>6, DivModUnique
<1> QED BY <1>3, <1>7 DEF Double, p, product, M

-----------------------------------------------------------------------------
(* Memory. *)

PhysicalAddress == 0 .. NUM_PHYS_PAGES * PAGE_SIZE - 1

PageTable == [i \in DOMAIN Frames |-> TranslationEntry(i - 1, Frames[i])]

MemoryType == [main : [PhysicalAddress -> Byte], table : {PageTable}, tlb : {FALSE},
               dirty : SUBSET DOMAIN Frames]

(* StoresAreRecorded, of any memory. *)
Recorded(mem) ==
    \A a \in DOMAIN mem.main : mem.main[a] # 0 =>
        \E i \in mem.dirty : mem.table[i].physicalPage = a \div PAGE_SIZE

(* The virtual addresses the process has, and where they are. *)
Mapped == 0 .. Len(Frames) * PAGE_SIZE - 1
Page(va) == va \div PAGE_SIZE + 1
PA(va) == Frames[Page(va)] * PAGE_SIZE + (va % PAGE_SIZE)

LEMMA PageFacts ==
    /\ PAGE_SIZE \in Nat /\ PAGE_SIZE > 0 /\ PAGE_SIZE % 4 = 0 /\ NUM_PHYS_PAGES \in Nat
    /\ Len(Frames) \in Nat /\ DOMAIN Frames = 1 .. Len(Frames)
    /\ \A i \in 1 .. Len(Frames) : Frames[i] \in Nat /\ Frames[i] < NUM_PHYS_PAGES
BY MemoryAssumption, MachineAssumption DEF MemoryAssumption, MachineAssumption

(* A mapped address is in one of the pages. *)
LEMMA MappedPage ==
    ASSUME NEW va \in Nat
    PROVE  /\ va \div PAGE_SIZE \in Nat /\ va % PAGE_SIZE \in Nat /\ va % PAGE_SIZE < PAGE_SIZE
           /\ va = PAGE_SIZE * (va \div PAGE_SIZE) + (va % PAGE_SIZE)
           /\ va \in Mapped <=> va \div PAGE_SIZE < Len(Frames)
           /\ va \in Mapped => Page(va) \in DOMAIN Frames
<1> DEFINE q == va \div PAGE_SIZE
           r == va % PAGE_SIZE
           P == PAGE_SIZE
           L == Len(Frames)
<1>1. P \in Nat /\ P > 0 /\ L \in Nat /\ DOMAIN Frames = 1 .. L
      BY PageFacts
<1>2. q \in Int /\ r \in Nat /\ r < P /\ va = P * q + r
      BY <1>1, DivMod
<1> HIDE DEF q, r, P, L
<1>3. q \in Nat
  <2>1. ASSUME q < 0 PROVE FALSE
    <3>1. q <= -1 /\ P * q <= P * (-1)
          BY <1>1, <1>2, <2>1
    <3> QED BY <1>1, <1>2, <3>1
  <2> QED BY <1>2, <2>1
<1>4. q < L => va < L * P
  <2> HAVE q < L
  <2>1. q + 1 <= L /\ P * (q + 1) <= P * L
        BY <1>1, <1>3
  <2>2. P * (q + 1) = P * q + P /\ P * L = L * P
        BY <1>1, <1>3
  <2> QED BY <1>1, <1>2, <1>3, <2>1, <2>2
<1>5. va < L * P => q < L
  <2> SUFFICES ASSUME q >= L PROVE va >= L * P
      BY <1>1, <1>3
  <2>1. P * q >= P * L /\ P * L = L * P
        BY <1>1, <1>3
  <2> QED BY <1>1, <1>2, <1>3, <2>1
<1>6. va \in 0 .. L * P - 1 <=> q < L
      BY <1>1, <1>4, <1>5
<1>7. q < L => q + 1 \in 1 .. L
      BY <1>1, <1>3
<1> QED BY <1>1, <1>2, <1>3, <1>6, <1>7 DEF q, r, P, L, Mapped, Page

(* Every mapped address has a place of its own in main memory. *)
LEMMA PAType ==
    ASSUME NEW va \in Mapped
    PROVE  PA(va) \in PhysicalAddress /\ PA(va) \div PAGE_SIZE = Frames[Page(va)]
<1> DEFINE f == Frames[Page(va)]
           r == va % PAGE_SIZE
           P == PAGE_SIZE
           N == NUM_PHYS_PAGES
<1>0. va \in Nat
      BY PageFacts DEF Mapped
<1>1. P \in Nat /\ P > 0 /\ N \in Nat /\ f \in Nat /\ f < N /\ r \in Nat /\ r < P
  <2>1. Page(va) \in DOMAIN Frames /\ r \in Nat /\ r < P
        BY <1>0, MappedPage
  <2> QED BY <2>1, PageFacts
<1> HIDE DEF f, r, P, N
<1>2. f * P + r \in Nat /\ f * P + r < N * P
  <2>1. f + 1 <= N /\ (f + 1) * P <= N * P
        BY <1>1
  <2>2. (f + 1) * P = f * P + P
        BY <1>1
  <2> QED BY <1>1, <2>1, <2>2
<1>3. (P * f + r) \div P = f /\ P * f = f * P
      BY <1>1, DivModUnique
<1> QED BY <1>1, <1>2, <1>3 DEF f, r, P, N, PA, PhysicalAddress

LEMMA PAInjective ==
    ASSUME NEW v \in Mapped, NEW w \in Mapped, PA(v) = PA(w)
    PROVE  v = w
<1>1. v \in Nat /\ w \in Nat /\ Page(v) \in DOMAIN Frames /\ Page(w) \in DOMAIN Frames
      BY MappedPage DEF Mapped
<1>2. Frames[Page(v)] = Frames[Page(w)]
      BY PAType
<1>3. Page(v) = Page(w)
      BY <1>1, <1>2, MachineAssumption DEF MachineAssumption
<1>4. v \div PAGE_SIZE = w \div PAGE_SIZE
      BY <1>1, <1>3, MappedPage DEF Page
<1>5. v % PAGE_SIZE = w % PAGE_SIZE
  <2> DEFINE f == Frames[Page(v)] * PAGE_SIZE
  <2>1. f \in Int
        BY <1>1, PageFacts
  <2>2. f + (v % PAGE_SIZE) = f + (w % PAGE_SIZE)
        BY <1>2 DEF PA
  <2> HIDE DEF f
  <2>3. v % PAGE_SIZE \in Int /\ w % PAGE_SIZE \in Int
        BY <1>1, MappedPage
  <2> QED BY <2>1, <2>2, <2>3
<1> QED BY <1>1, <1>4, <1>5, MappedPage

(* MMU::Translate under a page table whose entries are all valid. *)
LEMMA TranslateIs ==
    ASSUME NEW mem \in MemoryType, NEW va \in Nat, NEW size \in {1, 2, 4}, NEW writing \in BOOLEAN
    PROVE  Translate(mem, va, size, writing) =
             IF va % size = 0 /\ va \in Mapped
             THEN [e |-> "NONE", pa |-> PA(va), m |-> Marked(mem, Page(va), writing)]
             ELSE [e |-> "ADDRESS_ERROR"]
<1> DEFINE q == va \div PAGE_SIZE
           found == RetrievePageEntry(mem, q)
<1>1. mem.table = PageTable /\ mem.tlb = FALSE
      BY DEF MemoryType
<1>2. Len(mem.table) = Len(Frames) /\ DOMAIN mem.table = DOMAIN Frames
      BY <1>1, MachineAssumption DEF PageTable, MachineAssumption
<1>3. q \in Nat /\ (va \in Mapped <=> q < Len(Frames)) /\ (va \in Mapped => q + 1 \in DOMAIN Frames)
      BY MappedPage DEF Page
<1>4. CASE va \in Mapped
  <2>1. mem.table[q + 1] = TranslationEntry(q + 1 - 1, Frames[q + 1])
        BY <1>1, <1>3, <1>4 DEF PageTable
  <2>2. /\ mem.table[q + 1].valid = TRUE /\ mem.table[q + 1].readOnly = FALSE
        /\ mem.table[q + 1].physicalPage = Frames[q + 1]
        BY <2>1 DEF TranslationEntry
  <2>3. found = [e |-> "NONE", i |-> q + 1]
        BY <1>1, <1>2, <1>3, <1>4, <2>2, PageFacts DEF RetrievePageEntry
  <2>4. Frames[q + 1] \in Nat /\ Frames[q + 1] < NUM_PHYS_PAGES
        BY <1>3, <1>4, PageFacts
  <2> HIDE DEF q, found
  <2>5. found.e = "NONE" /\ found.i = q + 1 /\ ~(Frames[q + 1] >= NUM_PHYS_PAGES)
        BY <2>3, <2>4, PageFacts
  <2> QED BY <1>4, <2>2, <2>5 DEF Translate, PA, Page, q, found
<1>5. CASE va \notin Mapped
  <2>1. found = [e |-> "ADDRESS_ERROR"]
        BY <1>1, <1>2, <1>3, <1>5, PageFacts DEF RetrievePageEntry
  <2> HIDE DEF q, found
  <2>2. found.e = "ADDRESS_ERROR" /\ found.e # "NONE"
        BY <2>1
  <2> QED BY <1>5, <2>2 DEF Translate, q, found
<1> QED BY <1>4, <1>5

(* An aligned access stays in its page. *)
LEMMA InPage ==
    ASSUME NEW va \in Nat, NEW size \in {1, 2, 4}, va % size = 0
    PROVE  (va % PAGE_SIZE) + size <= PAGE_SIZE
<1> DEFINE q == va \div PAGE_SIZE
           r == va % PAGE_SIZE
<1>1. PICK k \in Nat : PAGE_SIZE = 4 * k
      BY PageFacts
<1>2. q \in Nat /\ r \in Nat /\ r < 4 * k /\ va = (4 * k) * q + r
      BY <1>1, MappedPage
<1> HIDE DEF q, r
<1>3. k * q \in Int /\ (4 * k) * q = 4 * (k * q)
      BY <1>2
<1> DEFINE n == k * q
<1> HIDE DEF n
<1>4. n \in Int /\ va = 4 * n + r
      BY <1>2, <1>3 DEF n
<1>5. r + size <= 4 * k
  <2>1. CASE size = 1
        BY <1>2, <2>1
  <2>2. CASE size = 2
    <3>1. r % 2 = 0
          BY <1>2, <1>4, <2>2
    <3> QED BY <1>2, <2>2, <3>1
  <2>3. CASE size = 4
    <3>1. r % 4 = 0
          BY <1>2, <1>4, <2>3
    <3> QED BY <1>2, <2>3, <3>1
  <2> QED BY <2>1, <2>2, <2>3
<1> QED BY <1>1, <1>5 DEF r

(* The places of an aligned access. *)
LEMMA AccessPlaces ==
    ASSUME NEW va \in Mapped, NEW size \in {1, 2, 4}, va % size = 0, NEW k \in 0 .. size - 1
    PROVE  /\ va + k \in Mapped /\ Page(va + k) = Page(va) /\ PA(va + k) = PA(va) + k
           /\ PA(va) + k \in PhysicalAddress /\ (PA(va) + k) \div PAGE_SIZE = Frames[Page(va)]
<1> DEFINE q == va \div PAGE_SIZE
           r == va % PAGE_SIZE
           P == PAGE_SIZE
<1>1. va \in Nat /\ k \in Nat /\ P \in Nat /\ P > 0
      BY PageFacts DEF Mapped
<1>2. q \in Nat /\ r \in Nat /\ r < P /\ va = P * q + r /\ r + size <= P
      BY <1>1, InPage, MappedPage
<1> HIDE DEF q, r, P
<1>3. r + k \in Nat /\ r + k < P /\ va + k = P * q + (r + k)
      BY <1>1, <1>2
<1>4. (va + k) \div P = q /\ (va + k) % P = r + k
  <2> DEFINE s == r + k
  <2>1. s \in Nat /\ s < P /\ va + k = P * q + s
        BY <1>3
  <2> HIDE DEF s
  <2>2. (P * q + s) \div P = q /\ (P * q + s) % P = s
        BY <1>1, <1>2, <2>1, DivModUnique
  <2> QED BY <2>1, <2>2 DEF s
<1>5. va + k \in Mapped
  <2>1. q < Len(Frames)
        BY <1>1, MappedPage DEF q
  <2>2. va + k \in Nat
        BY <1>1
  <2> QED BY <1>4, <2>1, <2>2, MappedPage DEF P
<1>6. Page(va + k) = Page(va)
      BY <1>4 DEF Page, P, q
<1>7. PA(va + k) = PA(va) + k
  <2>1. Frames[Page(va)] * PAGE_SIZE \in Int
        BY <1>1, MappedPage, PageFacts
  <2> DEFINE f == Frames[Page(va)] * PAGE_SIZE
  <2>2. PA(va) = f + r /\ PA(va + k) = f + (r + k)
        BY <1>4, <1>6 DEF PA, P, r
  <2> HIDE DEF f
  <2> QED BY <1>1, <1>2, <2>1, <2>2 DEF f
<1> QED BY <1>5, <1>6, <1>7, PAType

(* A store keeps memory's type, and the dirty bits tell of it. *)
LEMMA WriteMemKeeps ==
    ASSUME NEW mem \in MemoryType, Recorded(mem), NEW va \in Nat, NEW size \in {1, 2, 4}, NEW value \in Int,
           Translate(mem, va, size, TRUE).e = "NONE"
    PROVE  LET after == WriteMem(mem, va, size, value).m
           IN  after \in MemoryType /\ Recorded(after)
<1> DEFINE t == Translate(mem, va, size, TRUE)
           after == WriteMem(mem, va, size, value).m
           new == [a \in DOMAIN mem.main |->
                        IF a \in t.pa .. t.pa + size - 1
                        THEN (value \div Span(a - t.pa)) % ByteSize ELSE mem.main[a]]
<1>0. t = IF va % size = 0 /\ va \in Mapped
          THEN [e |-> "NONE", pa |-> PA(va), m |-> Marked(mem, Page(va), TRUE)]
          ELSE [e |-> "ADDRESS_ERROR"]
      BY TranslateIs
<1>b. t.e = "NONE" /\ after = (IF t.e # "NONE" THEN [e |-> t.e] ELSE [e |-> "NONE", m |-> [t.m EXCEPT !.main = new]]).m
      BY DEF WriteMem
<1> HIDE DEF t
<1>1. va % size = 0 /\ va \in Mapped
      BY <1>0, <1>b
<1>2. t.pa = PA(va) /\ t.m = [mem EXCEPT !.dirty = @ \cup {Page(va)}]
      BY <1>0, <1>1 DEF Marked
<1>3. after = [t.m EXCEPT !.main = new]
  <2> HIDE DEF after, new
  <2> QED BY <1>b
<1>4. Page(va) \in DOMAIN Frames
      BY <1>1, MappedPage
<1>5. mem.main \in [PhysicalAddress -> Byte] /\ mem.table = PageTable /\ mem.tlb = FALSE /\ mem.dirty \in SUBSET DOMAIN Frames
      BY DEF MemoryType
<1>6. mem = [main |-> mem.main, table |-> mem.table, tlb |-> mem.tlb, dirty |-> mem.dirty]
      BY DEF MemoryType
<1> HIDE DEF after, new, t
<1>7. after = [main |-> new, table |-> PageTable, tlb |-> FALSE, dirty |-> mem.dirty \cup {Page(va)}]
      BY <1>2, <1>3, <1>5, <1>6
<1>8. new \in [PhysicalAddress -> Byte]
  <2>1. DOMAIN mem.main = PhysicalAddress
        BY <1>5
  <2>2. ASSUME NEW a \in PhysicalAddress, a \in t.pa .. t.pa + size - 1
        PROVE  (value \div Span(a - t.pa)) % ByteSize \in Byte
    <3>1. t.pa \in Int /\ a \in Int
          BY <1>1, <1>2, PAType DEF PhysicalAddress
    <3>2. a - t.pa \in Nat
          BY <2>2, <3>1
    <3>3. Span(a - t.pa) \in Nat /\ Span(a - t.pa) > 0
          BY <3>2, SpanType
    <3>4. value \div Span(a - t.pa) \in Int
          BY <3>3, DivMod
    <3> QED BY <3>4, Sizes, DivMod DEF Byte
  <2> QED BY <1>5, <2>1, <2>2 DEF new
<1>9. after \in MemoryType
      BY <1>4, <1>5, <1>7, <1>8 DEF MemoryType
<1>10. Recorded(after)
  <2> SUFFICES ASSUME NEW a \in PhysicalAddress, new[a] # 0
               PROVE  \E i \in mem.dirty \cup {Page(va)} : PageTable[i].physicalPage = a \div PAGE_SIZE
      BY <1>7, <1>8 DEF Recorded
  <2>1. CASE a \in t.pa .. t.pa + size - 1
    <3> DEFINE k == a - t.pa
    <3>1. t.pa \in Int /\ a \in Int
          BY <1>1, <1>2, PAType DEF PhysicalAddress
    <3>2. k \in 0 .. size - 1 /\ a = t.pa + k
          BY <2>1, <3>1
    <3> HIDE DEF k
    <3>5. (PA(va) + k) \div PAGE_SIZE = Frames[Page(va)]
          BY <1>1, <3>2, AccessPlaces
    <3>3. a \div PAGE_SIZE = Frames[Page(va)]
          BY <1>2, <3>2, <3>5
    <3>4. PageTable[Page(va)].physicalPage = Frames[Page(va)]
          BY <1>4 DEF PageTable, TranslationEntry
    <3> QED BY <3>3, <3>4
  <2>2. CASE a \notin t.pa .. t.pa + size - 1
    <3>1. a \in DOMAIN mem.main /\ mem.main[a] # 0
          BY <1>5, <2>2 DEF new
    <3> QED BY <1>5, <3>1 DEF Recorded
  <2> QED BY <2>1, <2>2
<1> QED BY <1>9, <1>10 DEF after

(* A copy leaves its bytes where it means to and nothing else changed; it  *)
(* keeps memory's type, and the dirty bits tell of it.                     *)
LEMMA CopiedIs ==
    ASSUME NEW mem \in MemoryType, Recorded(mem), NEW D \in SUBSET Nat, NEW image \in [D -> Byte],
           Copied(mem, image).e = "NONE"
    PROVE  LET after == Copied(mem, image).m
           IN  /\ after \in MemoryType /\ Recorded(after) /\ D \subseteq Mapped
               /\ \A v \in D : after.main[PA(v)] = image[v]
               /\ \A v \in Mapped \ D : after.main[PA(v)] = mem.main[PA(v)]
<1> DEFINE at(v)   == Translate(mem, v, 1, TRUE)
           from(a) == CHOOSE v \in DOMAIN image : at(v).pa = a
           new == [a \in {at(v).pa : v \in DOMAIN image} |-> image[from(a)]]
           main == Over(new, mem.main)
           dirty == mem.dirty \cup UNION {at(v).m.dirty : v \in DOMAIN image}
           after == Copied(mem, image).m
<1>1. mem.main \in [PhysicalAddress -> Byte] /\ mem.table = PageTable /\ mem.tlb = FALSE /\ mem.dirty \in SUBSET DOMAIN Frames
      BY DEF MemoryType
<1>2. mem = [main |-> mem.main, table |-> mem.table, tlb |-> mem.tlb, dirty |-> mem.dirty]
      BY DEF MemoryType
<1>3. DOMAIN image = D
      OBVIOUS
<1>4. /\ \A v \in D : at(v).e = "NONE"
      /\ after = [mem EXCEPT !.main = main, !.dirty = dirty]
  <2>1. CASE \E v \in DOMAIN image : at(v).e # "NONE"
    <3>1. Copied(mem, image) = [e |-> "ASSERT"]
          BY <2>1 DEF Copied
    <3> QED BY <3>1
  <2>2. CASE ~\E v \in DOMAIN image : at(v).e # "NONE"
    <3>1. Copied(mem, image) = [e |-> "NONE", m |-> [mem EXCEPT !.main = main, !.dirty = dirty]]
          BY <2>2 DEF Copied
    <3> HIDE DEF main, dirty, at
    <3>2. after = [mem EXCEPT !.main = main, !.dirty = dirty]
          BY <3>1
    <3> QED BY <1>3, <2>2, <3>2, Zenon
  <2> QED BY <2>1, <2>2
<1>5. ASSUME NEW v \in D
      PROVE  v \in Mapped /\ at(v).pa = PA(v) /\ at(v).m.dirty = mem.dirty \cup {Page(v)}
  <2>1. v \in Nat /\ v % 1 = 0
        OBVIOUS
  <2>2. at(v) = IF v % 1 = 0 /\ v \in Mapped
                THEN [e |-> "NONE", pa |-> PA(v), m |-> Marked(mem, Page(v), TRUE)]
                ELSE [e |-> "ADDRESS_ERROR"]
        BY <2>1, TranslateIs
  <2>3. at(v).e = "NONE"
        BY <1>4
  <2> HIDE DEF at
  <2>4. v \in Mapped
        BY <2>2, <2>3
  <2> QED BY <1>2, <2>1, <2>2, <2>4 DEF Marked
<1> HIDE DEF at
<1>6. {at(v).pa : v \in DOMAIN image} = {PA(v) : v \in D}
      BY <1>3, <1>5
<1>7. ASSUME NEW v \in D PROVE new[PA(v)] = image[v]
  <2>1. PA(v) \in {at(w).pa : w \in DOMAIN image}
        BY <1>6
  <2>2. \E w \in DOMAIN image : at(w).pa = PA(v)
        BY <1>3, <1>5
  <2>3. from(PA(v)) \in DOMAIN image /\ at(from(PA(v))).pa = PA(v)
        BY <2>2
  <2>4. new[PA(v)] = image[from(PA(v))]
        BY <2>1
  <2> HIDE DEF from
  <2>5. PA(from(PA(v))) = PA(v) /\ from(PA(v)) \in Mapped /\ v \in Mapped
        BY <1>3, <1>5, <2>3
  <2>6. from(PA(v)) = v
        BY <2>5, PAInjective
  <2> QED BY <2>4, <2>6
<1>8. DOMAIN new = {PA(v) : v \in D}
      BY <1>6
<1> HIDE DEF new, from
<1>9. main = [x \in DOMAIN new \cup DOMAIN mem.main |-> IF x \in DOMAIN new THEN new[x] ELSE mem.main[x]]
      BY DEF Over
<1>10. DOMAIN new \subseteq PhysicalAddress
      BY <1>5, <1>8, PAType
<1> HIDE DEF main, dirty, after
<1>11. /\ main \in [PhysicalAddress -> Byte]
       /\ \A v \in D : main[PA(v)] = image[v]
       /\ \A a \in PhysicalAddress : a \notin DOMAIN new => main[a] = mem.main[a]
  <2>1. DOMAIN new \cup DOMAIN mem.main = PhysicalAddress
        BY <1>1, <1>10
  <2>2. ASSUME NEW x \in DOMAIN new PROVE new[x] \in Byte
    <3>1. PICK v \in D : x = PA(v)
          BY <1>8
    <3> QED BY <1>7, <3>1
  <2>3. ASSUME NEW v \in D PROVE main[PA(v)] = image[v]
    <3>1. PA(v) \in DOMAIN new /\ PA(v) \in PhysicalAddress
          BY <1>8, <1>10
    <3> QED BY <1>7, <1>9, <2>1, <3>1
  <2> QED BY <1>1, <1>9, <2>1, <2>2, <2>3
<1>12. dirty = mem.dirty \cup {Page(v) : v \in D}
  <2>1. ASSUME NEW x PROVE x \in dirty <=> x \in mem.dirty \/ \E v \in D : x = Page(v)
    <3>1. x \in dirty <=> x \in mem.dirty \/ \E v \in D : x \in at(v).m.dirty
          BY <1>3, Zenon DEF dirty
    <3> QED BY <1>5, <3>1, Zenon
  <2> QED BY <2>1, Zenon
<1>13. dirty \in SUBSET DOMAIN Frames
  <2>1. \A v \in D : Page(v) \in DOMAIN Frames
    <3> TAKE v \in D
    <3>1. v \in Mapped /\ v \in Nat
          BY <1>5
    <3> QED BY <3>1, MappedPage
  <2> QED BY <1>1, <1>12, <2>1
<1>14. after = [main |-> main, table |-> PageTable, tlb |-> FALSE, dirty |-> dirty]
      BY <1>1, <1>2, <1>4
<1>15. after \in MemoryType
      BY <1>11, <1>13, <1>14 DEF MemoryType
<1>16. Recorded(after)
  <2> SUFFICES ASSUME NEW a \in PhysicalAddress, main[a] # 0
               PROVE  \E i \in dirty : PageTable[i].physicalPage = a \div PAGE_SIZE
      BY <1>11, <1>14 DEF Recorded
  <2>1. CASE a \in DOMAIN new
    <3>1. PICK v \in D : a = PA(v)
          BY <1>8, <2>1
    <3>2. v \in Mapped /\ v \in Nat
          BY <1>5
    <3>3. a \div PAGE_SIZE = Frames[Page(v)] /\ Page(v) \in DOMAIN Frames
          BY <3>1, <3>2, PAType, MappedPage
    <3>4. PageTable[Page(v)].physicalPage = Frames[Page(v)]
          BY <3>3 DEF PageTable, TranslationEntry
    <3> QED BY <1>12, <3>3, <3>4
  <2>2. CASE a \notin DOMAIN new
    <3>1. a \in DOMAIN mem.main /\ mem.main[a] # 0
          BY <1>1, <1>11, <2>2
    <3> QED BY <1>1, <1>12, <3>1 DEF Recorded
  <2> QED BY <2>1, <2>2
<1>17. D \subseteq Mapped
      BY <1>5
<1>18. ASSUME NEW v \in Mapped \ D PROVE main[PA(v)] = mem.main[PA(v)]
  <2>1. PA(v) \in PhysicalAddress
        BY PAType
  <2>2. PA(v) \notin DOMAIN new
    <3> SUFFICES ASSUME NEW w \in D, PA(v) = PA(w) PROVE FALSE
        BY <1>8
    <3> QED BY <1>5, PAInjective
  <2> QED BY <1>11, <2>1, <2>2
<1>19. after.main = main
      BY <1>14
<1> QED BY <1>11, <1>15, <1>16, <1>17, <1>18, <1>19 DEF after

-----------------------------------------------------------------------------
(* The arguments: where they are, and what is written for them. *)

Arguments(a) ==
    /\ a \in Seq(Seq(Byte \ {NUL})) /\ Len(a) < MAX_ARG_COUNT
    /\ \A k \in DOMAIN a : Len(a[k]) < MAX_ARG_LENGTH

LEMMA ArgumentFacts ==
    ASSUME NEW a, Arguments(a)
    PROVE  /\ Len(a) \in Nat /\ DOMAIN a = 1 .. Len(a)
           /\ \A k \in 1 .. Len(a) :
                /\ a[k] \in Seq(Byte) /\ Len(a[k]) \in Nat /\ DOMAIN a[k] = 1 .. Len(a[k])
                /\ \A j \in 1 .. Len(a[k]) : a[k][j] \in Byte /\ a[k][j] # NUL
<1>1. a \in Seq(Seq(Byte \ {NUL}))
      BY DEF Arguments
<1>2. Len(a) \in Nat /\ DOMAIN a = 1 .. Len(a)
      BY <1>1
<1>3. ASSUME NEW k \in 1 .. Len(a)
      PROVE  /\ a[k] \in Seq(Byte) /\ Len(a[k]) \in Nat /\ DOMAIN a[k] = 1 .. Len(a[k])
             /\ \A j \in 1 .. Len(a[k]) : a[k][j] \in Byte /\ a[k][j] # NUL
  <2>1. a[k] \in Seq(Byte \ {NUL})
        BY <1>1, <1>2
  <2>2. \A j \in 1 .. Len(a[k]) : a[k][j] \in Byte \ {NUL}
        BY <2>1
  <2> QED BY <2>1, <2>2
<1> QED BY <1>2, <1>3

(* The bytes up to argument k, as ArgAddress counts them. *)
BytesUpTo(a, k) == UNION {{i} \X (0 .. Len(a[i])) : i \in 1 .. k}

LEMMA TakenStep ==
    ASSUME NEW a, NEW k \in Nat, IsFiniteSet(BytesUpTo(a, k)), Len(a[k + 1]) \in Nat
    PROVE  /\ IsFiniteSet(BytesUpTo(a, k + 1))
           /\ Cardinality(BytesUpTo(a, k + 1)) = Cardinality(BytesUpTo(a, k)) + Len(a[k + 1]) + 1
<1> DEFINE A == BytesUpTo(a, k)
           L == Len(a[k + 1])
           B == {k + 1} \X (0 .. L)
<1>0. L \in Nat
      OBVIOUS
<1>1. IsFiniteSet(0 .. L) /\ Cardinality(0 .. L) = L + 1
  <2> HIDE DEF L
  <2>1. L \in Int /\ ~(0 > L) /\ L - 0 + 1 = L + 1
        BY <1>0
  <2>2. 0 \in Int
        OBVIOUS
  <2>3. IsFiniteSet(0 .. L) /\ Cardinality(0 .. L) = IF 0 > L THEN 0 ELSE L - 0 + 1
        BY <2>1, <2>2, FS_Interval, Zenon
  <2> QED BY <2>1, <2>3
<1>2. IsFiniteSet({k + 1}) /\ Cardinality({k + 1}) = 1
      BY FS_Singleton
<1>3. IsFiniteSet(B) /\ Cardinality(B) = 1 * (L + 1)
      BY <1>1, <1>2, FS_Product
<1>4. BytesUpTo(a, k + 1) = A \cup B
  <2>1. \A i : i \in 1 .. k + 1 <=> i \in 1 .. k \/ i = k + 1
        OBVIOUS
  <2>2. ASSUME NEW x PROVE x \in BytesUpTo(a, k + 1) <=> x \in A \/ x \in B
    <3>1. x \in BytesUpTo(a, k + 1) <=> \E i \in 1 .. k + 1 : x \in {i} \X (0 .. Len(a[i]))
          BY Zenon DEF BytesUpTo
    <3>2. x \in A <=> \E i \in 1 .. k : x \in {i} \X (0 .. Len(a[i]))
          BY Zenon DEF BytesUpTo
    <3> QED BY <2>1, <3>1, <3>2, Zenon
  <2> QED BY <2>2, Zenon
<1>5. A \cap B = {}
  <2> SUFFICES ASSUME NEW x \in A, x \in B PROVE FALSE
      BY Zenon
  <2>1. PICK i \in 1 .. k : x \in {i} \X (0 .. Len(a[i]))
        BY Zenon DEF BytesUpTo
  <2>2. x[1] = i /\ x[1] = k + 1
        BY <2>1
  <2> QED BY <2>2
<1> HIDE DEF A, B
<1>6. Cardinality(A) \in Nat /\ Cardinality({}) = 0
      BY FS_CardinalityType, FS_EmptySet DEF A
<1>7. Cardinality(A \cup B) = Cardinality(A) + Cardinality(B) - Cardinality({}) /\ IsFiniteSet(A \cup B)
  <2>1. IsFiniteSet(A)
        BY DEF A
  <2>2. Cardinality(A \cup B) = Cardinality(A) + Cardinality(B) - Cardinality(A \cap B) /\ IsFiniteSet(A \cup B)
        BY <1>3, <2>1, FS_Union
  <2> QED BY <1>5, <2>2
<1>8. Cardinality(A \cup B) = Cardinality(A) + L + 1
      BY <1>3, <1>6, <1>7
<1> QED BY <1>4, <1>7, <1>8 DEF A

LEMMA TakenFinite ==
    ASSUME NEW a, Arguments(a), NEW k \in 0 .. Len(a)
    PROVE  IsFiniteSet(BytesUpTo(a, k)) /\ Cardinality(BytesUpTo(a, k)) \in Nat
<1>1. Len(a) \in Nat /\ \A i \in 1 .. Len(a) : Len(a[i]) \in Nat
      BY ArgumentFacts
<1> DEFINE T == {n \in 0 .. Len(a) : IsFiniteSet(BytesUpTo(a, n))}
<1>2. 0 \in T
  <2>1. BytesUpTo(a, 0) = {}
    <3>1. 1 .. 0 = {}
          OBVIOUS
    <3> QED BY <3>1, Zenon DEF BytesUpTo
  <2> QED BY <1>1, <2>1, FS_EmptySet
<1>3. ASSUME NEW n \in 0 .. Len(a) - 1, n \in T PROVE n + 1 \in T
  <2>1. n \in Nat /\ n + 1 \in 1 .. Len(a) /\ n + 1 \in 0 .. Len(a) /\ IsFiniteSet(BytesUpTo(a, n))
        BY <1>1, <1>3
  <2> QED BY <1>1, <2>1, TakenStep
<1> HIDE DEF T
<1>4. k \in T
      BY <1>1, <1>2, <1>3, Counting
<1>5. IsFiniteSet(BytesUpTo(a, k))
      BY <1>4 DEF T
<1> QED BY <1>5, FS_CardinalityType

(* Each argument is below the one before it, with a byte left for '\0'. *)
LEMMA ArgAddresses ==
    ASSUME NEW a, Arguments(a), NEW sp \in Int
    PROVE  /\ ArgAddress(a, sp, 0) = sp
           /\ \A k \in 0 .. Len(a) : ArgAddress(a, sp, k) \in Int
           /\ \A k \in 1 .. Len(a) : ArgAddress(a, sp, k) = ArgAddress(a, sp, k - 1) - Len(a[k]) - 1
           /\ \A j, k \in 0 .. Len(a) : j <= k => ArgAddress(a, sp, k) <= ArgAddress(a, sp, j)
<1>1. Len(a) \in Nat /\ \A i \in 1 .. Len(a) : Len(a[i]) \in Nat
      BY ArgumentFacts
<1>2. \A k : ArgAddress(a, sp, k) = sp - Cardinality(BytesUpTo(a, k))
      BY Zenon DEF ArgAddress, BytesUpTo
<1>3. \A k \in 0 .. Len(a) : IsFiniteSet(BytesUpTo(a, k)) /\ Cardinality(BytesUpTo(a, k)) \in Nat
      BY TakenFinite
<1>4. ArgAddress(a, sp, 0) = sp
  <2>1. BytesUpTo(a, 0) = {}
    <3>1. 1 .. 0 = {}
          OBVIOUS
    <3> QED BY <3>1, Zenon DEF BytesUpTo
  <2>2. Cardinality(BytesUpTo(a, 0)) = 0
        BY <2>1, FS_EmptySet
  <2> QED BY <1>2, <2>2
<1>5. \A k \in 0 .. Len(a) : ArgAddress(a, sp, k) \in Int
      BY <1>2, <1>3
<1>6. ASSUME NEW k \in 1 .. Len(a) PROVE ArgAddress(a, sp, k) = ArgAddress(a, sp, k - 1) - Len(a[k]) - 1
  <2> DEFINE j == k - 1
  <2>1. j \in Nat /\ j \in 0 .. Len(a) /\ k = j + 1
        BY <1>1
  <2> HIDE DEF j
  <2>2. IsFiniteSet(BytesUpTo(a, j)) /\ Cardinality(BytesUpTo(a, j)) \in Nat /\ Len(a[j + 1]) \in Nat
        BY <1>1, <1>3, <2>1
  <2>3. Cardinality(BytesUpTo(a, j + 1)) = Cardinality(BytesUpTo(a, j)) + Len(a[j + 1]) + 1
        BY <2>1, <2>2, TakenStep
  <2>4. ArgAddress(a, sp, j + 1) = ArgAddress(a, sp, j) - Len(a[j + 1]) - 1
        BY <1>2, <2>2, <2>3
  <2> QED BY <2>1, <2>4 DEF j
<1>7. ASSUME NEW j \in 0 .. Len(a), NEW k \in 0 .. Len(a), j <= k
      PROVE  ArgAddress(a, sp, k) <= ArgAddress(a, sp, j)
  <2>1. BytesUpTo(a, j) \subseteq BytesUpTo(a, k)
    <3>1. 1 .. j \subseteq 1 .. k
          BY <1>7
    <3> QED BY <3>1, Zenon DEF BytesUpTo
  <2>2. Cardinality(BytesUpTo(a, j)) <= Cardinality(BytesUpTo(a, k))
        BY <1>3, <2>1, FS_Subset
  <2> QED BY <1>2, <1>3, <2>2
<1> QED BY <1>4, <1>5, <1>6, <1>7

LEMMA MaxIs ==
    ASSUME NEW T \in SUBSET Nat, T # {}, NEW n \in Nat, \A k \in T : k <= n
    PROVE  Max(T) \in T /\ \A k \in T : k <= Max(T)
<1> DEFINE R == {n - k : k \in T}
<1>1. R \in SUBSET Nat /\ R # {}
  <2>1. \A k \in T : n - k \in Nat
        OBVIOUS
  <2>2. PICK k \in T : TRUE
        OBVIOUS
  <2>3. n - k \in R
        BY <2>2
  <2> QED BY <2>1, <2>3, Zenon
<1>2. PICK r \in R : \A k \in R : r <= k
      BY <1>1, LeastNatural
<1>3. PICK x \in T : r = n - x
      OBVIOUS
<1>4. ASSUME NEW k \in T PROVE x >= k
  <2>1. n - k \in R /\ k \in Nat /\ x \in Nat
        OBVIOUS
  <2> HIDE DEF R
  <2>2. n - x <= n - k
        BY <1>2, <1>3, <2>1
  <2> QED BY <2>1, <2>2
<1>5. \E y \in T : \A k \in T : y >= k
      BY <1>4
<1> DEFINE mx == CHOOSE y \in T : \A k \in T : y >= k
<1>6. mx \in T /\ \A k \in T : mx >= k
      BY <1>5
<1>7. Max(T) = mx
      BY Zenon DEF Max
<1> HIDE DEF mx, R
<1>8. \A k \in T : k <= mx
      BY <1>6
<1> QED BY <1>6, <1>7, <1>8

LEMMA MinIs ==
    ASSUME NEW T \in SUBSET Nat, NEW x \in T, \A k \in T : x <= k
    PROVE  Min(T) = x
<1> DEFINE mn == CHOOSE y \in T : \A k \in T : y =< k
<1>1. mn \in T /\ \A k \in T : mn =< k
      OBVIOUS
<1>2. Min(T) = mn
      BY Zenon DEF Min
<1> HIDE DEF mn
<1>3. mn <= x /\ x <= mn /\ mn \in Nat /\ x \in Nat
      BY <1>1
<1> QED BY <1>2, <1>3

(* What is written for one argument. *)
ArgImage(a, rest, sp, k) == WriteStringToUser(a[k], rest, ArgAddress(a, sp, k))

LEMMA ArgImageIs ==
    ASSUME NEW a, Arguments(a), NEW rest \in Seq(Byte), NEW sp \in Int, NEW k \in 1 .. Len(a)
    PROVE  LET A == ArgAddress(a, sp, k)
           IN  /\ \A v \in DOMAIN ArgImage(a, rest, sp, k) :
                     v \in Int /\ v >= A /\ ArgImage(a, rest, sp, k)[v] \in Byte
               /\ a[k] # <<>> => ArgImage(a, rest, sp, k) = [v \in A .. A + Len(a[k]) - 1 |-> a[k][v - A + 1]]
<1> DEFINE A == ArgAddress(a, sp, k)
           buffer == IF a[k] = <<>> THEN <<NUL>> \o rest ELSE a[k]
<1>1. A \in Int
  <2>1. k \in 0 .. Len(a)
        BY ArgumentFacts
  <2> QED BY <2>1, ArgAddresses
<1>2. a[k] \in Seq(Byte)
      BY ArgumentFacts
<1>3. <<NUL>> \in Seq(Byte)
      BY Sizes DEF Byte, NUL
<1>4. buffer \in Seq(Byte)
  <2>1. <<NUL>> \o rest \in Seq(Byte)
        BY <1>3, ConcatProperties
  <2> QED BY <1>2, <2>1
<1>5. ArgImage(a, rest, sp, k) = [v \in A .. A + Len(buffer) - 1 |-> buffer[v - A + 1]]
      BY DEF ArgImage, WriteStringToUser, WriteBufferToUser
<1> HIDE DEF A
<1>6. ASSUME NEW v \in DOMAIN ArgImage(a, rest, sp, k)
      PROVE  v \in Int /\ v >= A /\ ArgImage(a, rest, sp, k)[v] \in Byte
  <2> HIDE DEF buffer
  <2>1. v \in A .. A + Len(buffer) - 1 /\ Len(buffer) \in Nat
        BY <1>4, <1>5
  <2>2. v \in Int /\ v >= A /\ v - A + 1 \in 1 .. Len(buffer)
        BY <1>1, <2>1
  <2>3. buffer[v - A + 1] \in Byte
        BY <1>4, <2>2
  <2> QED BY <1>5, <2>1, <2>2, <2>3
<1>7. a[k] # <<>> => ArgImage(a, rest, sp, k) = [v \in A .. A + Len(a[k]) - 1 |-> a[k][v - A + 1]]
      BY <1>5
<1> QED BY <1>6, <1>7 DEF A

LEMMA ArgStringsAre ==
    ASSUME NEW a, Arguments(a), NEW rest \in Seq(Byte), NEW sp \in Int
    PROVE  LET strings == ArgStrings(a, rest, sp)
           IN  /\ DOMAIN strings = UNION {DOMAIN ArgImage(a, rest, sp, k) : k \in 1 .. Len(a)}
               /\ \A v \in DOMAIN strings :
                     /\ v \in Int /\ v >= ArgAddress(a, sp, Len(a)) /\ strings[v] \in Byte
                     /\ \E k \in 1 .. Len(a) : /\ v \in DOMAIN ArgImage(a, rest, sp, k)
                                               /\ strings[v] = ArgImage(a, rest, sp, k)[v]
<1> DEFINE image(k) == ArgImage(a, rest, sp, k)
           over(v)  == {k \in 1 .. Len(a) : v \in DOMAIN image(k)}
           strings  == ArgStrings(a, rest, sp)
           D == UNION {DOMAIN image(k) : k \in 1 .. Len(a)}
<1>1. Len(a) \in Nat /\ DOMAIN a = 1 .. Len(a)
      BY ArgumentFacts
<1>2. strings = [v \in D |-> image(Max(over(v)))[v]]
      BY <1>1 DEF ArgStrings, ArgImage
<1> HIDE DEF strings, image
<1>3. ASSUME NEW v \in D
      PROVE  Max(over(v)) \in over(v)
  <2>1. over(v) \in SUBSET Nat /\ over(v) # {} /\ \A k \in over(v) : k <= Len(a)
        BY <1>1
  <2> HIDE DEF over
  <2> QED BY <1>1, <2>1, MaxIs
<1>4. ASSUME NEW v \in D
      PROVE  /\ v \in Int /\ v >= ArgAddress(a, sp, Len(a)) /\ strings[v] \in Byte
             /\ \E k \in 1 .. Len(a) : v \in DOMAIN image(k) /\ strings[v] = image(k)[v]
  <2> DEFINE j == Max(over(v))
  <2>1. j \in 1 .. Len(a) /\ v \in DOMAIN image(j)
        BY <1>3
  <2>2. strings[v] = image(j)[v]
        BY <1>2
  <2> HIDE DEF j
  <2>3. v \in Int /\ v >= ArgAddress(a, sp, j) /\ image(j)[v] \in Byte
        BY <2>1, ArgImageIs DEF image
  <2>4. j \in 0 .. Len(a) /\ Len(a) \in 0 .. Len(a) /\ j <= Len(a)
        BY <1>1, <2>1
  <2>5. /\ ArgAddress(a, sp, Len(a)) <= ArgAddress(a, sp, j)
        /\ ArgAddress(a, sp, j) \in Int /\ ArgAddress(a, sp, Len(a)) \in Int
        BY <2>4, ArgAddresses
  <2>6. v >= ArgAddress(a, sp, Len(a))
        BY <2>3, <2>5
  <2> QED BY <2>1, <2>2, <2>3, <2>6
<1>5. DOMAIN strings = D
      BY <1>2
<1> HIDE DEF D
<1> QED BY <1>4, <1>5 DEF D, image, strings

LEMMA ByteMod == \A x \in Int : x % ByteSize \in Byte
<1> TAKE x \in Int
<1>1. x % ByteSize \in Nat /\ x % ByteSize < ByteSize
      BY Sizes, DivMod
<1> QED BY <1>1, Sizes DEF Byte

(* argv's words. *)
ArgWord(a, sp, k) == IF k \in DOMAIN a THEN ArgAddress(a, sp, k) ELSE 0

LEMMA ArgPointersAre ==
    ASSUME NEW a, Arguments(a), NEW sp \in Int, NEW va \in Int
    PROVE  LET pointers == ArgPointers(a, sp, va)
           IN  /\ DOMAIN pointers = va .. va + 4 * Len(a) + 3
               /\ \A v \in DOMAIN pointers : pointers[v] \in Byte
               /\ \A k \in 0 .. Len(a), j \in 0 .. 3 :
                     /\ va + 4 * k + j \in DOMAIN pointers
                     /\ pointers[va + 4 * k + j] = (ArgWord(a, sp, k + 1) \div Span(j)) % ByteSize
<1> DEFINE pointers == ArgPointers(a, sp, va)
           D == va .. va + 4 * Len(a) + 3
<1>1. Len(a) \in Nat /\ DOMAIN a = 1 .. Len(a)
      BY ArgumentFacts
<1>2. pointers = [v \in D |-> (ArgWord(a, sp, (v - va) \div 4 + 1) \div Span((v - va) % 4)) % ByteSize]
      BY DEF ArgPointers, ArgWord
<1>3. \A k : ArgWord(a, sp, k) \in Int
  <2>1. \A k \in 1 .. Len(a) : k \in 0 .. Len(a)
        BY <1>1
  <2>2. \A k \in 0 .. Len(a) : ArgAddress(a, sp, k) \in Int
        BY ArgAddresses
  <2> QED BY <1>1, <2>1, <2>2 DEF ArgWord
<1> HIDE DEF pointers
<1>4. ASSUME NEW v \in D PROVE pointers[v] \in Byte
  <2> DEFINE w == ArgWord(a, sp, (v - va) \div 4 + 1)
             n == (v - va) % 4
  <2>1. n \in Nat
        OBVIOUS
  <2>2. w \in Int
        BY <1>3
  <2>3. pointers[v] = (w \div Span(n)) % ByteSize
        BY <1>2
  <2> HIDE DEF w, n
  <2>4. Span(n) \in Nat /\ Span(n) > 0
        BY <2>1, SpanType
  <2>5. w \div Span(n) \in Int
        BY <2>2, <2>4, DivMod
  <2> QED BY <2>3, <2>5, ByteMod
<1>5. ASSUME NEW k \in 0 .. Len(a), NEW j \in 0 .. 3
      PROVE  /\ va + 4 * k + j \in D
             /\ pointers[va + 4 * k + j] = (ArgWord(a, sp, k + 1) \div Span(j)) % ByteSize
  <2> DEFINE v == va + 4 * k + j
  <2>1. v \in D /\ v - va = 4 * k + j
        BY <1>1
  <2>2. (4 * k + j) \div 4 = k /\ (4 * k + j) % 4 = j
        BY <1>1, DivModUnique
  <2> HIDE DEF v
  <2>3. (v - va) \div 4 = k /\ (v - va) % 4 = j
        BY <2>1, <2>2
  <2>4. pointers[v] = (ArgWord(a, sp, (v - va) \div 4 + 1) \div Span((v - va) % 4)) % ByteSize
        BY <1>2, <2>1
  <2>5. pointers[v] = (ArgWord(a, sp, k + 1) \div Span(j)) % ByteSize
        BY <2>3, <2>4
  <2> QED BY <2>1, <2>5 DEF v
<1>6. DOMAIN pointers = D
      BY <1>2
<1> HIDE DEF D
<1> QED BY <1>4, <1>5, <1>6 DEF D, pointers

(* argv is aligned and ends below the strings. *)
LEMMA ArgvIs ==
    ASSUME NEW a, Arguments(a), NEW sp \in Int
    PROVE  LET va == ArgvAddress(a, sp)
           IN  /\ va \in Int /\ va % 4 = 0
               /\ va + 4 * Len(a) + 4 <= ArgAddress(a, sp, Len(a))
<1> DEFINE low == ArgAddress(a, sp, Len(a))
           n == Len(a)
<1>1. n \in Nat
      BY ArgumentFacts
<1>2. low \in Int
  <2>1. n \in 0 .. n
        BY <1>1
  <2> QED BY <2>1, ArgAddresses
<1>3. ArgvAddress(a, sp) = low - (low % 4) - (4 * n + 4)
      BY DEF ArgvAddress
<1> HIDE DEF low, n
<1>4. PICK q \in Int : low = 4 * q + (low % 4) /\ low % 4 \in 0 .. 3
      BY <1>2
<1>5. low - (low % 4) - (4 * n + 4) = 4 * (q - n - 1)
      BY <1>1, <1>2, <1>4
<1>6. (4 * (q - n - 1)) % 4 = 0 /\ 4 * (q - n - 1) \in Int
      BY <1>1
<1>7. low - (low % 4) - (4 * n + 4) + 4 * n + 4 <= low
      BY <1>1, <1>2, <1>4
<1> QED BY <1>3, <1>5, <1>6, <1>7 DEF low, n

(* All that WriteArgs writes. *)
ArgBytes(a, rest, sp) == Over(ArgStrings(a, rest, sp), ArgPointers(a, sp, ArgvAddress(a, sp)))

LEMMA ArgBytesType ==
    ASSUME NEW a, Arguments(a), NEW rest \in Seq(Byte), NEW sp \in Int, ArgvAddress(a, sp) >= 0
    PROVE  /\ DOMAIN ArgBytes(a, rest, sp) \in SUBSET Nat
           /\ ArgBytes(a, rest, sp) \in [DOMAIN ArgBytes(a, rest, sp) -> Byte]
<1> DEFINE f == ArgStrings(a, rest, sp)
           va == ArgvAddress(a, sp)
           g == ArgPointers(a, sp, va)
           h == ArgBytes(a, rest, sp)
<1>1. h = [x \in DOMAIN f \cup DOMAIN g |-> IF x \in DOMAIN f THEN f[x] ELSE g[x]]
      BY DEF ArgBytes, Over
<1>2. va \in Int /\ va >= 0 /\ va + 4 * Len(a) + 4 <= ArgAddress(a, sp, Len(a)) /\ Len(a) \in Nat
      BY ArgvIs, ArgumentFacts
<1>3. \A v \in DOMAIN f : v \in Int /\ v >= ArgAddress(a, sp, Len(a)) /\ f[v] \in Byte
      BY ArgStringsAre
<1>4. DOMAIN g = va .. va + 4 * Len(a) + 3 /\ \A v \in DOMAIN g : g[v] \in Byte
      BY <1>2, ArgPointersAre
<1>5. ArgAddress(a, sp, Len(a)) \in Int
  <2>1. Len(a) \in 0 .. Len(a)
        BY <1>2
  <2> QED BY <2>1, ArgAddresses
<1> HIDE DEF f, g, h, va
<1>6. \A v \in DOMAIN f \cup DOMAIN g : v \in Nat
      BY <1>2, <1>3, <1>4, <1>5
<1>7. h \in [DOMAIN f \cup DOMAIN g -> Byte] /\ DOMAIN h = DOMAIN f \cup DOMAIN g
      BY <1>1, <1>3, <1>4
<1> QED BY <1>6, <1>7 DEF h

-----------------------------------------------------------------------------
(* What the instructions compute. *)

LEMMA SignedType == \A w \in Int : S(w) \in Int
BY WordFacts DEF S

LEMMA SumType ==
    ASSUME NEW op \in Sums, NEW a \in Word, NEW b \in Word, NEW x \in Nat
    PROVE  Sum(op, a, b, x) \in Word
<1> DEFINE y == CASE op \in {"ADD", "ADDU"} -> a + b [] op \in {"ADDI", "ADDIU"} -> a + x
                  [] op \in {"SUB", "SUBU"} -> a - b
<1>1. a \in Int /\ b \in Int
      BY WordFacts DEF Word
<1>2. y \in Int
      BY <1>1 DEF Sums
<1>3. Sum(op, a, b, x) = U(y)
      BY DEF Sum
<1> HIDE DEF y
<1> QED BY <1>2, <1>3, UType

LEMMA LogicType ==
    ASSUME NEW op \in Logics, NEW a, NEW b, NEW x
    PROVE  Logic(op, a, b, x) \in Word
<1> DEFINE p == Ones(a)
           q == Ones(IF op \in {"ANDI", "ORI", "XORI"} THEN Low(x) ELSE b)
           P == CASE op \in {"AND", "ANDI"} -> p \cap q
                  [] op \in {"OR", "ORI"}   -> p \cup q
                  [] op \in {"XOR", "XORI"} -> (p \ q) \cup (q \ p)
                  [] op = "NOR"             -> (0 .. Bits - 1) \ (p \cup q)
<1>1. p \in SUBSET (0 .. Bits - 1) /\ q \in SUBSET (0 .. Bits - 1)
      BY DEF Ones
<1>2. Logic(op, a, b, x) = WithOnes(P)
      BY DEF Logic
<1> HIDE DEF p, q
<1>3. P \in SUBSET (0 .. Bits - 1)
      BY <1>1 DEF Logics
<1> HIDE DEF P
<1> QED BY <1>2, <1>3, WithOnesType

LEMMA AsrType ==
    ASSUME NEW b \in Word, NEW n \in Nat
    PROVE  Asr(b, n) \in Word
<1>1. b \in Int /\ 2 ^ n \in Nat /\ 2 ^ n > 0
      BY WordFacts, PowType DEF Word
<1>2. S(b) \in Int
      BY <1>1, SignedType
<1>3. S(b) \div 2 ^ n \in Int
      BY <1>1, <1>2, DivMod
<1> QED BY <1>3, UType DEF Asr

LEMMA ShiftType ==
    ASSUME NEW op \in Shifts, NEW a \in Word, NEW b \in Word, NEW x \in Nat
    PROVE  Shift(op, a, b, x) \in Word
<1> DEFINE n == a % Bits
<1>1. a \in Nat /\ b \in Nat
      BY WordFacts DEF Word
<1>2. Bits \in Nat /\ Bits > 0
      BY MemoryAssumption DEF MemoryAssumption, Bits
<1>3. n \in Nat
      BY <1>1, <1>2, DivMod
<1> HIDE DEF n
<1>4. \A k \in Nat : b * 2 ^ k \in Int
  <2> TAKE k \in Nat
  <2>1. 2 ^ k \in Nat
        BY PowType
  <2> QED BY <1>1, <2>1
<1>5. U(b * 2 ^ x) \in Word /\ U(b * 2 ^ n) \in Word /\ Asr(b, x) \in Word /\ Asr(b, n) \in Word
      BY <1>3, <1>4, UType, AsrType
<1> QED BY <1>5 DEF Shift, Shifts, n

LEMMA CompareType ==
    ASSUME NEW op, NEW a, NEW b, NEW x
    PROVE  Compare(op, a, b, x) \in Word
<1>1. 0 \in Word /\ 1 \in Word
      BY WordFacts DEF Word
<1>2. Compare(op, a, b, x) = 0 \/ Compare(op, a, b, x) = 1
      BY DEF Compare
<1> QED BY <1>1, <1>2

LEMMA ResultType ==
    ASSUME NEW op \in Immediate \cup ThreeReg, NEW a \in Word, NEW b \in Word, NEW x \in Nat,
           hi \in Word, lo \in Word
    PROVE  Result(op, a, b, x) \in Word
<1>1. U(x * Span(2)) \in Word
  <2>1. x * Span(2) \in Int
        BY Sizes
  <2> QED BY <2>1, UType
<1>2. CASE op \in Sums
  <2>1. Result(op, a, b, x) = Sum(op, a, b, x)
        BY <1>2 DEF Result, Sums, Logics, Shifts, Compares
  <2> QED BY <1>2, <2>1, SumType
<1>3. CASE op \in Logics
  <2>1. Result(op, a, b, x) = Logic(op, a, b, x)
        BY <1>3 DEF Result, Sums, Logics, Shifts, Compares
  <2> QED BY <1>3, <2>1, LogicType
<1>4. CASE op \in Shifts
  <2>1. Result(op, a, b, x) = Shift(op, a, b, x)
        BY <1>4 DEF Result, Sums, Logics, Shifts, Compares
  <2> QED BY <1>4, <2>1, ShiftType
<1>5. CASE op \in Compares
  <2>1. Result(op, a, b, x) = Compare(op, a, b, x)
        BY <1>5 DEF Result, Sums, Logics, Shifts, Compares
  <2> QED BY <1>5, <2>1, CompareType
<1>6. CASE op \in {"LUI", "MFHI", "MFLO"}
  <2>1. op \notin Sums /\ op \notin Logics /\ op \notin Shifts /\ op \notin Compares
        BY <1>6 DEF Logics, Sums, Shifts, Compares
  <2> QED BY <1>1, <1>6, <2>1 DEF Result
<1>7. op \in Sums \/ op \in Logics \/ op \in Shifts \/ op \in Compares \/ op \in {"LUI", "MFHI", "MFLO"}
      BY DEF Immediate, ThreeReg, Sums, Logics, Shifts, Compares
<1> QED BY <1>2, <1>3, <1>4, <1>5, <1>6, <1>7

LEMMA DivideType ==
    ASSUME NEW signedArith \in BOOLEAN, NEW a \in Word, NEW b \in Word
    PROVE  Divide(signedArith, a, b).hi \in Word /\ Divide(signedArith, a, b).lo \in Word
<1> DEFINE sa == IF signedArith THEN S(a) ELSE a
           sb == IF signedArith THEN S(b) ELSE b
           q  == (IF sa < 0 THEN -sa ELSE sa) \div (IF sb < 0 THEN -sb ELSE sb)
           sq == IF (sa < 0) = (sb < 0) THEN q ELSE -q
<1>1. WordSize \in Nat /\ a \in Int /\ b \in Int /\ 0 \in Word
      BY WordFacts DEF Word
<1>2. sa \in Int /\ sb \in Int
      BY <1>1, SignedType
<1>3. CASE b = 0
      BY <1>1, <1>3 DEF Divide
<1>4. CASE b # 0
  <2>1. sb # 0
    <3>1. S(b) # 0
          BY <1>1, <1>4 DEF S, Word
    <3> QED BY <1>4, <3>1
  <2>2. Divide(signedArith, a, b) = [hi |-> U(sa - sb * sq), lo |-> U(sq)]
        BY <1>4 DEF Divide
  <2> HIDE DEF sa, sb
  <2>3. (IF sa < 0 THEN -sa ELSE sa) \in Int /\ (IF sb < 0 THEN -sb ELSE sb) \in Nat \ {0}
        BY <1>2, <2>1
  <2>4. q \in Int
        BY <2>3
  <2> HIDE DEF q
  <2>5. sq \in Int
        BY <2>4
  <2> HIDE DEF sq
  <2>6. sa - sb * sq \in Int
        BY <1>2, <2>5
  <2> QED BY <2>2, <2>5, <2>6, UType
<1> QED BY <1>3, <1>4

LEMMA DecodeType ==
    ASSUME NEW i \in Instruction
    PROVE  Decode(i) \in Instruction
<1>1. i = [op |-> i.op, rs |-> i.rs, rt |-> i.rt, rd |-> i.rd, extra |-> i.extra]
      BY DEF Instruction
<1>2. i.op \in STRING /\ i.rs \in GP /\ i.rt \in GP /\ i.rd \in GP /\ i.extra \in Nat
      BY DEF Instruction
<1>3. WordSize \in Nat /\ Span(2) \in Nat /\ Span(2) <= WordSize
  <2>1. Span(2) \in Nat \ {0} /\ Span(2 + 2) = Span(2) * Span(2)
        BY SpanProduct
  <2>2. \A x \in Nat \ {0} : x <= x * x
        OBVIOUS
  <2> QED BY <2>1, <2>2 DEF WordSize
<1>4. i.extra + WordSize - Span(2) \in Nat
      BY <1>2, <1>3
<1>5. CASE Decode(i) = i
      BY <1>5
<1>6. CASE Decode(i) = [i EXCEPT !.extra = @ + WordSize - Span(2)]
      BY <1>1, <1>2, <1>4, <1>6 DEF Instruction
<1> QED BY <1>5, <1>6 DEF Decode

(* MMU::ReadMem of a mapped address. *)
LEMMA ReadMemIs ==
    ASSUME NEW mem \in MemoryType, NEW va \in Mapped, NEW size \in {1, 2, 4}, va % size = 0
    PROVE  LET byte(k) == mem.main[PA(va) + k]
               got == ReadMem(mem, va, size)
           IN  /\ got.e = "NONE"
               /\ \A k \in 0 .. size - 1 : byte(k) \in Byte
               /\ got.value = CASE size = 1 -> U(IF byte(0) >= ByteSize \div 2 THEN byte(0) - ByteSize
                                                 ELSE byte(0))
                                [] size = 2 -> byte(0) + byte(1) * ByteSize
                                [] size = 4 -> byte(0) + byte(1) * ByteSize
                                               + byte(2) * Span(2) + byte(3) * Span(3)
<1> DEFINE byte(k) == mem.main[PA(va) + k]
           t == Translate(mem, va, size, FALSE)
<1>1. va \in Nat
      BY PageFacts DEF Mapped
<1>2. t = [e |-> "NONE", pa |-> PA(va), m |-> Marked(mem, Page(va), FALSE)]
      BY <1>1, TranslateIs
<1>3. ASSUME NEW k \in 0 .. size - 1 PROVE byte(k) \in Byte
  <2>1. mem.main \in [PhysicalAddress -> Byte]
        BY DEF MemoryType
  <2>2. PA(va) + k \in PhysicalAddress
        BY AccessPlaces
  <2> QED BY <2>1, <2>2
<1> DEFINE value == CASE size = 1 -> U(IF byte(0) >= ByteSize \div 2 THEN byte(0) - ByteSize
                                       ELSE byte(0))
                      [] size = 2 -> byte(0) + byte(1) * ByteSize
                      [] size = 4 -> byte(0) + byte(1) * ByteSize
                                     + byte(2) * Span(2) + byte(3) * Span(3)
<1>4. ReadMem(mem, va, size) = [e |-> "NONE", value |-> value]
  <2>1. t.e = "NONE" /\ t.pa = PA(va)
    <3> HIDE DEF t
    <3> QED BY <1>2
  <2> QED BY <2>1 DEF ReadMem
<1>5. ReadMem(mem, va, size).e = "NONE" /\ ReadMem(mem, va, size).value = value
  <2> HIDE DEF value
  <2> QED BY <1>4
<1> QED BY <1>3, <1>5

LEMMA ReadMemType ==
    ASSUME NEW mem \in MemoryType, NEW va \in Nat, NEW size \in {1, 2, 4}, ReadMem(mem, va, size).e = "NONE"
    PROVE  ReadMem(mem, va, size).value \in Int
<1> DEFINE t == Translate(mem, va, size, FALSE)
           byte(k) == mem.main[PA(va) + k]
           got == ReadMem(mem, va, size)
<1>1. va \in Mapped /\ va % size = 0
  <2>1. t = IF va % size = 0 /\ va \in Mapped
            THEN [e |-> "NONE", pa |-> PA(va), m |-> Marked(mem, Page(va), FALSE)]
            ELSE [e |-> "ADDRESS_ERROR"]
        BY TranslateIs
  <2> SUFFICES ASSUME ~(va % size = 0 /\ va \in Mapped) PROVE FALSE
      OBVIOUS
  <2>2. t.e = "ADDRESS_ERROR"
    <3> HIDE DEF t
    <3> QED BY <2>1
  <2>3. got = [e |-> "ADDRESS_ERROR"]
        BY <2>2 DEF ReadMem
  <2> QED BY <2>3
<1>2. /\ \A k \in 0 .. size - 1 : byte(k) \in Byte
      /\ got.value = CASE size = 1 -> U(IF byte(0) >= ByteSize \div 2 THEN byte(0) - ByteSize
                                        ELSE byte(0))
                       [] size = 2 -> byte(0) + byte(1) * ByteSize
                       [] size = 4 -> byte(0) + byte(1) * ByteSize
                                      + byte(2) * Span(2) + byte(3) * Span(3)
      BY <1>1, ReadMemIs
<1>3. ByteSize \in Nat /\ Span(2) \in Nat /\ Span(3) \in Nat
      BY Sizes
<1> HIDE DEF got, byte
<1>4. \A k \in 0 .. size - 1 : byte(k) \in Int
      BY <1>2, <1>3 DEF Byte
<1>5. CASE size = 1
  <2> DEFINE x == IF byte(0) >= ByteSize \div 2 THEN byte(0) - ByteSize ELSE byte(0)
  <2>1. x \in Int
        BY <1>3, <1>4, <1>5
  <2>2. got.value = U(x)
        BY <1>2, <1>5
  <2> HIDE DEF x
  <2>3. U(x) \in Word
        BY <2>1, UType
  <2> QED BY <2>2, <2>3, WordFacts DEF Word, got
<1>6. CASE size = 2
  <2>1. got.value = byte(0) + byte(1) * ByteSize
        BY <1>2, <1>6
  <2>2. byte(0) \in Int /\ byte(1) \in Int
        BY <1>4, <1>6
  <2>3. got.value \in Int
        BY <1>3, <2>1, <2>2
  <2> QED BY <2>3 DEF got
<1>7. CASE size = 4
  <2>1. got.value = byte(0) + byte(1) * ByteSize + byte(2) * Span(2) + byte(3) * Span(3)
        BY <1>2, <1>7
  <2>2. byte(0) \in Int /\ byte(1) \in Int /\ byte(2) \in Int /\ byte(3) \in Int
        BY <1>4, <1>7
  <2>3. got.value \in Int
        BY <1>3, <2>1, <2>2
  <2> QED BY <2>3 DEF got
<1> QED BY <1>5, <1>6, <1>7

LEMMA SizeType == \A op : Size(op) \in {1, 2, 4}
BY DEF Size

LEMMA LoadValueType ==
    ASSUME NEW i \in Instruction, NEW value \in Int, reg \in [GP -> Word], load \in [reg : GP, value : Word]
    PROVE  LoadValue(i, value) \in Word
<1> DEFINE range == Span(Size(i.op))
           part  == value % range
           old   == IF load.reg = i.rt THEN load.value ELSE reg[i.rt]
<1>1. /\ range \in Nat /\ range > 0 /\ range <= WordSize
      /\ WordSize \in Nat /\ ByteSize \in Nat /\ ByteSize > 0 /\ Span(3) \in Nat /\ Span(3) > 0
      /\ WordSize = ByteSize * Span(3)
  <2>1. \A n \in {1, 2, 4} : Span(n) <= WordSize
    <3>1. Span(1) \in Nat \ {0} /\ Span(1 + 3) = Span(1) * Span(3) /\ Span(3) \in Nat \ {0}
          BY SpanProduct
    <3>2. Span(2) \in Nat \ {0} /\ Span(2 + 2) = Span(2) * Span(2)
          BY SpanProduct
    <3>3. \A x, y \in Nat \ {0} : x <= x * y
          OBVIOUS
    <3>4. Span(1) <= Span(4) /\ Span(2) <= Span(4) /\ Span(4) <= Span(4)
      <4>1. Span(4) \in Nat /\ Span(4) = Span(1) * Span(3) /\ Span(4) = Span(2) * Span(2)
            BY <3>1, <3>2, SpanType
      <4>2. Span(1) <= Span(1) * Span(3) /\ Span(2) <= Span(2) * Span(2)
            BY <3>1, <3>2, <3>3
      <4> QED BY <4>1, <4>2
    <3> QED BY <3>4 DEF WordSize
  <2>2. Size(i.op) \in {1, 2, 4} /\ Size(i.op) \in Nat /\ 3 \in Nat
        BY SizeType
  <2>3. Span(3) \in Nat /\ Span(3) > 0 /\ range \in Nat /\ range > 0
        BY <2>2, SpanType
  <2> QED BY <2>1, <2>2, <2>3, Sizes
<1>2. part \in Nat /\ part < range
      BY <1>1, DivMod
<1>3. old \in Nat /\ old < WordSize
  <2>1. i.rt \in GP
        BY DEF Instruction
  <2> QED BY <1>1, <2>1 DEF Word
<1>4. /\ LoadValue(i, value) =
           CASE i.op \in {"LB", "LH"} /\ 2 * part >= range -> U(part - range)
             [] i.op = "LWR" -> old - (old % ByteSize) + (part \div Span(3))
             [] OTHER -> part
      BY DEF LoadValue
<1> HIDE DEF range, part, old
<1>5. U(part - range) \in Word /\ part \in Word
  <2>1. part - range \in Int /\ part \in 0 .. WordSize - 1
        BY <1>1, <1>2
  <2> QED BY <2>1, UType DEF Word
<1>6. old - (old % ByteSize) + (part \div Span(3)) \in Word
  <2> DEFINE q == old \div ByteSize
             d == part \div Span(3)
             B == ByteSize
             C == Span(3)
  <2>1. q \in Int /\ old % B \in Nat /\ old % B < B /\ old = B * q + (old % B)
        BY <1>1, <1>3, DivMod
  <2>2. d \in Int /\ part % C \in Nat /\ part % C < C /\ part = C * d + (part % C)
        BY <1>1, <1>2, DivMod
  <2> HIDE DEF q, d
  <2>3. part < B * C
        BY <1>1, <1>2
  <2>4. 0 <= d /\ d < B
    <3> HIDE DEF B, C
    <3>0. B \in Nat /\ C \in Nat /\ C > 0
          BY <1>1 DEF B, C
    <3>1. ASSUME d < 0 PROVE FALSE
      <4>1. d <= -1 /\ C * d <= C * (-1)
            BY <2>2, <3>0, <3>1
      <4> QED BY <1>2, <2>2, <3>0, <4>1
    <3>2. ASSUME d >= B PROVE FALSE
      <4>1. C * d >= C * B /\ C * B = B * C /\ C * B \in Int /\ C * d \in Int
            BY <2>2, <3>0, <3>2
      <4> QED BY <1>2, <2>2, <2>3, <3>0, <4>1
    <3> QED BY <2>2, <3>0, <3>1, <3>2
  <2>5. 0 <= q /\ q < C
    <3> HIDE DEF B, C
    <3>0. B \in Nat /\ C \in Nat /\ B > 0 /\ old < B * C
          BY <1>1, <1>3 DEF B, C
    <3>1. ASSUME q < 0 PROVE FALSE
      <4>1. q <= -1 /\ B * q <= B * (-1)
            BY <2>1, <3>0, <3>1
      <4> QED BY <1>3, <2>1, <3>0, <4>1
    <3>2. ASSUME q >= C PROVE FALSE
      <4>1. B * q >= B * C /\ B * C \in Int /\ B * q \in Int
            BY <2>1, <3>0, <3>2
      <4> QED BY <1>3, <2>1, <3>0, <4>1
    <3> QED BY <2>1, <3>0, <3>1, <3>2
  <2>6. B * q + d \in Nat /\ B * q + d < B * C
    <3> HIDE DEF B, C
    <3>0. B \in Nat /\ C \in Nat
          BY <1>1 DEF B, C
    <3>1. q + 1 <= C /\ B * (q + 1) <= B * C /\ B * (q + 1) = B * q + B
          BY <2>1, <2>5, <3>0
    <3>2. B * q \in Nat
          BY <2>1, <2>5, <3>0
    <3> QED BY <2>2, <2>4, <3>0, <3>1, <3>2
  <2>7. old - (old % B) + d = B * q + d
    <3> HIDE DEF B, C
    <3>1. B * q \in Int
          BY <1>1, <2>1 DEF B
    <3> QED BY <1>3, <2>1, <2>2, <3>1
  <2> QED BY <1>1, <2>6, <2>7 DEF Word, d
<1> QED BY <1>4, <1>5, <1>6

LEMMA StoreValueType ==
    ASSUME NEW i \in Instruction, NEW value \in Int, reg \in [GP -> Word]
    PROVE  StoreValue(i, value) \in Int
<1>1. i.rt \in GP /\ WordSize \in Nat /\ Span(3) \in Nat /\ Span(3) > 0
      BY Sizes, SpanType DEF Instruction
<1>2. reg[i.rt] \in Int
      BY <1>1 DEF Word
<1>3. value % Span(3) \in Int
      BY <1>1, DivMod
<1>4. U(reg[i.rt] * Span(3)) \in Int
  <2>1. reg[i.rt] * Span(3) \in Int
        BY <1>1, <1>2
  <2>2. U(reg[i.rt] * Span(3)) \in Word
        BY <2>1, UType
  <2> QED BY <1>1, <2>2 DEF Word
<1> QED BY <1>2, <1>3, <1>4 DEF StoreValue

-----------------------------------------------------------------------------
(* The inductive invariant: the types of registers and memory, that a      *)
(* process's memory is blank until its arguments are written, and that     *)
(* dirty bits tell of every write.                                         *)
MachineInv ==
    /\ program \in Seq(Instruction) /\ Arguments(args)
    /\ m \in MemoryType /\ StoresAreRecorded
    /\ mode = "start" => \A a \in PhysicalAddress : m.main[a] = 0
    /\ reg \in [GP -> Word] /\ hi \in Word /\ lo \in Word
    /\ pc \in Nat /\ nextPc \in Nat
    /\ load \in [reg : GP, value : Word]

LEMMA InitInv == Init => MachineInv
<1> SUFFICES ASSUME Init PROVE MachineInv
    OBVIOUS
<1>1. program \in Seq(Instruction) /\ Arguments(args)
  <2>1. PICK r \in Runs : program = r[1] /\ args = r[2]
        BY DEF Init
  <2> QED BY <2>1, MachineAssumption DEF MachineAssumption, Arguments
<1>2. m = [main |-> [a \in PhysicalAddress |-> 0], table |-> PageTable, tlb |-> FALSE, dirty |-> {}]
      BY DEF Init, PhysicalAddress, PageTable
<1>3. 0 \in Byte /\ 0 \in Word /\ 0 \in GP
      BY Sizes, WordFacts, MachineAssumption DEF Byte, Word, MachineAssumption
<1>4. m \in MemoryType
      BY <1>2, <1>3 DEF MemoryType
<1>5. StoresAreRecorded /\ \A a \in PhysicalAddress : m.main[a] = 0
      BY <1>2 DEF StoresAreRecorded
<1>6. reg \in [GP -> Word] /\ hi \in Word /\ lo \in Word /\ pc \in Nat /\ nextPc \in Nat
      BY <1>3 DEF Init
<1>7. load \in [reg : GP, value : Word]
      BY <1>3 DEF Init, NoLoad
<1> QED BY <1>1, <1>4, <1>5, <1>6, <1>7 DEF MachineInv

LEMMA LandedType ==
    ASSUME NEW r \in [GP -> Word], load \in [reg : GP, value : Word]
    PROVE  Landed(r) \in [GP -> Word]
<1>1. 0 \in Word /\ 0 \in GP
      BY WordFacts, MachineAssumption DEF Word, MachineAssumption
<1>2. load.reg \in GP /\ load.value \in Word
      OBVIOUS
<1> QED BY <1>1, <1>2 DEF Landed

LEMMA NoLoadType == NoLoad \in [reg : GP, value : Word]
BY WordFacts, MachineAssumption DEF NoLoad, Word, MachineAssumption

LEMMA PcAfterType == nextPc \in Nat => PcAfter \in Word /\ PcAfter \in Nat
<1> HAVE nextPc \in Nat
<1>1. nextPc + 4 \in Int
      OBVIOUS
<1>2. PcAfter \in Word
      BY <1>1, UType DEF PcAfter
<1> QED BY <1>2, WordFacts DEF Word

(* An exception keeps the invariant. *)
LEMMA RaiseInv ==
    ASSUME MachineInv, NEW et, NEW va, RaiseException(et, va)
    PROVE  MachineInv'
<1>1. reg' \in [GP -> Word] /\ load' \in [reg : GP, value : Word]
      BY LandedType, NoLoadType DEF MachineInv, RaiseException
<1>2. mode' # "start"
      BY DEF RaiseException, Handler
<1> QED BY <1>1, <1>2 DEF MachineInv, RaiseException, StoresAreRecorded, Arguments

(* The end of an instruction keeps the invariant. *)
LEMMA RetireInv ==
    ASSUME MachineInv, mode # "start", NEW r \in [GP -> Word], NEW newLoad \in [reg : GP, value : Word],
           NEW pcAfter \in Nat, Retire(r, newLoad, pcAfter),
           hi' \in Word, lo' \in Word, m' \in MemoryType, StoresAreRecorded'
    PROVE  MachineInv'
<1>1. reg' \in [GP -> Word] /\ load' \in [reg : GP, value : Word] /\ pc' \in Nat /\ nextPc' \in Nat
      BY LandedType DEF MachineInv, Retire
<1> QED BY <1>1 DEF MachineInv, Retire, Arguments

(* The simulator's own end keeps the invariant. *)
LEMMA AbortInv ==
    ASSUME MachineInv, mode' = "abort", UNCHANGED <<program, args, m, cpuVars>>
    PROVE  MachineInv'
BY DEF MachineInv, cpuVars, StoresAreRecorded, Arguments

LEMMA InstrType ==
    ASSUME MachineInv, NEW ops, Running(ops)
    PROVE  /\ Instr \in Instruction /\ Instr.op \in ops /\ mode = "user"
           /\ Instr.rs \in GP /\ Instr.rt \in GP /\ Instr.rd \in GP /\ Instr.extra \in Nat
<1>1. program[pc \div 4 + 1] \in Instruction
      BY DEF MachineInv, Running
<1>2. Instr \in Instruction
      BY <1>1, DecodeType DEF Instr
<1> QED BY <1>2 DEF Running, Instruction

(* What Start finds when it succeeds: argv and everything written is       *)
(* mapped.                                                                 *)
LEMMA StartFacts ==
    ASSUME MachineInv, NEW rest \in Garbage, Start(rest)
    PROVE  LET sp == ArgvAddress(args, Top)
               h  == ArgBytes(args, rest, Top)
           IN  /\ Top \in Int /\ rest \in Seq(Byte) /\ Recorded(m)
               /\ sp \in Nat /\ sp > 0
               /\ DOMAIN h \in SUBSET Nat /\ h \in [DOMAIN h -> Byte]
               /\ Copied(m, h).e = "NONE" /\ m' = Copied(m, h).m
               /\ DOMAIN h \subseteq Mapped
               /\ sp .. sp + 4 * Len(args) + 3 \subseteq DOMAIN h
<1> DEFINE sp == ArgvAddress(args, Top)
           h  == ArgBytes(args, rest, Top)
<1>0. Arguments(args) /\ m \in MemoryType /\ Recorded(m)
      BY DEF MachineInv, StoresAreRecorded, Recorded
<1>1. Top \in Int
      BY PageFacts DEF Top
<1>2. rest \in Seq(Byte)
      BY MachineAssumption DEF MachineAssumption
<1>3. sp \in Int /\ sp >= PAGE_SIZE
      BY <1>0, <1>1, ArgvIs DEF Start
<1> HIDE DEF h
<1>4. Copied(m, h).e = "NONE" /\ m' = Copied(m, h).m
      BY DEF Start, Written, WriteArgs, h, ArgBytes
<1>5. sp \in Nat /\ sp > 0 /\ sp >= 0
      BY <1>3, PageFacts
<1>6. DOMAIN h \in SUBSET Nat /\ h \in [DOMAIN h -> Byte]
      BY <1>0, <1>1, <1>2, <1>5, ArgBytesType DEF h
<1>7. DOMAIN h \subseteq Mapped
      BY <1>0, <1>4, <1>6, CopiedIs
<1>8. sp .. sp + 4 * Len(args) + 3 \subseteq DOMAIN h
  <2> DEFINE f == ArgStrings(args, rest, Top)
             g == ArgPointers(args, Top, sp)
  <2>1. DOMAIN g = sp .. sp + 4 * Len(args) + 3
        BY <1>0, <1>1, <1>3, ArgPointersAre
  <2>2. h = [x \in DOMAIN f \cup DOMAIN g |-> IF x \in DOMAIN f THEN f[x] ELSE g[x]]
        BY DEF h, ArgBytes, Over
  <2> HIDE DEF f, g, sp
  <2>3. DOMAIN h = DOMAIN f \cup DOMAIN g
        BY <2>2
  <2> QED BY <2>1, <2>3
<1> HIDE DEF sp
<1> QED BY <1>0, <1>1, <1>2, <1>4, <1>5, <1>6, <1>7, <1>8 DEF sp, h

LEMMA StartInv ==
    ASSUME MachineInv, NEW rest \in Garbage, Start(rest)
    PROVE  MachineInv'
<1> DEFINE sp == ArgvAddress(args, Top)
           h  == ArgBytes(args, rest, Top)
<1>1. Arguments(args) /\ m \in MemoryType
      BY DEF MachineInv
<1>2. /\ Recorded(m) /\ sp \in Nat
      /\ DOMAIN h \in SUBSET Nat /\ h \in [DOMAIN h -> Byte]
      /\ Copied(m, h).e = "NONE" /\ m' = Copied(m, h).m
      /\ DOMAIN h \subseteq Mapped
      /\ sp .. sp + 4 * Len(args) + 3 \subseteq DOMAIN h
      BY StartFacts
<1> HIDE DEF h
<1>3. m' \in MemoryType /\ Recorded(m')
      BY <1>1, <1>2, CopiedIs
<1>4. sp \in Word /\ Len(args) \in Word /\ U(sp - 16) \in Word
  <2> HIDE DEF sp
  <2>1. Len(args) \in Nat
        BY <1>1, ArgumentFacts
  <2>2. sp \in sp .. sp + 4 * Len(args) + 3 /\ sp + 4 * Len(args) + 3 \in sp .. sp + 4 * Len(args) + 3
        BY <1>2, <2>1
  <2>3. sp \in Mapped /\ sp + 4 * Len(args) + 3 \in Mapped
        BY <1>2, <2>2
  <2>4. Len(Frames) * PAGE_SIZE <= WordSize /\ Len(Frames) * PAGE_SIZE \in Nat
        BY PageFacts, MachineAssumption DEF MachineAssumption
  <2>5. sp \in Word /\ Len(args) \in Word
        BY <1>2, <2>1, <2>3, <2>4, WordFacts DEF Mapped, Word
  <2>6. sp - 16 \in Int
        BY <1>2
  <2> QED BY <2>5, <2>6, UType
<1>5. 0 \in Word
      BY WordFacts DEF Word
<1> HIDE DEF sp
<1>6. reg' \in [GP -> Word]
  <2>1. reg' = [r \in GP |-> CASE r = ARGC -> Len(args) [] r = ARGV -> sp
                                  [] r = STACK_REG -> U(sp - 16) [] OTHER -> 0]
        BY DEF Start, sp
  <2> QED BY <1>4, <1>5, <2>1
<1>7. /\ pc' = 0 /\ nextPc' = 4 /\ hi' = 0 /\ lo' = 0 /\ load' = NoLoad /\ mode' = "user"
      /\ program' = program /\ args' = args
      BY DEF Start
<1> QED BY <1>1, <1>3, <1>5, <1>6, <1>7, NoLoadType DEF MachineInv, Recorded, StoresAreRecorded, Arguments

LEMMA ComputeInv == ASSUME MachineInv, Compute PROVE MachineInv'
<1> DEFINE i == Instr
           a == reg[i.rs]
           b == reg[i.rt]
           d == IF i.op \in Immediate THEN i.rt ELSE i.rd
           v == Result(i.op, a, b, i.extra)
<1>1. Running(Immediate \cup ThreeReg)
      BY DEF Compute
<1>2. i.op \in Immediate \cup ThreeReg /\ mode = "user" /\ i.rs \in GP /\ i.rt \in GP /\ i.rd \in GP /\ i.extra \in Nat
      BY <1>1, InstrType
<1>3. CASE Overflows(i.op, a, b, i.extra)
  <2>1. RaiseException("OVERFLOW", 0)
        BY <1>3 DEF Compute
  <2> QED BY <2>1, RaiseInv
<1>4. CASE ~Overflows(i.op, a, b, i.extra)
  <2>1. Retire([reg EXCEPT ![d] = v], NoLoad, PcAfter) /\ UNCHANGED <<m, hi, lo>>
        BY <1>4 DEF Compute
  <2>2. reg \in [GP -> Word] /\ hi \in Word /\ lo \in Word /\ m \in MemoryType /\ StoresAreRecorded /\ nextPc \in Nat
        BY DEF MachineInv
  <2> HIDE DEF i
  <2>3. a \in Word /\ b \in Word /\ d \in GP
        BY <1>2, <2>2
  <2>4. v \in Word
        BY <1>2, <2>2, <2>3, ResultType
  <2> HIDE DEF a, b, d, v
  <2>5. [reg EXCEPT ![d] = v] \in [GP -> Word]
        BY <2>2, <2>3, <2>4
  <2>6. hi' \in Word /\ lo' \in Word /\ m' \in MemoryType /\ StoresAreRecorded'
        BY <2>1, <2>2 DEF StoresAreRecorded
  <2>7. mode # "start" /\ PcAfter \in Nat
        BY <1>2, <2>2, PcAfterType
  <2> QED BY <2>1, <2>5, <2>6, <2>7, NoLoadType, RetireInv
<1> QED BY <1>3, <1>4

LEMMA MultDivInv == ASSUME MachineInv, MultDiv PROVE MachineInv'
<1> DEFINE op == Instr.op
           a  == reg[Instr.rs]
           b  == reg[Instr.rt]
           z  == CASE op \in {"MULT", "MULTU"} -> Mult(a, b, op = "MULT")
                   [] op \in {"DIV", "DIVU"}   -> Divide(op = "DIV", a, b)
                   [] op = "MTHI" -> [hi |-> a, lo |-> lo]
                   [] op = "MTLO" -> [hi |-> hi, lo |-> a]
<1>1. Running({"MULT", "MULTU", "DIV", "DIVU", "MTHI", "MTLO"})
      BY DEF MultDiv
<1>2. op \in {"MULT", "MULTU", "DIV", "DIVU", "MTHI", "MTLO"} /\ mode = "user" /\ Instr.rs \in GP /\ Instr.rt \in GP
      BY <1>1, InstrType
<1>3. reg \in [GP -> Word] /\ hi \in Word /\ lo \in Word /\ m \in MemoryType /\ StoresAreRecorded /\ nextPc \in Nat
      BY DEF MachineInv
<1>4. a \in Word /\ b \in Word
      BY <1>2, <1>3
<1>5. CASE mode' = "abort" /\ UNCHANGED <<program, args, m, cpuVars>>
      BY <1>5, AbortInv
<1>6. CASE hi' = z.hi /\ lo' = z.lo /\ Retire(reg, NoLoad, PcAfter) /\ UNCHANGED m
  <2> HIDE DEF op, a, b
  <2>1. z.hi \in Word /\ z.lo \in Word
    <3>1. CASE op \in {"MULT", "MULTU"}
      <4>1. z = Mult(a, b, op = "MULT")
            BY <3>1
      <4>2. (op = "MULT") \in BOOLEAN
            OBVIOUS
      <4> HIDE DEF z
      <4> QED BY <1>4, <4>1, <4>2, MultProduct
    <3>2. CASE op \in {"DIV", "DIVU"}
      <4>1. z = Divide(op = "DIV", a, b)
            BY <3>2
      <4>2. (op = "DIV") \in BOOLEAN
            OBVIOUS
      <4> HIDE DEF z
      <4> QED BY <1>4, <4>1, <4>2, DivideType
    <3>3. CASE op = "MTHI"
          BY <1>3, <1>4, <3>3
    <3>4. CASE op = "MTLO"
          BY <1>3, <1>4, <3>4
    <3> QED BY <1>2, <3>1, <3>2, <3>3, <3>4
  <2> HIDE DEF z
  <2>2. hi' \in Word /\ lo' \in Word /\ m' \in MemoryType /\ StoresAreRecorded'
        BY <1>3, <1>6, <2>1 DEF StoresAreRecorded
  <2>3. mode # "start" /\ PcAfter \in Nat
        BY <1>2, <1>3, PcAfterType
  <2> QED BY <1>3, <1>6, <2>2, <2>3, NoLoadType, RetireInv
<1>7. \/ mode' = "abort" /\ UNCHANGED <<program, args, m, cpuVars>>
      \/ hi' = z.hi /\ lo' = z.lo /\ Retire(reg, NoLoad, PcAfter) /\ UNCHANGED m
      BY Zenon DEF MultDiv
<1> QED BY <1>5, <1>6, <1>7

LEMMA TargetType ==
    ASSUME NEW i \in Instruction, NEW a \in Word, nextPc \in Nat
    PROVE  Target(i, a) \in Nat
<1>1. PcAfter \in Nat /\ i.extra \in Nat /\ a \in Nat
      BY PcAfterType, WordFacts DEF Word, Instruction
<1>2. WordSize \div 16 \in Nat /\ WordSize \div 16 > 0
  <2>1. WordSize \in Nat /\ WordSize >= 16
    <3>1. \A x \in Nat : x >= 2 => x * x >= 4
          OBVIOUS
    <3>2. \A x \in Nat : x >= 4 => x * x >= 16
          OBVIOUS
    <3>3. Span(2) \in Nat /\ Span(2) >= 4
          BY <3>1, Sizes
    <3>4. Span(2 + 2) = Span(2) * Span(2)
          BY SpanProduct
    <3>5. Span(4) = Span(2) * Span(2)
          BY <3>4
    <3>6. Span(2) * Span(2) >= 16 /\ Span(2) * Span(2) \in Nat
          BY <3>2, <3>3
    <3> QED BY <3>5, <3>6 DEF WordSize
  <2> QED BY <2>1
<1> DEFINE d == WordSize \div 16
           q == PcAfter \div d
           r == PcAfter % d
<1> HIDE DEF d
<1>3. d \in Nat /\ d > 0
      BY <1>2 DEF d
<1>4. q \in Int /\ r \in Nat /\ r < d /\ PcAfter = d * q + r
      BY <1>1, <1>3, DivMod
<1>5. PcAfter - r \in Nat
  <2> HIDE DEF q, r
  <2>1. ASSUME q < 0 PROVE FALSE
    <3>1. q <= -1 /\ d * q <= d * (-1)
          BY <1>3, <1>4, <2>1
    <3> QED BY <1>1, <1>3, <1>4, <3>1
  <2>2. d * q \in Nat
        BY <1>3, <1>4, <2>1
  <2> QED BY <1>1, <1>4, <2>2
<1> HIDE DEF r
<1>6. PcAfter - r + 4 * i.extra \in Nat
      BY <1>1, <1>5
<1>7. U(nextPc + 4 * i.extra) \in Nat
  <2>1. nextPc + 4 * i.extra \in Int
        BY <1>1
  <2>2. U(nextPc + 4 * i.extra) \in Word
        BY <2>1, UType
  <2> QED BY <2>2, WordFacts DEF Word
<1> QED BY <1>1, <1>6, <1>7 DEF Target, r, d

LEMMA BranchInv == ASSUME MachineInv, Branch PROVE MachineInv'
<1> DEFINE i == Instr
           ops == {"BEQ", "BNE", "BGEZ", "BGEZAL", "BLTZ", "BLTZAL", "BGTZ", "BLEZ", "J", "JAL", "JR", "JALR"}
           link == IF i.op = "JALR" THEN i.rd ELSE RET_ADDR_REG
           r == IF i.op \in {"BGEZAL", "BLTZAL", "JAL", "JALR"} THEN [reg EXCEPT ![link] = PcAfter] ELSE reg
           after == IF Taken(i.op, r[i.rs], r[i.rt]) THEN Target(i, r[i.rs]) ELSE PcAfter
<1>1. Running(ops)
      BY DEF Branch
<1>2. i \in Instruction /\ mode = "user" /\ i.rs \in GP /\ i.rt \in GP /\ i.rd \in GP
      BY <1>1, InstrType
<1>3. reg \in [GP -> Word] /\ hi \in Word /\ lo \in Word /\ m \in MemoryType /\ StoresAreRecorded /\ nextPc \in Nat
      BY DEF MachineInv
<1>4. Retire(r, NoLoad, after) /\ UNCHANGED <<m, hi, lo>>
      BY DEF Branch
<1>5. PcAfter \in Word /\ PcAfter \in Nat
      BY <1>3, PcAfterType
<1> HIDE DEF i
<1>6. link \in GP
      BY <1>2, MachineAssumption DEF MachineAssumption
<1> HIDE DEF link
<1>7. r \in [GP -> Word]
      BY <1>3, <1>5, <1>6
<1> HIDE DEF r
<1>8. r[i.rs] \in Word
      BY <1>2, <1>7
<1>9. Target(i, r[i.rs]) \in Nat
      BY <1>2, <1>3, <1>8, TargetType
<1>10. after \in Nat
      BY <1>5, <1>9
<1> HIDE DEF after
<1>11. hi' \in Word /\ lo' \in Word /\ m' \in MemoryType /\ StoresAreRecorded' /\ mode # "start"
      BY <1>2, <1>3, <1>4 DEF StoresAreRecorded
<1> QED BY <1>4, <1>7, <1>10, <1>11, NoLoadType, RetireInv

LEMMA AddressType ==
    ASSUME NEW i \in Instruction, reg \in [GP -> Word]
    PROVE  Address(i) \in Nat
<1>1. i.rs \in GP /\ i.extra \in Nat
      BY DEF Instruction
<1>2. reg[i.rs] \in Word
      BY <1>1
<1>3. reg[i.rs] + i.extra \in Int
      BY <1>1, <1>2, WordFacts DEF Word
<1>4. U(reg[i.rs] + i.extra) \in Word
      BY <1>3, UType
<1> QED BY <1>4, WordFacts DEF Word, Address

LEMMA LoadInv == ASSUME MachineInv, Load PROVE MachineInv'
<1> DEFINE i   == Instr
           got == ReadMem(m, Address(i), Size(i.op))
           new == [reg |-> i.rt, value |-> LoadValue(i, got.value)]
<1>1. Running({"LB", "LBU", "LH", "LHU", "LW", "LWL", "LWR"})
      BY DEF Load
<1>2. i \in Instruction /\ mode = "user" /\ i.rt \in GP
      BY <1>1, InstrType
<1>3. /\ reg \in [GP -> Word] /\ hi \in Word /\ lo \in Word /\ m \in MemoryType /\ StoresAreRecorded /\ nextPc \in Nat
      /\ load \in [reg : GP, value : Word]
      BY DEF MachineInv
<1>4. CASE mode' = "abort" /\ UNCHANGED <<program, args, m, cpuVars>>
      BY <1>4, AbortInv
<1>5. CASE RaiseException(got.e, Address(i))
  <2> HIDE DEF i, got
  <2> QED BY <1>5, RaiseInv
<1>6. CASE got.e = "NONE" /\ Retire(reg, new, PcAfter) /\ UNCHANGED <<m, hi, lo>>
  <2> HIDE DEF i
  <2>1. Address(i) \in Nat /\ Size(i.op) \in {1, 2, 4}
        BY <1>2, <1>3, AddressType, SizeType
  <2>2. got.value \in Int
        BY <1>3, <1>6, <2>1, ReadMemType
  <2> HIDE DEF got
  <2>3. LoadValue(i, got.value) \in Word
        BY <1>2, <1>3, <2>2, LoadValueType
  <2>4. new \in [reg : GP, value : Word]
        BY <1>2, <2>3
  <2> HIDE DEF new
  <2>5. hi' \in Word /\ lo' \in Word /\ m' \in MemoryType /\ StoresAreRecorded' /\ mode # "start"
        BY <1>2, <1>3, <1>6 DEF StoresAreRecorded
  <2>6. PcAfter \in Nat
        BY <1>3, PcAfterType
  <2> QED BY <1>3, <1>6, <2>4, <2>5, <2>6, RetireInv
<1>7. \/ mode' = "abort" /\ UNCHANGED <<program, args, m, cpuVars>>
      \/ RaiseException(got.e, Address(i))
      \/ got.e = "NONE" /\ Retire(reg, new, PcAfter) /\ UNCHANGED <<m, hi, lo>>
      BY Zenon DEF Load
<1> QED BY <1>4, <1>5, <1>6, <1>7

LEMMA StoreInv == ASSUME MachineInv, Store PROVE MachineInv'
<1> DEFINE i   == Instr
           old == IF i.op = "SWR" THEN ReadMem(m, Address(i), 4).value ELSE 0
           e   == Translate(m, Address(i), Size(i.op), TRUE).e
           v   == StoreValue(i, old)
<1>1. Running({"SB", "SH", "SW", "SWL", "SWR"})
      BY DEF Store
<1>2. i \in Instruction /\ mode = "user" /\ i.rt \in GP
      BY <1>1, InstrType
<1>3. /\ reg \in [GP -> Word] /\ hi \in Word /\ lo \in Word /\ m \in MemoryType /\ StoresAreRecorded /\ nextPc \in Nat
      /\ load \in [reg : GP, value : Word]
      BY DEF MachineInv
<1>4. CASE mode' = "abort" /\ UNCHANGED <<program, args, m, cpuVars>>
      BY <1>4, AbortInv
<1>5. CASE RaiseException(e, Address(i))
  <2> HIDE DEF i, e
  <2> QED BY <1>5, RaiseInv
<1>6. CASE /\ e = "NONE" /\ m' = WriteMem(m, Address(i), Size(i.op), v).m
           /\ Retire(reg, NoLoad, PcAfter) /\ UNCHANGED <<hi, lo>>
  <2> HIDE DEF i
  <2>1. Address(i) \in Nat /\ Size(i.op) \in {1, 2, 4}
        BY <1>2, <1>3, AddressType, SizeType
  <2>2. old \in Int
    <3>1. CASE i.op = "SWR"
      <4>1. Size(i.op) = 4
            BY <3>1 DEF Size
      <4>2. Address(i) % 4 = 0 /\ Address(i) \in Mapped
        <5> DEFINE t == Translate(m, Address(i), 4, TRUE)
        <5>1. t =
                IF Address(i) % 4 = 0 /\ Address(i) \in Mapped
                THEN [e |-> "NONE", pa |-> PA(Address(i)), m |-> Marked(m, Page(Address(i)), TRUE)]
                ELSE [e |-> "ADDRESS_ERROR"]
              BY <1>3, <2>1, TranslateIs
        <5>2. t.e = "NONE"
              BY <1>6, <4>1
        <5> HIDE DEF t
        <5> QED BY <5>1, <5>2
      <4>3. ReadMem(m, Address(i), 4).e = "NONE"
            BY <1>3, <4>2, ReadMemIs
      <4>4. ReadMem(m, Address(i), 4).value \in Int
            BY <1>3, <2>1, <4>3, ReadMemType
      <4> QED BY <3>1, <4>4
    <3>2. CASE i.op # "SWR"
          BY <3>2
    <3> QED BY <3>1, <3>2
  <2> HIDE DEF old
  <2>3. v \in Int
        BY <1>2, <1>3, <2>2, StoreValueType
  <2> HIDE DEF v
  <2>4. Recorded(m)
        BY <1>3 DEF Recorded, StoresAreRecorded
  <2>5. m' \in MemoryType /\ Recorded(m')
        BY <1>3, <1>6, <2>1, <2>3, <2>4, WriteMemKeeps
  <2>6. hi' \in Word /\ lo' \in Word /\ StoresAreRecorded' /\ mode # "start"
        BY <1>2, <1>3, <1>6, <2>5 DEF StoresAreRecorded, Recorded
  <2>7. PcAfter \in Nat
        BY <1>3, PcAfterType
  <2> QED BY <1>3, <1>6, <2>5, <2>6, <2>7, NoLoadType, RetireInv
<1>7. \/ mode' = "abort" /\ UNCHANGED <<program, args, m, cpuVars>>
      \/ RaiseException(e, Address(i))
      \/ /\ e = "NONE" /\ m' = WriteMem(m, Address(i), Size(i.op), v).m
         /\ Retire(reg, NoLoad, PcAfter) /\ UNCHANGED <<hi, lo>>
      BY Zenon DEF Store
<1> QED BY <1>4, <1>5, <1>6, <1>7

LEMMA ReturnInv ==
    ASSUME MachineInv, NEW result \in {0, WordSize - 1}, Return(result)
    PROVE  MachineInv'
<1>1. result \in Word /\ RESULT_REG \in GP
      BY WordFacts, MachineAssumption DEF Word, MachineAssumption
<1>2. reg' \in [GP -> Word]
      BY <1>1 DEF MachineInv, Return
<1>3. pc' \in Nat /\ nextPc' \in Nat
      BY PcAfterType DEF MachineInv, Return
<1> QED BY <1>2, <1>3 DEF MachineInv, Return, StoresAreRecorded, Arguments

LEMMA NextInv == ASSUME MachineInv, [Next]_vars PROVE MachineInv'
<1>1. ASSUME NEW rest \in Garbage, Start(rest) PROVE MachineInv'
      BY <1>1, StartInv
<1>2. ASSUME NEW rest \in Garbage, StartFails(rest) PROVE MachineInv'
      BY <1>2, AbortInv DEF StartFails
<1>3. CASE FetchFails
      BY <1>3, RaiseInv DEF FetchFails
<1>4. CASE Trap
      BY <1>4, RaiseInv DEF Trap
<1>5. ASSUME NEW result \in {0, WordSize - 1}, Return(result) PROVE MachineInv'
      BY <1>5, ReturnInv
<1>6. CASE UNCHANGED vars
      BY <1>6 DEF MachineInv, vars, cpuVars, StoresAreRecorded, Arguments
<1> QED BY <1>1, <1>2, <1>3, <1>4, <1>5, <1>6, ComputeInv, MultDivInv, BranchInv, LoadInv, StoreInv DEF Next

(* Registers and HI, LO and a pending load are words, memory bytes; the    *)
(* page table is the one the process was given; memory is blank before the *)
(* arguments are written.                                                  *)
THEOREM MachineSafety == Spec => []MachineInv
<1>1. MachineInv /\ [Next]_vars => MachineInv'
      BY NextInv
<1> QED BY InitInv, <1>1, PTL DEF Spec

(* Whatever the program stores, and whatever WriteArgs writes, stays in    *)
(* frames of the process, and the dirty bit of the page is set             *)
(* (MMU::Translate, WriteMem).                                             *)
THEOREM StoresRecorded == Spec => []StoresAreRecorded
<1>1. MachineInv => StoresAreRecorded
      BY DEF MachineInv
<1> QED BY MachineSafety, <1>1, PTL

(* MULT and MULTU leave the exact double-length product in HI and LO, for  *)
(* every width of the words: the loop's invariant says that the sum so far *)
(* and what is left of a make the product, and Complement negates it       *)
(* (Mult, mips_sim.cc:87-155).                                             *)
THEOREM ProductIsRight == Spec => MultIsProduct
<1> DEFINE a == reg[Instr.rs]
           b == reg[Instr.rt]
           product == IF Instr.op = "MULT" THEN S(a) * S(b) ELSE a * b
           P == Running({"MULT", "MULTU"}) => hi' * WordSize + lo' = product % (WordSize * WordSize)
<1>1. ASSUME MachineInv, Next PROVE P
  <2> SUFFICES ASSUME Running({"MULT", "MULTU"})
               PROVE  hi' * WordSize + lo' = product % (WordSize * WordSize)
      OBVIOUS
  <2>1. mode = "user" /\ Instr.op \in {"MULT", "MULTU"} /\ Instr.rs \in GP /\ Instr.rt \in GP
        BY <1>1, InstrType
  <2>2. Fetched.e = "NONE"
        BY DEF Running
  <2>3. Instr.op \notin Immediate \cup ThreeReg
        BY <2>1 DEF Immediate, ThreeReg, Sums, Logics, Shifts, Compares
  <2>4. ~Compute
        BY <2>3 DEF Compute, Running
  <2>5. ~Branch /\ ~Load /\ ~Store /\ ~Trap
        BY <2>1 DEF Branch, Load, Store, Trap, Running
  <2>6. ~FetchFails /\ (\A rest : ~Start(rest) /\ ~StartFails(rest)) /\ (\A r : ~Return(r))
        BY <2>1, <2>2 DEF FetchFails, Start, StartFails, Return
  <2>7. MultDiv
        BY <1>1, <2>4, <2>5, <2>6, Zenon DEF Next
  <2>8. a \in Word /\ b \in Word
        BY <1>1, <2>1 DEF MachineInv
  <2> DEFINE z == Mult(a, b, Instr.op = "MULT")
  <2>9. hi' = z.hi /\ lo' = z.lo
        BY <2>1, <2>7 DEF MultDiv
  <2>10. (Instr.op = "MULT") \in BOOLEAN
        OBVIOUS
  <2> HIDE DEF a, b
  <2>11. z.hi * WordSize + z.lo = product % (WordSize * WordSize)
        BY <2>8, <2>10, MultProduct
  <2> HIDE DEF z, product
  <2> QED BY <2>9, <2>11
<1>2. MachineInv /\ [Next]_vars => [P]_vars
      BY <1>1
<1>3. []MachineInv /\ [][Next]_vars => [][P]_vars
      BY <1>2, PTL
<1> QED BY MachineSafety, <1>3, PTL DEF Spec, MultIsProduct

(* A load that is pending at a system call lands before the kernel looks   *)
(* at the registers, and is forgotten (RaiseException, machine.cc:130).    *)
THEOREM LoadsLand == Spec => KernelSeesLoads
<1> DEFINE P == mode = "user" /\ mode' = "kernel" =>
                  load' = NoLoad /\ (load.reg # 0 => reg'[load.reg] = load.value)
<1>1. ASSUME MachineInv, Next, mode = "user", mode' = "kernel"
      PROVE  \E et, va : RaiseException(et, va)
  <2>1. \A rest : ~Start(rest) /\ ~StartFails(rest)
        BY <1>1 DEF Start, StartFails
  <2>2. \A r : ~Return(r)
        BY <1>1 DEF Return
  <2>3. \A r, l, p : ~Retire(r, l, p)
        BY <1>1 DEF Retire
  <2>4. ~Branch
        BY <2>3, Zenon DEF Branch
  <2>5. mode' # "abort"
        BY <1>1
  <2>6. ~MultDiv
        BY <2>3, <2>5, Zenon DEF MultDiv
  <2>7. Compute => \E et, va : RaiseException(et, va)
        BY <2>3, Zenon DEF Compute
  <2>8. Load => \E et, va : RaiseException(et, va)
        BY <2>3, <2>5, Zenon DEF Load
  <2>9. Store => \E et, va : RaiseException(et, va)
        BY <2>3, <2>5, Zenon DEF Store
  <2>10. FetchFails \/ Trap => \E et, va : RaiseException(et, va)
        BY Zenon DEF FetchFails, Trap
  <2> QED BY <1>1, <2>1, <2>2, <2>4, <2>6, <2>7, <2>8, <2>9, <2>10, Zenon DEF Next
<1>2. ASSUME MachineInv, Next PROVE P
  <2> SUFFICES ASSUME mode = "user", mode' = "kernel"
               PROVE  load' = NoLoad /\ (load.reg # 0 => reg'[load.reg] = load.value)
      OBVIOUS
  <2>1. PICK et, va : RaiseException(et, va)
        BY <1>1, <1>2
  <2>2. load' = NoLoad /\ reg' = Landed(reg)
        BY <2>1 DEF RaiseException
  <2>3. reg \in [GP -> Word] /\ load.reg \in GP
        BY <1>2 DEF MachineInv
  <2>4. load.reg # 0 => Landed(reg)[load.reg] = load.value
        BY <2>3 DEF Landed
  <2> QED BY <2>2, <2>4
<1>3. MachineInv /\ [Next]_vars => [P]_vars
      BY <1>2
<1>4. []MachineInv /\ [][Next]_vars => [][P]_vars
      BY <1>3, PTL
<1> QED BY MachineSafety, <1>4, PTL DEF Spec, KernelSeesLoads

-----------------------------------------------------------------------------
(* What is written for the arguments is what SaveArgs reads. *)

LEMMA DivDiv ==
    ASSUME NEW a \in Nat, NEW b \in Nat, NEW c \in Nat, b > 0, c > 0
    PROVE  a \div (b * c) = (a \div b) \div c
<1> DEFINE q == a \div b
           r == a % b
           u == q \div c
           v == q % c
<1>1. q \in Int /\ r \in Nat /\ r < b /\ a = b * q + r
      BY DivMod
<1>2. u \in Int /\ v \in Nat /\ v < c /\ q = c * u + v
      BY <1>1, DivMod
<1> HIDE DEF q, r, u, v
<1> DEFINE s == b * v + r
<1>3. s \in Nat /\ s < b * c
  <2>1. v + 1 <= c /\ b * (v + 1) <= b * c /\ b * (v + 1) = b * v + b
        BY <1>2
  <2>2. b * v \in Nat
        BY <1>2
  <2> QED BY <1>1, <1>2, <2>1, <2>2
<1>4. a = (b * c) * u + s
  <2>1. b * (c * u + v) = (b * c) * u + b * v
        BY <1>1, <1>2
  <2>2. (b * c) * u \in Int /\ b * v \in Int
        BY <1>2
  <2> QED BY <1>1, <1>2, <2>1, <2>2
<1> HIDE DEF s
<1> DEFINE d == b * c
<1>5. d \in Nat /\ d > 0
      OBVIOUS
<1>6. a = d * u + s /\ s < d
      BY <1>3, <1>4
<1> HIDE DEF d
<1>7. (d * u + s) \div d = u
      BY <1>2, <1>3, <1>5, <1>6, DivModUnique
<1>8. a \div d = u
      BY <1>6, <1>7
<1> QED BY <1>8 DEF d, u, q

(* A word is made of its bytes. *)
LEMMA WordBytes ==
    ASSUME NEW w \in Word
    PROVE  LET byte(j) == (w \div Span(j)) % ByteSize
           IN  w = byte(0) + byte(1) * ByteSize + byte(2) * Span(2) + byte(3) * Span(3)
<1> DEFINE B == ByteSize
           q1 == w \div B
           q2 == q1 \div B
           q3 == q2 \div B
<1>1. B \in Nat /\ B > 0 /\ w \in Nat
      BY Sizes, WordFacts DEF Word
<1>2. Span(0) = 1 /\ Span(1) = B /\ Span(2) = B * B /\ Span(3) = B * Span(2) /\ Span(2) \in Nat
      BY Sizes
<1>3. w < B * Span(3)
      BY <1>1, Sizes DEF Word
<1> HIDE DEF B
<1>4. q1 \in Nat /\ w % B \in Nat /\ w % B < B /\ w = B * q1 + (w % B)
      BY <1>1, DivMod
<1> HIDE DEF q1
<1>5. q2 \in Nat /\ q1 % B \in Nat /\ q1 % B < B /\ q1 = B * q2 + (q1 % B)
      BY <1>1, <1>4, DivMod
<1> HIDE DEF q2
<1>6. q3 \in Nat /\ q2 % B \in Nat /\ q2 % B < B /\ q2 = B * q3 + (q2 % B)
      BY <1>1, <1>5, DivMod
<1> HIDE DEF q3
<1>7. w \div Span(0) = w /\ w \div Span(1) = q1
      BY <1>1, <1>2 DEF q1
<1>8. w \div Span(2) = q2
      BY <1>1, <1>2, DivDiv DEF q1, q2
<1>9. Span(2) > 0 /\ Span(3) \in Nat
      BY SpanType
<1>10. w \div Span(3) = q3
  <2>1. w \div (Span(2) * B) = (w \div Span(2)) \div B
        BY <1>1, <1>2, <1>9, DivDiv
  <2>2. Span(2) * B = Span(3)
        BY <1>1, <1>2
  <2> QED BY <1>8, <2>1, <2>2 DEF q3
<1> DEFINE x == Span(2)
           y == Span(3)
           r0 == w % B
           r1 == q1 % B
           r2 == q2 % B
<1> HIDE DEF x, y, r0, r1, r2
<1>11. w = r0 + r1 * B + r2 * x + q3 * y
  <2>1. w = B * q1 + r0 /\ q1 = B * q2 + r1 /\ q2 = B * q3 + r2 /\ x = B * B /\ y = B * x
        BY <1>2, <1>4, <1>5, <1>6 DEF x, y, r0, r1, r2
  <2>2. r0 \in Nat /\ r1 \in Nat /\ r2 \in Nat
        BY <1>4, <1>5, <1>6 DEF r0, r1, r2
  <2>3. w = B * (B * (B * q3 + r2) + r1) + r0
        BY <2>1
  <2>4. B * (B * (B * q3 + r2) + r1) = B * (B * (B * q3)) + B * (B * r2) + B * r1
        BY <1>1, <1>6, <2>2
  <2>5. B * (B * (B * q3)) = q3 * (B * (B * B)) /\ B * (B * r2) = r2 * (B * B) /\ B * r1 = r1 * B
        BY <1>1, <1>6, <2>2
  <2>6. q3 * y \in Int /\ r2 * x \in Int /\ r1 * B \in Int /\ r0 \in Int
    <3>1. x \in Int /\ y \in Int
          BY <1>2, <1>9 DEF x, y
    <3> QED BY <1>1, <1>6, <2>2, <3>1
  <2>7. w = q3 * y + r2 * x + r1 * B + r0
        BY <2>1, <2>3, <2>4, <2>5
  <2> QED BY <2>6, <2>7
<1>12. q3 % B = q3
  <2>1. ASSUME q3 >= B PROVE FALSE
    <3>1. y \in Nat /\ q3 * y >= B * y
          BY <1>1, <1>6, <1>9, <2>1 DEF y
    <3>2. r0 + r1 * B + r2 * x \in Nat
      <4>1. r0 \in Nat /\ r1 \in Nat /\ r2 \in Nat /\ x \in Nat
            BY <1>2, <1>4, <1>5, <1>6 DEF r0, r1, r2, x
      <4> QED BY <1>1, <4>1
    <3> DEFINE s == r0 + r1 * B + r2 * x
    <3> HIDE DEF s
    <3>3. w = s + q3 * y /\ s \in Nat
          BY <1>11, <3>2 DEF s
    <3>4. q3 * y \in Int /\ B * y \in Int
          BY <1>1, <1>6, <3>1
    <3>5. w >= B * y
          BY <3>1, <3>3, <3>4
    <3> QED BY <1>1, <1>3, <3>4, <3>5 DEF y
  <2>2. q3 < B
        BY <1>1, <1>6, <2>1
  <2> QED BY <1>1, <1>6, <2>2, SmallDivMod
<1>13. /\ (w \div Span(0)) % B = r0 /\ (w \div Span(1)) % B = r1
       /\ (w \div Span(2)) % B = r2 /\ (w \div Span(3)) % B = q3
      BY <1>7, <1>8, <1>10, <1>12 DEF r0, r1, r2
<1> QED BY <1>11, <1>13 DEF B, x, y

(* The kernel's copy of a byte is the byte. *)
LEMMA ByteRead ==
    ASSUME NEW mem \in MemoryType, NEW v \in Mapped
    PROVE  ByteAt(mem, v) = mem.main[PA(v)]
<1> DEFINE b == mem.main[PA(v)]
           x == IF b >= ByteSize \div 2 THEN b - ByteSize ELSE b
<1>1. v \in Nat /\ v % 1 = 0
      BY PageFacts DEF Mapped
<1>2. PA(v) + 0 = PA(v)
      BY PAType DEF PhysicalAddress
<1>3. b \in Byte
  <2>1. mem.main \in [PhysicalAddress -> Byte]
        BY DEF MemoryType
  <2> QED BY <2>1, PAType
<1>4. ReadMem(mem, v, 1).value = U(x)
  <2> DEFINE byte(k) == mem.main[PA(v) + k]
  <2>1. ReadMem(mem, v, 1).value = U(IF byte(0) >= ByteSize \div 2 THEN byte(0) - ByteSize ELSE byte(0))
        BY <1>1, ReadMemIs
  <2>2. byte(0) = b
        BY <1>2
  <2> HIDE DEF byte, b
  <2> QED BY <2>1, <2>2
<1> HIDE DEF b
<1>5. ByteSize \in Nat /\ ByteSize > 0 /\ Span(3) \in Nat /\ WordSize \in Nat /\ WordSize > 0 /\ WordSize = ByteSize * Span(3)
      BY Sizes, WordFacts
<1>6. b \in Nat /\ b < ByteSize /\ x \in Int
      BY <1>3, <1>5 DEF Byte
<1>7. x % ByteSize = b
  <2>1. b % ByteSize = b
        BY <1>5, <1>6, SmallDivMod
  <2>2. (b + ByteSize * (-1)) % ByteSize = b % ByteSize
        BY <1>5, <1>6, DivModShift
  <2>3. b + ByteSize * (-1) = b - ByteSize
        BY <1>5, <1>6
  <2> QED BY <2>1, <2>2, <2>3
<1> HIDE DEF x
<1>8. U(x) % ByteSize = x % ByteSize
  <2> DEFINE q == x \div WordSize
             k == Span(3) * (-q)
  <2>1. q \in Int /\ U(x) \in Int /\ x = WordSize * q + U(x)
    <3>1. q \in Int /\ x % WordSize \in Nat /\ x = WordSize * q + (x % WordSize)
          BY <1>5, <1>6, DivMod
    <3> QED BY <3>1 DEF U
  <2> HIDE DEF q
  <2>2. k \in Int /\ U(x) = x + ByteSize * k
        BY <1>5, <1>6, <2>1
  <2> HIDE DEF k
  <2>3. (x + ByteSize * k) % ByteSize = x % ByteSize
        BY <1>5, <1>6, <2>2, DivModShift
  <2> QED BY <2>2, <2>3
<1> QED BY <1>4, <1>7, <1>8 DEF ByteAt, b

(* A word in memory is read back. *)
LEMMA WordRead ==
    ASSUME NEW mem \in MemoryType, NEW va \in Mapped, va % 4 = 0, NEW w \in Word,
           \A j \in 0 .. 3 : mem.main[PA(va + j)] = (w \div Span(j)) % ByteSize
    PROVE  ReadMem(mem, va, 4).value = w
<1> DEFINE byte(k) == mem.main[PA(va) + k]
           part(k) == (w \div Span(k)) % ByteSize
<1>1. ReadMem(mem, va, 4).value = byte(0) + byte(1) * ByteSize + byte(2) * Span(2) + byte(3) * Span(3)
      BY ReadMemIs
<1>2. ASSUME NEW j \in 0 .. 3 PROVE byte(j) = part(j)
  <2>1. j \in 0 .. 4 - 1
        OBVIOUS
  <2>2. PA(va + j) = PA(va) + j
        BY <2>1, AccessPlaces
  <2> QED BY <2>2
<1>3. byte(0) = part(0) /\ byte(1) = part(1) /\ byte(2) = part(2) /\ byte(3) = part(3)
      BY <1>2
<1>4. w = part(0) + part(1) * ByteSize + part(2) * Span(2) + part(3) * Span(3)
      BY WordBytes
<1> HIDE DEF byte, part
<1> QED BY <1>1, <1>3, <1>4

(* No argument is empty. *)
NoneEmpty(a) == \A k \in DOMAIN a : a[k] # <<>>

(* Arguments that are not empty do not overlap, nor do they reach the byte *)
(* left for a '\0'.                                                        *)
LEMMA ArgsApart ==
    ASSUME NEW a, Arguments(a), NEW sp \in Int, NEW j \in 1 .. Len(a), NEW k \in 1 .. Len(a), j < k
    PROVE  ArgAddress(a, sp, k) + Len(a[k]) + 1 <= ArgAddress(a, sp, j)
<1>1. Len(a) \in Nat /\ Len(a[k]) \in Nat
      BY ArgumentFacts
<1>2. k - 1 \in 0 .. Len(a) /\ j \in 0 .. Len(a) /\ k \in 0 .. Len(a) /\ j <= k - 1
      BY <1>1
<1>3. ArgAddress(a, sp, k) = ArgAddress(a, sp, k - 1) - Len(a[k]) - 1
      BY ArgAddresses
<1>4. /\ ArgAddress(a, sp, k - 1) <= ArgAddress(a, sp, j)
      /\ ArgAddress(a, sp, k - 1) \in Int /\ ArgAddress(a, sp, j) \in Int /\ ArgAddress(a, sp, k) \in Int
      BY <1>2, ArgAddresses
<1> QED BY <1>1, <1>3, <1>4

LEMMA StringsWritten ==
    ASSUME NEW a, Arguments(a), NoneEmpty(a), NEW rest \in Seq(Byte), NEW sp \in Int, NEW k \in 1 .. Len(a)
    PROVE  LET strings == ArgStrings(a, rest, sp)
               A == ArgAddress(a, sp, k)
           IN  /\ \A j \in 1 .. Len(a[k]) : A + j - 1 \in DOMAIN strings /\ strings[A + j - 1] = a[k][j]
               /\ A + Len(a[k]) \notin DOMAIN strings
<1> DEFINE image(n) == ArgImage(a, rest, sp, n)
           strings == ArgStrings(a, rest, sp)
           A(n) == ArgAddress(a, sp, n)
<1>1. Len(a) \in Nat /\ DOMAIN a = 1 .. Len(a) /\ \A n \in 1 .. Len(a) : Len(a[n]) \in Nat
      BY ArgumentFacts
<1>2. \A n \in 1 .. Len(a) : A(n) \in Int
  <2>1. \A n \in 1 .. Len(a) : n \in 0 .. Len(a)
        BY <1>1
  <2> QED BY <2>1, ArgAddresses
<1>3. \A n \in 1 .. Len(a) : image(n) = [v \in A(n) .. A(n) + Len(a[n]) - 1 |-> a[n][v - A(n) + 1]]
      BY <1>1, ArgImageIs DEF NoneEmpty
<1>4. \A n, l \in 1 .. Len(a) : n < l => A(l) + Len(a[l]) + 1 <= A(n)
      BY ArgsApart
<1>5. /\ DOMAIN strings = UNION {DOMAIN image(n) : n \in 1 .. Len(a)}
      /\ \A v \in DOMAIN strings :
            \E n \in 1 .. Len(a) : v \in DOMAIN image(n) /\ strings[v] = image(n)[v]
      BY ArgStringsAre
<1> HIDE DEF image, strings, A
<1>6. ASSUME NEW v \in Int, NEW n \in 1 .. Len(a), v \in DOMAIN image(n), A(k) <= v, v <= A(k) + Len(a[k])
      PROVE  n = k /\ v < A(k) + Len(a[k])
  <2>1. v \in A(n) .. A(n) + Len(a[n]) - 1
        BY <1>3, <1>6
  <2>2. A(n) \in Int /\ A(k) \in Int /\ Len(a[n]) \in Nat /\ Len(a[k]) \in Nat
        BY <1>1, <1>2
  <2>3. A(n) <= v /\ v <= A(n) + Len(a[n]) - 1
        BY <2>1, <2>2
  <2>4. CASE n < k
    <3>1. A(k) + Len(a[k]) + 1 <= A(n)
          BY <1>4, <2>4
    <3> QED BY <1>6, <2>2, <2>3, <3>1
  <2>5. CASE k < n
    <3>1. A(n) + Len(a[n]) + 1 <= A(k)
          BY <1>4, <2>5
    <3> QED BY <1>6, <2>2, <2>3, <3>1
  <2>6. CASE n = k
        BY <2>2, <2>3, <2>6
  <2>7. n \in Nat /\ k \in Nat
        BY <1>1
  <2> QED BY <2>4, <2>5, <2>6, <2>7
<1>7. ASSUME NEW j \in 1 .. Len(a[k])
      PROVE  A(k) + j - 1 \in DOMAIN strings /\ strings[A(k) + j - 1] = a[k][j]
  <2> DEFINE v == A(k) + j - 1
  <2>0. A(k) \in Int /\ Len(a[k]) \in Nat
        BY <1>1, <1>2
  <2>1. v \in Int /\ v \in A(k) .. A(k) + Len(a[k]) - 1 /\ A(k) <= v /\ v <= A(k) + Len(a[k]) /\ v - A(k) + 1 = j
        BY <2>0
  <2> HIDE DEF v
  <2>2. v \in DOMAIN image(k)
        BY <1>3, <2>1
  <2>3. v \in DOMAIN strings
        BY <1>5, <2>2
  <2>4. PICK n \in 1 .. Len(a) : v \in DOMAIN image(n) /\ strings[v] = image(n)[v]
        BY <1>5, <2>3
  <2>5. n = k
        BY <1>6, <2>1, <2>4
  <2>6. image(k)[v] = a[k][v - A(k) + 1]
        BY <1>3, <2>1
  <2>7. strings[v] = a[k][j]
        BY <2>1, <2>4, <2>5, <2>6
  <2> QED BY <2>3, <2>7 DEF v
<1>8. A(k) + Len(a[k]) \notin DOMAIN strings
  <2> SUFFICES ASSUME A(k) + Len(a[k]) \in DOMAIN strings PROVE FALSE
      OBVIOUS
  <2> DEFINE v == A(k) + Len(a[k])
  <2>0. A(k) \in Int /\ Len(a[k]) \in Nat
        BY <1>1, <1>2
  <2>1. v \in Int /\ A(k) <= v /\ v <= A(k) + Len(a[k]) /\ ~(v < A(k) + Len(a[k]))
        BY <2>0
  <2>2. v \in DOMAIN strings
        OBVIOUS
  <2> HIDE DEF v
  <2>3. PICK n \in 1 .. Len(a) : v \in DOMAIN image(n)
        BY <1>5, <2>2
  <2> QED BY <1>6, <2>1, <2>3
<1> QED BY <1>7, <1>8 DEF strings, A

(* All the bytes together: the strings, a byte left after each, and argv. *)
Layout(h, a, sp) ==
    /\ \A k \in 1 .. Len(a) :
          /\ \A j \in 1 .. Len(a[k]) : /\ ArgAddress(a, sp, k) + j - 1 \in DOMAIN h
                                       /\ h[ArgAddress(a, sp, k) + j - 1] = a[k][j]
          /\ ArgAddress(a, sp, k) + Len(a[k]) \notin DOMAIN h
    /\ \A k \in 0 .. Len(a), j \in 0 .. 3 :
          /\ ArgvAddress(a, sp) + 4 * k + j \in DOMAIN h
          /\ h[ArgvAddress(a, sp) + 4 * k + j] = (ArgWord(a, sp, k + 1) \div Span(j)) % ByteSize

LEMMA BytesWritten ==
    ASSUME NEW a, Arguments(a), NoneEmpty(a), NEW rest \in Seq(Byte), NEW sp \in Int
    PROVE  Layout(ArgBytes(a, rest, sp), a, sp)
<1> DEFINE f == ArgStrings(a, rest, sp)
           va == ArgvAddress(a, sp)
           g == ArgPointers(a, sp, va)
           h == ArgBytes(a, rest, sp)
           A(k) == ArgAddress(a, sp, k)
<1>1. h = [x \in DOMAIN f \cup DOMAIN g |-> IF x \in DOMAIN f THEN f[x] ELSE g[x]]
      BY DEF ArgBytes, Over
<1>2. /\ va \in Int /\ va + 4 * Len(a) + 4 <= A(Len(a)) /\ Len(a) \in Nat
      /\ \A k \in 1 .. Len(a) : Len(a[k]) \in Nat
      BY ArgvIs, ArgumentFacts
<1>3. \A v \in DOMAIN f : v \in Int /\ v >= A(Len(a))
      BY ArgStringsAre
<1>4. /\ DOMAIN g = va .. va + 4 * Len(a) + 3
      /\ \A k \in 0 .. Len(a), j \in 0 .. 3 :
            va + 4 * k + j \in DOMAIN g /\ g[va + 4 * k + j] = (ArgWord(a, sp, k + 1) \div Span(j)) % ByteSize
      BY <1>2, ArgPointersAre
<1>5. \A k \in 1 .. Len(a) :
         /\ \A j \in 1 .. Len(a[k]) : A(k) + j - 1 \in DOMAIN f /\ f[A(k) + j - 1] = a[k][j]
         /\ A(k) + Len(a[k]) \notin DOMAIN f
      BY StringsWritten
<1>6. \A k \in 1 .. Len(a) : A(k) \in Int /\ A(Len(a)) <= A(k) /\ A(Len(a)) \in Int
  <2> TAKE k \in 1 .. Len(a)
  <2>1. k \in 0 .. Len(a) /\ Len(a) \in 0 .. Len(a) /\ k <= Len(a)
        BY <1>2
  <2> QED BY <2>1, ArgAddresses
<1>7. A(Len(a)) \in Int
  <2>1. Len(a) \in 0 .. Len(a)
        BY <1>2
  <2> QED BY <2>1, ArgAddresses
<1> HIDE DEF f, va, g, h, A
<1>8. DOMAIN h = DOMAIN f \cup DOMAIN g /\ \A v \in DOMAIN f : h[v] = f[v]
      BY <1>1
<1>9. ASSUME NEW v \in DOMAIN g PROVE v \notin DOMAIN f /\ h[v] = g[v]
  <2>1. v \in Int /\ v < A(Len(a))
        BY <1>2, <1>4, <1>7
  <2>2. v \notin DOMAIN f
        BY <1>3, <1>7, <2>1
  <2> QED BY <1>1, <2>2
<1>10. ASSUME NEW k \in 1 .. Len(a) PROVE A(k) + Len(a[k]) \notin DOMAIN h
  <2>1. A(k) + Len(a[k]) >= A(Len(a)) /\ A(k) + Len(a[k]) \in Int
        BY <1>2, <1>6
  <2>2. A(k) + Len(a[k]) \notin DOMAIN g
    <3> DEFINE v == A(k) + Len(a[k])
    <3>1. v \in Int /\ v >= A(Len(a))
          BY <2>1
    <3> HIDE DEF v
    <3>2. v \notin va .. va + 4 * Len(a) + 3
          BY <1>2, <1>7, <3>1
    <3> QED BY <1>4, <3>2 DEF v
  <2> QED BY <1>5, <1>8, <2>2
<1>11. ASSUME NEW k \in 1 .. Len(a), NEW j \in 1 .. Len(a[k])
       PROVE  A(k) + j - 1 \in DOMAIN h /\ h[A(k) + j - 1] = a[k][j]
      BY <1>5, <1>8
<1>12. ASSUME NEW k \in 0 .. Len(a), NEW j \in 0 .. 3
       PROVE  /\ va + 4 * k + j \in DOMAIN h
              /\ h[va + 4 * k + j] = (ArgWord(a, sp, k + 1) \div Span(j)) % ByteSize
      BY <1>4, <1>8, <1>9
<1> QED BY <1>10, <1>11, <1>12 DEF h, va, A, Layout

(* A string that is in memory, with a '\0' after it, is read back. *)
LEMMA StringRead ==
    ASSUME NEW mem \in MemoryType, NEW str \in Seq(Byte), NEW va \in Int, Len(str) < MAX_ARG_LENGTH,
           \A j \in 1 .. Len(str) : str[j] # NUL /\ str[j] # NEWLINE,
           \A j \in 1 .. Len(str) : va + j - 1 \in Mapped /\ mem.main[PA(va + j - 1)] = str[j],
           va + Len(str) \in Mapped, mem.main[PA(va + Len(str))] = NUL
    PROVE  ReadStringFromUser(mem, va, MAX_ARG_LENGTH) = Append(str, NUL)
<1> DEFINE L == Len(str)
           ends == {k \in 1 .. MAX_ARG_LENGTH : k = MAX_ARG_LENGTH \/ ~checkEndString(ByteAt(mem, va + k - 1))}
<1>1. L \in Nat /\ MAX_ARG_LENGTH \in Nat
      BY MemoryAssumption DEF MemoryAssumption
<1>2. ASSUME NEW j \in 1 .. L PROVE ByteAt(mem, va + j - 1) = str[j]
      BY ByteRead
<1>3. ByteAt(mem, va + (L + 1) - 1) = NUL
  <2>1. va + (L + 1) - 1 = va + L
        BY <1>1
  <2>2. ByteAt(mem, va + L) = NUL
        BY ByteRead
  <2> QED BY <2>1, <2>2
<1>4. L + 1 \in ends
      BY <1>1, <1>3 DEF checkEndString
<1>5. ASSUME NEW k \in ends PROVE L + 1 <= k
  <2>1. k \in Nat /\ k >= 1
        BY <1>1
  <2> SUFFICES ASSUME k < L + 1 PROVE FALSE
      BY <1>1, <2>1
  <2>2. k \in 1 .. L /\ k # MAX_ARG_LENGTH
        BY <1>1, <2>1
  <2>3. ByteAt(mem, va + k - 1) = str[k]
        BY <1>2, <2>2
  <2>4. checkEndString(ByteAt(mem, va + k - 1))
        BY <2>2, <2>3 DEF checkEndString
  <2> QED BY <2>2, <2>4
<1>6. ends \in SUBSET Nat
      BY <1>1
<1>7. Min(ends) = L + 1
  <2> HIDE DEF ends
  <2> QED BY <1>4, <1>5, <1>6, MinIs
<1>8. ReadStringFromUser(mem, va, MAX_ARG_LENGTH) = [k \in 1 .. L + 1 |-> ByteAt(mem, va + k - 1)]
      BY <1>7 DEF ReadStringFromUser, ReadBufferFromUser
<1>9. Append(str, NUL) = [k \in 1 .. L + 1 |-> IF k = L + 1 THEN NUL ELSE str[k]]
  <2>1. \A k \in 1 .. L + 1 : Append(str, NUL)[k] = IF k = L + 1 THEN NUL ELSE str[k]
    <3> TAKE k \in 1 .. L + 1
    <3>1. k # L + 1 => k \in 1 .. L
          BY <1>1
    <3>2. NUL \in Byte
          BY Sizes DEF NUL, Byte
    <3> QED BY <3>1, <3>2, AppendProperties
  <2>2. Append(str, NUL) \in Seq(Byte) /\ Len(Append(str, NUL)) = L + 1
    <3>1. NUL \in Byte
          BY Sizes DEF NUL, Byte
    <3> QED BY <3>1, AppendProperties
  <2>3. Append(str, NUL) = [k \in 1 .. L + 1 |-> Append(str, NUL)[k]]
    <3> DEFINE ap == Append(str, NUL)
    <3> HIDE DEF ap
    <3>1. ap \in Seq(Byte) /\ Len(ap) = L + 1
          BY <2>2 DEF ap
    <3>2. ap = [k \in 1 .. L + 1 |-> ap[k]]
          BY <3>1
    <3> QED BY <3>2 DEF ap
  <2> QED BY <2>1, <2>3
<1>10. ASSUME NEW k \in 1 .. L + 1 PROVE ByteAt(mem, va + k - 1) = IF k = L + 1 THEN NUL ELSE str[k]
  <2>1. CASE k = L + 1
        BY <1>3, <2>1
  <2>2. CASE k # L + 1
    <3>1. k \in 1 .. L
          BY <1>1, <2>2
    <3> QED BY <1>2, <2>2, <3>1
  <2> QED BY <2>1, <2>2
<1> HIDE DEF L
<1> QED BY <1>8, <1>9, <1>10

(* The strings that survive. *)
Plain(a) == \A k \in DOMAIN a : a[k] # <<>> /\ ~Contains(a[k], NEWLINE)

(* Where Start leaves the arguments, SaveArgs finds them. *)
LEMMA ArgsRead ==
    ASSUME MachineInv, NEW rest \in Garbage, Start(rest), Plain(args)
    PROVE  SaveArgs(m', ArgvAddress(args, Top)) = [n \in DOMAIN args |-> Append(args[n], NUL)]
<1> DEFINE sp == ArgvAddress(args, Top)
           h  == ArgBytes(args, rest, Top)
           A(k) == ArgAddress(args, Top, k)
           n == Len(args)
           mem == m'
<1>0. Arguments(args) /\ m \in MemoryType /\ NoneEmpty(args)
      BY DEF MachineInv, NoneEmpty, Plain
<1>1. /\ Top \in Int /\ rest \in Seq(Byte) /\ Recorded(m)
      /\ sp \in Nat /\ sp > 0
      /\ DOMAIN h \in SUBSET Nat /\ h \in [DOMAIN h -> Byte]
      /\ Copied(m, h).e = "NONE" /\ mem = Copied(m, h).m
      /\ DOMAIN h \subseteq Mapped
      BY StartFacts
<1>2. \A a \in PhysicalAddress : m.main[a] = 0
      BY DEF Start, MachineInv
<1>3. /\ n \in Nat /\ DOMAIN args = 1 .. n /\ n < MAX_ARG_COUNT /\ MAX_ARG_COUNT \in Nat
      /\ \A k \in 1 .. n : /\ args[k] \in Seq(Byte) /\ Len(args[k]) \in Nat /\ Len(args[k]) < MAX_ARG_LENGTH
                           /\ \A j \in 1 .. Len(args[k]) : args[k][j] # NUL
      BY <1>0, ArgumentFacts, MemoryAssumption DEF Arguments, MemoryAssumption
<1>4. /\ A(0) = Top
      /\ \A k \in 0 .. n : A(k) \in Int
      /\ \A k \in 1 .. n : A(k) = A(k - 1) - Len(args[k]) - 1
      /\ \A j, k \in 0 .. n : j <= k => A(k) <= A(j)
      BY <1>0, <1>1, ArgAddresses
<1>5. sp % 4 = 0 /\ sp + 4 * n + 4 <= A(n)
      BY <1>0, <1>1, ArgvIs
<1>6. /\ \A k \in 1 .. n :
            /\ \A j \in 1 .. Len(args[k]) : A(k) + j - 1 \in DOMAIN h /\ h[A(k) + j - 1] = args[k][j]
            /\ A(k) + Len(args[k]) \notin DOMAIN h
      /\ \A k \in 0 .. n, j \in 0 .. 3 :
            /\ sp + 4 * k + j \in DOMAIN h
            /\ h[sp + 4 * k + j] = (ArgWord(args, Top, k + 1) \div Span(j)) % ByteSize
  <2>1. Top \in Int /\ rest \in Seq(Byte) /\ Arguments(args) /\ NoneEmpty(args)
        BY <1>0, <1>1
  <2>2. Layout(h, args, Top)
        BY <2>1, BytesWritten
  <2> QED BY <2>2 DEF Layout
<1> HIDE DEF h
<1>7. /\ mem \in MemoryType
      /\ \A v \in DOMAIN h : mem.main[PA(v)] = h[v]
      /\ \A v \in Mapped \ DOMAIN h : mem.main[PA(v)] = m.main[PA(v)]
      BY <1>0, <1>1, CopiedIs
<1> HIDE DEF sp, A, mem
<1>8. Mapped \subseteq Word
  <2>1. Len(Frames) * PAGE_SIZE <= WordSize /\ Len(Frames) * PAGE_SIZE \in Nat
        BY PageFacts, MachineAssumption DEF MachineAssumption
  <2> QED BY <2>1, WordFacts DEF Mapped, Word
<1>9. ASSUME NEW k \in 1 .. n
      PROVE  A(k) \in Int /\ A(k) > 0 /\ A(k) \in Word /\ A(k) + Len(args[k]) \in Mapped
  <2> DEFINE L == Len(args[k])
  <2>1. k \in 0 .. n /\ n \in 0 .. n /\ k - 1 \in 0 .. n /\ 0 \in 0 .. n /\ k <= n /\ 0 <= k - 1
        BY <1>3
  <2>2. A(k) \in Int /\ A(n) \in Int /\ A(k - 1) \in Int /\ A(n) <= A(k) /\ A(k - 1) <= Top /\ A(k) = A(k - 1) - L - 1
        BY <1>4, <2>1
  <2>3. A(k) > 0
        BY <1>1, <1>3, <1>5, <2>2
  <2>4. args[k] \in Seq(Byte) /\ args[k] # <<>> /\ L \in Nat
        BY <1>0, <1>3 DEF NoneEmpty
  <2>5. L # 0
        BY <2>4, EmptySeq
  <2>6. 1 \in 1 .. L /\ A(k) + 1 - 1 = A(k)
        BY <2>2, <2>4, <2>5
  <2>7. A(k) \in DOMAIN h
        BY <1>6, <2>6
  <2>8. A(k) + L \in Mapped
    <3>1. A(k) + L <= Top - 1 /\ A(k) + L >= 0 /\ A(k) + L \in Int
          BY <1>1, <2>2, <2>3, <2>4
    <3>2. Len(Frames) * PAGE_SIZE \in Nat
          BY PageFacts
    <3> QED BY <3>1, <3>2 DEF Top, Mapped
  <2> QED BY <1>1, <1>8, <2>2, <2>3, <2>7, <2>8
<1>10. ASSUME NEW k \in 0 .. n
       PROVE  ReadMem(mem, sp + 4 * k, 4).value = ArgWord(args, Top, k + 1)
  <2> DEFINE va == sp + 4 * k
             w == ArgWord(args, Top, k + 1)
  <2>1. w \in Word
    <3>1. CASE k + 1 \in 1 .. n
          BY <1>3, <1>9, <3>1 DEF ArgWord, A
    <3>2. CASE k + 1 \notin 1 .. n
          BY <1>3, <3>2, WordFacts DEF ArgWord, Word
    <3> QED BY <3>1, <3>2
  <2> HIDE DEF w
  <2>2. va \in Nat /\ va + 0 = va
        BY <1>1, <1>3
  <2>3. va \in Mapped
    <3>1. 0 \in 0 .. 3
          OBVIOUS
    <3>2. sp + 4 * k + 0 \in DOMAIN h
          BY <1>6, <3>1
    <3> QED BY <1>1, <2>2, <3>2
  <2>4. va % 4 = 0
        BY <1>1, <1>3, <1>5
  <2>5. \A j \in 0 .. 3 : mem.main[PA(va + j)] = (w \div Span(j)) % ByteSize
        BY <1>6, <1>7 DEF w
  <2> HIDE DEF va
  <2>6. ReadMem(mem, va, 4).value = w
        BY <1>7, <2>1, <2>3, <2>4, <2>5, WordRead
  <2> QED BY <2>6 DEF va, w
<1>11. CountArgsToSave(mem, sp) = n
  <2> DEFINE nulls == {c \in 0 .. MAX_ARG_COUNT - 1 : ReadMem(mem, sp + 4 * c, 4).value = 0}
  <2>1. n \in nulls
    <3>1. n \in 0 .. n /\ n + 1 \notin 1 .. n /\ n \in 0 .. MAX_ARG_COUNT - 1
          BY <1>3
    <3>2. ReadMem(mem, sp + 4 * n, 4).value = 0
          BY <1>3, <1>10, <3>1 DEF ArgWord
    <3> QED BY <3>1, <3>2
  <2>2. ASSUME NEW c \in nulls PROVE n <= c
    <3>1. c \in Nat
          BY <1>3
    <3> SUFFICES ASSUME c < n PROVE FALSE
        BY <1>3, <3>1
    <3>2. c \in 0 .. n /\ c + 1 \in 1 .. n
          BY <1>3, <3>1
    <3>3. ReadMem(mem, sp + 4 * c, 4).value = A(c + 1)
          BY <1>3, <1>10, <3>2 DEF ArgWord, A
    <3>4. A(c + 1) > 0 /\ A(c + 1) \in Int
          BY <1>9, <3>2
    <3>5. ReadMem(mem, sp + 4 * c, 4).value = 0
          OBVIOUS
    <3> QED BY <3>3, <3>4, <3>5
  <2>3. nulls \in SUBSET Nat
        BY <1>3
  <2>4. CountArgsToSave(mem, sp) = IF nulls = {} THEN -1 ELSE Min(nulls)
        BY DEF CountArgsToSave
  <2> HIDE DEF nulls
  <2>5. Min(nulls) = n
        BY <2>1, <2>2, <2>3, MinIs
  <2> QED BY <2>1, <2>4, <2>5
<1>12. ASSUME NEW k \in 1 .. n
       PROVE  ReadStringFromUser(mem, ReadMem(mem, sp + 4 * (k - 1), 4).value, MAX_ARG_LENGTH) = Append(args[k], NUL)
  <2>1. k - 1 \in 0 .. n /\ (k - 1) + 1 = k
        BY <1>3
  <2>2. ReadMem(mem, sp + 4 * (k - 1), 4).value = ArgWord(args, Top, (k - 1) + 1)
        BY <1>10, <2>1
  <2>3. ReadMem(mem, sp + 4 * (k - 1), 4).value = A(k)
        BY <1>3, <2>1, <2>2 DEF ArgWord, A
  <2> DEFINE str == args[k]
             va == A(k)
  <2>4. str \in Seq(Byte) /\ Len(str) \in Nat /\ Len(str) < MAX_ARG_LENGTH /\ va \in Int
        BY <1>3, <1>9
  <2>5. \A j \in 1 .. Len(str) : str[j] # NUL /\ str[j] # NEWLINE
    <3>1. ~Contains(str, NEWLINE)
          BY <1>3 DEF Plain
    <3> QED BY <1>3, <3>1 DEF Contains
  <2>6. \A j \in 1 .. Len(str) : va + j - 1 \in Mapped /\ mem.main[PA(va + j - 1)] = str[j]
        BY <1>1, <1>6, <1>7
  <2>7. va + Len(str) \in Mapped
        BY <1>9
  <2>8. mem.main[PA(va + Len(str))] = NUL
    <3>1. va + Len(str) \in Mapped \ DOMAIN h
          BY <1>6, <2>7
    <3>2. PA(va + Len(str)) \in PhysicalAddress
          BY <2>7, PAType
    <3> QED BY <1>2, <1>7, <3>1, <3>2 DEF NUL
  <2> HIDE DEF str, va
  <2>9. ReadStringFromUser(mem, va, MAX_ARG_LENGTH) = Append(str, NUL)
        BY <1>7, <2>4, <2>5, <2>6, <2>7, <2>8, StringRead
  <2> QED BY <2>3, <2>9 DEF str, va
<1>13. SaveArgs(mem, sp) = [k \in 1 .. n |-> Append(args[k], NUL)]
      BY <1>11, <1>12 DEF SaveArgs
<1> QED BY <1>3, <1>13 DEF mem, sp

(* The arguments the kernel writes onto a new process's stack are the ones *)
(* the process would hand on: the strings, the '\0' that nobody writes but *)
(* the stack has, the pointers byte by byte and the null that ends them    *)
(* all read back (WriteArgs, SaveArgs).                                    *)
THEOREM ArgumentsArrive == Spec => ArgsArrive
<1> DEFINE P == mode = "start" /\ mode' = "user" /\ (\A k \in DOMAIN args : args[k] # <<>> /\ ~Contains(args[k], NEWLINE))
                => SaveArgs(m', reg'[ARGV]) = [n \in DOMAIN args |-> Append(args[n], NUL)]
<1>1. ASSUME MachineInv, Next, mode = "start", mode' = "user", Plain(args)
      PROVE  SaveArgs(m', reg'[ARGV]) = [n \in DOMAIN args |-> Append(args[n], NUL)]
  <2>1. mode # "user" /\ mode # "kernel" /\ mode' # "abort"
        BY <1>1
  <2>2. \A ops : ~Running(ops)
        BY <2>1, Zenon DEF Running
  <2>3. ~Compute /\ ~MultDiv /\ ~Branch /\ ~Load /\ ~Store /\ ~Trap
        BY <2>2, Zenon DEF Compute, MultDiv, Branch, Load, Store, Trap
  <2>4. ~FetchFails /\ (\A r : ~Return(r)) /\ \A rest : ~StartFails(rest)
        BY <2>1, Zenon DEF FetchFails, Return, StartFails
  <2>5. PICK rest \in Garbage : Start(rest)
        BY <1>1, <2>3, <2>4, Zenon DEF Next
  <2>6. reg'[ARGV] = ArgvAddress(args, Top)
    <3>1. ARGV \in GP /\ ARGV # ARGC
          BY MachineAssumption DEF MachineAssumption
    <3>2. reg' = [r \in GP |-> CASE r = ARGC -> Len(args) [] r = ARGV -> ArgvAddress(args, Top)
                                 [] r = STACK_REG -> U(ArgvAddress(args, Top) - 16) [] OTHER -> 0]
          BY <2>5 DEF Start
    <3>3. ARGV # STACK_REG
          BY MachineAssumption DEF MachineAssumption
    <3> QED BY <3>1, <3>2, <3>3
  <2>7. SaveArgs(m', ArgvAddress(args, Top)) = [n \in DOMAIN args |-> Append(args[n], NUL)]
        BY <1>1, <2>5, ArgsRead
  <2> QED BY <2>6, <2>7
<1>2. ASSUME MachineInv, Next PROVE P
      BY <1>1, <1>2 DEF Plain
<1>3. MachineInv /\ [Next]_vars => [P]_vars
      BY <1>2
<1>4. []MachineInv /\ [][Next]_vars => [][P]_vars
      BY <1>3, PTL
<1> QED BY MachineSafety, <1>4, PTL DEF Spec, ArgsArrive
=============================================================================
