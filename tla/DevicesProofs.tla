--------------------------- MODULE DevicesProofs ---------------------------
(***************************************************************************)
(* Proofs about Devices.tla for any number of threads, any geometry of the *)
(* disk and any device times.                                              *)
(***************************************************************************)
EXTENDS Devices, TLAPS, FiniteSetTheorems, SequenceTheorems, WellFoundedInduction

-----------------------------------------------------------------------------
(* Division. *)

LEMMA DivMod ==
    ASSUME NEW a \in Int, NEW b \in Nat, b > 0
    PROVE  /\ a \div b \in Int /\ a % b \in Nat /\ a % b < b
           /\ a = b * (a \div b) + (a % b)
OBVIOUS

LEMMA DivModUnique ==
    ASSUME NEW b \in Nat, b > 0, NEW q \in Int, NEW r \in Nat, r < b
    PROVE  (b * q + r) \div b = q /\ (b * q + r) % b = r
OBVIOUS

(* Adding a multiple of b changes no remainder. *)
LEMMA ModShift ==
    ASSUME NEW b \in Nat, b > 0, NEW a \in Int, NEW k \in Int
    PROVE  (a + b * k) % b = a % b
<1> DEFINE q == a \div b
           r == a % b
<1>1. q \in Int /\ r \in Nat /\ r < b /\ a = b * q + r
      BY DivMod
<1> HIDE DEF q, r
<1>2. a + b * k = b * (q + k) + r /\ q + k \in Int
      BY <1>1
<1>3. (b * (q + k) + r) % b = r
      BY <1>1, <1>2, DivModUnique
<1> QED BY <1>2, <1>3 DEF r

(* Modulo b, it is m from q to s. *)
Distance(b, s, q, m) == m \in Nat /\ m < b /\ (q + m) % b = s % b

LEMMA ModuloDiffEnds ==
    ASSUME NEW b \in Nat, b > 0, NEW s \in Int, NEW q \in Int
    PROVE  Distance(b, s, q, (s - q) % b)
<1> DEFINE m == (s - q) % b
           k == (s - q) \div b
<1>1. m \in Nat /\ m < b /\ k \in Int /\ s - q = b * k + m
      BY DivMod
<1> HIDE DEF m, k
<1>2. -k \in Int /\ q + m = s + b * (-k)
      BY <1>1
<1>3. (s + b * (-k)) % b = s % b
      BY <1>2, ModShift
<1>4. Distance(b, s, q, m)
      BY <1>1, <1>2, <1>3 DEF Distance
<1> QED BY <1>4 DEF m

-----------------------------------------------------------------------------
(* The times of the disk.  p is the phase, w the seek time, o the wait for *)
(* the start of a sector.                                                  *)

LEMMA RotationEnds ==
    ASSUME NEW r \in Nat, r > 0, NEW p \in Nat, NEW w \in Nat,
           NEW o, o = IF (p + w) % r > 0 THEN r - ((p + w) % r) ELSE 0
    PROVE  o \in Nat /\ o < r /\ (p + w + o) % r = 0
<1> DEFINE q == (p + w) \div r
           e == (p + w) % r
<1>1. q \in Int /\ e \in Nat /\ e < r /\ p + w = r * q + e
      BY DivMod
<1>2. o = IF e > 0 THEN r - e ELSE 0
      OBVIOUS
<1> HIDE DEF q, e
<1>3. CASE e > 0
  <2>1. o = r - e /\ o \in Nat /\ o < r
        BY <1>1, <1>2, <1>3
  <2>2. p + w + o = r * (q + 1) + 0 /\ q + 1 \in Int
        BY <1>1, <2>1
  <2>3. (r * (q + 1) + 0) % r = 0
        BY <2>2, DivModUnique
  <2> QED BY <2>1, <2>2, <2>3
<1>4. CASE ~(e > 0)
  <2>1. o = 0 /\ e = 0
        BY <1>1, <1>2, <1>4
  <2>2. p + w + o = r * q + 0
        BY <1>1, <2>1
  <2>3. (r * q + 0) % r = 0
        BY <1>1, DivModUnique
  <2> QED BY <2>1, <2>2, <2>3
<1> QED BY <1>3, <1>4

(* What LatencyIsExact says of the end of a write. *)
EndsWell(r, n, p, w, s, end) ==
    /\ end \in Nat /\ end % r = 0 /\ (end \div r - 1) % n = s % n
    /\ end - p < w + r * n + r

LEMMA LatencyEnds ==
    ASSUME NEW r \in Nat, r > 0, NEW n \in Nat, n > 0, NEW p \in Nat, NEW w \in Nat, NEW s \in Nat,
           NEW o \in Nat, o < r, NEW q \in Int, p + w + o = r * q,
           NEW m \in Nat, m < n, (q + m) % n = s % n
    PROVE  EndsWell(r, n, p, w, s, p + (w + o + r + m * r))
<1> DEFINE end == p + (w + o + r + m * r)
<1>3. end = r * (q + m + 1) + 0 /\ q + m + 1 \in Int /\ end \in Nat
  <2>1. m * r \in Nat /\ r * q \in Int
        OBVIOUS
  <2>2. end = r * q + r + m * r /\ end \in Nat
        BY <2>1
  <2>3. r * (q + m + 1) = r * q + r + m * r
        OBVIOUS
  <2> QED BY <2>2, <2>3
<1>4. end \div r = q + m + 1 /\ end % r = 0
  <2>1. /\ (r * (q + m + 1) + 0) \div r = q + m + 1
        /\ (r * (q + m + 1) + 0) % r = 0
        BY <1>3, DivModUnique
  <2> QED BY <1>3, <2>1
<1>5. (end \div r - 1) % n = s % n
  <2>1. end \div r - 1 = q + m
        BY <1>4
  <2> QED BY <2>1
<1>6. end - p < w + r * n + r
  <2>1. m * r <= (n - 1) * r
        OBVIOUS
  <2>2. (n - 1) * r = r * n - r /\ r * n \in Nat /\ m * r \in Nat
        OBVIOUS
  <2>3. end - p = w + o + r + m * r
        BY <2>2
  <2> QED BY <2>1, <2>2, <2>3
<1> QED BY <1>3, <1>4, <1>5, <1>6 DEF EndsWell

LEMMA ProductType == \A x, y \in Nat : x * y \in Nat
OBVIOUS

LEMMA QuotientOfMultiple ==
    ASSUME NEW r \in Nat, r > 0, NEW x \in Int, x % r = 0
    PROVE  x \div r \in Int /\ x = r * (x \div r)
BY DivMod

LEMMA SeekTimeType ==
    ASSUME lastSector \in Nat, NEW s \in Nat
    PROVE  SeekTime(s) \in Nat
<1>1. SECTORS_PER_TRACK \in Nat /\ SECTORS_PER_TRACK > 0 /\ SEEK_TIME \in Nat
      BY DevicesAssumption DEF DevicesAssumption
<1>2. \A x, y \in Int : Diff(x, y) \in Nat
      BY DEF Diff
<1>3. s \div SECTORS_PER_TRACK \in Int /\ lastSector \div SECTORS_PER_TRACK \in Int
      BY <1>1, DivMod
<1>4. Diff(s \div SECTORS_PER_TRACK, lastSector \div SECTORS_PER_TRACK) \in Nat
      BY <1>2, <1>3
<1> QED BY <1>1, <1>4 DEF SeekTime

(* LatencyIsExact needs nothing of the state but the types of the phase    *)
(* and of the last sector.                                                 *)
LEMMA WriteLatency ==
    ASSUME phase \in Nat, lastSector \in Nat, NEW s \in Nat,
           NEW end, end = phase + ComputeLatency(s, TRUE)
    PROVE  /\ ComputeLatency(s, TRUE) \in Int
           /\ end % ROTATION_TIME = 0
           /\ (end \div ROTATION_TIME - 1) % SECTORS_PER_TRACK = s % SECTORS_PER_TRACK
           /\ end - phase < SeekTime(s) + Period + ROTATION_TIME
<1>1. PICK w \in Nat : w = SeekTime(s)
      BY SeekTimeType
<1>2. PICK r \in Nat : r = ROTATION_TIME /\ r > 0
      BY DevicesAssumption DEF DevicesAssumption
<1>3. PICK n \in Nat : n = SECTORS_PER_TRACK /\ n > 0
      BY DevicesAssumption DEF DevicesAssumption
<1>4. PICK o : o = Rotation(s)
      OBVIOUS
<1>5. o = IF (phase + w) % r > 0 THEN r - ((phase + w) % r) ELSE 0
      BY <1>1, <1>2, <1>4 DEF Rotation
<1>6. o \in Nat /\ o < r /\ (phase + w + o) % r = 0
      BY <1>1, <1>2, <1>5, RotationEnds
<1>7. PICK x : x = phase + w + o
      OBVIOUS
<1>8. PICK q : q = x \div r
      OBVIOUS
<1>9. x \in Int /\ x % r = 0
      BY <1>6, <1>7
<1>10. q \in Int /\ x = r * q
      BY <1>2, <1>8, <1>9, QuotientOfMultiple
<1>11. PICK m : m = (s - q) % n
      OBVIOUS
<1>12. m \in Nat /\ m < n /\ (q + m) % n = s % n
  <2>1. Distance(n, s, q, (s - q) % n)
        BY <1>3, <1>10, ModuloDiffEnds
  <2> QED BY <1>11, <2>1 DEF Distance
<1>13. end = phase + (w + o + r + m * r) /\ ComputeLatency(s, TRUE) = w + o + r + m * r
      BY <1>1, <1>2, <1>3, <1>4, <1>7, <1>8, <1>11 DEF ComputeLatency, InTrackBuffer, ModuloDiff
<1>14. phase + w + o = r * q
      BY <1>7, <1>10
<1>15. /\ end \in Nat /\ end % r = 0 /\ (end \div r - 1) % n = s % n
       /\ end - phase < w + r * n + r
  <2>1. EndsWell(r, n, phase, w, s, phase + (w + o + r + m * r))
        BY <1>2, <1>3, <1>6, <1>10, <1>12, <1>14, LatencyEnds
  <2> QED BY <1>13, <2>1 DEF EndsWell
<1>16. ComputeLatency(s, TRUE) \in Int
  <2>1. PICK y \in Nat : y = m * r
        BY <1>2, <1>12, ProductType
  <2>2. w + o + r + y \in Int
        BY <1>1, <1>2, <1>6
  <2> QED BY <1>13, <2>1, <2>2
<1> QED BY <1>1, <1>2, <1>3, <1>15, <1>16 DEF Period

LEMMA LatencyType ==
    ASSUME phase \in Nat, lastSector \in Nat, NEW s \in Nat, NEW writing
    PROVE  ComputeLatency(s, writing) \in Int
<1>1. ComputeLatency(s, TRUE) \in Int
      BY WriteLatency
<1>2. ROTATION_TIME \in Int
      BY DevicesAssumption DEF DevicesAssumption
<1>3. \/ ComputeLatency(s, writing) = ROTATION_TIME
      \/ ComputeLatency(s, writing) = ComputeLatency(s, TRUE)
      BY DEF ComputeLatency, InTrackBuffer
<1> QED BY <1>1, <1>2, <1>3

LEMMA PhaseType ==
    ASSUME phase \in Nat, NEW d \in Int
    PROVE  (phase + d) % Period \in Nat
<1>1. ROTATION_TIME \in Nat /\ ROTATION_TIME > 0 /\ SECTORS_PER_TRACK \in Nat /\ SECTORS_PER_TRACK > 0
      BY DevicesAssumption DEF DevicesAssumption
<1>2. Period \in Nat /\ Period > 0
      BY <1>1 DEF Period
<1>3. phase + d \in Int
      OBVIOUS
<1> QED BY <1>2, <1>3, DivMod

-----------------------------------------------------------------------------
(* The pending interrupts. *)

Irq == [type : Type, in : Int]

HasIrq(s, y) == \E i \in 1 .. Len(s) : s[i].type = y

Once(s, y) == \A i, j \in 1 .. Len(s) : s[i].type = y /\ s[j].type = y => i = j

(* r is s with other times, with one interrupt of type x more, or less.    *)
SameIrqs(s, r) == \A y \in Type : (HasIrq(r, y) <=> HasIrq(s, y)) /\ (Once(s, y) => Once(r, y))

OneMore(s, r, x) ==
    \A y \in Type : /\ HasIrq(r, y) <=> HasIrq(s, y) \/ y = x
                    /\ Once(s, y) /\ (y = x => ~HasIrq(s, y)) => Once(r, y)

OneLess(s, r, x) ==
    \A y \in Type : Once(s, y) => /\ Once(r, y)
                                  /\ HasIrq(r, y) <=> HasIrq(s, y) /\ y # x

LEMMA LeastIn ==
    ASSUME NEW T \in SUBSET Nat, T # {}
    PROVE  \E n \in T : \A k \in T : n <= k
<1>1. PICK n \in T : \A k \in T : ~(<<k, n>> \in OpToRel(<, Nat))
      BY NatLessThanWellFounded, WFMin
<1>2. ASSUME NEW k \in T PROVE n <= k
  <2>1. k \in Nat /\ n \in Nat /\ ~(k < n)
        BY <1>1 DEF OpToRel
  <2> QED BY <2>1
<1> QED BY <1>2

IsPos(s, e, p) ==
    /\ p <= Len(s) => e.in < s[p].in
    /\ \A k \in 1 .. p - 1 : s[k].in <= e.in

LEMMA PosExists ==
    ASSUME NEW s \in Seq(Irq), NEW e \in Irq
    PROVE  \E p \in 1 .. Len(s) + 1 : IsPos(s, e, p)
<1> DEFINE T == {k \in 1 .. Len(s) : e.in < s[k].in}
<1>1. Len(s) \in Nat /\ (\A k \in 1 .. Len(s) : s[k] \in Irq) /\ T \in SUBSET Nat
      OBVIOUS
<1>2. e.in \in Int /\ \A k \in 1 .. Len(s) : s[k].in \in Int
      BY <1>1 DEF Irq
<1>3. CASE T = {}
  <2>1. \A k \in 1 .. Len(s) : s[k].in <= e.in
        BY <1>2, <1>3
  <2>2. IsPos(s, e, Len(s) + 1)
        BY <1>1, <2>1 DEF IsPos
  <2> QED BY <1>1, <2>2
<1>4. CASE T # {}
  <2>1. PICK p \in T : \A k \in T : p <= k
        BY <1>1, <1>4, LeastIn
  <2>2. \A k \in 1 .. p - 1 : s[k].in <= e.in
        BY <1>1, <1>2, <2>1
  <2>3. IsPos(s, e, p)
        BY <2>1, <2>2 DEF IsPos
  <2> QED BY <1>1, <2>1, <2>3
<1> QED BY <1>3, <1>4

LEMMA InsertedIs ==
    ASSUME NEW s \in Seq(Irq), NEW e \in Irq
    PROVE  LET r == SortedInsert(s, e)
           IN  /\ r \in Seq(Irq) /\ Len(r) = Len(s) + 1
               /\ \E p \in 1 .. Len(s) + 1 :
                    \A k \in 1 .. Len(s) + 1 :
                      r[k] = IF k < p THEN s[k] ELSE IF k = p THEN e ELSE s[k - 1]
<1> DEFINE p == CHOOSE p \in 1 .. Len(s) + 1 :
                  /\ p <= Len(s) => e.in < s[p].in
                  /\ \A k \in 1 .. p - 1 : s[k].in <= e.in
           r == [k \in 1 .. Len(s) + 1 |-> IF k < p THEN s[k] ELSE IF k = p THEN e ELSE s[k - 1]]
<1>1. p \in 1 .. Len(s) + 1
      BY PosExists DEF IsPos
<1>2. SortedInsert(s, e) = r
      BY DEF SortedInsert
<1> HIDE DEF p
<1>3. Len(s) \in Nat /\ \A k \in 1 .. Len(s) : s[k] \in Irq
      OBVIOUS
<1>4. \A k \in 1 .. Len(s) + 1 : r[k] \in Irq
      BY <1>1, <1>3
<1>5. r \in Seq(Irq) /\ Len(r) = Len(s) + 1
      BY <1>3, <1>4
<1>6. \A k \in 1 .. Len(s) + 1 : r[k] = IF k < p THEN s[k] ELSE IF k = p THEN e ELSE s[k - 1]
      OBVIOUS
<1> HIDE DEF r
<1> QED BY <1>1, <1>2, <1>5, <1>6

LEMMA ScheduledIs ==
    ASSUME NEW s \in Seq(Irq), NEW x \in Type, NEW n \in Int
    PROVE  Scheduled(s, x, n) \in Seq(Irq) /\ OneMore(s, Scheduled(s, x, n), x)
<1> DEFINE e == [type |-> x, in |-> n]
<1>1. e \in Irq /\ e.type = x
      BY DEF Irq
<1>2. PICK r : r = SortedInsert(s, e)
      OBVIOUS
<1>3. Scheduled(s, x, n) = r
      BY <1>2 DEF Scheduled
<1> HIDE DEF e
<1>4. r \in Seq(Irq) /\ Len(r) = Len(s) + 1
      BY <1>1, <1>2, InsertedIs
<1>5. PICK p \in 1 .. Len(s) + 1 :
         \A k \in 1 .. Len(s) + 1 : r[k] = IF k < p THEN s[k] ELSE IF k = p THEN e ELSE s[k - 1]
      BY <1>1, <1>2, InsertedIs
<1>6. Len(s) \in Nat
      OBVIOUS
<1>7. ASSUME NEW y \in Type PROVE HasIrq(r, y) <=> HasIrq(s, y) \/ y = x
  <2>1. ASSUME NEW i \in 1 .. Len(r), r[i].type = y PROVE HasIrq(s, y) \/ y = x
    <3>1. CASE i < p
          BY <1>4, <1>5, <1>6, <2>1, <3>1 DEF HasIrq
    <3>2. CASE i = p
          BY <1>1, <1>4, <1>5, <1>6, <2>1, <3>2
    <3>3. CASE i > p
      <4>1. i - 1 \in 1 .. Len(s) /\ r[i] = s[i - 1]
            BY <1>4, <1>5, <1>6, <3>3
      <4> QED BY <2>1, <4>1 DEF HasIrq
    <3> QED BY <1>5, <1>6, <1>4, <3>1, <3>2, <3>3
  <2>2. ASSUME NEW i \in 1 .. Len(s), s[i].type = y PROVE HasIrq(r, y)
    <3>1. CASE i < p
      <4>1. i \in 1 .. Len(r) /\ r[i] = s[i]
            BY <1>4, <1>5, <1>6, <3>1
      <4> QED BY <2>2, <4>1 DEF HasIrq
    <3>2. CASE i >= p
      <4>1. i + 1 \in 1 .. Len(r) /\ r[i + 1] = s[i]
            BY <1>4, <1>5, <1>6, <3>2
      <4> QED BY <2>2, <4>1 DEF HasIrq
    <3> QED BY <1>5, <1>6, <3>1, <3>2
  <2>3. ASSUME y = x PROVE HasIrq(r, y)
    <3>1. p \in 1 .. Len(r) /\ r[p] = e
          BY <1>4, <1>5, <1>6
    <3> QED BY <1>1, <2>3, <3>1 DEF HasIrq
  <2> QED BY <2>1, <2>2, <2>3 DEF HasIrq
<1>8. ASSUME NEW y \in Type, Once(s, y), y = x => ~HasIrq(s, y) PROVE Once(r, y)
  <2> DEFINE from(i) == IF i < p THEN i ELSE i - 1
  <2>1. ASSUME NEW i \in 1 .. Len(r), r[i].type = y, y # x
        PROVE  i # p /\ from(i) \in 1 .. Len(s) /\ s[from(i)].type = y
    <3>1. i # p
          BY <1>1, <1>4, <1>5, <2>1
    <3> QED BY <1>4, <1>5, <1>6, <2>1, <3>1
  <2>2. ASSUME NEW i \in 1 .. Len(r), r[i].type = y, y = x PROVE i = p
    <3>1. CASE i < p
          BY <1>4, <1>5, <1>6, <1>8, <2>2, <3>1 DEF HasIrq
    <3>2. CASE i > p
      <4>1. i - 1 \in 1 .. Len(s) /\ r[i] = s[i - 1]
            BY <1>4, <1>5, <1>6, <3>2
      <4> QED BY <1>8, <2>2, <4>1 DEF HasIrq
    <3> QED BY <1>4, <1>5, <1>6, <3>1, <3>2
  <2>3. ASSUME NEW i \in 1 .. Len(r), NEW j \in 1 .. Len(r), r[i].type = y, r[j].type = y
        PROVE  i = j
    <3>1. CASE y = x
          BY <2>2, <2>3, <3>1
    <3>2. CASE y # x
      <4>1. i # p /\ j # p /\ from(i) \in 1 .. Len(s) /\ from(j) \in 1 .. Len(s)
            /\ s[from(i)].type = y /\ s[from(j)].type = y
            BY <2>1, <2>3, <3>2
      <4>2. from(i) = from(j)
            BY <1>8, <4>1 DEF Once
      <4> QED BY <1>4, <1>5, <1>6, <4>1, <4>2
    <3> QED BY <3>1, <3>2
  <2> QED BY <2>3 DEF Once
<1> QED BY <1>3, <1>4, <1>7, <1>8 DEF OneMore

LEMMA AdvancedIs ==
    ASSUME NEW s \in Seq(Irq), NEW d \in Int
    PROVE  Advanced(s, d) \in Seq(Irq) /\ SameIrqs(s, Advanced(s, d))
<1> DEFINE r == Advanced(s, d)
           later(i) == [s[i] EXCEPT !.in = @ - d]
<1>1. Len(s) \in Nat /\ DOMAIN s = 1 .. Len(s) /\ \A i \in 1 .. Len(s) : s[i] \in Irq
      OBVIOUS
<1>2. r = [i \in 1 .. Len(s) |-> later(i)]
      BY <1>1 DEF Advanced
<1>3. ASSUME NEW i \in 1 .. Len(s) PROVE later(i) \in Irq /\ later(i).type = s[i].type
      BY <1>1 DEF Irq
<1> HIDE DEF r, later
<1>4. r \in Seq(Irq) /\ Len(r) = Len(s) /\ \A i \in 1 .. Len(s) : r[i].type = s[i].type
      BY <1>1, <1>2, <1>3
<1>5. SameIrqs(s, r)
      BY <1>4 DEF SameIrqs, HasIrq, Once
<1> QED BY <1>4, <1>5 DEF r

LEMMA TailIs ==
    ASSUME NEW s \in Seq(Irq), s # <<>>
    PROVE  /\ Head(s) \in Irq /\ Tail(s) \in Seq(Irq)
           /\ HasIrq(s, Head(s).type) /\ OneLess(s, Tail(s), Head(s).type)
<1> DEFINE h == Head(s)
           r == Tail(s)
<1>1. Len(s) \in Nat /\ Len(s) > 0 /\ h = s[1] /\ h \in Irq
      BY EmptySeq
<1>2. r \in Seq(Irq) /\ Len(r) = Len(s) - 1 /\ \A i \in 1 .. Len(r) : r[i] = s[i + 1]
      BY HeadTailProperties
<1> HIDE DEF h, r
<1>3. HasIrq(s, h.type)
      BY <1>1 DEF HasIrq
<1>4. ASSUME NEW y \in Type, Once(s, y) PROVE Once(r, y)
  <2>1. ASSUME NEW i \in 1 .. Len(r), NEW j \in 1 .. Len(r), r[i].type = y, r[j].type = y PROVE i = j
    <3>1. i + 1 \in 1 .. Len(s) /\ j + 1 \in 1 .. Len(s) /\ s[i + 1].type = y /\ s[j + 1].type = y
          BY <1>1, <1>2, <2>1
    <3>2. i + 1 = j + 1
          BY <1>4, <3>1 DEF Once
    <3> QED BY <3>2
  <2> QED BY <2>1 DEF Once
<1>5. ASSUME NEW y \in Type, Once(s, y), HasIrq(r, y) PROVE HasIrq(s, y) /\ y # h.type
  <2>1. PICK i \in 1 .. Len(r) : r[i].type = y
        BY <1>5 DEF HasIrq
  <2>2. i + 1 \in 1 .. Len(s) /\ s[i + 1].type = y /\ 1 \in 1 .. Len(s) /\ i + 1 # 1
        BY <1>1, <1>2, <2>1
  <2>3. HasIrq(s, y)
        BY <2>2 DEF HasIrq
  <2>4. s[1].type # y
        BY <1>5, <2>2 DEF Once
  <2> QED BY <1>1, <2>3, <2>4
<1>6. ASSUME NEW y \in Type, HasIrq(s, y), y # h.type PROVE HasIrq(r, y)
  <2>1. PICK i \in 1 .. Len(s) : s[i].type = y
        BY <1>6 DEF HasIrq
  <2>2. i # 1
        BY <1>1, <1>6, <2>1
  <2>3. i - 1 \in 1 .. Len(r) /\ r[i - 1] = s[i]
        BY <1>1, <1>2, <2>2
  <2> QED BY <2>1, <2>3 DEF HasIrq
<1>7. OneLess(s, r, h.type)
      BY <1>4, <1>5, <1>6 DEF OneLess
<1> QED BY <1>1, <1>2, <1>3, <1>7 DEF h, r

-----------------------------------------------------------------------------
(* The inductive invariant.  A driver's lock belongs to the one thread     *)
(* between its Acquire and its Release, so a device has at most one        *)
(* request, and that request is where its interrupt is: pending, or turned *)
(* into a unit of the driver's semaphore.                                  *)

TypesAre ==
    /\ pending \in Seq(Irq) /\ phase \in Nat /\ lastSector \in Nat
    /\ mode \in {"run", "due", "idle", "idleDue", "halted"}
    /\ active \in BOOLEAN /\ putBusy \in BOOLEAN /\ eofTyped \in BOOLEAN
    /\ pc \in [Thread -> {"ready", "acquire", "request", "wait", "release", "done"}]
    /\ op \in [Thread -> Driver \cup {"none"}]
    /\ lock \in [Driver -> Thread \cup {NoThread}]
    /\ sem \in [Driver -> Nat]

CallsAreKnown == \A t \in Thread : pc[t] \notin {"ready", "done"} <=> op[t] \in Driver

LocksAreHeld ==
    /\ \A t \in Thread : pc[t] \in {"request", "wait", "release"} => lock[op[t]] = t
    /\ \A d \in Driver : lock[d] # NoThread =>
         op[lock[d]] = d /\ pc[lock[d]] \in {"request", "wait", "release"}

IrqsAreSingle == \A y \in Type : Once(pending, y)

PollsGoOn == \A t \in Thread : op[t] \in {"put", "get"} => HasIrq(pending, "CONSOLE_READ")

Waits(d) == \E t \in Thread : op[t] = d /\ pc[t] = "wait"

Served(d, busy, y) ==
    /\ busy <=> HasIrq(pending, y)
    /\ busy => sem[d] = 0
    /\ sem[d] <= 1
    /\ busy \/ sem[d] = 1 <=> Waits(d)

RequestsAreServed == Served("disk", active, "DISK") /\ Served("put", putBusy, "CONSOLE_WRITE")

Reads == \E t \in Thread : op[t] = "get" /\ pc[t] = "request"

CharIsOwed ==
    ~eofTyped => sem["get"] + (IF Reads THEN 1 ELSE 0) = IF incoming = EOF THEN 0 ELSE 1

StopsAreRight == (mode = "idle" => \A t \in Thread : Blocked(t)) /\ HaltsWhenAllAreDone

DevInv ==
    /\ TypesAre /\ CallsAreKnown /\ LocksAreHeld /\ IrqsAreSingle /\ PollsGoOn
    /\ RequestsAreServed /\ CharIsOwed /\ StopsAreRight

LEMMA EmptyIs ==
    /\ <<>> \in Seq(Irq)
    /\ \A y \in Type : ~HasIrq(<<>>, y) /\ Once(<<>>, y)
BY DEF HasIrq, Once

LEMMA DevInit == Init => DevInv
<1> SUFFICES ASSUME Init PROVE DevInv
    OBVIOUS
<1>1. TIMER_TICKS \in Int /\ CONSOLE_TIME \in Int
      BY DevicesAssumption DEF DevicesAssumption
<1>2. PICK timer \in BOOLEAN, console \in BOOLEAN :
         pending = LET t == IF timer THEN TimerExpired(<<>>) ELSE <<>>
                   IN  IF console THEN Scheduled(t, "CONSOLE_READ", CONSOLE_TIME) ELSE t
      BY DEF Init
<1> DEFINE u == IF timer THEN TimerExpired(<<>>) ELSE <<>>
<1>3. /\ u \in Seq(Irq)
      /\ \A y \in Type : Once(u, y) /\ (y # "TIMER" => ~HasIrq(u, y))
  <2>1. CASE timer
    <3>1. u \in Seq(Irq) /\ OneMore(<<>>, u, "TIMER")
          BY <1>1, <2>1, EmptyIs, ScheduledIs DEF TimerExpired, Type
    <3> QED BY <3>1, EmptyIs DEF OneMore
  <2>2. CASE ~timer
        BY <2>2, EmptyIs
  <2> QED BY <2>1, <2>2
<1>4. /\ pending \in Seq(Irq)
      /\ \A y \in Type : Once(pending, y) /\ (y \in {"DISK", "CONSOLE_WRITE"} => ~HasIrq(pending, y))
  <2> HIDE DEF u
  <2>1. CASE console
    <3>1. pending = Scheduled(u, "CONSOLE_READ", CONSOLE_TIME)
          BY <1>2, <2>1 DEF u
    <3>2. pending \in Seq(Irq) /\ OneMore(u, pending, "CONSOLE_READ")
          BY <1>1, <1>3, <3>1, ScheduledIs DEF Type
    <3> QED BY <1>3, <3>2 DEF OneMore, Type
  <2>2. CASE ~console
    <3>1. pending = u
          BY <1>2, <2>2 DEF u
    <3> QED BY <1>3, <3>1
  <2> QED BY <2>1, <2>2
<1>5. TypesAre
      BY <1>4 DEF Init, TypesAre
<1>6. CallsAreKnown /\ LocksAreHeld /\ PollsGoOn
      BY DEF Init, CallsAreKnown, LocksAreHeld, PollsGoOn, Driver
<1>7. IrqsAreSingle
      BY <1>4 DEF IrqsAreSingle
<1>8. ~HasIrq(pending, "DISK") /\ ~HasIrq(pending, "CONSOLE_WRITE")
      BY <1>4 DEF Type
<1>9. RequestsAreServed
      BY <1>8 DEF Init, RequestsAreServed, Served, Waits, Driver
<1>10. CharIsOwed
      BY DEF Init, CharIsOwed, Reads, Driver
<1>11. StopsAreRight
      BY DEF Init, StopsAreRight, HaltsWhenAllAreDone
<1> QED BY <1>5, <1>6, <1>7, <1>9, <1>10, <1>11 DEF DevInv

-----------------------------------------------------------------------------
(* The steps of a thread. *)

LEMMA CallKeeps ==
    ASSUME DevInv, NEW t \in Thread, NEW d \in Driver, Call(t, d)
    PROVE  DevInv'
<1>1. TypesAre'
      BY DEF DevInv, TypesAre, CallsAreKnown, Call, Step, Console, HasIrq, clockVars, diskVars, consVars
<1>2. CallsAreKnown'
      BY DEF DevInv, TypesAre, CallsAreKnown, Call, Step, Console, HasIrq, clockVars, diskVars, consVars, Driver
<1>3. LocksAreHeld'
      BY DevicesAssumption DEF DevInv, TypesAre, CallsAreKnown, LocksAreHeld, Call, Step, Console, HasIrq, clockVars, diskVars, consVars, DevicesAssumption, Driver
<1>4. IrqsAreSingle' /\ PollsGoOn'
      BY DEF DevInv, TypesAre, CallsAreKnown, IrqsAreSingle, PollsGoOn, Call, Step, Console, HasIrq, clockVars, diskVars, consVars, Driver
<1>5. RequestsAreServed'
      BY DEF DevInv, TypesAre, CallsAreKnown, LocksAreHeld, RequestsAreServed, Served, Waits, Call, Step, Console, HasIrq, clockVars, diskVars, consVars, Driver
<1>6. CharIsOwed'
      BY DEF DevInv, TypesAre, CallsAreKnown, LocksAreHeld, CharIsOwed, Reads, Call, Step, Console, HasIrq, clockVars, diskVars, consVars, Driver
<1>7. StopsAreRight'
      BY DEF DevInv, TypesAre, StopsAreRight, HaltsWhenAllAreDone, Call, Step, Console, HasIrq, clockVars, diskVars, consVars
<1> QED BY <1>1, <1>2, <1>3, <1>4, <1>5, <1>6, <1>7 DEF DevInv

LEMMA AcquireKeeps ==
    ASSUME DevInv, NEW t \in Thread, Acquire(t)
    PROVE  DevInv'
<1>1. TypesAre'
      BY DEF DevInv, TypesAre, CallsAreKnown, Acquire, Step, clockVars, diskVars, consVars
<1>2. CallsAreKnown'
      BY DEF DevInv, TypesAre, CallsAreKnown, Acquire, Step, clockVars, diskVars, consVars, Driver
<1>3. LocksAreHeld'
      BY DevicesAssumption DEF DevInv, TypesAre, CallsAreKnown, LocksAreHeld, Acquire, Step, clockVars, diskVars, consVars, DevicesAssumption, Driver
<1>4. IrqsAreSingle' /\ PollsGoOn'
      BY DEF DevInv, TypesAre, CallsAreKnown, IrqsAreSingle, PollsGoOn, Acquire, Step, clockVars, diskVars, consVars, Driver
<1>5. RequestsAreServed'
      BY DEF DevInv, TypesAre, CallsAreKnown, LocksAreHeld, RequestsAreServed, Served, Waits, Acquire, Step, clockVars, diskVars, consVars, Driver
<1>6. CharIsOwed'
      BY DEF DevInv, TypesAre, CallsAreKnown, LocksAreHeld, CharIsOwed, Reads, Acquire, Step, clockVars, diskVars, consVars, Driver
<1>7. StopsAreRight'
      BY DEF DevInv, TypesAre, StopsAreRight, HaltsWhenAllAreDone, Acquire, Step, clockVars, diskVars, consVars
<1> QED BY <1>1, <1>2, <1>3, <1>4, <1>5, <1>6, <1>7 DEF DevInv

LEMMA GetCharKeeps ==
    ASSUME DevInv, NEW t \in Thread, GetChar(t)
    PROVE  DevInv'
<1>1. TypesAre'
      BY DEF DevInv, TypesAre, CallsAreKnown, GetChar, Step, clockVars, diskVars
<1>2. CallsAreKnown'
      BY DEF DevInv, TypesAre, CallsAreKnown, GetChar, Step, clockVars, diskVars, Driver
<1>3. LocksAreHeld'
      BY DevicesAssumption DEF DevInv, TypesAre, CallsAreKnown, LocksAreHeld, GetChar, Step, clockVars, diskVars, DevicesAssumption, Driver
<1>4. IrqsAreSingle' /\ PollsGoOn'
      BY DEF DevInv, TypesAre, CallsAreKnown, IrqsAreSingle, PollsGoOn, GetChar, Step, clockVars, diskVars, Driver
<1>5. RequestsAreServed'
      BY DEF DevInv, TypesAre, CallsAreKnown, LocksAreHeld, RequestsAreServed, Served, Waits, GetChar, Step, clockVars, diskVars, Driver
<1>6. CharIsOwed'
      BY DEF DevInv, TypesAre, CallsAreKnown, LocksAreHeld, CharIsOwed, Reads, GetChar, Step, clockVars, diskVars, Driver
<1>7. StopsAreRight'
      BY DEF DevInv, TypesAre, StopsAreRight, HaltsWhenAllAreDone, GetChar, Step, clockVars, diskVars
<1> QED BY <1>1, <1>2, <1>3, <1>4, <1>5, <1>6, <1>7 DEF DevInv

LEMMA WaitKeeps ==
    ASSUME DevInv, NEW t \in Thread, Wait(t)
    PROVE  DevInv'
<1>1. TypesAre'
      BY DEF DevInv, TypesAre, CallsAreKnown, Wait, Step, clockVars, diskVars, consVars
<1>2. CallsAreKnown'
      BY DEF DevInv, TypesAre, CallsAreKnown, Wait, Step, clockVars, diskVars, consVars, Driver
<1>3. LocksAreHeld'
      BY DevicesAssumption DEF DevInv, TypesAre, CallsAreKnown, LocksAreHeld, Wait, Step, clockVars, diskVars, consVars, DevicesAssumption, Driver
<1>4. IrqsAreSingle' /\ PollsGoOn'
      BY DEF DevInv, TypesAre, CallsAreKnown, IrqsAreSingle, PollsGoOn, Wait, Step, clockVars, diskVars, consVars, Driver
<1>5. RequestsAreServed'
      BY DEF DevInv, TypesAre, CallsAreKnown, LocksAreHeld, RequestsAreServed, Served, Waits, Wait, Step, clockVars, diskVars, consVars, Driver
<1>6. CharIsOwed'
      BY DEF DevInv, TypesAre, CallsAreKnown, LocksAreHeld, CharIsOwed, Reads, Wait, Step, clockVars, diskVars, consVars, Driver
<1>7. StopsAreRight'
      BY DEF DevInv, TypesAre, StopsAreRight, HaltsWhenAllAreDone, Wait, Step, clockVars, diskVars, consVars
<1> QED BY <1>1, <1>2, <1>3, <1>4, <1>5, <1>6, <1>7 DEF DevInv

LEMMA ReleaseKeeps ==
    ASSUME DevInv, NEW t \in Thread, Release(t)
    PROVE  DevInv'
<1>1. TypesAre'
      BY DEF DevInv, TypesAre, CallsAreKnown, Release, Step, clockVars, diskVars, consVars
<1>2. CallsAreKnown'
      BY DEF DevInv, TypesAre, CallsAreKnown, Release, Step, clockVars, diskVars, consVars, Driver
<1>3. LocksAreHeld'
      BY DevicesAssumption DEF DevInv, TypesAre, CallsAreKnown, LocksAreHeld, Release, Step, clockVars, diskVars, consVars, DevicesAssumption, Driver
<1>4. IrqsAreSingle' /\ PollsGoOn'
      BY DEF DevInv, TypesAre, CallsAreKnown, IrqsAreSingle, PollsGoOn, Release, Step, clockVars, diskVars, consVars, Driver
<1>5. RequestsAreServed'
      BY DEF DevInv, TypesAre, CallsAreKnown, LocksAreHeld, RequestsAreServed, Served, Waits, Release, Step, clockVars, diskVars, consVars, Driver
<1>6. CharIsOwed'
      BY DEF DevInv, TypesAre, CallsAreKnown, LocksAreHeld, CharIsOwed, Reads, Release, Step, clockVars, diskVars, consVars, Driver
<1>7. StopsAreRight'
      BY DEF DevInv, TypesAre, StopsAreRight, HaltsWhenAllAreDone, Release, Step, clockVars, diskVars, consVars
<1> QED BY <1>1, <1>2, <1>3, <1>4, <1>5, <1>6, <1>7 DEF DevInv

LEMMA FinishKeeps ==
    ASSUME DevInv, NEW t \in Thread, Finish(t)
    PROVE  DevInv'
<1>1. TypesAre'
      BY DEF DevInv, TypesAre, CallsAreKnown, Finish, Step, clockVars, diskVars, consVars
<1>2. CallsAreKnown'
      BY DEF DevInv, TypesAre, CallsAreKnown, Finish, Step, clockVars, diskVars, consVars, Driver
<1>3. LocksAreHeld'
      BY DevicesAssumption DEF DevInv, TypesAre, CallsAreKnown, LocksAreHeld, Finish, Step, clockVars, diskVars, consVars, DevicesAssumption, Driver
<1>4. IrqsAreSingle' /\ PollsGoOn'
      BY DEF DevInv, TypesAre, CallsAreKnown, IrqsAreSingle, PollsGoOn, Finish, Step, clockVars, diskVars, consVars, Driver
<1>5. RequestsAreServed'
      BY DEF DevInv, TypesAre, CallsAreKnown, LocksAreHeld, RequestsAreServed, Served, Waits, Finish, Step, clockVars, diskVars, consVars, Driver
<1>6. CharIsOwed'
      BY DEF DevInv, TypesAre, CallsAreKnown, LocksAreHeld, CharIsOwed, Reads, Finish, Step, clockVars, diskVars, consVars, Driver
<1>7. StopsAreRight'
      BY DEF DevInv, TypesAre, StopsAreRight, HaltsWhenAllAreDone, Finish, Step, clockVars, diskVars, consVars
<1> QED BY <1>1, <1>2, <1>3, <1>4, <1>5, <1>6, <1>7 DEF DevInv

LEMMA DiskRequestKeeps ==
    ASSUME DevInv, NEW t \in Thread, NEW s \in Sector, NEW writing \in BOOLEAN, DiskRequest(t, s, writing)
    PROVE  DevInv'
<1>1. s \in Nat /\ ComputeLatency(s, writing) \in Int
      BY DevicesAssumption, LatencyType DEF DevInv, TypesAre, Sector, DevicesAssumption
<1>2. pending' \in Seq(Irq) /\ OneMore(pending, pending', "DISK")
      BY <1>1, ScheduledIs DEF DevInv, TypesAre, DiskRequest, UpdateLast, Step, consVars, Type
<1>3. /\ ~HasIrq(pending, "DISK") /\ HasIrq(pending', "DISK")
      /\ \A y \in Type : (y # "DISK" => (HasIrq(pending', y) <=> HasIrq(pending, y))) /\ Once(pending', y)
      BY <1>2 DEF DevInv, TypesAre, RequestsAreServed, Served, IrqsAreSingle, OneMore, DiskRequest, UpdateLast, Step, consVars, Type
<1>4. TypesAre'
      BY <1>1, <1>2 DEF DevInv, TypesAre, DiskRequest, UpdateLast, Step, consVars
<1>5. CallsAreKnown'
      BY DEF DevInv, TypesAre, CallsAreKnown, DiskRequest, UpdateLast, Step, consVars, Driver
<1>6. LocksAreHeld'
      BY DEF DevInv, TypesAre, CallsAreKnown, LocksAreHeld, DiskRequest, UpdateLast, Step, consVars, Driver
<1>7. IrqsAreSingle' /\ PollsGoOn'
      BY <1>3 DEF DevInv, IrqsAreSingle, PollsGoOn, DiskRequest, UpdateLast, Step, consVars, Type
<1>8. RequestsAreServed'
  <2>1. t \in Thread /\ pc[t] = "request" /\ pc'[t] = "wait" /\ op' = op
        BY DEF DevInv, TypesAre, DiskRequest, UpdateLast, Step, consVars
  <2>2. ASSUME NEW d \in Driver PROVE Waits(d)' <=> Waits(d) \/ d = op[t]
        BY DEF DevInv, TypesAre, Waits, DiskRequest, UpdateLast, Step, consVars
  <2>3. ~Waits(op[t])
        BY <2>1 DEF DevInv, TypesAre, CallsAreKnown, LocksAreHeld, Waits
  <2> QED BY <1>3, <2>1, <2>2, <2>3 DEF DevInv, TypesAre, RequestsAreServed, Served, DiskRequest, UpdateLast, Step, consVars, Driver, Type
<1>9. CharIsOwed'
      BY DEF DevInv, TypesAre, CharIsOwed, Reads, DiskRequest, UpdateLast, Step, consVars, Driver
<1>10. StopsAreRight'
      BY DEF DevInv, TypesAre, StopsAreRight, HaltsWhenAllAreDone, DiskRequest, UpdateLast, Step, consVars
<1> QED BY <1>4, <1>5, <1>6, <1>7, <1>8, <1>9, <1>10 DEF DevInv

LEMMA PutCharKeeps ==
    ASSUME DevInv, NEW t \in Thread, PutChar(t)
    PROVE  DevInv'
<1>1. CONSOLE_TIME \in Int
      BY DevicesAssumption DEF DevicesAssumption
<1>2. pending' \in Seq(Irq) /\ OneMore(pending, pending', "CONSOLE_WRITE")
      BY <1>1, ScheduledIs DEF DevInv, TypesAre, PutChar, Step, diskVars, Type
<1>3. /\ ~HasIrq(pending, "CONSOLE_WRITE") /\ HasIrq(pending', "CONSOLE_WRITE")
      /\ \A y \in Type : (y # "CONSOLE_WRITE" => (HasIrq(pending', y) <=> HasIrq(pending, y))) /\ Once(pending', y)
      BY <1>2 DEF DevInv, TypesAre, RequestsAreServed, Served, IrqsAreSingle, OneMore, PutChar, Step, diskVars, Type
<1>4. TypesAre'
      BY <1>1, <1>2 DEF DevInv, TypesAre, PutChar, Step, diskVars
<1>5. CallsAreKnown'
      BY DEF DevInv, TypesAre, CallsAreKnown, PutChar, Step, diskVars, Driver
<1>6. LocksAreHeld'
      BY DEF DevInv, TypesAre, CallsAreKnown, LocksAreHeld, PutChar, Step, diskVars, Driver
<1>7. IrqsAreSingle' /\ PollsGoOn'
      BY <1>3 DEF DevInv, IrqsAreSingle, PollsGoOn, PutChar, Step, diskVars, Type
<1>8. RequestsAreServed'
  <2>1. t \in Thread /\ pc[t] = "request" /\ pc'[t] = "wait" /\ op' = op
        BY DEF DevInv, TypesAre, PutChar, Step, diskVars
  <2>2. ASSUME NEW d \in Driver PROVE Waits(d)' <=> Waits(d) \/ d = op[t]
        BY DEF DevInv, TypesAre, Waits, PutChar, Step, diskVars
  <2>3. ~Waits(op[t])
        BY <2>1 DEF DevInv, TypesAre, CallsAreKnown, LocksAreHeld, Waits
  <2> QED BY <1>3, <2>1, <2>2, <2>3 DEF DevInv, TypesAre, RequestsAreServed, Served, PutChar, Step, diskVars, Driver, Type
<1>9. CharIsOwed'
      BY DEF DevInv, TypesAre, CharIsOwed, Reads, PutChar, Step, diskVars, Driver
<1>10. StopsAreRight'
      BY DEF DevInv, TypesAre, StopsAreRight, HaltsWhenAllAreDone, PutChar, Step, diskVars
<1> QED BY <1>4, <1>5, <1>6, <1>7, <1>8, <1>9, <1>10 DEF DevInv

-----------------------------------------------------------------------------
(* The steps of the clock. *)

(* Interrupts come and go; what the threads wait for does not change. *)
LEMMA OneTickKeeps ==
    ASSUME DevInv, OneTick
    PROVE  DevInv'
<1>1. SYSTEM_TICK \in Int
      BY DevicesAssumption DEF DevicesAssumption
<1>2. pending' \in Seq(Irq) /\ SameIrqs(pending, pending')
      BY <1>1, AdvancedIs DEF DevInv, TypesAre, OneTick
<1>3. \A y \in Type : (HasIrq(pending', y) <=> HasIrq(pending, y)) /\ Once(pending', y)
      BY <1>2 DEF DevInv, IrqsAreSingle, SameIrqs
<1>4. phase' \in Nat
      BY <1>1, PhaseType DEF DevInv, TypesAre, OneTick, Pass
<1>5. TypesAre'
      BY <1>2, <1>4 DEF DevInv, TypesAre, OneTick, consVars, drvVars
<1>6. CallsAreKnown' /\ LocksAreHeld'
      BY DEF DevInv, CallsAreKnown, LocksAreHeld, OneTick, drvVars
<1>7. IrqsAreSingle' /\ PollsGoOn'
      BY <1>3 DEF DevInv, IrqsAreSingle, PollsGoOn, OneTick, drvVars, Type
<1>8. RequestsAreServed'
      BY <1>3 DEF DevInv, RequestsAreServed, Served, Waits, OneTick, consVars, drvVars, Type
<1>9. CharIsOwed'
      BY DEF DevInv, CharIsOwed, Reads, OneTick, consVars, drvVars
<1>10. StopsAreRight'
      BY DEF DevInv, StopsAreRight, HaltsWhenAllAreDone, OneTick, drvVars
<1> QED BY <1>5, <1>6, <1>7, <1>8, <1>9, <1>10 DEF DevInv

LEMMA IdleKeeps ==
    ASSUME DevInv, Idle
    PROVE  DevInv'
<1>1. TypesAre' /\ CallsAreKnown' /\ LocksAreHeld' /\ IrqsAreSingle' /\ PollsGoOn'
      BY DEF DevInv, TypesAre, CallsAreKnown, LocksAreHeld, IrqsAreSingle, PollsGoOn,
             Idle, diskVars, consVars, drvVars
<1>2. RequestsAreServed' /\ CharIsOwed'
      BY DEF DevInv, RequestsAreServed, Served, Waits, CharIsOwed, Reads, Idle, diskVars, consVars, drvVars
<1>3. StopsAreRight'
      BY DEF DevInv, StopsAreRight, HaltsWhenAllAreDone, Blocked, Idle, drvVars
<1> QED BY <1>1, <1>2, <1>3 DEF DevInv

(* If every thread is blocked and one has not finished, then some thread   *)
(* waits for a device, and something other than the timer is pending.      *)
LEMMA WaiterHasInterrupt ==
    ASSUME DevInv, \A t \in Thread : Blocked(t), NEW t \in Thread, pc[t] # "done"
    PROVE  \E y \in Type : y # "TIMER" /\ HasIrq(pending, y)
<1>1. PICK d \in Driver : d = op[t]
      BY DEF DevInv, CallsAreKnown, Blocked
<1>2. PICK h \in Thread : op[h] = d /\ pc[h] = "wait" /\ sem[d] = 0
  <2>1. CASE pc[t] = "acquire"
    <3>1. lock[d] # NoThread /\ lock[d] \in Thread
          BY <1>1, <2>1 DEF Blocked, DevInv, TypesAre
    <3>2. op[lock[d]] = d /\ pc[lock[d]] \in {"request", "wait", "release"}
          BY <3>1 DEF DevInv, LocksAreHeld
    <3>3. Blocked(lock[d])
          BY <3>1
    <3> QED BY <3>1, <3>2, <3>3 DEF Blocked
  <2>2. CASE pc[t] = "wait"
        BY <1>1, <2>2 DEF Blocked
  <2> QED BY <2>1, <2>2 DEF Blocked
<1>3. CASE d = "disk"
      BY <1>2, <1>3 DEF DevInv, RequestsAreServed, Served, Waits, Type
<1>4. CASE d \in {"put", "get"}
      BY <1>2, <1>4 DEF DevInv, PollsGoOn, Type
<1> QED BY <1>3, <1>4 DEF Driver

LEMMA NothingDueKeeps ==
    ASSUME DevInv, NothingDue
    PROVE  DevInv'
<1>1. TypesAre' /\ CallsAreKnown' /\ LocksAreHeld' /\ IrqsAreSingle' /\ PollsGoOn'
      BY DEF DevInv, TypesAre, CallsAreKnown, LocksAreHeld, IrqsAreSingle, PollsGoOn,
             NothingDue, diskVars, consVars, drvVars
<1>2. RequestsAreServed' /\ CharIsOwed'
      BY DEF DevInv, RequestsAreServed, Served, Waits, CharIsOwed, Reads, NothingDue, diskVars, consVars, drvVars
<1>3. ASSUME mode = "idle", NEW t \in Thread PROVE pc[t] = "done"
  <2>1. SUFFICES ASSUME pc[t] # "done" PROVE FALSE
        OBVIOUS
  <2>2. \A u \in Thread : Blocked(u)
        BY <1>3 DEF DevInv, StopsAreRight
  <2>3. PICK y \in Type : y # "TIMER" /\ HasIrq(pending, y)
        BY <2>1, <2>2, WaiterHasInterrupt
  <2>4. PICK i \in 1 .. Len(pending) : pending[i].type = y
        BY <2>3 DEF HasIrq
  <2>5. pending \in Seq(Irq) /\ Len(pending) \in Nat /\ Len(pending) > 0
        BY <2>4 DEF DevInv, TypesAre
  <2>6. pending # <<>> /\ Head(pending) = pending[1]
        BY <2>5
  <2>7. OnlyTimer
        BY <1>3, <2>6 DEF NothingDue, Fires
  <2> QED BY <2>3, <2>4, <2>5, <2>6, <2>7 DEF OnlyTimer
<1>4. StopsAreRight'
      BY <1>3 DEF DevInv, StopsAreRight, HaltsWhenAllAreDone, NothingDue, drvVars
<1> QED BY <1>1, <1>2, <1>4 DEF DevInv

(* What a handler leaves pending, r, and what it does with the driver.  h  *)
(* is the type of the interrupt that fired.                                *)
Gone(s, r, h) == \A y \in Type : Once(r, y) /\ (HasIrq(r, y) <=> HasIrq(s, y) /\ y # h)

Kept(s, r) == \A y \in Type : Once(r, y) /\ (HasIrq(r, y) <=> HasIrq(s, y))

LEMMA FiredIs ==
    ASSUME DevInv, pending # <<>>, NEW d \in Int
    PROVE  LET rest == Advanced(Tail(pending), d)
               h    == Head(pending)
           IN  /\ h \in Irq /\ HasIrq(pending, h.type)
               /\ rest \in Seq(Irq) /\ Gone(pending, rest, h.type)
<1>1. /\ Head(pending) \in Irq /\ Tail(pending) \in Seq(Irq)
      /\ HasIrq(pending, Head(pending).type) /\ OneLess(pending, Tail(pending), Head(pending).type)
      BY TailIs DEF DevInv, TypesAre
<1>2. /\ Advanced(Tail(pending), d) \in Seq(Irq)
      /\ SameIrqs(Tail(pending), Advanced(Tail(pending), d))
      BY <1>1, AdvancedIs
<1>3. Gone(pending, Advanced(Tail(pending), d), Head(pending).type)
      BY <1>1, <1>2 DEF DevInv, IrqsAreSingle, OneLess, SameIrqs, Gone
<1> QED BY <1>1, <1>2, <1>3

(* A handler that schedules its next interrupt keeps the list as it was. *)
LEMMA Rescheduled ==
    ASSUME NEW s, NEW r \in Seq(Irq), NEW h \in Type, NEW n \in Int,
           HasIrq(s, h), Gone(s, r, h)
    PROVE  Scheduled(r, h, n) \in Seq(Irq) /\ Kept(s, Scheduled(r, h, n))
<1>1. Scheduled(r, h, n) \in Seq(Irq) /\ OneMore(r, Scheduled(r, h, n), h)
      BY ScheduledIs
<1>2. Kept(s, Scheduled(r, h, n))
      BY <1>1 DEF OneMore, Gone, Kept
<1> QED BY <1>1, <1>2

(* The conjuncts that only the handlers' state matters to. *)
HandledInv ==
    /\ IrqsAreSingle /\ PollsGoOn /\ RequestsAreServed /\ CharIsOwed
    /\ sem \in [Driver -> Nat] /\ pending \in Seq(Irq)
    /\ active \in BOOLEAN /\ putBusy \in BOOLEAN /\ eofTyped \in BOOLEAN

LEMMA HandleKeeps ==
    ASSUME DevInv, NEW rest \in Seq(Irq), NEW h \in Type, HasIrq(pending, h), Gone(pending, rest, h),
           Handle(h, rest)
    PROVE  HandledInv' /\ pc' = pc /\ op' = op /\ lock' = lock
<1>1. CONSOLE_TIME \in Int /\ TIMER_TICKS \in Int
      BY DevicesAssumption DEF DevicesAssumption
<1>2. CASE /\ h = "TIMER"
           /\ pending' = TimerExpired(rest)
           /\ UNCHANGED <<active, consVars, drvVars>>
  <2>1. pending' \in Seq(Irq) /\ Kept(pending, pending')
        BY <1>1, <1>2, Rescheduled DEF TimerExpired
  <2>2. IrqsAreSingle' /\ PollsGoOn' /\ RequestsAreServed'
        BY <1>2, <2>1 DEF DevInv, Kept, IrqsAreSingle, PollsGoOn, RequestsAreServed, Served, Waits,
                          consVars, drvVars, Type
  <2>3. CharIsOwed'
        BY <1>2 DEF DevInv, CharIsOwed, Reads, consVars, drvVars
  <2> QED BY <1>2, <2>1, <2>2, <2>3 DEF HandledInv, DevInv, TypesAre, consVars, drvVars
<1>3. CASE /\ h = "DISK"
           /\ active' = FALSE /\ V("disk") /\ pending' = rest
           /\ UNCHANGED <<consVars, pc, op, lock>>
  <2>1. /\ sem' \in [Driver -> Nat] /\ sem'["disk"] = sem["disk"] + 1
        /\ sem'["put"] = sem["put"] /\ sem'["get"] = sem["get"] /\ sem["disk"] \in Nat
        BY <1>3 DEF V, DevInv, TypesAre, Driver
  <2>2. IrqsAreSingle' /\ PollsGoOn'
        BY <1>3 DEF DevInv, Gone, IrqsAreSingle, PollsGoOn, Type
  <2>3. RequestsAreServed'
        BY <1>3, <2>1 DEF DevInv, TypesAre, Gone, RequestsAreServed, Served, Waits, consVars, Type
  <2>4. CharIsOwed'
        BY <1>3, <2>1 DEF DevInv, CharIsOwed, Reads, consVars
  <2> QED BY <1>3, <2>1, <2>2, <2>3, <2>4 DEF HandledInv, DevInv, TypesAre, consVars
<1>4. CASE /\ h = "CONSOLE_WRITE"
           /\ putBusy' = FALSE /\ V("put") /\ pending' = rest
           /\ UNCHANGED <<active, incoming, eofTyped, pc, op, lock>>
  <2>1. /\ sem' \in [Driver -> Nat] /\ sem'["put"] = sem["put"] + 1
        /\ sem'["disk"] = sem["disk"] /\ sem'["get"] = sem["get"] /\ sem["put"] \in Nat
        BY <1>4 DEF V, DevInv, TypesAre, Driver
  <2>2. IrqsAreSingle' /\ PollsGoOn'
        BY <1>4 DEF DevInv, Gone, IrqsAreSingle, PollsGoOn, Type
  <2>3. RequestsAreServed'
        BY <1>4, <2>1 DEF DevInv, TypesAre, Gone, RequestsAreServed, Served, Waits, Type
  <2>4. CharIsOwed'
        BY <1>4, <2>1 DEF DevInv, CharIsOwed, Reads
  <2> QED BY <1>4, <2>1, <2>2, <2>3, <2>4 DEF HandledInv, DevInv, TypesAre
<1>5. CASE /\ h = "CONSOLE_READ"
           /\ pending' = Scheduled(rest, "CONSOLE_READ", CONSOLE_TIME)
           /\ UNCHANGED <<active, consVars, drvVars>>
  <2>1. pending' \in Seq(Irq) /\ Kept(pending, pending')
        BY <1>1, <1>5, Rescheduled
  <2>2. IrqsAreSingle' /\ PollsGoOn' /\ RequestsAreServed'
        BY <1>5, <2>1 DEF DevInv, Kept, IrqsAreSingle, PollsGoOn, RequestsAreServed, Served, Waits,
                          consVars, drvVars, Type
  <2>3. CharIsOwed'
        BY <1>5 DEF DevInv, CharIsOwed, Reads, consVars, drvVars
  <2> QED BY <1>5, <2>1, <2>2, <2>3 DEF HandledInv, DevInv, TypesAre, consVars, drvVars
<1>6. CASE /\ h = "CONSOLE_READ" /\ incoming = EOF
           /\ sem["get"] < MaxUnread
           /\ pending' = Scheduled(rest, "CONSOLE_READ", CONSOLE_TIME)
           /\ \E c \in Char \cup {EOF} : incoming' = c /\ eofTyped' = (eofTyped \/ c = EOF)
           /\ V("get")
           /\ UNCHANGED <<active, putBusy, pc, op, lock>>
  <2>1. pending' \in Seq(Irq) /\ Kept(pending, pending')
        BY <1>1, <1>6, Rescheduled
  <2>2. /\ sem' \in [Driver -> Nat] /\ sem'["get"] = sem["get"] + 1
        /\ sem'["disk"] = sem["disk"] /\ sem'["put"] = sem["put"] /\ sem["get"] \in Nat
        BY <1>6 DEF V, DevInv, TypesAre, Driver
  <2>3. IrqsAreSingle' /\ PollsGoOn'
        BY <1>6, <2>1 DEF DevInv, Kept, IrqsAreSingle, PollsGoOn, Type
  <2>4. RequestsAreServed'
        BY <1>6, <2>1, <2>2 DEF DevInv, Kept, RequestsAreServed, Served, Waits, Type
  <2>5. eofTyped' \in BOOLEAN /\ (~eofTyped' => ~eofTyped /\ incoming' # EOF)
        BY <1>6 DEF DevInv, TypesAre
  <2>6. CharIsOwed'
    <3>1. Reads' <=> Reads
          BY <1>6 DEF Reads
    <3> QED BY <1>6, <2>2, <2>5, <3>1 DEF DevInv, CharIsOwed
  <2> QED BY <1>6, <2>1, <2>2, <2>3, <2>4, <2>5, <2>6 DEF HandledInv, DevInv, TypesAre
<1> QED BY <1>2, <1>3, <1>4, <1>5, <1>6 DEF Handle

LEMMA CheckIfDueKeeps ==
    ASSUME DevInv, CheckIfDue
    PROVE  DevInv'
<1> DEFINE first   == Head(pending)
           advance == IF mode = "idle" /\ first.in > 0 THEN first.in ELSE 0
           rest    == Advanced(Tail(pending), advance)
<1>1. /\ pending # <<>> /\ mode \in {"due", "idle", "idleDue"}
      /\ Handle(first.type, rest) /\ Pass(advance) /\ lastSector' = lastSector
      /\ mode' = IF mode = "due" THEN "due" ELSE "idleDue"
      BY DEF CheckIfDue, Fires
<1>2. first \in Irq /\ first.type \in Type /\ advance \in Int
  <2>1. first \in Irq
        BY <1>1, TailIs DEF DevInv, TypesAre
  <2> HIDE DEF first
  <2>2. first.type \in Type /\ first.in \in Int
        BY <2>1 DEF Irq
  <2> QED BY <2>1, <2>2
<1>3. HasIrq(pending, first.type) /\ rest \in Seq(Irq) /\ Gone(pending, rest, first.type)
      BY <1>1, <1>2, FiredIs
<1> HIDE DEF first, advance, rest
<1>4. HandledInv' /\ pc' = pc /\ op' = op /\ lock' = lock
      BY <1>1, <1>2, <1>3, HandleKeeps
<1>5. phase' \in Nat
      BY <1>1, <1>2, PhaseType DEF Pass, DevInv, TypesAre
<1>6. TypesAre'
      BY <1>1, <1>4, <1>5 DEF DevInv, TypesAre, HandledInv
<1>7. CallsAreKnown' /\ LocksAreHeld'
      BY <1>4 DEF DevInv, CallsAreKnown, LocksAreHeld
<1>8. StopsAreRight'
      BY <1>1 DEF StopsAreRight, HaltsWhenAllAreDone
<1> QED BY <1>4, <1>6, <1>7, <1>8 DEF DevInv, HandledInv

LEMMA StutterKeeps ==
    ASSUME DevInv, UNCHANGED vars
    PROVE  DevInv'
<1>1. /\ UNCHANGED <<pending, mode, phase, lastSector, active, putBusy, incoming, eofTyped>>
      /\ UNCHANGED <<pc, op, lock, sem>>
      BY DEF vars, clockVars, diskVars, consVars, drvVars
<1>2. TypesAre' /\ CallsAreKnown' /\ LocksAreHeld' /\ IrqsAreSingle' /\ PollsGoOn'
      BY <1>1 DEF DevInv, TypesAre, CallsAreKnown, LocksAreHeld, IrqsAreSingle, PollsGoOn
<1>3. RequestsAreServed' /\ CharIsOwed' /\ StopsAreRight'
      BY <1>1 DEF DevInv, RequestsAreServed, Served, Waits, CharIsOwed, Reads, StopsAreRight,
                  HaltsWhenAllAreDone, Blocked
<1> QED BY <1>2, <1>3 DEF DevInv

LEMMA DevNext == DevInv /\ [Next]_vars => DevInv'
<1> SUFFICES ASSUME DevInv, [Next]_vars PROVE DevInv'
    OBVIOUS
<1>1. CASE OneTick \/ Idle \/ CheckIfDue \/ NothingDue
      BY <1>1, OneTickKeeps, IdleKeeps, CheckIfDueKeeps, NothingDueKeeps
<1>2. ASSUME NEW t \in Thread, ThreadStep(t) PROVE DevInv'
      BY <1>2, AcquireKeeps, PutCharKeeps, GetCharKeeps, WaitKeeps, ReleaseKeeps, DiskRequestKeeps
      DEF ThreadStep
<1>3. ASSUME NEW t \in Thread, Finish(t) \/ \E d \in Driver : Call(t, d) PROVE DevInv'
      BY <1>3, FinishKeeps, CallKeeps
<1>4. CASE UNCHANGED vars
      BY <1>4, StutterKeeps
<1> QED BY <1>1, <1>2, <1>3, <1>4 DEF Next

LEMMA DevHolds == Spec => []DevInv
BY DevInit, DevNext, PTL DEF Spec

-----------------------------------------------------------------------------
(* No request finds its device busy, and none returns before its own       *)
(* interrupt (the ASSERTs of disk.cc and console.cc), for any number of    *)
(* threads.                                                                *)
THEOREM RequestsFindTheDeviceFree == Spec => []DriversWaitForInterrupt
<1>1. DevInv => DriversWaitForInterrupt
  <2> SUFFICES ASSUME DevInv, NEW t \in Thread, pc[t] \in {"request", "release"},
                      NEW d \in {"disk", "put"}, op[t] = d, IF d = "disk" THEN active ELSE putBusy
               PROVE  FALSE
      BY DEF DriversWaitForInterrupt
  <2>1. PICK u \in Thread : op[u] = d /\ pc[u] = "wait"
        BY DEF DevInv, RequestsAreServed, Served, Waits
  <2>2. lock[d] = t /\ lock[d] = u
        BY <2>1 DEF DevInv, LocksAreHeld
  <2> QED BY <2>1, <2>2
<1> QED BY <1>1, DevHolds, PTL

(* The machine never halts with a thread that still waits for a device,    *)
(* with any set of interrupts pending (Interrupt::Idle).                   *)
THEOREM HaltLeavesNobody == Spec => []HaltsWhenAllAreDone
<1>1. DevInv => HaltsWhenAllAreDone
      BY DEF DevInv, StopsAreRight
<1> QED BY <1>1, DevHolds, PTL

(* As long as nobody types the byte that looks like EOF, every character   *)
(* that arrives is fetched exactly once (Console::CheckCharAvail and       *)
(* GetChar under SynchConsole's readAvail), with any number of readers.    *)
THEOREM CharsAreReadOnce == Spec => []EveryCharIsReadOnce
<1>1. DevInv => EveryCharIsReadOnce
  <2> SUFFICES ASSUME DevInv, ~eofTyped
               PROVE  sem["get"] + Cardinality({t \in Thread : op[t] = "get" /\ pc[t] = "request"})
                        = IF incoming = EOF THEN 0 ELSE 1
      BY DEF EveryCharIsReadOnce
  <2> DEFINE R == {t \in Thread : op[t] = "get" /\ pc[t] = "request"}
  <2>1. \A t \in R : t = lock["get"]
        BY DEF DevInv, LocksAreHeld
  <2>2. CASE Reads
    <3>1. R = {lock["get"]}
          BY <2>1, <2>2 DEF Reads
    <3>2. Cardinality(R) = 1
          BY <3>1, FS_Singleton
    <3> QED BY <2>2, <3>2 DEF DevInv, CharIsOwed
  <2>3. CASE ~Reads
    <3>1. R = {}
          BY <2>3 DEF Reads
    <3>2. Cardinality(R) = 0
          BY <3>1, FS_EmptySet
    <3> QED BY <2>3, <3>2 DEF DevInv, CharIsOwed
  <2> QED BY <2>2, <2>3
<1> QED BY <1>1, DevHolds, PTL

(* Whatever the geometry of the disk, wherever the head is and at whatever *)
(* time, a write ends when its sector has just passed, on the first pass   *)
(* after the seek (Disk::ComputeLatency).                                  *)
THEOREM LatenciesAreExact == Spec => []LatencyIsExact
<1>1. DevInv => LatencyIsExact
  <2> SUFFICES ASSUME DevInv, NEW s \in Sector
               PROVE  LET end == phase + ComputeLatency(s, TRUE)
                      IN  /\ end % ROTATION_TIME = 0
                          /\ (end \div ROTATION_TIME - 1) % SECTORS_PER_TRACK = s % SECTORS_PER_TRACK
                          /\ end - phase < SeekTime(s) + Period + ROTATION_TIME
      BY DEF LatencyIsExact
  <2>1. s \in Nat /\ phase \in Nat /\ lastSector \in Nat
        BY DevicesAssumption DEF Sector, DevicesAssumption, DevInv, TypesAre
  <2> QED BY <2>1, WriteLatency
<1> QED BY <1>1, DevHolds, PTL

=============================================================================
