------------------------- MODULE FileSystemProofs -------------------------
(***************************************************************************)
(* Proofs about FileSystem.tla for any number of threads, names and        *)
(* sectors, files and requests of any size.                                *)
(***************************************************************************)
EXTENDS FileSystem, TLAPS, FiniteSetTheorems, SequenceTheorems, WellFoundedInduction

-----------------------------------------------------------------------------
(* Numbers. *)

LEMMA DivMod ==
    ASSUME NEW a \in Int, NEW b \in Nat, b > 0
    PROVE  /\ a \div b \in Int /\ a % b \in Nat /\ a % b < b
           /\ a = b * (a \div b) + (a % b)
OBVIOUS

LEMMA DivModUnique ==
    ASSUME NEW b \in Nat, b > 0, NEW q \in Int, NEW r \in Nat, r < b
    PROVE  (b * q + r) \div b = q /\ (b * q + r) % b = r
OBVIOUS

LEMMA DivBounds ==
    ASSUME NEW a \in Int, NEW b \in Nat, b > 0
    PROVE  /\ a \div b \in Int /\ b * (a \div b) \in Int
           /\ b * (a \div b) <= a /\ a < b * (a \div b) + b
           /\ a % b = a - b * (a \div b) /\ a % b \in Nat /\ a % b < b
BY DivMod

LEMMA DivMonotone ==
    ASSUME NEW a \in Int, NEW c \in Int, a <= c, NEW b \in Nat, b > 0
    PROVE  a \div b <= c \div b
<1>1. PICK q \in Int, x \in Nat : q = a \div b /\ x < b /\ a = b * q + x
      BY DivMod
<1>2. PICK t \in Int, y \in Nat : t = c \div b /\ y < b /\ c = b * t + y
      BY DivMod
<1>3. SUFFICES ASSUME t + 1 <= q PROVE FALSE
      BY <1>1, <1>2
<1>4. b * (t + 1) <= b * q /\ b * (t + 1) = b * t + b /\ b * t \in Int /\ b * q \in Int
      BY <1>3
<1> QED BY <1>1, <1>2, <1>4

LEMMA DivNat ==
    ASSUME NEW a \in Nat, NEW b \in Nat, b > 0
    PROVE  a \div b \in Nat
<1>1. 0 \div b = 0
  <2>1. (b * 0 + 0) \div b = 0
        BY DivModUnique
  <2> QED BY <2>1
<1>2. 0 \div b <= a \div b
      BY DivMonotone
<1> QED BY <1>1, <1>2, DivMod

(* Division f blocks further on. *)
LEMMA DivShift ==
    ASSUME NEW a \in Int, NEW b \in Nat, b > 0, NEW f \in Int
    PROVE  (b * f + a) \div b = f + (a \div b) /\ (b * f + a) % b = a % b
<1>1. PICK q \in Int, x \in Nat : q = a \div b /\ x = a % b /\ x < b /\ a = b * q + x
      BY DivMod
<1>2. b * f + a = b * (f + q) + x /\ f + q \in Int
      BY <1>1
<1>3. (b * (f + q) + x) \div b = f + q /\ (b * (f + q) + x) % b = x
      BY <1>1, <1>2, DivModUnique
<1> QED BY <1>1, <1>2, <1>3

(* A file of m bytes has a block for each of its bytes. *)
LEMMA BlockExists ==
    ASSUME NEW b \in Nat, b > 0, NEW m \in Nat, NEW x \in Nat, x < m
    PROVE  x \div b + 1 <= DivRoundUp(m, b)
<1>1. (b * 1 + x) \div b = 1 + (x \div b)
      BY DivShift
<1>2. (b * 1 + x) \div b <= (m + b - 1) \div b
      BY DivMonotone
<1>3. x \div b \in Int /\ (m + b - 1) \div b \in Int
      BY DivMod
<1> QED BY <1>1, <1>2, <1>3 DEF DivRoundUp

(* A non-empty set of naturals has a least element. *)
LEMMA LeastIn ==
    ASSUME NEW T \in SUBSET Nat, T # {}
    PROVE  \E n \in T : \A k \in T : n <= k
<1>1. PICK n \in T : \A k \in T : ~(<<k, n>> \in OpToRel(<, Nat))
      BY NatLessThanWellFounded, WFMin
<1>2. ASSUME NEW k \in T PROVE n <= k
  <2>1. k \in Nat /\ n \in Nat /\ ~(k < n)
        BY <1>1 DEF OpToRel
  <2> QED BY <2>1
<1> QED BY <1>2

(* The elements of S up to f: how many there are is the place of f in S.   *)
UpTo(S, f) == {g \in S : g <= f}

LEMMA BelowIsFinite ==
    ASSUME NEW n \in Nat, NEW S \in SUBSET (0 .. n - 1)
    PROVE  /\ IsFiniteSet(S) /\ Cardinality(S) \in Nat
           /\ \A x \in S : x \in Nat /\ x < n
<1>1. IsFiniteSet(0 .. n - 1)
      BY FS_Interval
<1>2. IsFiniteSet(S)
      BY <1>1, FS_Subset
<1>3. Cardinality(S) \in Nat
      BY <1>2, FS_CardinalityType
<1>4. \A x \in S : x \in 0 .. n - 1
      OBVIOUS
<1> QED BY <1>2, <1>3, <1>4

LEMMA UpToIsFinite ==
    ASSUME NEW n \in Nat, NEW S \in SUBSET (0 .. n - 1), NEW f
    PROVE  IsFiniteSet(UpTo(S, f)) /\ Cardinality(UpTo(S, f)) \in Nat
<1>1. IsFiniteSet(S)
      BY BelowIsFinite
<1>2. IsFiniteSet(UpTo(S, f))
      BY <1>1, FS_Subset DEF UpTo
<1> QED BY <1>2, FS_CardinalityType

(* Bitmap::Find finds the k-th clear sector when there are k of them.      *)
LEMMA KthExists ==
    ASSUME NEW n \in Nat, NEW S \in SUBSET (0 .. n - 1), NEW k \in 1 .. Cardinality(S)
    PROVE  \E f \in S : Cardinality(UpTo(S, f)) = k
<1>a. Cardinality(S) \in Nat /\ \A x \in S : x \in Nat /\ x < n
      BY BelowIsFinite
<1>0. k \in Nat /\ k >= 1 /\ k <= Cardinality(S)
      BY <1>a
<1> DEFINE T == {f \in Nat : Cardinality(UpTo(S, f)) >= k}
<1>1. n \in T
  <2>1. UpTo(S, n) = S
    <3>1. \A g \in S : g <= n
          BY <1>a
    <3> QED BY <3>1, Zenon DEF UpTo
  <2> QED BY <1>0, <2>1
<1>2. PICK f \in T : \A g \in T : f <= g
      BY <1>1, LeastIn
<1>3. f \in Nat /\ Cardinality(UpTo(S, f)) >= k
      BY <1>2
<1> DEFINE B == {g \in S : g < f}
<1>4. IsFiniteSet(B) /\ Cardinality(B) \in Nat /\ Cardinality(B) < k
  <2>1. CASE f = 0
    <3>1. B = {}
      <4>1. \A g \in S : ~(g < f)
            BY <1>a, <2>1
      <4> QED BY <4>1, Zenon
    <3> QED BY <1>0, <3>1, FS_EmptySet
  <2>2. CASE f # 0
    <3>1. f - 1 \in Nat /\ f - 1 \notin T
          BY <1>2, <1>3, <2>2
    <3>2. B = UpTo(S, f - 1)
      <4>1. \A g \in S : g < f <=> g <= f - 1
            BY <1>a, <1>3
      <4> QED BY <4>1, Zenon DEF UpTo
    <3>3. IsFiniteSet(B) /\ Cardinality(B) \in Nat
          BY <3>2, UpToIsFinite
    <3> QED BY <1>0, <3>1, <3>2, <3>3
  <2> QED BY <2>1, <2>2
<1>5. f \in S
  <2>1. SUFFICES ASSUME f \notin S PROVE FALSE
        OBVIOUS
  <2>2. UpTo(S, f) = B
    <3>1. \A g \in S : g <= f <=> g < f
          BY <1>a, <1>3, <2>1
    <3> QED BY <3>1 DEF UpTo
  <2> QED BY <1>0, <1>3, <1>4, <2>2
<1>6. Cardinality(UpTo(S, f)) = Cardinality(B) + 1
  <2>1. UpTo(S, f) = B \cup {f} /\ f \notin B
    <3>1. \A g \in S : g <= f <=> g < f \/ g = f
          BY <1>a, <1>3
    <3>2. ~(f < f)
          BY <1>3
    <3> QED BY <1>5, <3>1, <3>2, Zenon DEF UpTo
  <2> QED BY <1>4, <2>1, FS_AddElement
<1>7. Cardinality(UpTo(S, f)) = k
      BY <1>0, <1>3, <1>4, <1>6
<1> QED BY <1>5, <1>7

-----------------------------------------------------------------------------
(* The directory and the free map as lists to search. *)

LEMMA ConstantTypes ==
    /\ NUM_SECTORS \in Nat /\ NUM_SECTORS >= 4
    /\ SECTOR_SIZE \in Nat /\ SECTOR_SIZE > 0
    /\ NUM_DIR_ENTRIES \in Nat /\ NUM_DIRECT \in Nat /\ MAX_OPEN \in Nat
BY FileSystemAssumption DEF FileSystemAssumption

(* FindIndex gives an entry with the name, or 0 if there is none. *)
LEMMA FindIndexIs ==
    ASSUME directory \in Seq([name : Name \cup {NoName}, sector : Sector]), NEW name
    PROVE  /\ FindIndex(name) # 0 =>
                 FindIndex(name) \in DOMAIN directory /\ directory[FindIndex(name)].name = name
           /\ FindIndex(name) = 0 => \A i \in DOMAIN directory : directory[i].name # name
<1> DEFINE I == {i \in 1 .. Len(directory) : directory[i].name = name}
<1>1. FindIndex(name) = IF I # {} THEN Min(I) ELSE 0
      BY DEF FindIndex, SelectInSeq
<1>2. DOMAIN directory = 1 .. Len(directory) /\ Len(directory) \in Nat
      OBVIOUS
<1>3. CASE I = {}
      BY <1>1, <1>2, <1>3
<1>4. CASE I # {}
  <2>1. I \in SUBSET Nat
        BY <1>2
  <2>2. \E n \in I : \A k \in I : n <= k
        BY <1>4, <2>1, LeastIn
  <2>3. Min(I) = CHOOSE n \in I : \A k \in I : n <= k
        BY DEF Min
  <2>4. Min(I) \in I
        BY <2>2, <2>3
  <2> QED BY <1>1, <1>2, <1>4, <2>4
<1> QED BY <1>3, <1>4

(* The sectors that Create takes from the map are clear, and different.    *)
LEMMA FindIs ==
    ASSUME freeMap \in SUBSET Sector, NEW n \in Nat, Cardinality(Clear) >= n
    PROVE  /\ \A k \in 1 .. n : Find(k) \in Clear
           /\ \A k, l \in 1 .. n : Find(k) = Find(l) => k = l
<1> DEFINE S == Clear
<1>1. NUM_SECTORS \in Nat /\ S \in SUBSET (0 .. NUM_SECTORS - 1)
      BY ConstantTypes DEF Clear, Sector
<1>2. ASSUME NEW k \in 1 .. n
      PROVE  Find(k) \in S /\ Cardinality(UpTo(S, Find(k))) = k
  <2>1. Cardinality(S) \in Nat
        BY <1>1, BelowIsFinite
  <2>2. k \in 1 .. Cardinality(S)
        BY <2>1
  <2>3. \E f \in S : Cardinality(UpTo(S, f)) = k
        BY <1>1, <2>2, KthExists
  <2>4. Find(k) = CHOOSE f \in S : Cardinality(UpTo(S, f)) = k
        BY DEF Find, UpTo
  <2> QED BY <2>3, <2>4
<1>3. ASSUME NEW k \in 1 .. n, NEW l \in 1 .. n, Find(k) = Find(l)
      PROVE  k = l
  <2>1. /\ Cardinality(UpTo(S, Find(k))) = k
        /\ Cardinality(UpTo(S, Find(l))) = l
        BY <1>2
  <2> QED BY <1>3, <2>1
<1> QED BY <1>2, <1>3

-----------------------------------------------------------------------------
(* Transfers. *)

(* The condition under which no file has as many sectors as Check forbids. *)
SmallFiles == NUM_DIRECT > 1 /\ \A size \in FileSize : DivRoundUp(size, SECTOR_SIZE) < NUM_DIRECT

HeaderOk(h) ==
    /\ SmallFiles => Len(h.dataSectors) < NUM_DIRECT
    /\ h.numBytes \in Nat /\ h.dataSectors \in Seq(Sector)
    /\ Len(h.dataSectors) = DivRoundUp(h.numBytes, SECTOR_SIZE)

DistinctSectors(h) ==
    \A i, j \in 1 .. Len(h.dataSectors) : h.dataSectors[i] = h.dataSectors[j] => i = j

(* Byte x of the file with header h. *)
ByteOf(d, h, x) == Bytes(d[h.dataSectors[x \div SECTOR_SIZE + 1]])[(x % SECTOR_SIZE) + 1]

(* The blocks that a transfer of n bytes at position p touches. *)
Spans(h, p, n, f, l) ==
    /\ f \in Nat /\ l \in Nat /\ f <= l /\ l + 1 <= Len(h.dataSectors)
    /\ SECTOR_SIZE * f <= p /\ p < SECTOR_SIZE * f + SECTOR_SIZE
    /\ SECTOR_SIZE * l < p + n /\ p + n <= SECTOR_SIZE * l + SECTOR_SIZE

LEMMA SpansIs ==
    ASSUME NEW h, HeaderOk(h), NEW p \in Nat, NEW n \in Nat, n > 0, p + n <= h.numBytes
    PROVE  Spans(h, p, n, p \div SECTOR_SIZE, (p + n - 1) \div SECTOR_SIZE)
<1>1. PICK b \in Nat : b = SECTOR_SIZE /\ b > 0
      BY ConstantTypes
<1>2. PICK f : f = p \div b
      OBVIOUS
<1>3. PICK l : l = (p + n - 1) \div b
      OBVIOUS
<1>4. p + n - 1 \in Nat /\ p <= p + n - 1
      OBVIOUS
<1>5. f \in Nat /\ l \in Nat /\ f <= l
      BY <1>1, <1>2, <1>3, <1>4, DivNat, DivMonotone
<1>6. h.numBytes \in Nat /\ p + n - 1 < h.numBytes
      BY DEF HeaderOk
<1>7. l + 1 <= Len(h.dataSectors)
  <2>1. (p + n - 1) \div b + 1 <= DivRoundUp(h.numBytes, b)
        BY <1>1, <1>4, <1>6, BlockExists
  <2> QED BY <1>1, <1>3, <2>1 DEF HeaderOk
<1>8. b * f <= p /\ p < b * f + b
      BY <1>1, <1>2, DivBounds
<1>9. b * l \in Int /\ b * l <= p + n - 1 /\ p + n - 1 < b * l + b
      BY <1>1, <1>3, <1>4, DivBounds
<1>10. b * l < p + n /\ p + n <= b * l + b
      BY <1>9, <1>1
<1> QED BY <1>1, <1>2, <1>3, <1>5, <1>7, <1>8, <1>10 DEF Spans

(* What ServedIs says of the number of bytes that are transferred. *)
LEMMA ServedIs ==
    ASSUME NEW h, h.numBytes \in Nat, NEW p \in Nat, p < h.numBytes, NEW m \in Nat, m > 0
    PROVE  /\ Served(h, m, p) \in Nat /\ Served(h, m, p) > 0 /\ p + Served(h, m, p) <= h.numBytes
           /\ Served(h, m, p) <= m
           /\ p + Served(h, m, p) = Least(p + m, h.numBytes)
BY DEF Served, Least

(* The buffer holds the bytes of its blocks, in order. *)
LEMMA BufferIs ==
    ASSUME NEW h, NEW f \in Nat, NEW l \in Nat,
           NEW k \in 0 .. (l - f + 1) * SECTOR_SIZE - 1
    PROVE  Buffer(h, f, l)[k] = ByteOf(disk, h, SECTOR_SIZE * f + k)
<1>1. PICK b \in Nat : b = SECTOR_SIZE /\ b > 0
      BY ConstantTypes
<1>2. k \in Int
      BY <1>1
<1>3. (b * f + k) \div b = f + (k \div b) /\ (b * f + k) % b = k % b
      BY <1>1, <1>2, DivShift
<1>4. Buffer(h, f, l)[k] = Bytes(disk[h.dataSectors[f + k \div SECTOR_SIZE + 1]])[(k % SECTOR_SIZE) + 1]
      BY DEF Buffer
<1> QED BY <1>1, <1>3, <1>4 DEF ByteOf

(* Place k of a buffer that starts at block f. *)
LEMMA PlaceInBuffer ==
    ASSUME NEW f \in Nat, NEW l \in Nat, NEW x \in Int, f <= l,
           SECTOR_SIZE * f <= x, x < SECTOR_SIZE * l + SECTOR_SIZE
    PROVE  x - SECTOR_SIZE * f \in 0 .. (l - f + 1) * SECTOR_SIZE - 1
<1>1. PICK b \in Nat : b = SECTOR_SIZE /\ b > 0
      BY ConstantTypes
<1>2. (l - f + 1) * b = b * l + b - b * f /\ b * l \in Int /\ b * f \in Int
      BY <1>1
<1> QED BY <1>1, <1>2

LEMMA ContentIs ==
    ASSUME NEW d, NEW h
    PROVE  Content(d, h) = [k \in 1 .. h.numBytes |-> ByteOf(d, h, k - 1)]
BY DEF Content, ByteOf

LEMMA ReadAtIs ==
    ASSUME NEW h, HeaderOk(h), NEW p \in Nat, p < h.numBytes, NEW m \in Nat, m > 0
    PROVE  ReadAt(h, m, p) = [k \in 1 .. Served(h, m, p) |-> ByteOf(disk, h, p + k - 1)]
<1>1. PICK n \in Nat : n = Served(h, m, p) /\ n > 0 /\ p + n <= h.numBytes
      BY ServedIs DEF HeaderOk
<1>2. PICK f : f = p \div SECTOR_SIZE
      OBVIOUS
<1>3. PICK l : l = (p + n - 1) \div SECTOR_SIZE
      OBVIOUS
<1>4. Spans(h, p, n, f, l)
      BY <1>1, <1>2, <1>3, SpansIs
<1>5. PICK b \in Nat : b = SECTOR_SIZE /\ b > 0
      BY ConstantTypes
<1>6. PICK o \in Int : o = b * f /\ o = f * SECTOR_SIZE
      BY <1>4, <1>5 DEF Spans
<1>7. ASSUME NEW k \in 1 .. n
      PROVE  Buffer(h, f, l)[p - f * SECTOR_SIZE + k - 1] = ByteOf(disk, h, p + k - 1)
  <2>1. PICK x \in Int : x = p + k - 1 /\ p <= x /\ x < p + n
        BY <1>1
  <2>2. x - o \in 0 .. (l - f + 1) * SECTOR_SIZE - 1
    <3>1. f \in Nat /\ l \in Nat /\ f <= l /\ b * f <= x /\ x < b * l + b
          BY <1>4, <1>5, <2>1 DEF Spans
    <3> QED BY <1>5, <1>6, <3>1, PlaceInBuffer
  <2>3. Buffer(h, f, l)[x - o] = ByteOf(disk, h, SECTOR_SIZE * f + (x - o))
        BY <1>4, <2>2, BufferIs DEF Spans
  <2>4. SECTOR_SIZE * f + (x - o) = x /\ x - o = p - f * SECTOR_SIZE + k - 1
        BY <1>5, <1>6, <2>1
  <2> QED BY <2>1, <2>3, <2>4
<1>8. h.numBytes \in Nat /\ ~(p >= h.numBytes)
      BY DEF HeaderOk
<1>9. ReadAt(h, m, p) = [k \in 1 .. n |-> Buffer(h, f, l)[p - f * SECTOR_SIZE + k - 1]]
      BY <1>1, <1>2, <1>3, <1>8 DEF ReadAt
<1> QED BY <1>1, <1>7, <1>9

(* The buffer that WriteAt writes: ones from p on, around them what was    *)
(* read.                                                                   *)
KeepsOld(h, p, n, f, l, k) ==
    LET firstAligned == p = f * SECTOR_SIZE
        lastAligned  == p + n = (l + 1) * SECTOR_SIZE
        s == f + k \div SECTOR_SIZE
    IN  /\ (s = f /\ ~firstAligned) \/ (s = l /\ LastIsRead(f, l, firstAligned, lastAligned))
        /\ (s * SECTOR_SIZE) + (k % SECTOR_SIZE) < h.numBytes

Mixed(h, p, n, f, l) ==
    [k \in 0 .. (l - f + 1) * SECTOR_SIZE - 1 |->
        IF p - f * SECTOR_SIZE <= k /\ k < p - f * SECTOR_SIZE + n THEN 1
        ELSE IF KeepsOld(h, p, n, f, l, k) THEN Buffer(h, f, l)[k] ELSE 2]

Written(h, p, n, f, l) ==
    [s \in Sector |->
        IF \E i \in f .. l : h.dataSectors[i + 1] = s
        THEN LET i == CHOOSE i \in f .. l : h.dataSectors[i + 1] = s
             IN  Data([k \in 1 .. SECTOR_SIZE |-> Mixed(h, p, n, f, l)[(i - f) * SECTOR_SIZE + k - 1]])
        ELSE disk[s]]

LEMMA WriteAtForm ==
    ASSUME NEW h, NEW m, NEW p
    PROVE  WriteAt(h, m, p) = Written(h, p, Served(h, m, p), p \div SECTOR_SIZE,
                                      (p + Served(h, m, p) - 1) \div SECTOR_SIZE)
BY DEF WriteAt, Written, Mixed, KeepsOld

LEMMA WrittenIs ==
    ASSUME NEW h, HeaderOk(h), DistinctSectors(h), NEW p, NEW n, NEW f, NEW l, Spans(h, p, n, f, l)
    PROVE  /\ \A i \in f .. l :
                 Written(h, p, n, f, l)[h.dataSectors[i + 1]] =
                   Data([k \in 1 .. SECTOR_SIZE |-> Mixed(h, p, n, f, l)[(i - f) * SECTOR_SIZE + k - 1]])
           /\ \A s \in Sector : (\A i \in f .. l : h.dataSectors[i + 1] # s) =>
                 Written(h, p, n, f, l)[s] = disk[s]
<1>1. f \in Nat /\ l \in Nat /\ l + 1 <= Len(h.dataSectors) /\ Len(h.dataSectors) \in Nat
      BY DEF Spans, HeaderOk
<1>2. ASSUME NEW i \in f .. l
      PROVE  Written(h, p, n, f, l)[h.dataSectors[i + 1]] =
               Data([k \in 1 .. SECTOR_SIZE |-> Mixed(h, p, n, f, l)[(i - f) * SECTOR_SIZE + k - 1]])
  <2>1. h.dataSectors[i + 1] \in Sector
        BY <1>1 DEF HeaderOk
  <2>2. (CHOOSE j \in f .. l : h.dataSectors[j + 1] = h.dataSectors[i + 1]) = i
    <3>1. ASSUME NEW j \in f .. l, h.dataSectors[j + 1] = h.dataSectors[i + 1] PROVE j = i
      <4>1. j + 1 \in 1 .. Len(h.dataSectors) /\ i + 1 \in 1 .. Len(h.dataSectors)
            BY <1>1
      <4>2. j + 1 = i + 1
            BY <3>1, <4>1 DEF DistinctSectors
      <4> QED BY <1>1, <4>2
    <3> QED BY <3>1
  <2> QED BY <2>1, <2>2 DEF Written
<1>3. ASSUME NEW s \in Sector, \A i \in f .. l : h.dataSectors[i + 1] # s
      PROVE  Written(h, p, n, f, l)[s] = disk[s]
      BY <1>3 DEF Written
<1> QED BY <1>2, <1>3

(* Place x - SECTOR_SIZE * f of the buffer, for a byte x of the file. *)
LEMMA MixedIs ==
    ASSUME NEW h, HeaderOk(h), NEW p \in Nat, NEW n \in Nat, NEW f, NEW l, Spans(h, p, n, f, l),
           NEW x \in Nat, x < h.numBytes, SECTOR_SIZE * f <= x, x < SECTOR_SIZE * l + SECTOR_SIZE
    PROVE  Mixed(h, p, n, f, l)[x - SECTOR_SIZE * f] =
             IF p <= x /\ x < p + n THEN 1 ELSE ByteOf(disk, h, x)
<1>1. PICK b \in Nat : b = SECTOR_SIZE /\ b > 0
      BY ConstantTypes
<1>2. f \in Nat /\ l \in Nat /\ f <= l
      BY DEF Spans
<1>3. PICK o \in Int : o = b * f /\ o = f * SECTOR_SIZE /\ o = SECTOR_SIZE * f
      BY <1>1, <1>2
<1>4. PICK e \in Int : e = b * l /\ e = SECTOR_SIZE * l /\ e + b = (l + 1) * SECTOR_SIZE
      BY <1>1, <1>2
<1>5. o <= p /\ p < o + b /\ e < p + n /\ p + n <= e + b /\ o <= x /\ x < e + b
      BY <1>1, <1>3, <1>4 DEF Spans
<1>6. PICK k \in Int : k = x - o
      OBVIOUS
<1>7. k \in 0 .. (l - f + 1) * SECTOR_SIZE - 1
      BY <1>2, <1>3, <1>6, PlaceInBuffer
<1>8. Buffer(h, f, l)[k] = ByteOf(disk, h, x)
  <2>1. SECTOR_SIZE * f + k = x
        BY <1>3, <1>6
  <2> QED BY <1>2, <1>7, <2>1, BufferIs
<1>9. PICK q \in Int : q = x \div b /\ b * q \in Int /\ b * q <= x /\ x < b * q + b /\ x % b = x - b * q
      BY <1>1, DivBounds
<1>10. f + (k \div b) = q /\ k % b = x % b
  <2>1. b * f + k = x
        BY <1>3, <1>6
  <2> QED BY <1>1, <1>2, <1>9, <2>1, DivShift
<1>11. ASSUME ~(p <= x /\ x < p + n) PROVE KeepsOld(h, p, n, f, l, k)
  <2>1. (q * SECTOR_SIZE) + (k % SECTOR_SIZE) < h.numBytes
    <3>1. q * SECTOR_SIZE = b * q
          BY <1>1, <1>9
    <3>2. b * q + (x % b) = x
          BY <1>9
    <3> QED BY <1>1, <1>10, <3>1, <3>2
  <2>2. CASE x < p
    <3>1. q = f
      <4>1. x - o \in Nat /\ x - o < b /\ x = b * f + (x - o)
            BY <1>3, <1>5, <2>2
      <4>2. (b * f + (x - o)) \div b = f
            BY <1>1, <1>2, <4>1, DivModUnique
      <4> QED BY <1>9, <4>1, <4>2
    <3>2. p # f * SECTOR_SIZE
          BY <1>3, <1>5, <2>2
    <3> QED BY <1>1, <1>10, <2>1, <3>1, <3>2 DEF KeepsOld
  <2>3. CASE x >= p + n
    <3>1. q = l
      <4>1. x - e \in Nat /\ x - e < b /\ x = b * l + (x - e)
            BY <1>4, <1>5, <2>3
      <4>2. (b * l + (x - e)) \div b = l
            BY <1>1, <1>2, <4>1, DivModUnique
      <4> QED BY <1>9, <4>1, <4>2
    <3>2. p + n # (l + 1) * SECTOR_SIZE
          BY <1>1, <1>4, <1>5, <2>3
    <3> QED BY <1>1, <1>10, <2>1, <3>1, <3>2 DEF KeepsOld, LastIsRead
  <2> QED BY <1>11, <2>2, <2>3
<1>12. Mixed(h, p, n, f, l)[k] = IF p - o <= k /\ k < p - o + n THEN 1
                                 ELSE IF KeepsOld(h, p, n, f, l, k) THEN Buffer(h, f, l)[k] ELSE 2
      BY <1>3, <1>7 DEF Mixed
<1>13. (p - o <= k /\ k < p - o + n) <=> (p <= x /\ x < p + n)
      BY <1>6
<1> QED BY <1>3, <1>6, <1>8, <1>11, <1>12, <1>13

LEMMA BytesOfData ==
    ASSUME NEW g, g = [k \in 1 .. SECTOR_SIZE |-> g[k]]
    PROVE  Bytes(Data(g)) = g
<1>1. 1 \in DOMAIN g /\ 1 \notin DOMAIN <<>>
      BY ConstantTypes
<1>2. g # <<>>
      BY <1>1
<1> QED BY <1>2 DEF Bytes, Data

(* The bytes of the file after WriteAt. *)
LEMMA WriteAtIs ==
    ASSUME NEW h, HeaderOk(h), DistinctSectors(h), NEW p \in Nat, p < h.numBytes, NEW m \in Nat, m > 0,
           NEW x \in Nat, x < h.numBytes
    PROVE  ByteOf(WriteAt(h, m, p), h, x) =
             IF p <= x /\ x < p + Served(h, m, p) THEN 1 ELSE ByteOf(disk, h, x)
<1>1. PICK n \in Nat : n = Served(h, m, p) /\ n > 0 /\ p + n <= h.numBytes
      BY ServedIs DEF HeaderOk
<1>2. PICK f : f = p \div SECTOR_SIZE
      OBVIOUS
<1>3. PICK l : l = (p + n - 1) \div SECTOR_SIZE
      OBVIOUS
<1>4. Spans(h, p, n, f, l)
      BY <1>1, <1>2, <1>3, SpansIs
<1>5. WriteAt(h, m, p) = Written(h, p, n, f, l)
      BY <1>1, <1>2, <1>3, WriteAtForm
<1>6. PICK b \in Nat : b = SECTOR_SIZE /\ b > 0
      BY ConstantTypes
<1>7. PICK q \in Nat : q = x \div b
      BY <1>6, DivNat
<1>8. b * q \in Int /\ b * q <= x /\ x < b * q + b /\ x % b = x - b * q /\ x % b \in Nat /\ x % b < b
      BY <1>6, <1>7, DivBounds
<1>9. f \in Nat /\ l \in Nat /\ f <= l /\ l + 1 <= Len(h.dataSectors)
      BY <1>4 DEF Spans
<1>10. q + 1 \in 1 .. Len(h.dataSectors) /\ Len(h.dataSectors) \in Nat
  <2>1. x \div b + 1 <= DivRoundUp(h.numBytes, b)
        BY <1>6, BlockExists DEF HeaderOk
  <2> QED BY <1>6, <1>7, <2>1 DEF HeaderOk
<1>11. CASE q \in f .. l
  <2> DEFINE g == [k \in 1 .. SECTOR_SIZE |-> Mixed(h, p, n, f, l)[(q - f) * SECTOR_SIZE + k - 1]]
  <2>1. WriteAt(h, m, p)[h.dataSectors[q + 1]] = Data(g)
        BY <1>4, <1>5, <1>11, WrittenIs
  <2>2. Bytes(Data(g)) = g
        BY BytesOfData
  <2>3. ByteOf(WriteAt(h, m, p), h, x) = g[(x % b) + 1]
        BY <1>6, <1>7, <2>1, <2>2 DEF ByteOf
  <2>4. g[(x % b) + 1] = Mixed(h, p, n, f, l)[(q - f) * SECTOR_SIZE + ((x % b) + 1) - 1]
        BY <1>6, <1>8
  <2>5. (q - f) * SECTOR_SIZE + ((x % b) + 1) - 1 = x - SECTOR_SIZE * f
    <3>1. (q - f) * b = b * q - b * f /\ b * f \in Int
          BY <1>6, <1>7, <1>9
    <3> QED BY <1>6, <1>8, <3>1
  <2>6. SECTOR_SIZE * f <= x /\ x < SECTOR_SIZE * l + SECTOR_SIZE
    <3>1. b * f <= b * q /\ b * q <= b * l /\ b * f \in Int /\ b * l \in Int
          BY <1>6, <1>7, <1>9, <1>11
    <3> QED BY <1>6, <1>8, <3>1
  <2>7. Mixed(h, p, n, f, l)[x - SECTOR_SIZE * f] = IF p <= x /\ x < p + n THEN 1 ELSE ByteOf(disk, h, x)
        BY <1>4, <2>6, MixedIs
  <2> QED BY <1>1, <2>3, <2>4, <2>5, <2>7
<1>12. CASE q \notin f .. l
  <2>1. \A i \in f .. l : h.dataSectors[i + 1] # h.dataSectors[q + 1]
    <3>1. ASSUME NEW i \in f .. l, h.dataSectors[i + 1] = h.dataSectors[q + 1] PROVE FALSE
      <4>1. i + 1 \in 1 .. Len(h.dataSectors)
            BY <1>9, <1>10
      <4>2. i + 1 = q + 1
            BY <1>10, <3>1, <4>1 DEF DistinctSectors
      <4> QED BY <1>9, <1>12, <4>2
    <3> QED BY <3>1
  <2>2. h.dataSectors[q + 1] \in Sector
        BY <1>10 DEF HeaderOk
  <2>3. WriteAt(h, m, p)[h.dataSectors[q + 1]] = disk[h.dataSectors[q + 1]]
        BY <1>4, <1>5, <2>1, <2>2, WrittenIs
  <2>4. ByteOf(WriteAt(h, m, p), h, x) = ByteOf(disk, h, x)
        BY <1>6, <1>7, <2>3 DEF ByteOf
  <2>5. ~(p <= x /\ x < p + n)
    <3>1. SUFFICES ASSUME p <= x, x <= p + n - 1 PROVE q \in f .. l
          BY <1>1, <1>12
    <3>2. p \div b <= x \div b /\ x \div b <= (p + n - 1) \div b
          BY <1>1, <1>6, <3>1, DivMonotone
    <3> QED BY <1>2, <1>3, <1>6, <1>7, <1>9, <3>2
  <2> QED BY <1>1, <2>4, <2>5
<1> QED BY <1>11, <1>12

(* WriteAt touches sectors of its file only, and makes data of them.       *)
LEMMA WriteAtElsewhere ==
    ASSUME NEW h, HeaderOk(h), DistinctSectors(h), NEW p \in Nat, p < h.numBytes, NEW m \in Nat, m > 0,
           NEW s \in Sector \ SectorsOf(h)
    PROVE  WriteAt(h, m, p)[s] = disk[s]
<1>1. PICK n \in Nat : n = Served(h, m, p) /\ n > 0 /\ p + n <= h.numBytes
      BY ServedIs DEF HeaderOk
<1>2. PICK f : f = p \div SECTOR_SIZE
      OBVIOUS
<1>3. PICK l : l = (p + n - 1) \div SECTOR_SIZE
      OBVIOUS
<1>4. Spans(h, p, n, f, l)
      BY <1>1, <1>2, <1>3, SpansIs
<1>5. WriteAt(h, m, p) = Written(h, p, n, f, l)
      BY <1>1, <1>2, <1>3, WriteAtForm
<1>6. \A i \in f .. l : i + 1 \in DOMAIN h.dataSectors
      BY <1>4 DEF Spans, HeaderOk
<1>7. \A i \in f .. l : h.dataSectors[i + 1] # s
      BY <1>6 DEF SectorsOf
<1> QED BY <1>4, <1>5, <1>7, WrittenIs

LEMMA TransferIs ==
    ASSUME NEW h, HeaderOk(h), DistinctSectors(h),
           NEW p \in 0 .. h.numBytes - 1, NEW m \in 1 .. h.numBytes
    PROVE  ReadIsExact(h, p, m) /\ WriteIsExact(h, p, m)
<1>1. PICK N \in Nat : N = h.numBytes
      BY DEF HeaderOk
<1>2. p \in Nat /\ p < N /\ m \in Nat /\ m > 0
      BY <1>1
<1>3. PICK n \in Nat : /\ n = Served(h, m, p) /\ n > 0 /\ p + n <= N /\ n <= m
                       /\ p + n = Least(p + m, N)
      BY <1>1, <1>2, ServedIs
<1>4. ReadAt(h, m, p) = SubSeq(Content(disk, h), p + 1, Least(p + m, N))
  <2> DEFINE c == Content(disk, h)
             S == {c[i] : i \in 1 .. N}
  <2>1. c = [k \in 1 .. N |-> ByteOf(disk, h, k - 1)]
        BY <1>1, ContentIs
  <2>2. PICK r : r = [k \in 1 .. n |-> ByteOf(disk, h, p + k - 1)]
        OBVIOUS
  <2>3. \A k \in 1 .. n : p + k \in 1 .. N /\ (p + k) - 1 = p + k - 1
        BY <1>2, <1>3
  <2>4. \A k \in 1 .. n : r[k] = c[p + k]
        BY <2>1, <2>2, <2>3
  <2>5. (\A i \in p + 1 .. p + n : c[i] \in S) /\ \A k \in 1 .. n : c[p + k] \in S
        BY <1>2, <1>3, <2>3
  <2> HIDE DEF c, S
  <2>6. PICK u : u = SubSeq(c, p + 1, p + n)
        OBVIOUS
  <2>7. u \in Seq(S) /\ Len(u) = n /\ \A i \in 1 .. n : u[i] = c[p + i]
    <3>1. PICK a \in Int : a = p + 1
          OBVIOUS
    <3>2. PICK e \in Int : e = p + n
          OBVIOUS
    <3>3. \A i \in a .. e : c[i] \in S
          BY <2>5, <3>1, <3>2
    <3>4. /\ SubSeq(c, a, e) \in Seq(S)
          /\ Len(SubSeq(c, a, e)) = IF a <= e THEN e - a + 1 ELSE 0
          /\ \A i \in 1 .. e - a + 1 : SubSeq(c, a, e)[i] = c[a + i - 1]
          BY <3>3, SubSeqProperties
    <3>5. e - a + 1 = n /\ a <= e /\ \A i \in 1 .. n : a + i - 1 = p + i
          BY <1>2, <1>3, <3>1, <3>2
    <3> QED BY <2>6, <3>1, <3>2, <3>4, <3>5
  <2>8. r \in Seq(S) /\ Len(r) = n
    <3>1. \A k \in 1 .. n : r[k] \in S
          BY <2>4, <2>5
    <3> QED BY <2>2, <3>1
  <2>9. r = u
        BY <2>4, <2>7, <2>8, SeqEqual
  <2>10. ReadAt(h, m, p) = r
        BY <1>1, <1>2, <1>3, <2>2, ReadAtIs
  <2> QED BY <1>3, <2>6, <2>9, <2>10 DEF c
<1>5. ASSUME NEW k \in 1 .. N
      PROVE  Content(WriteAt(h, m, p), h)[k] = IF p < k /\ k <= p + m THEN 1 ELSE Content(disk, h)[k]
  <2>1. PICK x \in Nat : x = k - 1 /\ x < N
        BY <1>1
  <2>2. ByteOf(WriteAt(h, m, p), h, x) = IF p <= x /\ x < p + n THEN 1 ELSE ByteOf(disk, h, x)
        BY <1>1, <1>2, <1>3, <2>1, WriteAtIs
  <2>3. (p <= x /\ x < p + n) <=> (p < k /\ k <= p + m)
        BY <1>2, <1>3, <2>1 DEF Least
  <2>4. /\ Content(WriteAt(h, m, p), h)[k] = ByteOf(WriteAt(h, m, p), h, x)
        /\ Content(disk, h)[k] = ByteOf(disk, h, x)
        BY <1>1, <2>1, ContentIs
  <2> QED BY <2>2, <2>3, <2>4
<1>6. Content(WriteAt(h, m, p), h) = [k \in 1 .. N |-> Content(WriteAt(h, m, p), h)[k]]
      BY <1>1, ContentIs
<1>7. Content(WriteAt(h, m, p), h) = [k \in 1 .. N |-> IF p < k /\ k <= p + m THEN 1 ELSE Content(disk, h)[k]]
      BY <1>5, <1>6
<1>8. \A s \in Sector \ SectorsOf(h) : WriteAt(h, m, p)[s] = disk[s]
      BY <1>1, <1>2, WriteAtElsewhere
<1> QED BY <1>1, <1>4, <1>7, <1>8 DEF ReadIsExact, WriteIsExact

-----------------------------------------------------------------------------
(* The layout of the disk: a statement about any disk d, directory dir and *)
(* map.  Files -1 and 0 are the free map and the directory.                *)

UsedIn(dir)  == {i \in DOMAIN dir : dir[i].name # NoName}
FilesIn(dir) == {-1, 0} \cup UsedIn(dir)

HeaderIn(dir, i) ==
    CASE i = -1 -> FREE_MAP_SECTOR [] i = 0 -> DIRECTORY_SECTOR [] OTHER -> dir[i].sector

Owns(d, sector, s) == s = sector \/ s \in SectorsOf(d[sector])

FileOk(d, sector) ==
    /\ sector \in Sector /\ HeaderOk(d[sector]) /\ DistinctSectors(d[sector])
    /\ sector \notin SectorsOf(d[sector])

FilesAreOk(d, dir) == \A i \in FilesIn(dir) : FileOk(d, HeaderIn(dir, i))

FilesAreDisjoint(d, dir) ==
    \A i, j \in FilesIn(dir) : \A s : Owns(d, HeaderIn(dir, i), s) /\ Owns(d, HeaderIn(dir, j), s) => i = j

MapIsExact(d, dir, map) == \A s : s \in map <=> \E i \in FilesIn(dir) : Owns(d, HeaderIn(dir, i), s)

NamesDiffer(dir) == \A i, j \in UsedIn(dir) : dir[i].name = dir[j].name => i = j

Sound(d, dir, map) ==
    FilesAreOk(d, dir) /\ FilesAreDisjoint(d, dir) /\ MapIsExact(d, dir, map) /\ NamesDiffer(dir)

(* Only the headers of the files matter. *)
LEMMA SoundWithData ==
    ASSUME NEW d, NEW e, NEW dir, NEW map, Sound(d, dir, map),
           \A i \in FilesIn(dir) : e[HeaderIn(dir, i)] = d[HeaderIn(dir, i)]
    PROVE  Sound(e, dir, map)
BY DEF Sound, FilesAreOk, FilesAreDisjoint, MapIsExact, FileOk, Owns

Entry == [name : Name \cup {NoName}, sector : Sector]
Directory == [1 .. NUM_DIR_ENTRIES -> Entry]

(* new is dir with file k added, with that file dropped. *)
Added(dir, new, k, name, sector) ==
    /\ new \in Directory /\ k \notin FilesIn(dir)
    /\ UsedIn(new) = UsedIn(dir) \cup {k} /\ FilesIn(new) = FilesIn(dir) \cup {k}
    /\ HeaderIn(new, k) = sector /\ new[k].name = name
    /\ \A i \in FilesIn(dir) : HeaderIn(new, i) = HeaderIn(dir, i)
    /\ \A i \in UsedIn(dir) : new[i] = dir[i]

Dropped(dir, new, k) ==
    /\ new \in Directory /\ k \in UsedIn(dir) /\ HeaderIn(dir, k) = dir[k].sector
    /\ UsedIn(new) = UsedIn(dir) \ {k} /\ FilesIn(new) = FilesIn(dir) \ {k}
    /\ \A i \in FilesIn(new) : HeaderIn(new, i) = HeaderIn(dir, i)
    /\ \A i \in UsedIn(new) : new[i] = dir[i]

LEMMA FilesOfAdd ==
    ASSUME NEW dir \in Directory, NEW k \in 1 .. NUM_DIR_ENTRIES, dir[k].name = NoName,
           NEW name \in Name, NEW sector \in Sector,
           NEW new, new = [dir EXCEPT ![k] = DirectoryEntry(name, sector)]
    PROVE  Added(dir, new, k, name, sector)
<1>1. NoName \notin Name /\ NUM_DIR_ENTRIES \in Nat
      BY FileSystemAssumption DEF FileSystemAssumption
<1>2. new \in Directory
      BY DEF Directory, Entry, DirectoryEntry
<1>3. new[k].name = name /\ new[k].sector = sector
      BY DEF Directory, DirectoryEntry
<1>4. \A i \in 1 .. NUM_DIR_ENTRIES : i # k => new[i] = dir[i]
      BY DEF Directory
<1>5. DOMAIN dir = 1 .. NUM_DIR_ENTRIES /\ DOMAIN new = 1 .. NUM_DIR_ENTRIES
      BY DEF Directory
<1>6. UsedIn(new) = UsedIn(dir) \cup {k}
      BY <1>1, <1>3, <1>4, <1>5 DEF UsedIn
<1>7. k # 0 /\ k # -1
      BY <1>1
<1>8. \A i \in FilesIn(dir) : HeaderIn(new, i) = HeaderIn(dir, i)
      BY <1>4, <1>5 DEF FilesIn, UsedIn, HeaderIn
<1>9. FilesIn(new) = FilesIn(dir) \cup {k} /\ k \notin FilesIn(dir)
      BY <1>6, <1>7 DEF FilesIn, UsedIn
<1>10. HeaderIn(new, k) = sector
      BY <1>3, <1>7 DEF HeaderIn
<1>11. \A i \in UsedIn(dir) : new[i] = dir[i]
      BY <1>4, <1>5 DEF UsedIn
<1> QED BY <1>2, <1>3, <1>6, <1>8, <1>9, <1>10, <1>11 DEF Added

LEMMA FilesOfDrop ==
    ASSUME NEW dir \in Directory, NEW k \in 1 .. NUM_DIR_ENTRIES, dir[k].name # NoName,
           NEW new, new = [dir EXCEPT ![k] = Unused]
    PROVE  Dropped(dir, new, k)
<1>1. NUM_DIR_ENTRIES \in Nat /\ 0 \in Sector
      BY ConstantTypes DEF Sector
<1>2. new \in Directory
      BY <1>1 DEF Directory, Entry, DirectoryEntry, Unused
<1>3. new[k].name = NoName
      BY DEF Directory, DirectoryEntry, Unused
<1>4. \A i \in 1 .. NUM_DIR_ENTRIES : i # k => new[i] = dir[i]
      BY DEF Directory
<1>5. DOMAIN dir = 1 .. NUM_DIR_ENTRIES /\ DOMAIN new = 1 .. NUM_DIR_ENTRIES
      BY DEF Directory
<1>6. k \in UsedIn(dir) /\ UsedIn(new) = UsedIn(dir) \ {k}
      BY <1>3, <1>4, <1>5 DEF UsedIn
<1>7. k # 0 /\ k # -1
      BY <1>1
<1>8. \A i \in UsedIn(new) : new[i] = dir[i]
      BY <1>4, <1>5, <1>6
<1>9. \A i \in FilesIn(new) : HeaderIn(new, i) = HeaderIn(dir, i)
      BY <1>8 DEF FilesIn, HeaderIn
<1>10. FilesIn(new) = FilesIn(dir) \ {k} /\ HeaderIn(dir, k) = dir[k].sector
      BY <1>6, <1>7 DEF FilesIn, HeaderIn
<1> QED BY <1>2, <1>6, <1>8, <1>9, <1>10 DEF Dropped

LEMMA SoundAdd ==
    ASSUME NEW d, NEW dir, NEW map, Sound(d, dir, map),
           NEW k, NEW name, NEW sector, NEW new, Added(dir, new, k, name, sector),
           \A i \in UsedIn(dir) : dir[i].name # name, FileOk(d, sector),
           \A s : Owns(d, sector, s) => s \notin map,
           NEW more, \A s : s \in more <=> s \in map \/ Owns(d, sector, s)
    PROVE  Sound(d, new, more)
<1>1. Added(dir, new, k, name, sector)
      OBVIOUS
<1>2. FilesAreOk(d, new)
      BY <1>1 DEF Sound, FilesAreOk, Added
<1>3. FilesAreDisjoint(d, new)
  <2>1. ASSUME NEW i \in FilesIn(new), NEW j \in FilesIn(new), NEW s,
               Owns(d, HeaderIn(new, i), s), Owns(d, HeaderIn(new, j), s)
        PROVE  i = j
    <3>1. CASE i \in FilesIn(dir) /\ j \in FilesIn(dir)
          BY <1>1, <2>1, <3>1 DEF Sound, FilesAreDisjoint, Added
    <3>2. ASSUME NEW a \in FilesIn(dir), Owns(d, HeaderIn(dir, a), s), Owns(d, sector, s) PROVE FALSE
          BY <3>2 DEF Sound, MapIsExact
    <3> QED BY <1>1, <2>1, <3>1, <3>2 DEF Added
  <2> QED BY <2>1 DEF FilesAreDisjoint
<1>4. MapIsExact(d, new, more)
  <2>1. ASSUME NEW s, s \in more PROVE \E i \in FilesIn(new) : Owns(d, HeaderIn(new, i), s)
    <3>1. CASE s \in map
      <4>1. PICK i \in FilesIn(dir) : Owns(d, HeaderIn(dir, i), s)
            BY <3>1 DEF Sound, MapIsExact
      <4> QED BY <1>1, <4>1 DEF Added
    <3>2. CASE Owns(d, sector, s)
          BY <1>1, <3>2 DEF Added
    <3> QED BY <2>1, <3>1, <3>2
  <2>2. ASSUME NEW s, NEW i \in FilesIn(new), Owns(d, HeaderIn(new, i), s) PROVE s \in more
        BY <1>1, <2>2 DEF Sound, MapIsExact, Added
  <2> QED BY <2>1, <2>2 DEF MapIsExact
<1>5. NamesDiffer(new)
  <2>1. ASSUME NEW i \in UsedIn(new), NEW j \in UsedIn(new), new[i].name = new[j].name PROVE i = j
    <3>1. CASE i \in UsedIn(dir) /\ j \in UsedIn(dir)
          BY <1>1, <2>1, <3>1 DEF Sound, NamesDiffer, Added
    <3> QED BY <1>1, <2>1, <3>1 DEF Added
  <2> QED BY <2>1 DEF NamesDiffer
<1> QED BY <1>1, <1>2, <1>3, <1>4, <1>5 DEF Sound, Added

LEMMA SoundDrop ==
    ASSUME NEW d, NEW dir, NEW map, Sound(d, dir, map), NEW k, NEW new, Dropped(dir, new, k),
           NEW less, \A s : s \in less <=> s \in map /\ ~Owns(d, dir[k].sector, s)
    PROVE  Sound(d, new, less)
<1>1. Dropped(dir, new, k)
      OBVIOUS
<1>2. k \in FilesIn(dir)
      BY <1>1 DEF FilesIn, Dropped
<1>3. FilesAreOk(d, new) /\ NamesDiffer(new)
      BY <1>1 DEF Sound, FilesAreOk, NamesDiffer, Dropped
<1>4. FilesAreDisjoint(d, new)
      BY <1>1 DEF Sound, FilesAreDisjoint, Dropped
<1>5. MapIsExact(d, new, less)
  <2>1. ASSUME NEW s, s \in less PROVE \E i \in FilesIn(new) : Owns(d, HeaderIn(new, i), s)
    <3>1. PICK i \in FilesIn(dir) : Owns(d, HeaderIn(dir, i), s)
          BY <2>1 DEF Sound, MapIsExact
    <3>2. i # k
          BY <1>1, <2>1, <3>1 DEF Dropped
    <3> QED BY <1>1, <3>1, <3>2 DEF Dropped
  <2>2. ASSUME NEW s, NEW i \in FilesIn(new), Owns(d, HeaderIn(new, i), s) PROVE s \in less
    <3>1. i \in FilesIn(dir) /\ i # k /\ Owns(d, HeaderIn(dir, i), s)
          BY <1>1, <2>2 DEF Dropped
    <3>2. s \in map
          BY <3>1 DEF Sound, MapIsExact
    <3>3. ~Owns(d, HeaderIn(dir, k), s)
          BY <1>2, <3>1 DEF Sound, FilesAreDisjoint
    <3> QED BY <1>1, <3>2, <3>3 DEF Dropped
  <2> QED BY <2>1, <2>2 DEF MapIsExact
<1> QED BY <1>1, <1>3, <1>4, <1>5 DEF Sound, Dropped
-----------------------------------------------------------------------------
(* The inductive invariant.  It speaks of the disk that the call in        *)
(* progress, if any, has left so far: the layout is sound if the sectors   *)
(* of its file count as marked between its two last writes, and what is    *)
(* still to be written completes it.                                       *)

Block == [numBytes : Nat, dataSectors : Seq(Sector), bytes : {<<>>} \cup [1 .. SECTOR_SIZE -> 0 .. 2]]
OpenFile == [name : Name \cup {NoName}, hdr : Block, seekPosition : Nat, stale : BOOLEAN]
Opening == [name : Name \cup {NoName}, sector : Sector \cup {-1}, stale : BOOLEAN]

CreateSteps == {<<"header", "dir", "map">>, <<"dir", "map">>, <<"map">>}
RemoveSteps == {<<"map", "dir">>, <<"dir">>}

TypesAre ==
    /\ disk \in [Sector -> Block] /\ directory \in Directory /\ freeMap \in SUBSET Sector
    /\ opening \in [Thread -> Opening]
    /\ files \in [Thread -> [0 .. MAX_OPEN - 1 -> OpenFile]]

(* What is open, or being opened, has a name. *)
OpenHasName ==
    /\ \A t \in Thread : opening[t] # NotOpening => opening[t].name \in Name /\ opening[t].sector \in Sector
    /\ \A t \in Thread, fd \in 0 .. MAX_OPEN - 1 : files[t][fd] # NoFile => files[t][fd].name \in Name

JobType == [call : {"create", "remove"}, name : Name, sector : Sector, header : Block,
            dir : Directory, map : SUBSET Sector, todo : CreateSteps \cup RemoveSteps]

JobSectors == {job.sector} \cup SectorsOf(job.header)

HalfWritten == \/ job.call = "create" /\ job.todo = <<"map">>
               \/ job.call = "remove" /\ job.todo = <<"dir">>

(* The free map with the sectors of a file that Create has entered, or     *)
(* that Remove has not yet taken out.                                      *)
FullMap == IF HalfWritten THEN freeMap \cup JobSectors ELSE freeMap

CreateOk ==
    /\ job \in JobType /\ job.todo \in CreateSteps
    /\ HeaderOk(job.header) /\ DistinctSectors(job.header) /\ job.sector \notin SectorsOf(job.header)
    /\ JobSectors \cap freeMap = {} /\ job.map = freeMap \cup JobSectors
    /\ job.todo # CreateOrder => disk[job.sector] = job.header
    /\ IF job.todo = <<"map">> THEN \E k \in UsedIn(directory) : directory[k].sector = job.sector
       ELSE /\ \A i \in UsedIn(directory) : directory[i].name # job.name
            /\ \E k \in 1 .. NUM_DIR_ENTRIES :
                 /\ directory[k].name = NoName
                 /\ job.dir = [directory EXCEPT ![k] = DirectoryEntry(job.name, job.sector)]

RemoveOk ==
    /\ job \in JobType /\ job.todo \in RemoveSteps
    /\ disk[job.sector] = job.header
    /\ \E k \in 1 .. NUM_DIR_ENTRIES :
         /\ directory[k] = DirectoryEntry(job.name, job.sector)
         /\ job.dir = [directory EXCEPT ![k] = Unused]
    /\ IF job.todo = <<"dir">> THEN JobSectors \cap freeMap = {} ELSE job.map = freeMap \ JobSectors

JobOk == job = NoJob \/ (job.call = "create" /\ CreateOk) \/ (job.call = "remove" /\ RemoveOk)

(* Whoever has a file that is being removed knows it is stale. *)
RemovedIsStale ==
    job.call = "remove" =>
        \A t \in Thread : /\ opening[t].name = job.name => opening[t].stale
                          /\ \A fd \in 0 .. MAX_OPEN - 1 :
                               files[t][fd].name = job.name => files[t][fd].stale

OpeningsAreCurrent ==
    \A t \in Thread : opening[t] # NotOpening /\ ~opening[t].stale =>
        \E i \in UsedIn(directory) :
            directory[i].name = opening[t].name /\ directory[i].sector = opening[t].sector

FilesAreCurrent ==
    \A t \in Thread, fd \in 0 .. MAX_OPEN - 1 : files[t][fd] # NoFile /\ ~files[t][fd].stale =>
        \E i \in UsedIn(directory) :
            directory[i].name = files[t][fd].name /\ disk[directory[i].sector] = files[t][fd].hdr

FSInv ==
    /\ TypesAre /\ OpenHasName /\ JobOk /\ Sound(disk, directory, FullMap)
    /\ RemovedIsStale /\ OpeningsAreCurrent /\ FilesAreCurrent

(* The sequences of writes. *)
LEMMA StepFacts ==
    /\ CreateOrder = <<"header", "dir", "map">> /\ CreateOrder # <<"map">> /\ CreateOrder # <<"dir", "map">>
    /\ <<"dir", "map">> # <<"map">> /\ <<"map", "dir">> # <<"dir">>
    /\ Head(<<"header", "dir", "map">>) = "header" /\ Tail(<<"header", "dir", "map">>) = <<"dir", "map">>
    /\ Head(<<"dir", "map">>) = "dir" /\ Tail(<<"dir", "map">>) = <<"map">>
    /\ Head(<<"map", "dir">>) = "map" /\ Tail(<<"map", "dir">>) = <<"dir">>
    /\ Head(<<"map">>) = "map" /\ Head(<<"dir">>) = "dir"
    /\ Len(<<"header", "dir", "map">>) = 3 /\ Len(<<"dir", "map">>) = 2 /\ Len(<<"map", "dir">>) = 2
    /\ Len(<<"map">>) = 1 /\ Len(<<"dir">>) = 1
<1>1. /\ Len(<<"header", "dir", "map">>) = 3 /\ Len(<<"dir", "map">>) = 2 /\ Len(<<"map", "dir">>) = 2
      /\ Len(<<"map">>) = 1 /\ Len(<<"dir">>) = 1
      OBVIOUS
<1>2. CreateOrder = <<"header", "dir", "map">>
      BY DEF CreateOrder
<1>3. /\ <<"header", "dir", "map">> # <<"map">> /\ <<"header", "dir", "map">> # <<"dir", "map">>
      /\ <<"dir", "map">> # <<"map">> /\ <<"map", "dir">> # <<"dir">>
      BY <1>1
<1> QED BY <1>1, <1>2, <1>3

LEMMA NoJobFacts ==
    /\ NoJob.call = "none" /\ NoJob.sector = 0 /\ NoJob.header = Raw(0, <<>>)
    /\ \A j \in JobType : j # NoJob /\ j.name \in Name /\ j.sector \in Sector
<1>1. NoName \notin Name
      BY FileSystemAssumption DEF FileSystemAssumption
<1> QED BY <1>1 DEF NoJob, JobType

LEMMA InSectors == \A h, s : s \in SectorsOf(h) <=> \E i \in DOMAIN h.dataSectors : h.dataSectors[i] = s
BY DEF SectorsOf

LEMMA SystemHeader ==
    ASSUME NEW s \in Sector
    PROVE  LET h == Raw(SECTOR_SIZE, <<s>>)
           IN  h \in Block /\ HeaderOk(h) /\ DistinctSectors(h) /\ \A r : r \in SectorsOf(h) <=> r = s
<1> DEFINE h == Raw(SECTOR_SIZE, <<s>>)
<1>1. h.numBytes = SECTOR_SIZE /\ h.dataSectors = <<s>> /\ h \in Block
      BY ConstantTypes DEF Raw, Block
<1>2. Len(<<s>>) = 1 /\ DOMAIN <<s>> = {1} /\ <<s>>[1] = s /\ <<s>> \in Seq(Sector)
      OBVIOUS
<1>3. DivRoundUp(SECTOR_SIZE, SECTOR_SIZE) = 1
  <2>1. PICK b \in Nat : b = SECTOR_SIZE /\ b > 0
        BY ConstantTypes
  <2>2. (b * 1 + (b - 1)) \div b = 1
        BY <2>1, DivModUnique
  <2>3. b + b - 1 = b * 1 + (b - 1)
        BY <2>1
  <2> QED BY <2>1, <2>2, <2>3 DEF DivRoundUp
<1> HIDE DEF h
<1>4. HeaderOk(h)
      BY <1>1, <1>2, <1>3, ConstantTypes DEF HeaderOk, SmallFiles
<1>5. DistinctSectors(h)
      BY <1>1, <1>2 DEF DistinctSectors
<1>6. \A r : r \in SectorsOf(h) <=> r = s
      BY <1>1, <1>2, InSectors
<1> QED BY <1>1, <1>4, <1>5, <1>6 DEF h

LEMMA FSInit == Init => FSInv
<1> SUFFICES ASSUME Init PROVE FSInv
    OBVIOUS
<1>1. 0 \in Sector /\ 1 \in Sector /\ 2 \in Sector /\ 3 \in Sector /\ System \in SUBSET Sector
      BY ConstantTypes DEF Sector, System
<1>2. disk[0] = Raw(SECTOR_SIZE, <<2>>) /\ disk[1] = Raw(SECTOR_SIZE, <<3>>)
      BY <1>1 DEF Init, FREE_MAP_SECTOR, DIRECTORY_SECTOR
<1>3. disk \in [Sector -> Block]
  <2>1. Raw(SECTOR_SIZE, <<2>>) \in Block /\ Raw(SECTOR_SIZE, <<3>>) \in Block
        BY <1>1, SystemHeader
  <2>2. Data([i \in 1 .. SECTOR_SIZE |-> 0]) \in Block
        BY DEF Data, Block
  <2> QED BY <2>1, <2>2 DEF Init
<1>4. NoFile \in OpenFile /\ NotOpening \in Opening
      BY <1>1 DEF NoFile, NotOpening, OpenFile, Opening, Raw, Block
<1>5. TypesAre
  <2>1. directory \in Directory
        BY <1>1 DEF Init, Directory, Unused, DirectoryEntry, Entry
  <2> QED BY <1>1, <1>3, <1>4, <2>1 DEF Init, TypesAre
<1>6. OpenHasName /\ OpeningsAreCurrent /\ FilesAreCurrent
      BY DEF Init, OpenHasName, OpeningsAreCurrent, FilesAreCurrent
<1>7. job = NoJob /\ JobOk /\ RemovedIsStale /\ FullMap = System
      BY NoJobFacts DEF Init, JobOk, RemovedIsStale, FullMap, HalfWritten
<1>8. UsedIn(directory) = {} /\ FilesIn(directory) = {-1, 0}
      BY DEF Init, UsedIn, FilesIn, Unused, DirectoryEntry
<1>9. HeaderIn(directory, -1) = 0 /\ HeaderIn(directory, 0) = 1
      BY DEF HeaderIn, FREE_MAP_SECTOR, DIRECTORY_SECTOR
<1>10. \A s : (Owns(disk, 0, s) <=> s = 0 \/ s = 2) /\ (Owns(disk, 1, s) <=> s = 1 \/ s = 3)
  <2>1. \A s : (s \in SectorsOf(disk[0]) <=> s = 2) /\ (s \in SectorsOf(disk[1]) <=> s = 3)
        BY <1>1, <1>2, SystemHeader
  <2> QED BY <2>1 DEF Owns
<1>11. Sound(disk, directory, System)
  <2>1. FileOk(disk, 0) /\ FileOk(disk, 1)
    <3>1. HeaderOk(disk[0]) /\ HeaderOk(disk[1]) /\ DistinctSectors(disk[0]) /\ DistinctSectors(disk[1])
          BY <1>1, <1>2, SystemHeader
    <3>2. 0 \notin SectorsOf(disk[0]) /\ 1 \notin SectorsOf(disk[1])
          BY <1>1, <1>2, SystemHeader
    <3> QED BY <1>1, <3>1, <3>2 DEF FileOk
  <2>2. FilesAreOk(disk, directory)
        BY <1>8, <1>9, <2>1 DEF FilesAreOk
  <2>3. FilesAreDisjoint(disk, directory)
        BY <1>8, <1>9, <1>10 DEF FilesAreDisjoint
  <2>4. MapIsExact(disk, directory, System)
        BY <1>8, <1>9, <1>10 DEF MapIsExact, System
  <2>5. NamesDiffer(directory)
        BY <1>8 DEF NamesDiffer
  <2> QED BY <2>2, <2>3, <2>4, <2>5 DEF Sound
<1> QED BY <1>5, <1>6, <1>7, <1>11 DEF FSInv

-----------------------------------------------------------------------------
(* Steps of open files, which leave the disk and the call in progress. *)

LEMMA DiskStays ==
    ASSUME JobOk, Sound(disk, directory, FullMap), UNCHANGED <<disk, directory, freeMap, job>>
    PROVE  JobOk' /\ Sound(disk, directory, FullMap)'
<1>1. FullMap' = FullMap
      BY DEF FullMap, HalfWritten, JobSectors
<1>2. JobOk'
      BY DEF JobOk, CreateOk, RemoveOk, JobSectors
<1> QED BY <1>1, <1>2

LEMMA DirectoryIsSeq ==
    ASSUME TypesAre
    PROVE  directory \in Seq([name : Name \cup {NoName}, sector : Sector])
<1>1. directory \in [1 .. NUM_DIR_ENTRIES -> [name : Name \cup {NoName}, sector : Sector]]
      BY DEF TypesAre, Directory, Entry
<1>2. NUM_DIR_ENTRIES \in Nat
      BY ConstantTypes
<1> QED BY <1>1, <1>2, SeqDef

(* The entry that FindIndex finds. *)
LEMMA FoundIs ==
    ASSUME TypesAre, NEW name \in Name
    PROVE  /\ FindIndex(name) # 0 =>
                /\ FindIndex(name) \in UsedIn(directory) /\ FindIndex(name) \in 1 .. NUM_DIR_ENTRIES
                /\ directory[FindIndex(name)].name = name
                /\ directory[FindIndex(name)].sector \in Sector
           /\ FindIndex(name) = 0 => \A i \in UsedIn(directory) : directory[i].name # name
<1>1. directory \in Seq([name : Name \cup {NoName}, sector : Sector])
      BY DirectoryIsSeq
<1>2. DOMAIN directory = 1 .. NUM_DIR_ENTRIES /\ \A i \in 1 .. NUM_DIR_ENTRIES : directory[i].sector \in Sector
      BY DEF TypesAre, Directory, Entry
<1>3. name # NoName
      BY FileSystemAssumption DEF FileSystemAssumption
<1> QED BY <1>1, <1>2, <1>3, FindIndexIs DEF UsedIn

LEMMA OpenKeeps ==
    ASSUME FSInv, NEW t \in Thread, NEW name \in Name, Open(t, name)
    PROVE  FSInv'
<1> DEFINE i == FindIndex(name)
           o == [name |-> name, sector |-> directory[i].sector,
                 stale |-> job.call = "remove" /\ job.name = name]
<1>1. opening' = [opening EXCEPT ![t] = o] /\ UNCHANGED <<disk, directory, freeMap, job, files, tainted>>
      BY DEF Open
<1>2. i \in UsedIn(directory) /\ directory[i].name = name /\ directory[i].sector \in Sector
      BY FoundIs DEF Open, FSInv
<1> HIDE DEF i
<1>3. /\ o \in Opening /\ o.name = name /\ o.sector = directory[i].sector
      /\ o.stale = (job.call = "remove" /\ job.name = name)
      BY <1>2 DEF Opening
<1> HIDE DEF o
<1>4. TypesAre'
      BY <1>1, <1>3 DEF FSInv, TypesAre
<1>5. OpenHasName'
      BY <1>1, <1>2, <1>3 DEF FSInv, TypesAre, OpenHasName
<1>6. JobOk' /\ Sound(disk, directory, FullMap)'
      BY <1>1, DiskStays DEF FSInv
<1>7. RemovedIsStale'
      BY <1>1, <1>3 DEF FSInv, TypesAre, RemovedIsStale
<1>8. OpeningsAreCurrent'
      BY <1>1, <1>2, <1>3 DEF FSInv, TypesAre, OpeningsAreCurrent
<1>9. FilesAreCurrent'
      BY <1>1 DEF FSInv, FilesAreCurrent
<1> QED BY <1>4, <1>5, <1>6, <1>7, <1>8, <1>9 DEF FSInv

(* One file in the table of a thread changes. *)
Stored(t, fd, f) ==
    /\ files' \in [Thread -> [0 .. MAX_OPEN - 1 -> OpenFile]]
    /\ \A u \in Thread, k \in 0 .. MAX_OPEN - 1 :
         files'[u][k] = IF u = t /\ k = fd THEN f ELSE files[u][k]

LEMMA FileStored ==
    ASSUME TypesAre, NEW t \in Thread, NEW fd \in 0 .. MAX_OPEN - 1, NEW f \in OpenFile,
           NEW row, row = [files[t] EXCEPT ![fd] = f],
           files' = [files EXCEPT ![t] = row]
    PROVE  Stored(t, fd, f)
<1>1. files \in [Thread -> [0 .. MAX_OPEN - 1 -> OpenFile]]
      BY DEF TypesAre
<1>2. /\ row \in [0 .. MAX_OPEN - 1 -> OpenFile]
      /\ \A k \in 0 .. MAX_OPEN - 1 : row[k] = IF k = fd THEN f ELSE files[t][k]
      BY <1>1
<1> QED BY <1>1, <1>2 DEF Stored

LEMMA FetchHeaderKeeps ==
    ASSUME FSInv, NEW t \in Thread, FetchHeader(t)
    PROVE  FSInv'
<1> DEFINE file == [name |-> opening[t].name, hdr |-> disk[opening[t].sector],
                    seekPosition |-> 0, stale |-> opening[t].stale]
           fd == CHOOSE i \in FreeFds(t) : \A k \in FreeFds(t) : i <= k
<1>1. /\ opening[t] # NotOpening /\ opening' = [opening EXCEPT ![t] = NotOpening]
      /\ files' = IF FreeFds(t) = {} THEN files ELSE [files EXCEPT ![t][fd] = file]
      /\ UNCHANGED <<disk, directory, freeMap, job, tainted>>
      BY DEF FetchHeader
<1>2. opening[t] \in Opening /\ opening[t].name \in Name /\ opening[t].sector \in Sector
      BY <1>1 DEF FSInv, TypesAre, OpenHasName
<1>3. /\ file \in OpenFile /\ file.name = opening[t].name /\ file.hdr = disk[opening[t].sector]
      /\ file.stale = opening[t].stale
      BY <1>2 DEF FSInv, TypesAre, OpenFile, Opening
<1>4. FreeFds(t) # {} => fd \in 0 .. MAX_OPEN - 1
  <2>1. FreeFds(t) \in SUBSET (0 .. MAX_OPEN - 1) /\ 0 .. MAX_OPEN - 1 \in SUBSET Nat
        BY ConstantTypes DEF FSInv, TypesAre, FreeFds
  <2>2. ASSUME FreeFds(t) # {} PROVE \E i \in FreeFds(t) : \A k \in FreeFds(t) : i <= k
        BY <2>1, <2>2, LeastIn
  <2> QED BY <2>1, <2>2
<1> HIDE DEF file, fd
<1>5. /\ files' \in [Thread -> [0 .. MAX_OPEN - 1 -> OpenFile]]
      /\ \A u \in Thread, k \in 0 .. MAX_OPEN - 1 :
           files'[u][k] = files[u][k] \/ files'[u][k] = file
  <2>1. CASE FreeFds(t) = {}
        BY <1>1, <2>1 DEF FSInv, TypesAre
  <2>2. CASE FreeFds(t) # {}
    <3>1. PICK row : row = [files[t] EXCEPT ![fd] = file]
          OBVIOUS
    <3>2. files' = [files EXCEPT ![t] = row]
          BY <1>1, <2>2, <3>1
    <3>3. Stored(t, fd, file)
          BY <1>3, <1>4, <2>2, <3>1, <3>2, FileStored DEF FSInv
    <3> QED BY <3>3 DEF Stored
  <2> QED BY <2>1, <2>2
<1>6. NotOpening \in Opening /\ NotOpening.name = NoName /\ NoName \notin Name
      BY FileSystemAssumption DEF NotOpening, Opening, FileSystemAssumption
<1>7. TypesAre'
      BY <1>1, <1>5, <1>6 DEF FSInv, TypesAre
<1>8. OpenHasName'
      BY <1>1, <1>2, <1>3, <1>5 DEF FSInv, TypesAre, OpenHasName
<1>9. JobOk' /\ Sound(disk, directory, FullMap)'
      BY <1>1, DiskStays DEF FSInv
<1>10. RemovedIsStale'
  <2>1. SUFFICES ASSUME job.call = "remove"
                 PROVE  \A u \in Thread : /\ opening'[u].name = job.name => opening'[u].stale
                                          /\ \A k \in 0 .. MAX_OPEN - 1 :
                                               files'[u][k].name = job.name => files'[u][k].stale
        BY <1>1 DEF RemovedIsStale
  <2>2. job.name \in Name
        BY <2>1, NoJobFacts DEF FSInv, JobOk, RemoveOk
  <2>3. \A u \in Thread : opening'[u].name = job.name => opening'[u].stale
        BY <1>1, <1>6, <2>1, <2>2 DEF FSInv, TypesAre, RemovedIsStale
  <2>4. \A u \in Thread : \A k \in 0 .. MAX_OPEN - 1 : files'[u][k].name = job.name => files'[u][k].stale
        BY <1>3, <1>5, <2>1 DEF FSInv, RemovedIsStale
  <2> QED BY <2>3, <2>4
<1>11. OpeningsAreCurrent'
      BY <1>1 DEF FSInv, TypesAre, OpeningsAreCurrent
<1>12. FilesAreCurrent'
  <2>1. ASSUME ~file.stale
        PROVE  \E i \in UsedIn(directory) :
                  directory[i].name = file.name /\ disk[directory[i].sector] = file.hdr
        BY <1>1, <1>3, <2>1 DEF FSInv, OpeningsAreCurrent
  <2> QED BY <1>1, <1>5, <2>1 DEF FSInv, FilesAreCurrent
<1> QED BY <1>7, <1>8, <1>9, <1>10, <1>11, <1>12 DEF FSInv

(* A file may move its position, or be closed. *)
LEMMA FileMoves ==
    ASSUME FSInv, NEW t \in Thread, NEW fd \in 0 .. MAX_OPEN - 1, NEW f \in OpenFile,
           Stored(t, fd, f), opening' = opening, job' = job,
           \/ f = NoFile
           \/ /\ files[t][fd] # NoFile
              /\ f.name = files[t][fd].name /\ f.hdr = files[t][fd].hdr /\ f.stale = files[t][fd].stale
    PROVE  /\ files' \in [Thread -> [0 .. MAX_OPEN - 1 -> OpenFile]]
           /\ OpenHasName' /\ RemovedIsStale'
           /\ \A u \in Thread, k \in 0 .. MAX_OPEN - 1 : files'[u][k] # NoFile =>
                /\ files[u][k] # NoFile /\ files'[u][k].name = files[u][k].name
                /\ files'[u][k].hdr = files[u][k].hdr /\ files'[u][k].stale = files[u][k].stale
<1>1. /\ files' \in [Thread -> [0 .. MAX_OPEN - 1 -> OpenFile]]
      /\ \A u \in Thread, k \in 0 .. MAX_OPEN - 1 :
           files'[u][k] = IF u = t /\ k = fd THEN f ELSE files[u][k]
      BY DEF Stored
<1>2. OpenHasName'
      BY <1>1 DEF FSInv, OpenHasName
<1>3. NoFile.name = NoName /\ NoName \notin Name
      BY FileSystemAssumption DEF NoFile, FileSystemAssumption
<1>4. RemovedIsStale'
  <2>1. SUFFICES ASSUME job.call = "remove", NEW u \in Thread, NEW k \in 0 .. MAX_OPEN - 1,
                        files'[u][k].name = job.name
                 PROVE  files'[u][k].stale
        BY DEF FSInv, RemovedIsStale
  <2>2. job.name \in Name
        BY <2>1, NoJobFacts DEF FSInv, JobOk, RemoveOk
  <2>3. files[u][k].name = job.name => files[u][k].stale
        BY <2>1 DEF FSInv, RemovedIsStale
  <2> QED BY <1>1, <1>3, <2>1, <2>2, <2>3
<1>5. \A u \in Thread, k \in 0 .. MAX_OPEN - 1 : files'[u][k] # NoFile =>
                /\ files[u][k] # NoFile /\ files'[u][k].name = files[u][k].name
                /\ files'[u][k].hdr = files[u][k].hdr /\ files'[u][k].stale = files[u][k].stale
      BY <1>1
<1> QED BY <1>1, <1>2, <1>4, <1>5

LEMMA TableStepKeeps ==
    ASSUME FSInv, NEW t \in Thread, NEW fd \in 0 .. MAX_OPEN - 1, NEW f \in OpenFile,
           Stored(t, fd, f),
           UNCHANGED <<disk, directory, freeMap, job, opening>>,
           \/ f = NoFile
           \/ /\ files[t][fd] # NoFile
              /\ f.name = files[t][fd].name /\ f.hdr = files[t][fd].hdr /\ f.stale = files[t][fd].stale
    PROVE  FSInv'
<1>1. /\ files' \in [Thread -> [0 .. MAX_OPEN - 1 -> OpenFile]]
      /\ OpenHasName' /\ RemovedIsStale'
      /\ \A u \in Thread, k \in 0 .. MAX_OPEN - 1 : files'[u][k] # NoFile =>
           /\ files[u][k] # NoFile /\ files'[u][k].name = files[u][k].name
           /\ files'[u][k].hdr = files[u][k].hdr /\ files'[u][k].stale = files[u][k].stale
      BY FileMoves
<1>2. TypesAre'
      BY <1>1 DEF FSInv, TypesAre
<1>3. JobOk' /\ Sound(disk, directory, FullMap)'
      BY DiskStays DEF FSInv
<1>4. OpeningsAreCurrent'
      BY DEF FSInv, OpeningsAreCurrent
<1>5. FilesAreCurrent'
      BY <1>1 DEF FSInv, FilesAreCurrent
<1> QED BY <1>1, <1>2, <1>3, <1>4, <1>5 DEF FSInv

LEMMA SeekIs ==
    ASSUME TypesAre, NEW t \in Thread, NEW fd \in 0 .. MAX_OPEN - 1, NEW n \in Nat,
           files' = [files EXCEPT ![t][fd].seekPosition = @ + n]
    PROVE  \E f \in OpenFile :
              /\ Stored(t, fd, f)
              /\ f.name = files[t][fd].name /\ f.hdr = files[t][fd].hdr /\ f.stale = files[t][fd].stale
<1>1. PICK g \in OpenFile : g = files[t][fd]
      BY DEF TypesAre
<1>2. PICK f : f = [g EXCEPT !.seekPosition = g.seekPosition + n]
      OBVIOUS
<1>3. f \in OpenFile /\ f.name = g.name /\ f.hdr = g.hdr /\ f.stale = g.stale
      BY <1>2 DEF OpenFile
<1>4. PICK row : row = [files[t] EXCEPT ![fd] = f]
      OBVIOUS
<1>5. files' = [files EXCEPT ![t] = row]
      BY <1>1, <1>2, <1>4
<1>6. Stored(t, fd, f)
      BY <1>3, <1>4, <1>5, FileStored
<1> QED BY <1>1, <1>3, <1>6

LEMMA ReadKeeps ==
    ASSUME FSInv, NEW t \in Thread, NEW fd \in 0 .. MAX_OPEN - 1, NEW size \in Request, Read(t, fd, size)
    PROVE  FSInv'
<1>1. PICK h \in Block : h = files[t][fd].hdr
      BY DEF FSInv, TypesAre, OpenFile
<1>2. PICK p \in Nat : p = files[t][fd].seekPosition
      BY DEF FSInv, TypesAre, OpenFile
<1>3. h.numBytes \in Nat /\ size \in Nat /\ size > 0
      BY FileSystemAssumption DEF Block, FileSystemAssumption
<1>4. PICK n : n = Len(ReadAt(h, size, p))
      OBVIOUS
<1>5. n \in Nat
  <2>1. CASE p >= h.numBytes
        BY <1>4, <2>1 DEF ReadAt
  <2>2. CASE p < h.numBytes
    <3>1. PICK c \in Nat : c = Served(h, size, p)
          BY <1>3, <2>2, ServedIs
    <3>2. PICK B : B = Buffer(h, p \div SECTOR_SIZE, (p + c - 1) \div SECTOR_SIZE)
          OBVIOUS
    <3>3. ReadAt(h, size, p) = [k \in 1 .. c |-> B[p - (p \div SECTOR_SIZE) * SECTOR_SIZE + k - 1]]
          BY <1>3, <2>2, <3>1, <3>2 DEF ReadAt
    <3>4. Len(ReadAt(h, size, p)) = c
          BY <3>3
    <3> QED BY <1>4, <3>1, <3>4
  <2> QED BY <1>3, <2>1, <2>2
<1>6. files' = [files EXCEPT ![t][fd].seekPosition = @ + n]
      BY <1>1, <1>2, <1>4 DEF Read
<1>7. PICK f \in OpenFile :
         /\ Stored(t, fd, f)
         /\ f.name = files[t][fd].name /\ f.hdr = files[t][fd].hdr /\ f.stale = files[t][fd].stale
      BY <1>5, <1>6, SeekIs DEF FSInv
<1>8. files[t][fd] # NoFile /\ UNCHANGED <<disk, directory, freeMap, job, opening>>
      BY DEF Read
<1> QED BY <1>7, <1>8, TableStepKeeps

LEMMA CloseKeeps ==
    ASSUME FSInv, NEW t \in Thread, NEW fd \in 0 .. MAX_OPEN - 1, Close(t, fd)
    PROVE  FSInv'
<1>1. NoFile \in OpenFile
      BY DEF NoFile, OpenFile, Raw, Block
<1>2. PICK row : row = [files[t] EXCEPT ![fd] = NoFile]
      OBVIOUS
<1>3. files' = [files EXCEPT ![t] = row] /\ UNCHANGED <<disk, directory, freeMap, job, opening>>
      BY <1>2 DEF Close
<1>4. Stored(t, fd, NoFile)
      BY <1>1, <1>2, <1>3, FileStored DEF FSInv
<1> QED BY <1>1, <1>3, <1>4, TableStepKeeps

-----------------------------------------------------------------------------
(* Write. *)

LEMMA BytesType ==
    ASSUME NEW raw \in Block
    PROVE  Bytes(raw) \in [1 .. SECTOR_SIZE -> 0 .. 2]
<1>1. raw.bytes \in {<<>>} \cup [1 .. SECTOR_SIZE -> 0 .. 2]
      BY DEF Block
<1>2. [i \in 1 .. SECTOR_SIZE |-> 2] \in [1 .. SECTOR_SIZE -> 0 .. 2]
      OBVIOUS
<1> QED BY <1>1, <1>2 DEF Bytes

LEMMA MixedType ==
    ASSUME disk \in [Sector -> Block], NEW h, HeaderOk(h), NEW p, NEW n, NEW f, NEW l, Spans(h, p, n, f, l),
           NEW k \in 0 .. (l - f + 1) * SECTOR_SIZE - 1
    PROVE  Mixed(h, p, n, f, l)[k] \in 0 .. 2
<1>1. PICK b \in Nat : b = SECTOR_SIZE /\ b > 0
      BY ConstantTypes
<1>2. f \in Nat /\ l \in Nat /\ f <= l /\ l + 1 <= Len(h.dataSectors)
      BY DEF Spans
<1>3. (l - f + 1) * b = b * l + b - b * f /\ b * l \in Int /\ b * f \in Nat
      BY <1>1, <1>2
<1>4. PICK x \in Nat : x = b * f + k /\ b * f <= x /\ x <= b * l + (b - 1)
      BY <1>1, <1>3
<1>5. (b * f + 0) \div b = f /\ (b * l + (b - 1)) \div b = l
      BY <1>1, <1>2, DivModUnique
<1>6. PICK q \in Nat : q = x \div b
      BY <1>1, DivNat
<1>7. q <= l
  <2>1. x \div b <= (b * l + (b - 1)) \div b
        BY <1>1, <1>3, <1>4, DivMonotone
  <2> QED BY <1>5, <1>6, <2>1
<1>8. h.dataSectors[q + 1] \in Sector
      BY <1>2, <1>6, <1>7 DEF HeaderOk
<1>9. (x % b) + 1 \in 1 .. SECTOR_SIZE
      BY <1>1, DivMod
<1>10. ByteOf(disk, h, x) \in 0 .. 2
  <2>1. Bytes(disk[h.dataSectors[q + 1]]) \in [1 .. SECTOR_SIZE -> 0 .. 2]
        BY <1>8, BytesType
  <2> QED BY <1>1, <1>6, <1>9, <2>1 DEF ByteOf
<1>11. Buffer(h, f, l)[k] \in 0 .. 2
  <2>1. Buffer(h, f, l)[k] = ByteOf(disk, h, SECTOR_SIZE * f + k)
        BY <1>2, BufferIs
  <2> QED BY <1>1, <1>4, <1>10, <2>1
<1> QED BY <1>11 DEF Mixed

LEMMA WriteAtType ==
    ASSUME disk \in [Sector -> Block], NEW h, HeaderOk(h), DistinctSectors(h),
           NEW p \in Nat, p < h.numBytes, NEW m \in Nat, m > 0
    PROVE  WriteAt(h, m, p) \in [Sector -> Block]
<1>1. PICK n \in Nat : n = Served(h, m, p) /\ n > 0 /\ p + n <= h.numBytes
      BY ServedIs DEF HeaderOk
<1>2. PICK f : f = p \div SECTOR_SIZE
      OBVIOUS
<1>3. PICK l : l = (p + n - 1) \div SECTOR_SIZE
      OBVIOUS
<1>4. Spans(h, p, n, f, l)
      BY <1>1, <1>2, <1>3, SpansIs
<1>5. WriteAt(h, m, p) = Written(h, p, n, f, l)
      BY <1>1, <1>2, <1>3, WriteAtForm
<1>6. PICK b \in Nat : b = SECTOR_SIZE /\ b > 0
      BY ConstantTypes
<1>7. f \in Nat /\ l \in Nat /\ f <= l
      BY <1>4 DEF Spans
<1>8. ASSUME NEW i \in f .. l
      PROVE  Data([k \in 1 .. SECTOR_SIZE |-> Mixed(h, p, n, f, l)[(i - f) * SECTOR_SIZE + k - 1]]) \in Block
  <2>1. ASSUME NEW k \in 1 .. SECTOR_SIZE
        PROVE  Mixed(h, p, n, f, l)[(i - f) * SECTOR_SIZE + k - 1] \in 0 .. 2
    <3>1. PICK o \in Nat : o = (i - f) * b
          BY <1>6, <1>7
    <3>2. (l - f) * b \in Nat /\ o <= (l - f) * b /\ (l - f + 1) * b = (l - f) * b + b
          BY <1>6, <1>7, <3>1
    <3>3. o + k - 1 \in 0 .. (l - f + 1) * b - 1
          BY <1>6, <3>1, <3>2
    <3>4. Mixed(h, p, n, f, l)[o + k - 1] \in 0 .. 2
          BY <1>4, <1>6, <3>3, MixedType
    <3> QED BY <1>6, <3>1, <3>4
  <2>2. PICK g : g = [k \in 1 .. SECTOR_SIZE |-> Mixed(h, p, n, f, l)[(i - f) * SECTOR_SIZE + k - 1]]
        OBVIOUS
  <2>3. g \in [1 .. SECTOR_SIZE -> 0 .. 2]
        BY <2>1, <2>2
  <2>4. Data(g) \in Block
        BY <2>3 DEF Data, Block
  <2> QED BY <2>2, <2>4
<1>9. ASSUME NEW s \in Sector PROVE Written(h, p, n, f, l)[s] \in Block
  <2>1. CASE \E i \in f .. l : h.dataSectors[i + 1] = s
    <3>1. PICK i \in f .. l : h.dataSectors[i + 1] = s
          BY <2>1
    <3>2. PICK D : D = Data([k \in 1 .. SECTOR_SIZE |-> Mixed(h, p, n, f, l)[(i - f) * SECTOR_SIZE + k - 1]])
          OBVIOUS
    <3>3. D \in Block
          BY <1>8, <3>2
    <3>4. Written(h, p, n, f, l)[h.dataSectors[i + 1]] = D
          BY <1>4, <3>2, WrittenIs
    <3> QED BY <3>1, <3>3, <3>4
  <2>2. CASE \A i \in f .. l : h.dataSectors[i + 1] # s
        BY <1>4, <2>2, WrittenIs
  <2> QED BY <2>1, <2>2
<1>10. Written(h, p, n, f, l) = [s \in Sector |-> Written(h, p, n, f, l)[s]]
      BY DEF Written
<1> QED BY <1>5, <1>9, <1>10

LEMMA UsedHeader ==
    ASSUME NEW dir \in Directory, NEW i \in UsedIn(dir)
    PROVE  i \in FilesIn(dir) /\ HeaderIn(dir, i) = dir[i].sector /\ i \in 1 .. NUM_DIR_ENTRIES
<1>1. i \in 1 .. NUM_DIR_ENTRIES
      BY DEF UsedIn, Directory
<1> QED BY <1>1, ConstantTypes DEF FilesIn, HeaderIn

(* No header is among the data of a file. *)
LEMMA HeadersAreApart ==
    ASSUME NEW d, NEW dir, NEW map, Sound(d, dir, map), NEW i \in FilesIn(dir), NEW j \in FilesIn(dir)
    PROVE  HeaderIn(dir, j) \notin SectorsOf(d[HeaderIn(dir, i)])
<1> SUFFICES ASSUME HeaderIn(dir, j) \in SectorsOf(d[HeaderIn(dir, i)]) PROVE FALSE
    OBVIOUS
<1>1. Owns(d, HeaderIn(dir, i), HeaderIn(dir, j)) /\ Owns(d, HeaderIn(dir, j), HeaderIn(dir, j))
      BY DEF Owns
<1>2. i = j
      BY <1>1 DEF Sound, FilesAreDisjoint
<1> QED BY <1>2 DEF Sound, FilesAreOk, FileOk

LEMMA JobStays ==
    ASSUME JobOk, UNCHANGED <<directory, freeMap, job>>, job # NoJob => disk'[job.sector] = disk[job.sector]
    PROVE  JobOk'
<1>1. CASE job = NoJob
      BY <1>1 DEF JobOk
<1>2. CASE job # NoJob /\ job.call = "create" /\ CreateOk
      BY <1>2 DEF JobOk, CreateOk, JobSectors
<1>3. CASE job # NoJob /\ job.call = "remove" /\ RemoveOk
      BY <1>3 DEF JobOk, RemoveOk, JobSectors
<1> QED BY <1>1, <1>2, <1>3 DEF JobOk

(* The sector of the call in progress is a header of the disk, or outside. *)
LEMMA JobSectorIs ==
    ASSUME TypesAre, JobOk, job # NoJob
    PROVE  /\ job.sector \in Sector
           /\ \/ job.sector \notin FullMap
              \/ \E k \in UsedIn(directory) : directory[k].sector = job.sector
<1>1. CASE job.call = "create" /\ CreateOk
  <2>1. CASE job.todo = <<"map">>
        BY <1>1, <2>1, NoJobFacts DEF CreateOk
  <2>2. CASE job.todo # <<"map">>
    <3>1. FullMap = freeMap
          BY <1>1, <2>2 DEF FullMap, HalfWritten
    <3> QED BY <1>1, <3>1, NoJobFacts DEF CreateOk, JobSectors
  <2> QED BY <2>1, <2>2
<1>2. CASE job.call = "remove" /\ RemoveOk
  <2>1. PICK k \in 1 .. NUM_DIR_ENTRIES : directory[k] = DirectoryEntry(job.name, job.sector)
        BY <1>2 DEF RemoveOk
  <2>2. job.name \in Name /\ job.sector \in Sector /\ NoName \notin Name
        BY <1>2, NoJobFacts, FileSystemAssumption DEF RemoveOk, FileSystemAssumption
  <2>3. k \in UsedIn(directory) /\ directory[k].sector = job.sector
        BY <2>1, <2>2 DEF UsedIn, DirectoryEntry, TypesAre, Directory
  <2> QED BY <2>2, <2>3
<1> QED BY <1>1, <1>2 DEF JobOk

LEMMA WriteKeeps ==
    ASSUME FSInv, NEW t \in Thread, NEW fd \in 0 .. MAX_OPEN - 1, NEW size \in Request, Write(t, fd, size)
    PROVE  tainted' \/ FSInv'
<1>1. PICK h \in Block : h = files[t][fd].hdr
      BY DEF FSInv, TypesAre, OpenFile
<1>2. PICK p \in Nat : p = files[t][fd].seekPosition
      BY DEF FSInv, TypesAre, OpenFile
<1>3. size \in Nat /\ size > 0
      BY FileSystemAssumption DEF FileSystemAssumption
<1>4. /\ files[t][fd] # NoFile /\ p < h.numBytes /\ disk' = WriteAt(h, size, p)
      /\ files' = [files EXCEPT ![t][fd].seekPosition = @ + Served(h, size, p)]
      /\ tainted' = files[t][fd].stale /\ UNCHANGED <<directory, freeMap, job, opening>>
      BY <1>1, <1>2 DEF Write
<1> SUFFICES ASSUME ~files[t][fd].stale PROVE FSInv'
    BY <1>4
<1>5. PICK i \in UsedIn(directory) : disk[directory[i].sector] = h
      BY <1>1, <1>4 DEF FSInv, FilesAreCurrent
<1>6. directory \in Directory /\ disk \in [Sector -> Block]
      BY DEF FSInv, TypesAre
<1>7. i \in FilesIn(directory) /\ disk[HeaderIn(directory, i)] = h
      BY <1>5, <1>6, UsedHeader
<1>8. HeaderOk(h) /\ DistinctSectors(h)
      BY <1>7 DEF FSInv, Sound, FilesAreOk, FileOk
<1>9. \A s \in Sector : s \notin SectorsOf(h) => disk'[s] = disk[s]
      BY <1>3, <1>4, <1>8, WriteAtElsewhere
<1>10. \A j \in FilesIn(directory) : disk'[HeaderIn(directory, j)] = disk[HeaderIn(directory, j)]
  <2>1. \A j \in FilesIn(directory) : HeaderIn(directory, j) \in Sector
        BY DEF FSInv, Sound, FilesAreOk, FileOk
  <2>2. \A j \in FilesIn(directory) : HeaderIn(directory, j) \notin SectorsOf(h)
        BY <1>7, HeadersAreApart DEF FSInv
  <2> QED BY <1>9, <2>1, <2>2
<1>11. \A k \in UsedIn(directory) : disk'[directory[k].sector] = disk[directory[k].sector]
      BY <1>6, <1>10, UsedHeader
<1>12. disk' \in [Sector -> Block]
      BY <1>3, <1>4, <1>6, <1>8, WriteAtType
<1>13. Served(h, size, p) \in Nat
      BY <1>3, <1>4, <1>8, ServedIs DEF HeaderOk
<1>14. PICK f \in OpenFile :
         /\ Stored(t, fd, f)
         /\ f.name = files[t][fd].name /\ f.hdr = files[t][fd].hdr /\ f.stale = files[t][fd].stale
  <2>1. PICK n \in Nat : n = Served(h, size, p)
        BY <1>13
  <2>2. files' = [files EXCEPT ![t][fd].seekPosition = @ + n]
        BY <1>4, <2>1
  <2> QED BY <2>2, SeekIs DEF FSInv
<1>15. /\ files' \in [Thread -> [0 .. MAX_OPEN - 1 -> OpenFile]]
       /\ OpenHasName' /\ RemovedIsStale'
       /\ \A u \in Thread, k \in 0 .. MAX_OPEN - 1 : files'[u][k] # NoFile =>
            /\ files[u][k] # NoFile /\ files'[u][k].name = files[u][k].name
            /\ files'[u][k].hdr = files[u][k].hdr /\ files'[u][k].stale = files[u][k].stale
      BY <1>4, <1>14, FileMoves
<1>16. TypesAre'
      BY <1>4, <1>12, <1>15 DEF FSInv, TypesAre
<1>17. FullMap' = FullMap
      BY <1>4 DEF FullMap, HalfWritten, JobSectors
<1>18. Sound(disk, directory, FullMap)'
  <2>1. Sound(disk', directory, FullMap)
        BY <1>10, SoundWithData DEF FSInv
  <2> QED BY <1>4, <1>17, <2>1
<1>19. JobOk'
  <2>1. ASSUME job # NoJob PROVE disk'[job.sector] = disk[job.sector]
    <3>1. job.sector \in Sector
          BY <2>1, JobSectorIs DEF FSInv
    <3>2. CASE job.sector \notin FullMap
      <4>1. job.sector \notin SectorsOf(h)
            BY <1>7, <3>2 DEF FSInv, Sound, MapIsExact, Owns
      <4> QED BY <1>9, <3>1, <4>1
    <3>3. CASE \E k \in UsedIn(directory) : directory[k].sector = job.sector
          BY <1>11, <3>3
    <3> QED BY <2>1, <3>2, <3>3, JobSectorIs DEF FSInv
  <2> QED BY <1>4, <2>1, JobStays DEF FSInv
<1>20. OpeningsAreCurrent'
      BY <1>4 DEF FSInv, OpeningsAreCurrent
<1>21. FilesAreCurrent'
      BY <1>4, <1>11, <1>15 DEF FSInv, FilesAreCurrent
<1> QED BY <1>15, <1>16, <1>18, <1>19, <1>20, <1>21 DEF FSInv

-----------------------------------------------------------------------------
(* Create and Remove, up to their writes. *)

LEMMA AllocateIs ==
    ASSUME freeMap \in SUBSET Sector, NEW size \in FileSize,
           Cardinality(Clear) > DivRoundUp(size, SECTOR_SIZE)
    PROVE  /\ Find(1) \in Clear /\ Allocate(size) \in Block
           /\ HeaderOk(Allocate(size)) /\ DistinctSectors(Allocate(size))
           /\ Find(1) \notin SectorsOf(Allocate(size)) /\ SectorsOf(Allocate(size)) \subseteq Clear
<1>1. size \in Nat
  <2>1. NUM_DIRECT * SECTOR_SIZE \in Int
        BY ConstantTypes
  <2> QED BY <2>1, FileSystemAssumption DEF FileSystemAssumption
<1>2. PICK K \in Nat : K = DivRoundUp(size, SECTOR_SIZE)
      BY <1>1, ConstantTypes, DivNat DEF DivRoundUp
<1>3. Cardinality(Clear) \in Nat
      BY ConstantTypes, BelowIsFinite DEF Clear, Sector
<1>4. /\ \A k \in 1 .. K + 1 : Find(k) \in Clear
      /\ \A k, l \in 1 .. K + 1 : Find(k) = Find(l) => k = l
  <2>1. Cardinality(Clear) >= K + 1 /\ K + 1 \in Nat
        BY <1>2, <1>3
  <2> QED BY <2>1, FindIs
<1>5. PICK ds : ds = [i \in 1 .. K |-> Find(i + 1)]
      OBVIOUS
<1>6. \A i \in 1 .. K : i + 1 \in 1 .. K + 1 /\ i + 1 # 1
      BY <1>2
<1>7. \A i \in 1 .. K : ds[i] \in Clear /\ ds[i] # Find(1)
      BY <1>4, <1>5, <1>6
<1>8. \A i, j \in 1 .. K : ds[i] = ds[j] => i = j
  <2>1. ASSUME NEW i \in 1 .. K, NEW j \in 1 .. K, ds[i] = ds[j] PROVE i = j
    <3>1. Find(i + 1) = Find(j + 1)
          BY <1>5, <2>1
    <3>2. i + 1 = j + 1
          BY <1>4, <1>6, <3>1
    <3> QED BY <3>2
  <2> QED BY <2>1
<1>9. ds \in Seq(Sector) /\ Len(ds) = K /\ DOMAIN ds = 1 .. K
  <2>1. \A i \in 1 .. K : ds[i] \in Sector
        BY <1>7 DEF Clear
  <2>2. ds \in [1 .. K -> Sector]
        BY <1>5, <2>1
  <2> QED BY <1>2, <2>2, SeqDef
<1>10. PICK h : h = Raw(size, ds)
      OBVIOUS
<1>11. h \in Block /\ h.numBytes = size /\ h.dataSectors = ds
      BY <1>1, <1>9, <1>10 DEF Raw, Block
<1>12. HeaderOk(h)
      BY <1>1, <1>2, <1>9, <1>11 DEF HeaderOk, SmallFiles
<1>13. DistinctSectors(h)
      BY <1>8, <1>9, <1>11 DEF DistinctSectors
<1>14. Find(1) \notin SectorsOf(h) /\ SectorsOf(h) \subseteq Clear
      BY <1>7, <1>9, <1>11, InSectors
<1>15. Allocate(size) = h
      BY <1>2, <1>5, <1>10 DEF Allocate
<1>16. Find(1) \in Clear
      BY <1>2, <1>4
<1> QED BY <1>11, <1>12, <1>13, <1>14, <1>15, <1>16

LEMMA CreateKeeps ==
    ASSUME FSInv, NEW name \in Name, NEW size \in FileSize, Create(name, size)
    PROVE  FSInv'
<1>1. /\ job = NoJob /\ FindIndex(name) = 0 /\ FindIndex(NoName) # 0
      /\ Cardinality(Clear) > DivRoundUp(size, SECTOR_SIZE)
      /\ UNCHANGED <<disk, directory, freeMap, opening, files, tainted>>
      BY DEF Create
<1>2. TypesAre /\ directory \in Directory /\ freeMap \in SUBSET Sector
      BY DEF FSInv, TypesAre
<1>3. PICK k \in 1 .. NUM_DIR_ENTRIES : k = FindIndex(NoName) /\ directory[k].name = NoName
  <2>1. DOMAIN directory = 1 .. NUM_DIR_ENTRIES
        BY <1>2 DEF Directory
  <2> QED BY <1>1, <1>2, <2>1, DirectoryIsSeq, FindIndexIs
<1>4. PICK s : s = Find(1)
      OBVIOUS
<1>5. PICK h : h = Allocate(size)
      OBVIOUS
<1>6. /\ s \in Sector /\ s \notin freeMap /\ h \in Block /\ HeaderOk(h) /\ DistinctSectors(h)
      /\ s \notin SectorsOf(h) /\ SectorsOf(h) \subseteq Sector \ freeMap
  <2>1. /\ s \in Clear /\ h \in Block /\ HeaderOk(h) /\ DistinctSectors(h)
        /\ s \notin SectorsOf(h) /\ SectorsOf(h) \subseteq Clear
        BY <1>1, <1>2, <1>4, <1>5, AllocateIs
  <2> QED BY <2>1 DEF Clear
<1>7. PICK new : new = [directory EXCEPT ![k] = DirectoryEntry(name, s)]
      OBVIOUS
<1>8. new \in Directory
  <2>1. Added(directory, new, k, name, s)
        BY <1>2, <1>3, <1>6, <1>7, FilesOfAdd
  <2> QED BY <2>1 DEF Added
<1>9. PICK map : map = freeMap \cup {s} \cup SectorsOf(h)
      OBVIOUS
<1>10. job' = [call |-> "create", name |-> name, sector |-> s, header |-> h,
               dir |-> new, map |-> map, todo |-> CreateOrder]
      BY <1>3, <1>4, <1>5, <1>7, <1>9 DEF Create, Add
<1>11. /\ job'.call = "create" /\ job'.name = name /\ job'.sector = s /\ job'.header = h
       /\ job'.dir = new /\ job'.map = map /\ job'.todo = CreateOrder
      BY <1>10
<1>12. CreateOrder \in CreateSteps /\ CreateOrder # <<"map">>
      BY StepFacts DEF CreateSteps
<1>13. map \in SUBSET Sector
      BY <1>2, <1>6, <1>9
<1>14. job' \in JobType
      BY <1>6, <1>8, <1>10, <1>12, <1>13 DEF JobType
<1>15. JobSectors' = {s} \cup SectorsOf(h)
      BY <1>11 DEF JobSectors, SectorsOf
<1>16. \A i \in UsedIn(directory) : directory[i].name # name
      BY <1>1, <1>2, FoundIs
<1>17. CreateOk'
  <2>1. JobSectors' \cap freeMap' = {} /\ job'.map = freeMap' \cup JobSectors'
        BY <1>1, <1>6, <1>9, <1>11, <1>15
  <2>2. HeaderOk(job.header)' /\ DistinctSectors(job.header)' /\ (job.sector \notin SectorsOf(job.header))'
        BY <1>6, <1>11 DEF HeaderOk, DistinctSectors, SectorsOf
  <2>3. \A i \in UsedIn(directory)' : directory'[i].name # job'.name
        BY <1>1, <1>11, <1>16
  <2>4. directory'[k].name = NoName /\ job'.dir = [directory' EXCEPT ![k] = DirectoryEntry(job'.name, job'.sector)]
        BY <1>1, <1>3, <1>7, <1>11
  <2> QED BY <1>11, <1>12, <1>14, <2>1, <2>2, <2>3, <2>4 DEF CreateOk, DirectoryEntry
<1>18. JobOk'
      BY <1>11, <1>17 DEF JobOk
<1>19. Sound(disk, directory, FullMap)'
  <2>1. FullMap = freeMap /\ FullMap' = freeMap
        BY <1>1, <1>11, <1>12, NoJobFacts DEF FullMap, HalfWritten
  <2> QED BY <1>1, <2>1 DEF FSInv
<1>20. RemovedIsStale'
      BY <1>11 DEF RemovedIsStale
<1>21. TypesAre' /\ OpenHasName' /\ OpeningsAreCurrent' /\ FilesAreCurrent'
      BY <1>1 DEF FSInv, TypesAre, OpenHasName, OpeningsAreCurrent, FilesAreCurrent
<1> QED BY <1>18, <1>19, <1>20, <1>21 DEF FSInv

LEMMA MarkedFile ==
    ASSUME NEW f \in OpenFile, NEW name \in Name
    PROVE  /\ Marked(f, name) \in OpenFile
           /\ Marked(f, name).name = f.name /\ Marked(f, name).hdr = f.hdr
           /\ (f.stale => Marked(f, name).stale) /\ (f.name = name => Marked(f, name).stale)
           /\ f = NoFile => Marked(f, name) = NoFile
<1>1. /\ Marked(f, name) \in OpenFile
      /\ Marked(f, name).name = f.name /\ Marked(f, name).hdr = f.hdr
      /\ (f.stale => Marked(f, name).stale) /\ (f.name = name => Marked(f, name).stale)
      BY DEF Marked, OpenFile
<1>2. NoFile.name # name /\ NoFile.stale = FALSE
      BY FileSystemAssumption DEF NoFile, FileSystemAssumption
<1>3. ASSUME f = NoFile PROVE Marked(f, name) = f
  <2>1. (f.stale \/ f.name = name) = f.stale
        BY <1>2, <1>3
  <2>2. Marked(f, name) = [f EXCEPT !.stale = f.stale]
        BY <2>1 DEF Marked
  <2> QED BY <2>2 DEF OpenFile
<1> QED BY <1>1, <1>3

LEMMA MarkedOpening ==
    ASSUME NEW o \in Opening, NEW name \in Name
    PROVE  /\ Marked(o, name) \in Opening
           /\ Marked(o, name).name = o.name /\ Marked(o, name).sector = o.sector
           /\ (o.stale => Marked(o, name).stale) /\ (o.name = name => Marked(o, name).stale)
           /\ o = NotOpening => Marked(o, name) = NotOpening
<1>1. /\ Marked(o, name) \in Opening
      /\ Marked(o, name).name = o.name /\ Marked(o, name).sector = o.sector
      /\ (o.stale => Marked(o, name).stale) /\ (o.name = name => Marked(o, name).stale)
      BY DEF Marked, Opening
<1>2. NotOpening.name # name /\ NotOpening.stale = FALSE
      BY FileSystemAssumption DEF NotOpening, FileSystemAssumption
<1>3. ASSUME o = NotOpening PROVE Marked(o, name) = o
  <2>1. (o.stale \/ o.name = name) = o.stale
        BY <1>2, <1>3
  <2>2. Marked(o, name) = [o EXCEPT !.stale = o.stale]
        BY <2>1 DEF Marked
  <2> QED BY <2>2 DEF Opening
<1> QED BY <1>1, <1>3

LEMMA RemoveKeeps ==
    ASSUME FSInv, NEW name \in Name, RemoveFile(name)
    PROVE  FSInv'
<1>1. PICK i : i = FindIndex(name)
      OBVIOUS
<1>2. PICK s : s = directory[i].sector
      OBVIOUS
<1>3. /\ job = NoJob /\ i # 0 /\ UNCHANGED <<disk, directory, freeMap, tainted>>
      /\ opening' = [t \in Thread |-> Marked(opening[t], name)]
      /\ files' = [t \in Thread |-> [k \in DOMAIN files[t] |-> Marked(files[t][k], name)]]
      BY <1>1 DEF RemoveFile
<1>4. /\ TypesAre /\ directory \in Directory /\ freeMap \in SUBSET Sector /\ disk \in [Sector -> Block]
      /\ opening \in [Thread -> Opening] /\ files \in [Thread -> [0 .. MAX_OPEN - 1 -> OpenFile]]
      BY DEF FSInv, TypesAre
<1>5. i \in 1 .. NUM_DIR_ENTRIES /\ directory[i].name = name /\ s \in Sector /\ NoName \notin Name
      BY <1>1, <1>2, <1>3, <1>4, FoundIs, FileSystemAssumption DEF FileSystemAssumption
<1>6. PICK new : new = [directory EXCEPT ![i] = Unused]
      OBVIOUS
<1>7. new \in Directory
  <2>1. Dropped(directory, new, i)
        BY <1>4, <1>5, <1>6, FilesOfDrop
  <2> QED BY <2>1 DEF Dropped
<1>8. PICK map : map = freeMap \ ({s} \cup SectorsOf(disk[s]))
      OBVIOUS
<1>9. Deallocated(s) = map
      BY <1>8 DEF Deallocated
<1>10. PICK h \in Block : h = disk[s]
      BY <1>4, <1>5
<1>11. job' = [call |-> "remove", name |-> name, sector |-> s, header |-> h,
               dir |-> new, map |-> map, todo |-> <<"map", "dir">>]
      BY <1>1, <1>2, <1>6, <1>9, <1>10 DEF RemoveFile
<1>12. /\ job'.call = "remove" /\ job'.name = name /\ job'.sector = s /\ job'.header = h
       /\ job'.dir = new /\ job'.map = map /\ job'.todo = <<"map", "dir">>
      BY <1>11
<1>13. <<"map", "dir">> \in RemoveSteps /\ <<"map", "dir">> # <<"dir">>
      BY StepFacts DEF RemoveSteps
<1>14. job' \in JobType
      BY <1>4, <1>5, <1>7, <1>8, <1>11, <1>13 DEF JobType
<1>15. JobSectors' = {s} \cup SectorsOf(h)
      BY <1>12 DEF JobSectors, SectorsOf
<1>16. directory[i] = DirectoryEntry(name, s)
  <2>1. directory[i] \in Entry
        BY <1>4, <1>5 DEF Directory
  <2> QED BY <1>2, <1>5, <2>1 DEF Entry, DirectoryEntry
<1>17. JobOk'
  <2>1. disk'[job'.sector] = job'.header /\ job'.map = freeMap' \ JobSectors'
        BY <1>3, <1>8, <1>10, <1>12, <1>15
  <2>2. directory'[i] = DirectoryEntry(job'.name, job'.sector) /\ job'.dir = [directory' EXCEPT ![i] = Unused]
        BY <1>3, <1>6, <1>12, <1>16
  <2>3. RemoveOk'
        BY <1>5, <1>12, <1>13, <1>14, <2>1, <2>2 DEF RemoveOk, DirectoryEntry, Unused
  <2> QED BY <1>12, <2>3 DEF JobOk
<1>18. Sound(disk, directory, FullMap)'
  <2>1. FullMap = freeMap /\ FullMap' = freeMap
        BY <1>3, <1>12, <1>13, NoJobFacts DEF FullMap, HalfWritten
  <2> QED BY <1>3, <2>1 DEF FSInv
<1>19. \A t \in Thread : /\ opening'[t] \in Opening /\ opening'[t].name = opening[t].name
                         /\ opening'[t].sector = opening[t].sector
                         /\ (opening[t].stale => opening'[t].stale) /\ (opening[t].name = name => opening'[t].stale)
                         /\ opening'[t] # NotOpening => opening[t] # NotOpening
      BY <1>3, <1>4, MarkedOpening
<1>20. \A t \in Thread, k \in 0 .. MAX_OPEN - 1 :
          /\ files'[t][k] \in OpenFile /\ files'[t][k].name = files[t][k].name
          /\ files'[t][k].hdr = files[t][k].hdr
          /\ (files[t][k].stale => files'[t][k].stale) /\ (files[t][k].name = name => files'[t][k].stale)
          /\ files'[t][k] # NoFile => files[t][k] # NoFile
  <2>1. ASSUME NEW t \in Thread, NEW k \in 0 .. MAX_OPEN - 1
        PROVE  files'[t][k] = Marked(files[t][k], name) /\ files[t][k] \in OpenFile
        BY <1>3, <1>4
  <2> QED BY <2>1, MarkedFile
<1>21. TypesAre'
  <2>1. opening' \in [Thread -> Opening]
        BY <1>3, <1>19
  <2>2. files' \in [Thread -> [0 .. MAX_OPEN - 1 -> OpenFile]]
    <3>1. ASSUME NEW t \in Thread PROVE files'[t] \in [0 .. MAX_OPEN - 1 -> OpenFile]
      <4>1. files'[t] = [k \in 0 .. MAX_OPEN - 1 |-> Marked(files[t][k], name)]
            BY <1>3, <1>4
      <4> QED BY <1>20, <4>1
    <3> QED BY <1>3, <3>1
  <2> QED BY <1>3, <1>4, <2>1, <2>2 DEF TypesAre
<1>22. OpenHasName'
      BY <1>19, <1>20 DEF FSInv, OpenHasName
<1>23. RemovedIsStale'
      BY <1>12, <1>19, <1>20 DEF RemovedIsStale
<1>24. OpeningsAreCurrent'
      BY <1>3, <1>19 DEF FSInv, OpeningsAreCurrent
<1>25. FilesAreCurrent'
  <2> SUFFICES ASSUME NEW t \in Thread, NEW k \in 0 .. MAX_OPEN - 1,
                      files'[t][k] # NoFile, ~files'[t][k].stale
               PROVE  \E j \in UsedIn(directory) :
                         /\ directory[j].name = files'[t][k].name
                         /\ disk[directory[j].sector] = files'[t][k].hdr
      BY <1>3 DEF FilesAreCurrent
  <2>1. /\ files[t][k] # NoFile /\ ~files[t][k].stale
        /\ files'[t][k].name = files[t][k].name /\ files'[t][k].hdr = files[t][k].hdr
        BY <1>20
  <2> QED BY <2>1 DEF FSInv, FilesAreCurrent
<1> QED BY <1>17, <1>18, <1>21, <1>22, <1>23, <1>24, <1>25 DEF FSInv

-----------------------------------------------------------------------------
(* The writes of Create and Remove. *)

(* The call goes on with `rest'. *)
Advances(rest) ==
    /\ job' \in JobType /\ job'.todo = rest
    /\ job'.call = job.call /\ job'.name = job.name /\ job'.sector = job.sector
    /\ job'.header = job.header /\ job'.dir = job.dir /\ job'.map = job.map
    /\ JobSectors' = JobSectors

LEMMA AdvanceIs ==
    ASSUME job \in JobType, NEW rest \in CreateSteps \cup RemoveSteps,
           job' = [job EXCEPT !.todo = rest]
    PROVE  Advances(rest)
<1>1. /\ job' \in JobType /\ job'.todo = rest
      /\ job'.call = job.call /\ job'.name = job.name /\ job'.sector = job.sector
      /\ job'.header = job.header /\ job'.dir = job.dir /\ job'.map = job.map
      BY DEF JobType
<1>2. JobSectors' = JobSectors
      BY <1>1 DEF JobSectors, SectorsOf
<1> QED BY <1>1, <1>2 DEF Advances

(* What a write does, by what is to be written. *)
LEMMA WriteBackIs ==
    ASSUME JobOk, WriteBack
    PROVE  /\ job # NoJob /\ UNCHANGED <<opening, files, tainted>>
           /\ job.todo = <<"header", "dir", "map">> =>
                /\ disk' = [disk EXCEPT ![job.sector] = job.header] /\ UNCHANGED <<directory, freeMap>>
                /\ Advances(<<"dir", "map">>)
           /\ job.todo = <<"dir", "map">> =>
                directory' = job.dir /\ UNCHANGED <<disk, freeMap>> /\ Advances(<<"map">>)
           /\ job.todo = <<"map">> =>
                freeMap' = job.map /\ UNCHANGED <<disk, directory>> /\ job' = NoJob
           /\ job.todo = <<"map", "dir">> =>
                freeMap' = job.map /\ UNCHANGED <<disk, directory>> /\ Advances(<<"dir">>)
           /\ job.todo = <<"dir">> =>
                directory' = job.dir /\ UNCHANGED <<disk, freeMap>> /\ job' = NoJob
<1>1. job # NoJob /\ UNCHANGED <<opening, files, tainted>>
      BY DEF WriteBack
<1>2. job \in JobType
      BY <1>1 DEF JobOk, CreateOk, RemoveOk
<1>3. ASSUME job.todo = <<"header", "dir", "map">>
      PROVE  /\ disk' = [disk EXCEPT ![job.sector] = job.header] /\ UNCHANGED <<directory, freeMap>>
             /\ Advances(<<"dir", "map">>)
  <2>1. disk' = [disk EXCEPT ![job.sector] = job.header] /\ UNCHANGED <<directory, freeMap>>
        BY <1>3, StepFacts DEF WriteBack
  <2>2. job' = [job EXCEPT !.todo = <<"dir", "map">>]
        BY <1>3, StepFacts DEF WriteBack
  <2> QED BY <1>2, <2>1, <2>2, AdvanceIs DEF CreateSteps
<1>4. ASSUME job.todo = <<"dir", "map">>
      PROVE  directory' = job.dir /\ UNCHANGED <<disk, freeMap>> /\ Advances(<<"map">>)
  <2>1. directory' = job.dir /\ UNCHANGED <<disk, freeMap>>
        BY <1>4, StepFacts DEF WriteBack
  <2>2. job' = [job EXCEPT !.todo = <<"map">>]
        BY <1>4, StepFacts DEF WriteBack
  <2> QED BY <1>2, <2>1, <2>2, AdvanceIs DEF CreateSteps
<1>5. ASSUME job.todo = <<"map">>
      PROVE  freeMap' = job.map /\ UNCHANGED <<disk, directory>> /\ job' = NoJob
      BY <1>5, StepFacts DEF WriteBack
<1>6. ASSUME job.todo = <<"map", "dir">>
      PROVE  freeMap' = job.map /\ UNCHANGED <<disk, directory>> /\ Advances(<<"dir">>)
  <2>1. freeMap' = job.map /\ UNCHANGED <<disk, directory>>
        BY <1>6, StepFacts DEF WriteBack
  <2>2. job' = [job EXCEPT !.todo = <<"dir">>]
        BY <1>6, StepFacts DEF WriteBack
  <2> QED BY <1>2, <2>1, <2>2, AdvanceIs DEF RemoveSteps
<1>7. ASSUME job.todo = <<"dir">>
      PROVE  directory' = job.dir /\ UNCHANGED <<disk, freeMap>> /\ job' = NoJob
      BY <1>7, StepFacts DEF WriteBack
<1> QED BY <1>1, <1>3, <1>4, <1>5, <1>6, <1>7

LEMMA CreateHeaderKeeps ==
    ASSUME FSInv, WriteBack, job.call = "create", CreateOk, job.todo = <<"header", "dir", "map">>
    PROVE  FSInv'
<1>1. /\ disk' = [disk EXCEPT ![job.sector] = job.header]
      /\ UNCHANGED <<directory, freeMap, opening, files>> /\ Advances(<<"dir", "map">>)
      BY WriteBackIs DEF FSInv
<1>2. /\ job \in JobType /\ job.sector \in Sector /\ job.header \in Block
      /\ disk \in [Sector -> Block] /\ directory \in Directory
      BY DEF CreateOk, JobType, FSInv, TypesAre
<1>3. disk' \in [Sector -> Block] /\ disk'[job.sector] = job.header
      BY <1>1, <1>2
<1>4. \A s \in Sector : s # job.sector => disk'[s] = disk[s]
      BY <1>1, <1>2
<1>5. FullMap = freeMap /\ FullMap' = freeMap
      BY <1>1, StepFacts DEF FullMap, HalfWritten, Advances
<1>6. job.sector \notin freeMap
      BY DEF CreateOk, JobSectors
<1>7. \A j \in FilesIn(directory) : disk'[HeaderIn(directory, j)] = disk[HeaderIn(directory, j)]
  <2>1. \A j \in FilesIn(directory) : HeaderIn(directory, j) \in Sector /\ HeaderIn(directory, j) \in freeMap
        BY <1>5 DEF FSInv, Sound, FilesAreOk, FileOk, MapIsExact, Owns
  <2> QED BY <1>4, <1>6, <2>1
<1>8. \A k \in UsedIn(directory) : disk'[directory[k].sector] = disk[directory[k].sector]
      BY <1>2, <1>7, UsedHeader
<1>9. Sound(disk, directory, FullMap)'
  <2>1. Sound(disk', directory, freeMap)
        BY <1>5, <1>7, SoundWithData DEF FSInv
  <2> QED BY <1>1, <1>5, <2>1
<1>10. CreateOk'
  <2>1. job'.todo = <<"dir", "map">> /\ <<"dir", "map">> \in CreateSteps /\ <<"dir", "map">> # <<"map">>
        BY <1>1, StepFacts DEF Advances, CreateSteps
  <2>2. HeaderOk(job.header)' /\ DistinctSectors(job.header)' /\ (job.sector \notin SectorsOf(job.header))'
        BY <1>1 DEF CreateOk, HeaderOk, DistinctSectors, SectorsOf, Advances
  <2>3. JobSectors' \cap freeMap' = {} /\ job'.map = freeMap' \cup JobSectors'
        BY <1>1 DEF CreateOk, Advances
  <2>4. disk'[job'.sector] = job'.header
        BY <1>1, <1>3 DEF Advances
  <2>5. /\ \A i \in UsedIn(directory) : directory[i].name # job.name
        /\ \E k \in 1 .. NUM_DIR_ENTRIES :
             /\ directory[k].name = NoName
             /\ job.dir = [directory EXCEPT ![k] = DirectoryEntry(job.name, job.sector)]
        BY StepFacts DEF CreateOk
  <2>6. /\ \A i \in UsedIn(directory)' : directory'[i].name # job'.name
        /\ \E k \in 1 .. NUM_DIR_ENTRIES :
             /\ directory'[k].name = NoName
             /\ job'.dir = [directory' EXCEPT ![k] = DirectoryEntry(job.name, job.sector)']
        BY <1>1, <2>5 DEF Advances, DirectoryEntry
  <2>7. job' \in JobType
        BY <1>1 DEF Advances
  <2> QED BY <2>1, <2>2, <2>3, <2>4, <2>6, <2>7 DEF CreateOk
<1>11. JobOk' /\ RemovedIsStale'
      BY <1>1, <1>10 DEF JobOk, RemovedIsStale, Advances
<1>12. TypesAre' /\ OpenHasName' /\ OpeningsAreCurrent'
      BY <1>1, <1>3 DEF FSInv, TypesAre, OpenHasName, OpeningsAreCurrent
<1>13. FilesAreCurrent'
      BY <1>1, <1>8 DEF FSInv, FilesAreCurrent
<1> QED BY <1>9, <1>11, <1>12, <1>13 DEF FSInv

LEMMA CreateDirKeeps ==
    ASSUME FSInv, WriteBack, job.call = "create", CreateOk, job.todo = <<"dir", "map">>
    PROVE  FSInv'
<1>1. directory' = job.dir /\ UNCHANGED <<disk, freeMap, opening, files>> /\ Advances(<<"map">>)
      BY WriteBackIs DEF FSInv
<1>2. /\ job \in JobType /\ job.sector \in Sector /\ job.name \in Name /\ directory \in Directory
      BY DEF CreateOk, JobType, FSInv, TypesAre
<1>3. PICK k \in 1 .. NUM_DIR_ENTRIES :
         /\ directory[k].name = NoName
         /\ directory' = [directory EXCEPT ![k] = DirectoryEntry(job.name, job.sector)]
      BY <1>1, StepFacts DEF CreateOk
<1>4. \A i \in UsedIn(directory) : directory[i].name # job.name
      BY StepFacts DEF CreateOk
<1>5. disk[job.sector] = job.header /\ FileOk(disk, job.sector)
      BY <1>2, StepFacts DEF CreateOk, FileOk
<1>6. \A s : Owns(disk, job.sector, s) <=> s \in JobSectors
      BY <1>5 DEF Owns, JobSectors
<1>7. FullMap = freeMap /\ FullMap' = freeMap \cup JobSectors
      BY <1>1, StepFacts DEF FullMap, HalfWritten, Advances
<1>8. Added(directory, directory', k, job.name, job.sector)
      BY <1>2, <1>3, FilesOfAdd
<1>9. Sound(disk, directory', FullMap')
  <2>1. \A s : Owns(disk, job.sector, s) => s \notin freeMap
        BY <1>6 DEF CreateOk
  <2>2. \A s : s \in FullMap' <=> s \in freeMap \/ Owns(disk, job.sector, s)
        BY <1>6, <1>7
  <2>3. Sound(disk, directory, freeMap)
        BY <1>7 DEF FSInv
  <2> QED BY <1>4, <1>5, <1>8, <2>1, <2>2, <2>3, SoundAdd
<1>10. CreateOk'
  <2>1. job'.todo = <<"map">> /\ <<"map">> \in CreateSteps
        BY <1>1 DEF Advances, CreateSteps
  <2>2. HeaderOk(job.header)' /\ DistinctSectors(job.header)' /\ (job.sector \notin SectorsOf(job.header))'
        BY <1>1 DEF CreateOk, HeaderOk, DistinctSectors, SectorsOf, Advances
  <2>3. JobSectors' \cap freeMap' = {} /\ job'.map = freeMap' \cup JobSectors'
        BY <1>1 DEF CreateOk, Advances
  <2>4. disk'[job'.sector] = job'.header
        BY <1>1, <1>5 DEF Advances
  <2>5. k \in UsedIn(directory)' /\ directory'[k].sector = job'.sector
    <3>1. k \in UsedIn(directory')
          BY <1>8 DEF Added
    <3>2. directory'[k].sector = job.sector
          BY <1>2, <1>3 DEF Directory, DirectoryEntry
    <3> QED BY <1>1, <3>1, <3>2 DEF Advances
  <2>6. job' \in JobType
        BY <1>1 DEF Advances
  <2> QED BY <2>1, <2>2, <2>3, <2>4, <2>5, <2>6 DEF CreateOk
<1>11. JobOk' /\ RemovedIsStale'
      BY <1>1, <1>10 DEF JobOk, RemovedIsStale, Advances
<1>12. TypesAre' /\ OpenHasName'
      BY <1>1, <1>8 DEF FSInv, TypesAre, OpenHasName, Added
<1>13. \A i \in UsedIn(directory) : i \in UsedIn(directory)' /\ directory'[i] = directory[i]
      BY <1>8 DEF Added
<1>14. OpeningsAreCurrent'
      BY <1>1, <1>13 DEF FSInv, OpeningsAreCurrent
<1>15. FilesAreCurrent'
      BY <1>1, <1>13 DEF FSInv, FilesAreCurrent
<1> QED BY <1>1, <1>9, <1>11, <1>12, <1>14, <1>15 DEF FSInv

LEMMA CreateMapKeeps ==
    ASSUME FSInv, WriteBack, job.call = "create", CreateOk, job.todo = <<"map">>
    PROVE  FSInv'
<1>1. freeMap' = job.map /\ UNCHANGED <<disk, directory, opening, files>> /\ job' = NoJob
      BY WriteBackIs DEF FSInv
<1>2. FullMap = freeMap \cup JobSectors /\ freeMap' = freeMap \cup JobSectors /\ freeMap' \in SUBSET Sector
      BY <1>1 DEF FullMap, HalfWritten, CreateOk, JobType
<1>3. FullMap' = freeMap'
      BY <1>1, NoJobFacts DEF FullMap, HalfWritten
<1>4. JobOk' /\ RemovedIsStale'
      BY <1>1, NoJobFacts DEF JobOk, RemovedIsStale
<1>5. Sound(disk, directory, FullMap)'
      BY <1>1, <1>2, <1>3 DEF FSInv
<1>6. TypesAre' /\ OpenHasName' /\ OpeningsAreCurrent' /\ FilesAreCurrent'
      BY <1>1, <1>2 DEF FSInv, TypesAre, OpenHasName, OpeningsAreCurrent, FilesAreCurrent
<1> QED BY <1>4, <1>5, <1>6 DEF FSInv

(* The file that Remove is about to take out is one of the disk's. *)
LEMMA RemovedIs ==
    ASSUME TypesAre, RemoveOk, Sound(disk, directory, FullMap)
    PROVE  \E k \in UsedIn(directory) :
              /\ directory[k].name = job.name /\ directory[k].sector = job.sector
              /\ directory[k] = DirectoryEntry(job.name, job.sector)
              /\ job.dir = [directory EXCEPT ![k] = Unused]
              /\ \A s : Owns(disk, directory[k].sector, s) <=> s \in JobSectors
              /\ JobSectors \subseteq FullMap
<1>1. PICK k \in 1 .. NUM_DIR_ENTRIES :
         /\ directory[k] = DirectoryEntry(job.name, job.sector)
         /\ job.dir = [directory EXCEPT ![k] = Unused]
      BY DEF RemoveOk
<1>2. directory[k].name = job.name /\ directory[k].sector = job.sector
      BY <1>1 DEF DirectoryEntry
<1>3. job.name # NoName /\ directory \in Directory
      BY NoJobFacts, FileSystemAssumption DEF FileSystemAssumption, RemoveOk, TypesAre
<1>4. k \in UsedIn(directory)
      BY <1>2, <1>3 DEF UsedIn, Directory
<1>5. \A s : Owns(disk, directory[k].sector, s) <=> s \in JobSectors
      BY <1>2 DEF RemoveOk, Owns, JobSectors
<1>6. k \in FilesIn(directory) /\ HeaderIn(directory, k) = directory[k].sector
      BY <1>3, <1>4, UsedHeader
<1>7. JobSectors \subseteq FullMap
      BY <1>5, <1>6 DEF Sound, MapIsExact
<1> QED BY <1>1, <1>2, <1>4, <1>5, <1>7

LEMMA RemoveMapKeeps ==
    ASSUME FSInv, WriteBack, job.call = "remove", RemoveOk, job.todo = <<"map", "dir">>
    PROVE  FSInv'
<1>1. freeMap' = job.map /\ UNCHANGED <<disk, directory, opening, files>> /\ Advances(<<"dir">>)
      BY WriteBackIs DEF FSInv
<1>2. job.map = freeMap \ JobSectors
      BY StepFacts DEF RemoveOk
<1>3. FullMap = freeMap /\ FullMap' = freeMap' \cup JobSectors
      BY <1>1, StepFacts DEF FullMap, HalfWritten, Advances
<1>4. FullMap' = FullMap
  <2>1. JobSectors \subseteq FullMap
        BY RemovedIs DEF FSInv
  <2> QED BY <1>1, <1>2, <1>3, <2>1
<1>5. Sound(disk, directory, FullMap)'
      BY <1>1, <1>4 DEF FSInv
<1>6. RemoveOk'
  <2>1. job'.todo = <<"dir">> /\ <<"dir">> \in RemoveSteps /\ job' \in JobType
        BY <1>1 DEF Advances, RemoveSteps
  <2>2. disk'[job'.sector] = job'.header
        BY <1>1 DEF RemoveOk, Advances
  <2>3. PICK k \in 1 .. NUM_DIR_ENTRIES :
           /\ directory[k] = DirectoryEntry(job.name, job.sector)
           /\ job.dir = [directory EXCEPT ![k] = Unused]
        BY DEF RemoveOk
  <2>4. /\ directory'[k] = DirectoryEntry(job.name, job.sector)'
        /\ job'.dir = [directory' EXCEPT ![k] = Unused]
        BY <1>1, <2>3 DEF Advances, DirectoryEntry
  <2>5. JobSectors' \cap freeMap' = {}
        BY <1>1, <1>2 DEF Advances
  <2> QED BY <2>1, <2>2, <2>4, <2>5 DEF RemoveOk, Unused, DirectoryEntry
<1>7. JobOk' /\ RemovedIsStale'
      BY <1>1, <1>6 DEF JobOk, FSInv, RemovedIsStale, Advances
<1>8. freeMap' \in SUBSET Sector
      BY <1>1, <1>2 DEF FSInv, TypesAre
<1>9. TypesAre' /\ OpenHasName' /\ OpeningsAreCurrent' /\ FilesAreCurrent'
      BY <1>1, <1>8 DEF FSInv, TypesAre, OpenHasName, OpeningsAreCurrent, FilesAreCurrent
<1> QED BY <1>5, <1>7, <1>9 DEF FSInv

LEMMA RemoveDirKeeps ==
    ASSUME FSInv, WriteBack, job.call = "remove", RemoveOk, job.todo = <<"dir">>
    PROVE  FSInv'
<1>1. directory' = job.dir /\ UNCHANGED <<disk, freeMap, opening, files>> /\ job' = NoJob
      BY WriteBackIs DEF FSInv
<1>2. PICK k \in UsedIn(directory) :
         /\ directory[k].name = job.name /\ job.dir = [directory EXCEPT ![k] = Unused]
         /\ \A s : Owns(disk, directory[k].sector, s) <=> s \in JobSectors
      BY RemovedIs DEF FSInv
<1>3. directory \in Directory /\ k \in 1 .. NUM_DIR_ENTRIES /\ directory[k].name # NoName
  <2>1. directory \in Directory
        BY DEF FSInv, TypesAre
  <2> QED BY <1>2, <2>1, UsedHeader DEF UsedIn
<1>4. Dropped(directory, directory', k)
      BY <1>1, <1>2, <1>3, FilesOfDrop
<1>5. FullMap = freeMap \cup JobSectors /\ FullMap' = freeMap /\ JobSectors \cap freeMap = {}
      BY <1>1, NoJobFacts DEF FullMap, HalfWritten, RemoveOk
<1>6. Sound(disk, directory', freeMap)
  <2>1. \A s : s \in freeMap <=> s \in FullMap /\ ~Owns(disk, directory[k].sector, s)
        BY <1>2, <1>5
  <2> QED BY <1>4, <2>1, SoundDrop DEF FSInv
<1>7. JobOk' /\ RemovedIsStale'
      BY <1>1, NoJobFacts DEF JobOk, RemovedIsStale
<1>8. TypesAre' /\ OpenHasName'
      BY <1>1, <1>4 DEF FSInv, TypesAre, OpenHasName, Dropped
<1>9. \A i \in UsedIn(directory) : directory[i].name # job.name =>
         i \in UsedIn(directory)' /\ directory'[i] = directory[i]
      BY <1>2, <1>4 DEF Dropped
<1>10. OpeningsAreCurrent'
  <2> SUFFICES ASSUME NEW t \in Thread, opening[t] # NotOpening, ~opening[t].stale
               PROVE  \E i \in UsedIn(directory)' :
                         directory'[i].name = opening[t].name /\ directory'[i].sector = opening[t].sector
      BY <1>1 DEF OpeningsAreCurrent
  <2>1. opening[t].name # job.name
        BY DEF FSInv, RemovedIsStale
  <2> QED BY <1>9, <2>1 DEF FSInv, OpeningsAreCurrent
<1>11. FilesAreCurrent'
  <2> SUFFICES ASSUME NEW t \in Thread, NEW fd \in 0 .. MAX_OPEN - 1, files[t][fd] # NoFile, ~files[t][fd].stale
               PROVE  \E i \in UsedIn(directory)' :
                         /\ directory'[i].name = files[t][fd].name
                         /\ disk[directory'[i].sector] = files[t][fd].hdr
      BY <1>1 DEF FilesAreCurrent
  <2>1. files[t][fd].name # job.name
        BY DEF FSInv, RemovedIsStale
  <2> QED BY <1>9, <2>1 DEF FSInv, FilesAreCurrent
<1> QED BY <1>1, <1>5, <1>6, <1>7, <1>8, <1>10, <1>11 DEF FSInv

-----------------------------------------------------------------------------
LEMMA TaintStays == tainted /\ [Next]_vars => tainted'
BY DEF Next, vars, WriteBack, RemoveFile, Create, FetchHeader, Open, Close, Read, Write

LEMMA StutterKeeps == FSInv /\ UNCHANGED vars => FSInv'
<1> SUFFICES ASSUME FSInv, UNCHANGED vars PROVE FSInv'
    OBVIOUS
<1>1. UNCHANGED <<disk, directory, freeMap, job, opening, files>>
      BY DEF vars
<1>2. JobOk' /\ Sound(disk, directory, FullMap)'
      BY <1>1, DiskStays DEF FSInv
<1>3. TypesAre' /\ OpenHasName' /\ RemovedIsStale' /\ OpeningsAreCurrent' /\ FilesAreCurrent'
      BY <1>1 DEF FSInv, TypesAre, OpenHasName, RemovedIsStale, OpeningsAreCurrent, FilesAreCurrent
<1> QED BY <1>2, <1>3 DEF FSInv

LEMMA WriteBackKeeps ==
    ASSUME FSInv, WriteBack
    PROVE  FSInv'
<1>1. job # NoJob
      BY DEF WriteBack
<1>2. CASE job.call = "create" /\ CreateOk
  <2>1. \/ job.todo = <<"header", "dir", "map">> \/ job.todo = <<"dir", "map">> \/ job.todo = <<"map">>
        BY <1>2 DEF CreateOk, CreateSteps
  <2> QED BY <1>2, <2>1, CreateHeaderKeeps, CreateDirKeeps, CreateMapKeeps
<1>3. CASE job.call = "remove" /\ RemoveOk
  <2>1. job.todo = <<"map", "dir">> \/ job.todo = <<"dir">>
        BY <1>3 DEF RemoveOk, RemoveSteps
  <2> QED BY <1>3, <2>1, RemoveMapKeeps, RemoveDirKeeps
<1> QED BY <1>1, <1>2, <1>3 DEF FSInv, JobOk

LEMMA FSStep == FSInv /\ [Next]_vars => tainted' \/ FSInv'
<1> SUFFICES ASSUME FSInv, [Next]_vars PROVE tainted' \/ FSInv'
    OBVIOUS
<1>1. CASE WriteBack
      BY <1>1, WriteBackKeeps
<1>2. ASSUME NEW name \in Name, RemoveFile(name) PROVE FSInv'
      BY <1>2, RemoveKeeps
<1>3. ASSUME NEW name \in Name, NEW size \in FileSize, Create(name, size) PROVE FSInv'
      BY <1>3, CreateKeeps
<1>4. ASSUME NEW t \in Thread, FetchHeader(t) PROVE FSInv'
      BY <1>4, FetchHeaderKeeps
<1>5. ASSUME NEW t \in Thread, NEW name \in Name, Open(t, name) PROVE FSInv'
      BY <1>5, OpenKeeps
<1>6. ASSUME NEW t \in Thread, NEW fd \in 0 .. MAX_OPEN - 1, Close(t, fd) PROVE FSInv'
      BY <1>6, CloseKeeps
<1>7. ASSUME NEW t \in Thread, NEW fd \in 0 .. MAX_OPEN - 1, NEW size \in Request, Read(t, fd, size)
      PROVE  FSInv'
      BY <1>7, ReadKeeps
<1>8. ASSUME NEW t \in Thread, NEW fd \in 0 .. MAX_OPEN - 1, NEW size \in Request, Write(t, fd, size)
      PROVE  tainted' \/ FSInv'
      BY <1>8, WriteKeeps
<1>9. CASE UNCHANGED vars
      BY <1>9, StutterKeeps
<1> QED BY <1>1, <1>2, <1>3, <1>4, <1>5, <1>6, <1>7, <1>8, <1>9 DEF Next

(* Until data goes through an open file whose file was removed, the        *)
(* invariant holds.                                                        *)
LEMMA FSHolds == Spec => [](tainted \/ FSInv)
<1>1. Init => tainted \/ FSInv
      BY FSInit
<1>2. (tainted \/ FSInv) /\ [Next]_vars => (tainted \/ FSInv)'
      BY FSStep, TaintStays
<1> QED BY <1>1, <1>2, PTL DEF Spec

-----------------------------------------------------------------------------
(* What Check finds on a disk that is laid out soundly. *)

LEMMA PlacesAreOwned ==
    ASSUME NEW i, HeaderOk(Header(i)), NEW s
    PROVE  Owns(disk, HeaderSector(i), s) <=> \E k \in Places(i) : SectorAt(i, k) = s
<1>1. PICK N \in Nat : /\ N = Len(Header(i).dataSectors) /\ DOMAIN Header(i).dataSectors = 1 .. N
                       /\ Places(i) = 0 .. N
      BY DEF HeaderOk, Places
<1>2. s \in SectorsOf(Header(i)) <=> \E k \in 1 .. N : Header(i).dataSectors[k] = s
      BY <1>1, InSectors
<1>3. ASSUME Owns(disk, HeaderSector(i), s) PROVE \E k \in Places(i) : SectorAt(i, k) = s
  <2>1. CASE s = HeaderSector(i)
    <3>1. 0 \in Places(i) /\ SectorAt(i, 0) = s
          BY <1>1, <2>1 DEF SectorAt
    <3> QED BY <3>1
  <2>2. CASE s \in SectorsOf(Header(i))
    <3>1. PICK k \in 1 .. N : Header(i).dataSectors[k] = s
          BY <1>2, <2>2
    <3>2. k \in Places(i) /\ SectorAt(i, k) = s
          BY <1>1, <3>1 DEF SectorAt
    <3> QED BY <3>2
  <2> QED BY <1>3, <2>1, <2>2 DEF Owns, Header
<1>4. ASSUME NEW k \in Places(i), SectorAt(i, k) = s PROVE Owns(disk, HeaderSector(i), s)
  <2>1. k = 0 \/ k \in 1 .. N
        BY <1>1
  <2> QED BY <1>2, <1>4, <2>1 DEF SectorAt, Owns, Header
<1> QED BY <1>3, <1>4

LEMMA VisitIs ==
    ASSUME NEW map, Sound(disk, directory, map)
    PROVE  /\ NoSectorTwice /\ CheckDirectory /\ ShadowMap = map
           /\ \A i \in Visited : HeaderOk(Header(i))
<1>1. UsedEntries = UsedIn(directory) /\ Visited = FilesIn(directory)
      BY DEF UsedEntries, UsedIn, Visited, FilesIn
<1>2. \A i : HeaderSector(i) = HeaderIn(directory, i)
      BY DEF HeaderSector, HeaderIn
<1>3. CheckDirectory
      BY <1>1 DEF Sound, NamesDiffer, CheckDirectory
<1>4. \A i \in Visited : FileOk(disk, HeaderSector(i))
      BY <1>1, <1>2 DEF Sound, FilesAreOk
<1>5. \A i \in Visited : /\ HeaderOk(Header(i)) /\ DistinctSectors(Header(i))
                         /\ HeaderSector(i) \notin SectorsOf(Header(i))
      BY <1>4 DEF FileOk, Header
<1>6. NoSectorTwice
  <2> SUFFICES ASSUME NEW i \in Visited, NEW j \in Visited, NEW k \in Places(i), NEW l \in Places(j),
                      SectorAt(i, k) = SectorAt(j, l)
               PROVE  i = j /\ k = l
      BY DEF NoSectorTwice
  <2>1. PICK s : s = SectorAt(i, k) /\ s = SectorAt(j, l)
        OBVIOUS
  <2>2. Owns(disk, HeaderSector(i), s) /\ Owns(disk, HeaderSector(j), s)
        BY <1>5, <2>1, PlacesAreOwned
  <2>3. i = j
        BY <1>1, <1>2, <2>2 DEF Sound, FilesAreDisjoint
  <2>4. PICK N \in Nat : /\ N = Len(Header(i).dataSectors) /\ DOMAIN Header(i).dataSectors = 1 .. N
                         /\ Places(i) = 0 .. N
        BY <1>5 DEF HeaderOk, Places
  <2>5. (k = 0 \/ k \in 1 .. N) /\ (l = 0 \/ l \in 1 .. N)
        BY <2>3, <2>4
  <2>6. \A x \in 1 .. N : Header(i).dataSectors[x] # HeaderSector(i) /\ SectorAt(i, x) = Header(i).dataSectors[x]
        BY <1>5, <2>4, InSectors DEF SectorAt
  <2>7. SectorAt(i, 0) = HeaderSector(i)
        BY DEF SectorAt
  <2>8. CASE k \in 1 .. N /\ l \in 1 .. N
        BY <1>5, <2>1, <2>3, <2>4, <2>6, <2>8 DEF DistinctSectors
  <2> QED BY <2>1, <2>3, <2>5, <2>6, <2>7, <2>8
<1>7. ShadowMap = map
  <2>1. ASSUME NEW s PROVE s \in ShadowMap <=> \E i \in Visited : \E k \in Places(i) : SectorAt(i, k) = s
        BY DEF ShadowMap
  <2>2. ASSUME NEW s PROVE s \in map <=> \E i \in Visited : Owns(disk, HeaderSector(i), s)
        BY <1>1, <1>2 DEF Sound, MapIsExact
  <2>3. ASSUME NEW s PROVE s \in ShadowMap <=> s \in map
        BY <1>5, <2>1, <2>2, PlacesAreOwned
  <2> QED BY <2>3
<1> QED BY <1>3, <1>5, <1>6, <1>7

-----------------------------------------------------------------------------
(* Whenever the machine halts, every marked sector belongs to a file, only *)
(* the file of the interrupted call can have sectors that the map calls    *)
(* free, and no sector is in two files: HaltHurtsOneFile, for any number   *)
(* of sectors, files and threads.                                          *)
THEOREM HaltsHurtOneFile == Spec => []HaltHurtsOneFile
<1>1. ASSUME FSInv PROVE HaltHurtsOneFile
  <2>1. NoSectorTwice /\ ShadowMap = FullMap
        BY <1>1, VisitIs DEF FSInv
  <2>2. freeMap \subseteq FullMap /\ FullMap \ freeMap \subseteq {job.sector} \cup SectorsOf(job.header)
        BY DEF FullMap, JobSectors
  <2> QED BY <2>1, <2>2 DEF HaltHurtsOneFile
<1>2. tainted => HaltHurtsOneFile
      BY DEF HaltHurtsOneFile
<1> QED BY <1>1, <1>2, FSHolds, PTL

(* However Open falls between the writes of Create and Remove, a file that *)
(* is open and was not removed has the header that the directory leads to. *)
THEOREM OpenFilesStayCurrent == Spec => []OpenFilesAreCurrent
<1>1. ASSUME FSInv PROVE OpenFilesAreCurrent
  <2>1. SUFFICES ASSUME NEW t \in Thread, NEW fd \in 0 .. MAX_OPEN - 1,
                        files[t][fd] # NoFile, ~files[t][fd].stale
                 PROVE  /\ FindIndex(files[t][fd].name) # 0
                        /\ files[t][fd].hdr = disk[directory[FindIndex(files[t][fd].name)].sector]
        BY DEF OpenFilesAreCurrent
  <2>2. PICK i \in UsedIn(directory) :
           directory[i].name = files[t][fd].name /\ disk[directory[i].sector] = files[t][fd].hdr
        BY <1>1, <2>1 DEF FSInv, FilesAreCurrent
  <2>3. PICK name \in Name : name = files[t][fd].name
        BY <1>1, <2>1 DEF FSInv, OpenHasName
  <2>4. FindIndex(name) # 0
        BY <1>1, <2>2, <2>3, FoundIs DEF FSInv
  <2>5. FindIndex(name) \in UsedIn(directory) /\ directory[FindIndex(name)].name = name
        BY <1>1, <2>4, FoundIs DEF FSInv
  <2>6. FindIndex(name) = i
        BY <1>1, <2>2, <2>3, <2>5 DEF FSInv, Sound, NamesDiffer
  <2> QED BY <2>2, <2>3, <2>4, <2>6
<1>2. tainted => OpenFilesAreCurrent
      BY DEF OpenFilesAreCurrent
<1> QED BY <1>1, <1>2, FSHolds, PTL

(* For every file that is open and was not removed, every position and     *)
(* every length, ReadAt returns the bytes asked for and WriteAt replaces   *)
(* those and no others.                                                    *)
THEOREM TransfersStayExact == Spec => []TransfersAreExact
<1>1. ASSUME FSInv PROVE TransfersAreExact
  <2> SUFFICES ASSUME NEW t \in Thread, NEW fd \in 0 .. MAX_OPEN - 1, ~files[t][fd].stale,
                      NEW p \in 0 .. files[t][fd].hdr.numBytes - 1, NEW n \in 1 .. files[t][fd].hdr.numBytes
               PROVE  ReadIsExact(files[t][fd].hdr, p, n) /\ WriteIsExact(files[t][fd].hdr, p, n)
      BY DEF TransfersAreExact
  <2> DEFINE h == files[t][fd].hdr
  <2>1. files[t][fd] # NoFile
    <3>1. NoFile.hdr.numBytes = 0
          BY DEF NoFile, Raw
    <3> QED BY <3>1
  <2>2. PICK i \in UsedIn(directory) : disk[directory[i].sector] = h
        BY <1>1, <2>1 DEF FSInv, FilesAreCurrent
  <2>3. i \in FilesIn(directory) /\ disk[HeaderIn(directory, i)] = h
        BY <1>1, <2>2, UsedHeader DEF FSInv, TypesAre
  <2>4. HeaderOk(h) /\ DistinctSectors(h)
        BY <1>1, <2>3 DEF FSInv, Sound, FilesAreOk, FileOk
  <2> QED BY <2>4, TransferIs
<1>2. tainted => TransfersAreExact
      BY DEF TransfersAreExact
<1> QED BY <1>1, <1>2, FSHolds, PTL

(* Check accepts the disk that a halt leaves exactly if the halt does not  *)
(* come between the two writes that go together.  SmallFiles: Check        *)
(* refuses a file with as many sectors as a header has room for, which     *)
(* Allocate accepts (file_system.cc:333, file_header.cc:42-47).            *)
THEOREM ChecksTellHalts ==
    ASSUME SmallFiles
    PROVE  Spec => []CheckTellsHalts
<1>1. ASSUME FSInv PROVE CheckTellsHalts
  <2>1. NoSectorTwice /\ CheckDirectory /\ ShadowMap = FullMap /\ \A i \in Visited : HeaderOk(Header(i))
        BY <1>1, VisitIs DEF FSInv
  <2>2. \A i \in Visited : CheckFileHeader(Header(i))
    <3>1. ASSUME NEW i \in Visited PROVE CheckFileHeader(Header(i))
      <4>1. HeaderOk(Header(i)) /\ SmallFiles
            BY <2>1
      <4>2. Len(Header(i).dataSectors) \in Nat
            BY <4>1 DEF HeaderOk
      <4> QED BY <4>1, <4>2 DEF HeaderOk, CheckFileHeader
    <3> QED BY <3>1
  <2>3. Check <=> freeMap = FullMap
        BY <2>1, <2>2 DEF Check, CheckBitmaps
  <2>4. freeMap = FullMap <=> ~HalfWritten
    <3>1. ASSUME HalfWritten PROVE job.sector \in FullMap /\ job.sector \notin freeMap
      <4>1. job # NoJob
            BY <3>1, NoJobFacts DEF HalfWritten
      <4>2. JobSectors \cap freeMap = {}
            BY <1>1, <3>1, <4>1 DEF HalfWritten, FSInv, JobOk, CreateOk, RemoveOk
      <4> QED BY <3>1, <4>2 DEF FullMap, JobSectors
    <3>2. ASSUME ~HalfWritten PROVE freeMap = FullMap
          BY <3>2 DEF FullMap
    <3> QED BY <3>1, <3>2
  <2> QED BY <2>3, <2>4 DEF CheckTellsHalts, HalfWritten
<1>2. tainted => CheckTellsHalts
      BY DEF CheckTellsHalts
<1> QED BY <1>1, <1>2, FSHolds, PTL

=============================================================================
