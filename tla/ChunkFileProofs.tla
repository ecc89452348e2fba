-------------------------- MODULE ChunkFileProofs --------------------------
(***************************************************************************)
(* ChunkFile implements FlatFile, and what is read and what is pushed are  *)
(* the bytes of the file, for every size of a chunk, a file and a write.   *)
(***************************************************************************)
EXTENDS ChunkFile, FiniteSetTheorems, SequenceTheorems, TLAPS

Stores == Byte \cup {0}

(* A byte of a row, or the zero that stands for it.                        *)
Slot(c, j) == IF j <= Len(c) THEN c[j] ELSE 0

(* No row is longer than a chunk or reaches behind the end of the file: so *)
(* what a write leaves between the old end and its first byte reads as     *)
(* zeros.                                                                  *)
RowOK(i, c, s) ==
  /\ c \in Seq(Stores)
  /\ Len(c) <= ChunkSize
  /\ c # <<>> => i * ChunkSize + Len(c) <= s

ChunkInv ==
  /\ size \in 0..MaxSize
  /\ chunk = [i \in Index |-> chunk[i]]
  /\ \A i \in Index : RowOK(i, chunk[i], size)
-----------------------------------------------------------------------------
(***************************************************************************)
(* Chunks and offsets.                                                     *)
(***************************************************************************)
LEMMA Division ==
  ASSUME NEW n \in Nat
  PROVE  /\ n \div ChunkSize \in Nat
         /\ (n % ChunkSize) \in 0..(ChunkSize - 1)
         /\ n = (n \div ChunkSize) * ChunkSize + (n % ChunkSize)
<1>1. n \div ChunkSize \in Nat
  BY ChunkAssumption
<1>2. (n % ChunkSize) \in 0..(ChunkSize - 1)
  BY ChunkAssumption
<1>3. n = (n \div ChunkSize) * ChunkSize + (n % ChunkSize)
  BY ChunkAssumption
<1> QED
  BY <1>1, <1>2, <1>3

LEMMA Starts ==
  ASSUME NEW i \in Nat
  PROVE  i * ChunkSize \in Nat /\ (i + 1) * ChunkSize = i * ChunkSize + ChunkSize
BY ChunkAssumption

LEMMA InChunk ==
  ASSUME NEW n \in Nat
  PROVE  LET q == n \div ChunkSize
         IN /\ q \in Nat /\ q * ChunkSize \in Nat
            /\ q * ChunkSize <= n /\ n < q * ChunkSize + ChunkSize
<1> DEFINE q == n \div ChunkSize
           r == n % ChunkSize
<1>1. q \in Nat /\ r \in 0..(ChunkSize - 1) /\ n = q * ChunkSize + r
  BY Division
<1>2. q * ChunkSize \in Nat
  BY <1>1, Starts
<1> HIDE DEF q, r
<1>3. q * ChunkSize <= n /\ n < q * ChunkSize + ChunkSize
  BY <1>1, <1>2, ChunkAssumption
<1> QED
  BY <1>1, <1>2, <1>3 DEF q

(* Chunks do not overlap.                                                  *)
LEMMA InOrder ==
  ASSUME NEW i \in Nat, NEW k \in Nat, i < k
  PROVE  i * ChunkSize + ChunkSize <= k * ChunkSize
BY ChunkAssumption

LEMMA Quotient ==
  ASSUME NEW n \in Nat, NEW i \in Nat, i * ChunkSize <= n, n < i * ChunkSize + ChunkSize
  PROVE  n \div ChunkSize = i /\ n % ChunkSize = n - i * ChunkSize
<1> DEFINE q == n \div ChunkSize
           r == n % ChunkSize
<1>1. q \in Nat /\ r \in 0..(ChunkSize - 1) /\ n = q * ChunkSize + r
  BY Division
<1>2. q * ChunkSize \in Nat /\ i * ChunkSize \in Nat
  BY <1>1, Starts
<1> HIDE DEF q, r
<1>3. ~(q < i)
  BY <1>1, <1>2, InOrder, ChunkAssumption
<1>4. ~(i < q)
  BY <1>1, <1>2, InOrder, ChunkAssumption
<1>5. q = i
  BY <1>1, <1>3, <1>4
<1>6. r = n - i * ChunkSize
  BY <1>1, <1>2, <1>5, ChunkAssumption
<1> QED
  BY <1>5, <1>6 DEF q, r

LEMMA Chunks == Index \subseteq Nat
<1>1. MaxSize - 1 \in Nat
  BY ChunkAssumption
<1> QED
  BY <1>1, Division DEF Index

(* A byte of a file lies in one chunk.                                     *)
LEMMA Place ==
  ASSUME NEW k \in 1..MaxSize
  PROVE  \E i \in Index, j \in 1..ChunkSize :
           /\ k = i * ChunkSize + j
           /\ (k - 1) \div ChunkSize = i /\ ((k - 1) % ChunkSize) + 1 = j
<1> DEFINE i == (k - 1) \div ChunkSize
           j == ((k - 1) % ChunkSize) + 1
           m == (MaxSize - 1) \div ChunkSize
<1>1. k - 1 \in Nat /\ MaxSize - 1 \in Nat /\ k - 1 <= MaxSize - 1
  BY ChunkAssumption
<1>2. i \in Nat /\ j \in 1..ChunkSize /\ k - 1 = i * ChunkSize + (j - 1)
  BY <1>1, Division, ChunkAssumption
<1>3. m \in Nat /\ MaxSize - 1 < m * ChunkSize + ChunkSize
  BY <1>1, Division, Starts, ChunkAssumption
<1>4. i * ChunkSize \in Nat /\ m * ChunkSize \in Nat
  BY <1>2, <1>3, Starts
<1>5. i <= m
  <2> HIDE DEF i, j, m
  <2>1. ~(m < i)
    BY <1>1, <1>2, <1>3, <1>4, InOrder, ChunkAssumption
  <2> QED
    BY <1>2, <1>3, <2>1
<1>6. i \in Index
  BY <1>2, <1>3, <1>5 DEF Index
<1>7. k = i * ChunkSize + j
  <2> HIDE DEF i, j
  <2> QED
    BY <1>2, <1>4, ChunkAssumption
<1> QED
  BY <1>2, <1>6, <1>7
-----------------------------------------------------------------------------
(***************************************************************************)
(* What size s and rows c denote.                                          *)
(***************************************************************************)
StoredOf(s, c) ==
  [k \in 1..s |-> LET row == c[(k - 1) \div ChunkSize]
                  IN Slot(row, ((k - 1) % ChunkSize) + 1)]

LEMMA StoredIs == Stored = StoredOf(size, chunk)
BY DEF Stored, StoredOf, Slot

LEMMA StoredAt ==
  ASSUME NEW s \in 0..MaxSize, NEW rows, NEW k \in 1..s
  PROVE  \E i \in Index, j \in 1..ChunkSize :
           k = i * ChunkSize + j /\ StoredOf(s, rows)[k] = Slot(rows[i], j)
<1>1. k \in 1..MaxSize
  BY ChunkAssumption
<1>2. PICK i \in Index, j \in 1..ChunkSize :
        /\ k = i * ChunkSize + j
        /\ (k - 1) \div ChunkSize = i /\ ((k - 1) % ChunkSize) + 1 = j
  BY <1>1, Place
<1>3. StoredOf(s, rows)[k] = Slot(rows[i], j)
  BY <1>2 DEF StoredOf
<1> QED
  BY <1>2, <1>3

LEMMA SlotIsByte ==
  ASSUME NEW c \in Seq(Stores), NEW j \in Nat \ {0}
  PROVE  Slot(c, j) \in Stores
BY LenProperties, ElementOfSeq DEF Slot, Stores

LEMMA StoredIsFile ==
  ASSUME ChunkInv
  PROVE  /\ Stored \in [1..size -> Stores]
         /\ Stored \in Seq(Stores) /\ Len(Stored) = size
<1>1. size \in Nat
  BY ChunkAssumption DEF ChunkInv
<1>2. ASSUME NEW k \in 1..size PROVE StoredOf(size, chunk)[k] \in Stores
  <2>1. PICK i \in Index, j \in 1..ChunkSize :
          k = i * ChunkSize + j /\ StoredOf(size, chunk)[k] = Slot(chunk[i], j)
    BY StoredAt DEF ChunkInv
  <2>2. chunk[i] \in Seq(Stores)
    BY DEF ChunkInv, RowOK
  <2> QED
    BY <2>1, <2>2, SlotIsByte
<1>3. Stored \in [1..size -> Stores]
  <2>1. StoredOf(size, chunk) = [k \in 1..size |-> StoredOf(size, chunk)[k]]
    BY DEF StoredOf
  <2> QED
    BY <1>2, <2>1, StoredIs
<1>4. Stored \in Seq(Stores)
  BY <1>1, <1>3, SeqDef
<1>5. Len(Stored) = size
  BY <1>1, <1>3, <1>4, LenProperties
<1> QED
  BY <1>3, <1>4, <1>5

(* A byte that the file has or could have.                                 *)
LEMMA SlotOf ==
  ASSUME ChunkInv, NEW i \in Index, NEW j \in 1..ChunkSize
  PROVE  Slot(chunk[i], j) = IF i * ChunkSize + j <= size
                             THEN Stored[i * ChunkSize + j] ELSE 0
<1>1. /\ i \in Nat /\ i * ChunkSize \in Nat /\ size \in Nat /\ j \in Nat
      /\ RowOK(i, chunk[i], size) /\ Len(chunk[i]) \in Nat
  BY Chunks, Starts, LenProperties, ChunkAssumption DEF ChunkInv, RowOK
<1>2. CASE i * ChunkSize + j <= size
  <2> DEFINE k == i * ChunkSize + j
  <2>1. k \in 1..size /\ k - 1 \in Nat /\ i * ChunkSize <= k - 1
        /\ k - 1 < i * ChunkSize + ChunkSize /\ k - 1 - i * ChunkSize = j - 1
    BY <1>1, <1>2, ChunkAssumption
  <2>2. (k - 1) \div ChunkSize = i /\ (k - 1) % ChunkSize = j - 1
    BY <1>1, <2>1, Quotient
  <2>3. Stored[k] = Slot(chunk[i], j)
    BY <1>1, <2>1, <2>2, StoredIs DEF StoredOf
  <2> QED
    BY <1>2, <2>3
<1>3. CASE ~(i * ChunkSize + j <= size)
  <2>1. chunk[i] = <<>> \/ Len(chunk[i]) < j
    BY <1>1, <1>3 DEF RowOK
  <2>2. Len(chunk[i]) < j
    BY <1>1, <2>1
  <2> QED
    BY <1>1, <1>3, <2>2 DEF Slot
<1> QED
  BY <1>2, <1>3
-----------------------------------------------------------------------------
(***************************************************************************)
(* Write.                                                                  *)
(***************************************************************************)
LEMMA PartIsRow ==
  ASSUME NEW d \in Seq(Stores), NEW m \in Nat \ {0}, NEW n \in 0..Len(d)
  PROVE  /\ SubSeq(d, m, n) \in Seq(Stores)
         /\ Len(SubSeq(d, m, n)) = IF m <= n THEN n - m + 1 ELSE 0
         /\ \A j \in 1..(n - m + 1) : SubSeq(d, m, n)[j] = d[m + j - 1]
<1>1. Len(d) \in Nat /\ m \in Int /\ n \in Int
  BY LenProperties
<1>2. \A k \in m..n : d[k] \in Stores
  BY <1>1, ElementOfSeq
<1> QED
  BY <1>1, <1>2, SubSeqProperties

(* A row with something laid over it.                                      *)
LEMMA LaidOver ==
  ASSUME NEW row \in Seq(Stores), NEW o \in Seq(Stores), NEW at \in Nat
  PROVE  /\ Flat!Overlaid(row, at, o) \in Seq(Stores)
         /\ Len(Flat!Overlaid(row, at, o)) = Flat!Larger(Len(row), at + Len(o))
         /\ \A j \in Nat \ {0} : Slot(Flat!Overlaid(row, at, o), j) =
              IF at < j /\ j <= at + Len(o) THEN o[j - at] ELSE Slot(row, j)
<1> DEFINE e == Flat!Larger(Len(row), at + Len(o))
           f == Flat!Overlaid(row, at, o)
<1>1. Len(row) \in Nat /\ Len(o) \in Nat /\ e \in Nat /\ Len(row) <= e /\ at + Len(o) <= e
  BY LenProperties DEF Flat!Larger
<1>2. f = [k \in 1..e |-> IF at < k /\ k <= at + Len(o) THEN o[k - at] ELSE Slot(row, k)]
  BY DEF Flat!Overlaid, Slot
<1> HIDE DEF e, f
<1>3. ASSUME NEW k \in 1..e
      PROVE  (IF at < k /\ k <= at + Len(o) THEN o[k - at] ELSE Slot(row, k)) \in Stores
  <2>1. at < k /\ k <= at + Len(o) => k - at \in 1..Len(o)
    BY <1>1
  <2> QED
    BY <1>1, <2>1, ElementOfSeq, SlotIsByte
<1>4. f \in [1..e -> Stores]
  BY <1>2, <1>3
<1>5. f \in Seq(Stores)
  BY <1>1, <1>4, SeqDef
<1>6. Len(f) = e
  BY <1>1, <1>4, <1>5, LenProperties
<1>7. ASSUME NEW j \in Nat \ {0}
      PROVE  Slot(f, j) = IF at < j /\ j <= at + Len(o) THEN o[j - at] ELSE Slot(row, j)
  <2>1. CASE j <= e
    BY <1>1, <1>2, <1>6, <2>1 DEF Slot
  <2>2. CASE ~(j <= e)
    BY <1>1, <1>6, <2>2 DEF Slot
  <2> QED
    BY <2>1, <2>2
<1> QED
  BY <1>5, <1>6, <1>7 DEF e, f

LEMMA DataIsBytes ==
  ASSUME NEW d \in Flat!Data
  PROVE  /\ d \in Seq(Stores) /\ Len(d) \in Nat \ {0}
         /\ d = [k \in 1..Len(d) |-> d[k]]
<1>1. PICK n \in 1..MaxData : d \in [1..n -> Byte]
  BY DEF Flat!Data
<1>2. n \in Nat \ {0}
  BY ChunkAssumption
<1>3. d \in [1..n -> Stores]
  BY <1>1 DEF Stores
<1>4. d \in Seq(Stores)
  BY <1>2, <1>3, SeqDef
<1>5. Len(d) = n
  BY <1>2, <1>3, <1>4, LenProperties
<1> QED
  BY <1>1, <1>2, <1>4, <1>5

(* A write touches the chunks that it has a byte of, and no other.         *)
LEMMA TouchedIs ==
  ASSUME NEW off \in Nat, NEW d \in Flat!Data, NEW i \in Index
  PROVE  /\ i \in Touched(off, d) => /\ off < i * ChunkSize + ChunkSize
                                    /\ i * ChunkSize < off + Len(d)
         /\ i \notin Touched(off, d) => \/ i * ChunkSize + ChunkSize <= off
                                       \/ off + Len(d) <= i * ChunkSize
<1> DEFINE q == off \div ChunkSize
           e == off + Len(d) - 1
           l == e \div ChunkSize
<1>1. i \in Nat /\ Len(d) \in Nat \ {0} /\ e \in Nat
  BY Chunks, DataIsBytes
<1>2. /\ q \in Nat /\ q * ChunkSize <= off /\ off < q * ChunkSize + ChunkSize
      /\ q * ChunkSize \in Nat
  BY InChunk
<1>3. /\ l \in Nat /\ l * ChunkSize <= e /\ e < l * ChunkSize + ChunkSize
      /\ l * ChunkSize \in Nat
  BY <1>1, InChunk
<1>4. i * ChunkSize \in Nat /\ ChunkSize \in Nat
  BY <1>1, Starts, ChunkAssumption
<1>5. i \in Touched(off, d) <=> q <= i /\ i <= l
  BY <1>1, <1>2, <1>3 DEF Touched
<1>6. e = off + Len(d) - 1
  OBVIOUS
<1> HIDE DEF q, l, e
<1>7. q < i => q * ChunkSize + ChunkSize <= i * ChunkSize
  BY <1>1, <1>2, InOrder
<1>8. i < q => i * ChunkSize + ChunkSize <= q * ChunkSize
  BY <1>1, <1>2, InOrder
<1>9. i < l => i * ChunkSize + ChunkSize <= l * ChunkSize
  BY <1>1, <1>3, InOrder
<1>10. l < i => l * ChunkSize + ChunkSize <= i * ChunkSize
  BY <1>1, <1>3, InOrder
<1>11. ASSUME q <= i, i <= l
       PROVE  off < i * ChunkSize + ChunkSize /\ i * ChunkSize < off + Len(d)
  <2>1. q = i \/ q < i
    BY <1>1, <1>2, <1>11
  <2>2. i = l \/ i < l
    BY <1>1, <1>3, <1>11
  <2>3. off < i * ChunkSize + ChunkSize
    BY <2>1, <1>2, <1>4, <1>7
  <2>4. i * ChunkSize <= e
    BY <2>2, <1>1, <1>3, <1>4, <1>9
  <2> QED
    BY <2>3, <2>4, <1>1, <1>4, <1>6
<1>12. CASE i < q
  BY <1>2, <1>4, <1>5, <1>8, <1>11, <1>12
<1>13. CASE l < i
  <2>1. e < i * ChunkSize
    BY <1>1, <1>3, <1>4, <1>10, <1>13
  <2> QED
    BY <2>1, <1>1, <1>3, <1>4, <1>5, <1>6, <1>11, <1>13
<1> QED
  BY <1>1, <1>2, <1>3, <1>5, <1>11, <1>12, <1>13

LEMMA WrittenRow ==
  ASSUME ChunkInv, NEW off \in Nat, NEW d \in Flat!Data, NEW i \in Touched(off, d)
  PROVE  /\ Written(i, off, d) \in Seq(Stores)
         /\ Len(Written(i, off, d)) <= ChunkSize
         /\ i * ChunkSize + Len(Written(i, off, d)) <= Flat!Larger(size, off + Len(d))
         /\ \A j \in 1..ChunkSize : Slot(Written(i, off, d), j) =
              IF off < i * ChunkSize + j /\ i * ChunkSize + j <= off + Len(d)
              THEN d[i * ChunkSize + j - off] ELSE Slot(chunk[i], j)
<1> DEFINE b == i * ChunkSize
           lo == IF off > b THEN off - b ELSE 0
           hi == Flat!Smaller(off + Len(d) - b, ChunkSize)
           part == SubSeq(d, b + lo - off + 1, b + hi - off)
           w == Written(i, off, d)
<1>1. i \in Index /\ i \in Nat
  BY Chunks DEF Touched
<1>2. /\ d \in Seq(Stores) /\ Len(d) \in Nat \ {0}
      /\ b \in Nat /\ ChunkSize \in Nat \ {0} /\ size \in Nat
      /\ off < b + ChunkSize /\ b < off + Len(d)
  BY <1>1, DataIsBytes, Starts, TouchedIs, ChunkAssumption DEF ChunkInv
<1>3. w = Flat!Overlaid(chunk[i], lo, part)
  BY DEF Written
<1>4. RowOK(i, chunk[i], size)
  BY <1>1 DEF ChunkInv
<1>5. chunk[i] \in Seq(Stores) /\ Len(chunk[i]) \in Nat /\ Len(chunk[i]) <= ChunkSize
  BY <1>4, LenProperties DEF RowOK
<1>6. Len(chunk[i]) = 0 \/ b + Len(chunk[i]) <= size
  BY <1>4, EmptySeq, <1>5 DEF RowOK
<1> HIDE DEF b, w
<1>7. /\ lo \in Nat /\ hi \in Nat /\ lo < hi /\ hi <= ChunkSize /\ b + hi <= off + Len(d)
      /\ off <= b + lo /\ (lo = 0 \/ off = b + lo)
      /\ hi = off + Len(d) - b \/ hi = ChunkSize
  BY <1>2 DEF Flat!Smaller
<1> HIDE DEF lo, hi
<1>8. b + lo - off + 1 \in Nat \ {0} /\ b + hi - off \in 0..Len(d)
      /\ b + lo - off + 1 <= b + hi - off
  BY <1>2, <1>7
<1>9. /\ part \in Seq(Stores)
      /\ Len(part) = hi - lo
      /\ \A j \in 1..(hi - lo) : part[j] = d[b + lo - off + j]
  <2> DEFINE m == b + lo - off + 1
             n == b + hi - off
  <2>1. /\ SubSeq(d, m, n) \in Seq(Stores)
        /\ Len(SubSeq(d, m, n)) = IF m <= n THEN n - m + 1 ELSE 0
        /\ \A j \in 1..(n - m + 1) : SubSeq(d, m, n)[j] = d[m + j - 1]
    BY <1>2, <1>8, PartIsRow
  <2>2. n - m + 1 = hi - lo /\ m <= n
    BY <1>2, <1>7, <1>8
  <2>3. \A j \in 1..(hi - lo) : m + j - 1 = b + lo - off + j
    BY <1>2, <1>7
  <2> QED
    BY <2>1, <2>2, <2>3
<1> HIDE DEF part
<1>10. /\ w \in Seq(Stores)
       /\ Len(w) = Flat!Larger(Len(chunk[i]), lo + (hi - lo))
       /\ \A j \in Nat \ {0} : Slot(w, j) =
            IF lo < j /\ j <= lo + (hi - lo) THEN part[j - lo] ELSE Slot(chunk[i], j)
  <2>1. chunk[i] \in Seq(Stores) /\ part \in Seq(Stores) /\ lo \in Nat
    BY <1>5, <1>7, <1>9
  <2>2. \A row \in Seq(Stores), o \in Seq(Stores), at \in Nat :
          /\ Flat!Overlaid(row, at, o) \in Seq(Stores)
          /\ Len(Flat!Overlaid(row, at, o)) = Flat!Larger(Len(row), at + Len(o))
          /\ \A j \in Nat \ {0} : Slot(Flat!Overlaid(row, at, o), j) =
               IF at < j /\ j <= at + Len(o) THEN o[j - at] ELSE Slot(row, j)
    BY LaidOver
  <2>3. /\ w \in Seq(Stores)
        /\ Len(w) = Flat!Larger(Len(chunk[i]), lo + Len(part))
        /\ \A j \in Nat \ {0} : Slot(w, j) =
               IF lo < j /\ j <= lo + Len(part) THEN part[j - lo] ELSE Slot(chunk[i], j)
    BY <1>3, <2>1, <2>2
  <2> QED
    BY <1>9, <2>3
<1>11. lo + (hi - lo) = hi
  BY <1>7
<1>12. Len(w) <= ChunkSize
  BY <1>2, <1>5, <1>7, <1>10, <1>11 DEF Flat!Larger
<1>13. b + Len(w) <= Flat!Larger(size, off + Len(d))
  BY <1>2, <1>5, <1>6, <1>7, <1>10, <1>11 DEF Flat!Larger
<1>14. ASSUME NEW j \in 1..ChunkSize
       PROVE  Slot(w, j) = IF off < b + j /\ b + j <= off + Len(d)
                           THEN d[b + j - off] ELSE Slot(chunk[i], j)
  <2>1. off < b + j /\ b + j <= off + Len(d) <=> lo < j /\ j <= hi
    BY <1>2, <1>7 DEF lo
  <2>2. lo < j /\ j <= hi => part[j - lo] = d[b + j - off]
    <3> SUFFICES ASSUME lo < j, j <= hi PROVE part[j - lo] = d[b + j - off]
      OBVIOUS
    <3>1. j - lo \in 1..(hi - lo) /\ b + lo - off + (j - lo) = b + j - off
      BY <1>2, <1>7
    <3> QED
      BY <3>1, <1>9
  <2>3. j \in Nat \ {0}
    OBVIOUS
  <2> QED
    BY <1>10, <1>11, <2>1, <2>2, <2>3
<1> QED
  BY <1>10, <1>12, <1>13, <1>14 DEF b, w

LEMMA StepWrite ==
  ASSUME ChunkInv, NEW off \in 0..MaxSize, NEW d \in Flat!Data, Write(off, d)
  PROVE  ChunkInv' /\ off + Len(d) <= MaxSize /\ Flat!Write(off, d)
<1> DEFINE n == Flat!Larger(size, off + Len(d))
           c == [i \in Index |->
                   IF i \in Touched(off, d) THEN Written(i, off, d) ELSE chunk[i]]
           f == Flat!Overlaid(Stored, off, d)
<1>1. off + Len(d) <= MaxSize /\ size' = n /\ chunk' = c
  BY DEF Write
<1>2. off \in Nat /\ Len(d) \in Nat \ {0} /\ size \in Nat /\ ChunkSize \in Nat \ {0}
  BY DataIsBytes, ChunkAssumption DEF ChunkInv
<1>3. n \in 0..MaxSize /\ size <= n /\ off + Len(d) <= n
      /\ (n = size \/ n = off + Len(d))
  BY <1>1, <1>2, ChunkAssumption DEF ChunkInv, Flat!Larger
<1>4. Len(Stored) = size
  BY StoredIsFile
<1>5. f = [k \in 1..n |-> IF off < k /\ k <= off + Len(d) THEN d[k - off]
                          ELSE IF k <= size THEN Stored[k] ELSE 0]
  BY <1>4 DEF Flat!Overlaid
<1> HIDE DEF f
<1>6. ASSUME NEW i \in Index
      PROVE  /\ RowOK(i, c[i], n)
             /\ \A j \in 1..ChunkSize : i * ChunkSize + j <= n =>
                  Slot(c[i], j) = f[i * ChunkSize + j]
  <2>1. i \in Nat /\ i * ChunkSize \in Nat /\ RowOK(i, chunk[i], size)
    BY Chunks, Starts DEF ChunkInv
  <2>2. ASSUME NEW j \in 1..ChunkSize, i * ChunkSize + j <= n
        PROVE  f[i * ChunkSize + j] =
                 IF off < i * ChunkSize + j /\ i * ChunkSize + j <= off + Len(d)
                 THEN d[i * ChunkSize + j - off] ELSE Slot(chunk[i], j)
    <3> DEFINE k == i * ChunkSize + j
    <3>1. k \in 1..n
      BY <1>2, <1>3, <2>1, <2>2
    <3>2. Slot(chunk[i], j) = IF k <= size THEN Stored[k] ELSE 0
      BY SlotOf
    <3> HIDE DEF k, n
    <3>3. f[k] = IF off < k /\ k <= off + Len(d) THEN d[k - off] ELSE Slot(chunk[i], j)
      BY <1>5, <3>1, <3>2
    <3> QED
      BY <1>2, <2>1, <3>3 DEF k
  <2>3. CASE i \in Touched(off, d)
    <3>1. c[i] = Written(i, off, d)
      BY <2>3
    <3>2. RowOK(i, c[i], n)
      BY <2>3, <3>1, WrittenRow, <1>2 DEF RowOK
    <3>3. ASSUME NEW j \in 1..ChunkSize, i * ChunkSize + j <= n
          PROVE  Slot(c[i], j) = f[i * ChunkSize + j]
      BY <1>2, <2>2, <2>3, <3>1, <3>3, WrittenRow
    <3> QED
      BY <3>2, <3>3
  <2>4. CASE i \notin Touched(off, d)
    <3>1. c[i] = chunk[i]
      BY <2>4
    <3>2. RowOK(i, c[i], n)
      <4>1. Len(chunk[i]) \in Nat
        BY <2>1, LenProperties DEF RowOK
      <4> QED
        BY <1>2, <1>3, <2>1, <3>1, <4>1 DEF RowOK
    <3>3. ASSUME NEW j \in 1..ChunkSize
          PROVE  ~(off < i * ChunkSize + j /\ i * ChunkSize + j <= off + Len(d))
      BY <1>2, <2>1, <2>4, TouchedIs
    <3> QED
      BY <2>2, <3>1, <3>2, <3>3
  <2> QED
    BY <2>3, <2>4
<1>7. ChunkInv'
  BY <1>1, <1>3, <1>6 DEF ChunkInv
<1>8. StoredOf(n, c) = f
  <2>1. ASSUME NEW k \in 1..n PROVE StoredOf(n, c)[k] = f[k]
    <3>1. PICK i \in Index, j \in 1..ChunkSize :
            k = i * ChunkSize + j /\ StoredOf(n, c)[k] = Slot(c[i], j)
      <4>1. n \in 0..MaxSize
        BY <1>3
      <4> HIDE DEF n, c
      <4>2. \A rows : \E i \in Index, j \in 1..ChunkSize :
           k = i * ChunkSize + j /\ StoredOf(n, rows)[k] = Slot(rows[i], j)
        BY <4>1, StoredAt
      <4> QED
        BY <4>2
    <3>2. k <= n
      BY <1>2, <1>3
    <3> QED
      BY <1>6, <3>1, <3>2
  <2> HIDE DEF n, c
  <2> QED
    BY <1>5, <2>1 DEF StoredOf
<1>9. Stored' = f
  <2>1. Stored' = StoredOf(size', chunk')
    BY DEF Stored, StoredOf, Slot
  <2> QED
    BY <1>1, <1>8, <2>1
<1> QED
  BY <1>1, <1>7, <1>9 DEF f, Flat!Write
-----------------------------------------------------------------------------
(***************************************************************************)
(* Truncate and Rewrite.                                                   *)
(***************************************************************************)
Trimmed(n, i) ==
  IF n = 0 \/ i > (n - 1) \div ChunkSize THEN <<>>
  ELSE IF i = (n - 1) \div ChunkSize /\ n % ChunkSize > 0
  THEN SubSeq(chunk[i], 1, Flat!Smaller(n % ChunkSize, Len(chunk[i])))
  ELSE chunk[i]

(* A file that is cut at n loses what is behind it in its chunks, and no   *)
(* more.                                                                   *)
LEMMA TrimmedRow ==
  ASSUME ChunkInv, NEW n \in 0..MaxSize, NEW i \in Index
  PROVE  /\ RowOK(i, Trimmed(n, i), n)
         /\ \A j \in 1..ChunkSize : i * ChunkSize + j <= n =>
              Slot(Trimmed(n, i), j) = Slot(chunk[i], j)
<1> DEFINE b == i * ChunkSize
           q == (n - 1) \div ChunkSize
           row == Trimmed(n, i)
<1>1. /\ i \in Nat /\ b \in Nat /\ n \in Nat /\ ChunkSize \in Nat \ {0}
      /\ chunk[i] \in Seq(Stores) /\ Len(chunk[i]) \in Nat /\ Len(chunk[i]) <= ChunkSize
  BY Chunks, Starts, LenProperties, ChunkAssumption DEF ChunkInv, RowOK
<1>2. n # 0 => /\ q \in Nat /\ q * ChunkSize \in Nat
               /\ q * ChunkSize < n /\ n <= q * ChunkSize + ChunkSize
  <2> SUFFICES ASSUME n # 0 PROVE /\ q \in Nat /\ q * ChunkSize \in Nat
                                  /\ q * ChunkSize < n /\ n <= q * ChunkSize + ChunkSize
    OBVIOUS
  <2>1. n - 1 \in Nat
    BY <1>1
  <2>2. /\ q \in Nat /\ q * ChunkSize \in Nat
        /\ q * ChunkSize <= n - 1 /\ n - 1 < q * ChunkSize + ChunkSize
    BY <2>1, InChunk
  <2> HIDE DEF q
  <2> QED
    BY <1>1, <2>2
<1>3. CASE n = 0 \/ i > q
  <2>1. row = <<>>
    BY <1>3 DEF Trimmed
  <2>2. n <= b
    <3>1. CASE n = 0
      BY <1>1, <3>1
    <3>2. CASE n # 0
      <4>1. q * ChunkSize + ChunkSize <= b
        <5> HIDE DEF q
        <5> QED
          BY <1>1, <1>2, <1>3, <3>2, InOrder
      <4> HIDE DEF q
      <4> QED
        BY <1>1, <1>2, <3>2, <4>1
    <3> QED
      BY <3>1, <3>2
  <2>3. RowOK(i, row, n)
    BY <1>1, <2>1, EmptySeq DEF RowOK
  <2>4. \A j \in 1..ChunkSize : ~(b + j <= n)
    BY <1>1, <2>2
  <2> QED
    BY <2>3, <2>4
<1>4. CASE n # 0 /\ i = q /\ n % ChunkSize > 0
  <2> DEFINE m == Flat!Smaller(n % ChunkSize, Len(chunk[i]))
  <2>1. row = SubSeq(chunk[i], 1, m)
    <3>1. ~(i > q) /\ n # 0 /\ i = (n - 1) \div ChunkSize /\ n % ChunkSize > 0
      BY <1>1, <1>4
    <3> QED
      BY <3>1 DEF Trimmed
  <2>2. n % ChunkSize = n - b
    <3>1. n # q * ChunkSize + ChunkSize
      <4> SUFFICES ASSUME n = q * ChunkSize + ChunkSize PROVE FALSE
        OBVIOUS
      <4>1. q + 1 \in Nat /\ (q + 1) * ChunkSize = n
        BY <1>2, <1>4, Starts
      <4>2. n % ChunkSize = n - (q + 1) * ChunkSize
        <5> HIDE DEF q
        <5> QED
          BY <1>1, <4>1, Quotient
      <4> HIDE DEF q
      <4> QED
        BY <1>1, <1>4, <4>1, <4>2
    <3>2. b <= n /\ n < b + ChunkSize
      <4> HIDE DEF q
      <4> QED
        BY <1>1, <1>2, <1>4, <3>1
    <3> QED
      BY <1>1, <3>2, Quotient
  <2>3. /\ m \in 0..Len(chunk[i]) /\ b + m <= n
        /\ \A j \in 1..ChunkSize : b + j <= n /\ j <= Len(chunk[i]) => j <= m
    BY <1>1, <1>2, <1>4, <2>2 DEF Flat!Smaller
  <2> HIDE DEF m
  <2>4. /\ row \in Seq(Stores) /\ Len(row) = m
        /\ \A j \in 1..m : row[j] = chunk[i][j]
    <3>1. /\ SubSeq(chunk[i], 1, m) \in Seq(Stores)
          /\ Len(SubSeq(chunk[i], 1, m)) = IF 1 <= m THEN m - 1 + 1 ELSE 0
          /\ \A j \in 1..(m - 1 + 1) : SubSeq(chunk[i], 1, m)[j] = chunk[i][1 + j - 1]
      BY <1>1, <2>3, PartIsRow
    <3> QED
      BY <1>1, <2>1, <2>3, <3>1
  <2> HIDE DEF row
  <2>5. RowOK(i, row, n)
    BY <1>1, <2>3, <2>4 DEF RowOK
  <2>6. ASSUME NEW j \in 1..ChunkSize, b + j <= n PROVE Slot(row, j) = Slot(chunk[i], j)
    BY <1>1, <2>3, <2>4, <2>6 DEF Slot
  <2> QED
    BY <2>5, <2>6 DEF row
<1>5. CASE n # 0 /\ ~(i > q) /\ ~(i = q /\ n % ChunkSize > 0)
  <2>1. row = chunk[i]
    BY <1>5 DEF Trimmed
  <2>2. b + ChunkSize <= n
    <3>1. CASE i < q
      <4> HIDE DEF q
      <4>1. b + ChunkSize <= q * ChunkSize
        BY <1>1, <1>2, <1>5, <3>1, InOrder
      <4> QED
        BY <1>1, <1>2, <1>5, <4>1
    <3>2. CASE i = q
      <4>1. ~(n < b + ChunkSize)
        <5> SUFFICES ASSUME n < b + ChunkSize PROVE FALSE
          OBVIOUS
        <5>1. b <= n
          BY <1>1, <1>2, <1>5, <3>2
        <5>2. n % ChunkSize = n - b
          BY <1>1, <5>1, Quotient
        <5> QED
          BY <1>1, <1>2, <1>5, <3>2, <5>2
      <4> QED
        BY <1>1, <4>1
    <3> QED
      BY <1>1, <1>2, <1>5, <3>1, <3>2
  <2>3. RowOK(i, row, n)
    BY <1>1, <2>1, <2>2 DEF RowOK
  <2> QED
    BY <2>1, <2>3
<1> QED
  BY <1>3, <1>4, <1>5

LEMMA StepTruncate ==
  ASSUME ChunkInv, NEW n \in 0..MaxSize, Truncate(n)
  PROVE  ChunkInv' /\ Flat!Truncate(n)
<1> DEFINE c == [i \in Index |-> Trimmed(n, i)]
           f == Flat!Resized(Stored, n)
<1>1. size' = n /\ chunk' = c
  BY DEF Truncate, Trimmed
<1>2. ASSUME NEW i \in Index PROVE RowOK(i, c[i], n)
  BY TrimmedRow
<1>3. ChunkInv'
  BY <1>1, <1>2 DEF ChunkInv
<1>4. Len(Stored) = size
  BY StoredIsFile
<1>5. f = [k \in 1..n |-> IF k <= size THEN Stored[k] ELSE 0]
  BY <1>4 DEF Flat!Resized
<1> HIDE DEF f
<1>6. ASSUME NEW k \in 1..n PROVE StoredOf(n, c)[k] = f[k]
  <2> HIDE DEF c
  <2>1. \A rows : \E i \in Index, j \in 1..ChunkSize :
          k = i * ChunkSize + j /\ StoredOf(n, rows)[k] = Slot(rows[i], j)
    BY StoredAt
  <2>2. PICK i \in Index, j \in 1..ChunkSize :
          k = i * ChunkSize + j /\ StoredOf(n, c)[k] = Slot(c[i], j)
    BY <2>1
  <2>3. c[i] = Trimmed(n, i)
    BY DEF c
  <2>4. i * ChunkSize + j <= n
    BY <2>2
  <2>5. Slot(c[i], j) = Slot(chunk[i], j)
    BY <2>3, <2>4, TrimmedRow
  <2>6. Slot(chunk[i], j) = IF k <= size THEN Stored[k] ELSE 0
    BY <2>2, SlotOf
  <2> QED
    BY <1>5, <2>2, <2>5, <2>6
<1>7. StoredOf(n, c) = f
  <2> HIDE DEF c
  <2> QED
    BY <1>5, <1>6 DEF StoredOf
<1>8. Stored' = StoredOf(size', chunk')
  BY DEF Stored, StoredOf, Slot
<1> QED
  BY <1>1, <1>3, <1>7, <1>8 DEF f, Flat!Truncate

LEMMA StepRewrite ==
  ASSUME ChunkInv, NEW d \in Flat!Data, Rewrite(d)
  PROVE  ChunkInv' /\ Stored' = d
<1> DEFINE n == Len(d)
           cut(i) == Flat!Smaller((i + 1) * ChunkSize, n)
           c == [i \in Index |-> SubSeq(d, i * ChunkSize + 1, cut(i))]
<1>1. n <= MaxSize /\ size' = n /\ chunk' = c
  BY DEF Rewrite
<1>2. /\ d \in Seq(Stores) /\ n \in Nat \ {0} /\ n \in 0..MaxSize
      /\ d = [k \in 1..n |-> d[k]]
  BY <1>1, DataIsBytes, ChunkAssumption
<1> HIDE DEF n
<1>3. ASSUME NEW i \in Index
      PROVE  /\ RowOK(i, c[i], n)
             /\ \A j \in 1..ChunkSize : i * ChunkSize + j <= n =>
                  Slot(c[i], j) = d[i * ChunkSize + j]
  <2> DEFINE b == i * ChunkSize
             m == cut(i)
  <2>1. /\ i \in Nat /\ b \in Nat /\ (i + 1) * ChunkSize = b + ChunkSize
        /\ ChunkSize \in Nat \ {0}
    BY Chunks, Starts, ChunkAssumption
  <2>2. /\ m \in 0..n /\ m <= b + ChunkSize
        /\ m = n \/ m = b + ChunkSize
    BY <1>2, <2>1 DEF Flat!Smaller
  <2> HIDE DEF m
  <2>3. c[i] = SubSeq(d, b + 1, m)
    BY DEF m
  <2> HIDE DEF b, c
  <2>4. /\ c[i] \in Seq(Stores)
        /\ Len(c[i]) = IF b + 1 <= m THEN m - b ELSE 0
        /\ \A j \in 1..(m - b) : c[i][j] = d[b + j]
    <3>1. b + 1 \in Nat \ {0} /\ m \in 0..Len(d)
      BY <2>1, <2>2 DEF n
    <3>2. /\ SubSeq(d, b + 1, m) \in Seq(Stores)
          /\ Len(SubSeq(d, b + 1, m)) = IF b + 1 <= m THEN m - (b + 1) + 1 ELSE 0
          /\ \A j \in 1..(m - (b + 1) + 1) : SubSeq(d, b + 1, m)[j] = d[b + 1 + j - 1]
      BY <1>2, <3>1, PartIsRow
    <3>3. m \in Nat /\ m - (b + 1) + 1 = m - b
          /\ \A j \in 1..(m - b) : b + 1 + j - 1 = b + j
      BY <1>2, <2>1, <2>2
    <3> QED
      BY <2>3, <3>2, <3>3
  <2>5. n \in Nat /\ b \in Nat /\ m \in Nat /\ m <= n
    BY <1>2, <2>1, <2>2
  <2>6. CASE b < m
    <3>1. Len(c[i]) = m - b
      BY <2>4, <2>5, <2>6
    <3>2. m - b <= ChunkSize /\ b + (m - b) <= n
      BY <2>1, <2>2, <2>5
    <3>3. RowOK(i, c[i], n)
      BY <2>4, <3>1, <3>2 DEF RowOK, b
    <3>4. ASSUME NEW j \in 1..ChunkSize, b + j <= n PROVE Slot(c[i], j) = d[b + j]
      <4>1. j \in 1..(m - b) /\ j <= m - b
        BY <2>1, <2>2, <2>5, <3>4
      <4> QED
        BY <2>4, <3>1, <4>1 DEF Slot
    <3> QED
      BY <3>3, <3>4 DEF b, c
  <2>7. CASE ~(b < m)
    <3>1. Len(c[i]) = 0 /\ c[i] = <<>>
      BY <2>4, <2>5, <2>7, EmptySeq
    <3>2. RowOK(i, c[i], n)
      BY <2>1, <2>4, <3>1 DEF RowOK
    <3>3. \A j \in 1..ChunkSize : ~(b + j <= n)
      BY <2>1, <2>2, <2>5, <2>7
    <3> QED
      BY <3>2, <3>3 DEF b, c
  <2> QED
    BY <2>6, <2>7
<1>4. ChunkInv'
  BY <1>1, <1>2, <1>3 DEF ChunkInv
<1>5. ASSUME NEW k \in 1..n PROVE StoredOf(n, c)[k] = d[k]
  <2>1. PICK i \in Index, j \in 1..ChunkSize :
          k = i * ChunkSize + j /\ StoredOf(n, c)[k] = Slot(c[i], j)
    <3>1. \A rows : \E i \in Index, j \in 1..ChunkSize :
            k = i * ChunkSize + j /\ StoredOf(n, rows)[k] = Slot(rows[i], j)
      <4>1. n \in 0..MaxSize
        BY <1>2
      <4> QED
        BY <4>1, StoredAt
    <3> HIDE DEF c
    <3> QED
      BY <3>1
  <2>2. i * ChunkSize + j <= n
    BY <1>2, <2>1
  <2> HIDE DEF c
  <2> QED
    BY <1>3, <2>1, <2>2
<1>6. StoredOf(n, c) = d
  <2> HIDE DEF c
  <2> QED
    BY <1>2, <1>5 DEF StoredOf
<1>7. Stored' = StoredOf(size', chunk')
  BY DEF Stored, StoredOf, Slot
<1> QED
  BY <1>1, <1>4, <1>6, <1>7
-----------------------------------------------------------------------------
LEMMA ChunkInvInit == Init => ChunkInv /\ Flat!Init
<1> SUFFICES ASSUME Init PROVE ChunkInv /\ Flat!Init
  OBVIOUS
<1>1. <<>> \in Seq(Stores) /\ Len(<<>>) = 0
  BY EmptySeq
<1>2. ChunkInv
  BY <1>1, ChunkAssumption DEF Init, ChunkInv, RowOK
<1>3. Stored = <<>>
  <2>1. Stored \in Seq(Stores) /\ Len(Stored) = 0
    BY <1>2, StoredIsFile DEF Init
  <2> QED
    BY <2>1, EmptySeq
<1> QED
  BY <1>2, <1>3 DEF Flat!Init

LEMMA ChunkStep == ChunkInv /\ [Next]_cvars => ChunkInv' /\ [Flat!Next]_Stored
<1> SUFFICES ASSUME ChunkInv, [Next]_cvars PROVE ChunkInv' /\ [Flat!Next]_Stored
  OBVIOUS
<1>1. CASE \E off \in 0..MaxSize, d \in Flat!Data : Write(off, d)
  BY <1>1, StepWrite DEF Flat!Next
<1>2. CASE \E n \in 0..MaxSize : Truncate(n)
  BY <1>2, StepTruncate DEF Flat!Next
<1>3. CASE \E d \in Flat!Data : Rewrite(d)
  BY <1>3, StepRewrite DEF Flat!Next
<1>4. CASE UNCHANGED cvars
  BY <1>4 DEF cvars, ChunkInv, Stored
<1> QED
  BY <1>1, <1>2, <1>3, <1>4 DEF Next

(* Rows keep their types, and a row is never longer than its chunk.        *)
THEOREM RowsAreTyped == Spec => []ChunkTypeOK
<1>1. ChunkInv => ChunkTypeOK
  BY LenProperties, ElementOfSeq DEF ChunkInv, RowOK, ChunkTypeOK, Stores
<1> QED
  BY <1>1, ChunkInvInit, ChunkStep, PTL DEF Spec

(* A write that spans chunks, a truncation in the middle of one, a write   *)
(* behind the end of the file and a rewrite change what the rows denote as *)
(* they change a flat array of bytes.                                      *)
THEOREM ChunksAreFlat == Spec => StoresFlat
BY ChunkInvInit, ChunkStep, PTL DEF Spec, StoresFlat, Flat!Spec
-----------------------------------------------------------------------------
(***************************************************************************)
(* Reading: walks over rows.  A fold over a finite set exists: the pairs   *)
(* <<s, v>> that its equation forces make up a function.  The step is a    *)
(* function here, and c chooses the next element.                          *)
(***************************************************************************)
Chooses(c, S) == \A s \in SUBSET S : s # {} => c[s] \in s
IsFold(f, S, a, c, h) == \A s \in SUBSET S : f[s] = IF s = {} THEN a ELSE h[s][f[s \ {c[s]}]]

LEMMA FoldExists ==
  ASSUME NEW S, IsFiniteSet(S), NEW A, NEW a \in A,
         NEW c, Chooses(c, S), NEW h \in [SUBSET S -> [A -> A]]
  PROVE  \E f \in [SUBSET S -> A] : IsFold(f, S, a, c, h)
<1> DEFINE Pairs == (SUBSET S) \X A
           Closed(Q) == /\ <<{}, a>> \in Q
                        /\ \A s \in SUBSET S, v \in A :
                             s # {} /\ <<s \ {c[s]}, v>> \in Q => <<s, h[s][v]>> \in Q
           R == {p \in Pairs : \A Q \in SUBSET Pairs : Closed(Q) => p \in Q}
<1>1. \A s \in SUBSET S : s # {} => c[s] \in s /\ c[s] \in S /\ s \ {c[s]} \in SUBSET S
  BY DEF Chooses
<1>2. Closed(R)
  <2>1. <<{}, a>> \in R
    OBVIOUS
  <2>2. ASSUME NEW s \in SUBSET S, NEW v \in A, s # {}, <<s \ {c[s]}, v>> \in R
        PROVE  <<s, h[s][v]>> \in R
    <3>0. c[s] \in S /\ <<c[s], v>> \in S \X A
      BY <1>1, <2>2
    <3>1. <<s, h[s][v]>> \in Pairs
            <4> QED BY <3>0
    <3>2. ASSUME NEW Q \in SUBSET Pairs, Closed(Q)
          PROVE  <<s, h[s][v]>> \in Q
      BY <2>2, <3>2
    <3> QED BY <3>1, <3>2
  <2> QED BY <2>1, <2>2
<1>3. \A s \in SUBSET S : \E v \in A : <<s, v>> \in R
  <2> DEFINE Bad == {s \in SUBSET S : ~ \E v \in A : <<s, v>> \in R}
  <2>1. SUFFICES ASSUME Bad # {} PROVE FALSE
    <3> HIDE DEF R
    <3> QED OBVIOUS
  <2>2. IsWellFoundedOn(StrictSubsetOrdering(S), FiniteSubsetsOf(S))
    BY FS_StrictSubsetOrderingWellFounded
  <2>3. Bad \subseteq FiniteSubsetsOf(S)
    BY FS_FiniteSubsetsOfFinite
  <2>4. PICK s \in Bad : \A t \in Bad : <<t, s>> \notin StrictSubsetOrdering(S)
    <3> HIDE DEF Bad
    <3> QED BY <2>1, <2>2, <2>3, WFMin
  <2>5. s # {}
    BY <1>2, <2>4
  <2>6. <<s \ {c[s]}, s>> \in StrictSubsetOrdering(S)
    BY <1>1, <2>5 DEF StrictSubsetOrdering
  <2>7. PICK v \in A : <<s \ {c[s]}, v>> \in R
    BY <1>1, <2>4, <2>5, <2>6
  <2>8. <<s, h[s][v]>> \in R
    BY <1>2, <2>5, <2>7
  <2>9. h[s][v] \in A
    <3>1. <<c[s], v>> \in S \X A
      BY <1>1, <2>5
    <3> QED BY <3>1
  <2> HIDE DEF R
  <2> QED BY <2>4, <2>8, <2>9
<1>4. ASSUME NEW s \in SUBSET S, NEW v \in A, <<s, v>> \in R
      PROVE  IF s = {} THEN v = a
             ELSE \E u \in A : <<s \ {c[s]}, u>> \in R /\ v = h[s][u]
  <2> DEFINE Q == {p \in R : IF p[1] = {} THEN p[2] = a
                   ELSE \E u \in A : <<p[1] \ {c[p[1]]}, u>> \in R /\ p[2] = h[p[1]][u]}
  <2>1. Q \in SUBSET Pairs
    OBVIOUS
  <2>2. <<{}, a>> \in Q
    BY <1>2
  <2>3. ASSUME NEW t \in SUBSET S, NEW u \in A, t # {}, <<t \ {c[t]}, u>> \in Q
        PROVE  <<t, h[t][u]>> \in Q
    <3>1. <<t \ {c[t]}, u>> \in R
      BY <2>3
    <3>2. <<t, h[t][u]>> \in R
      BY <1>2, <2>3, <3>1
    <3> HIDE DEF R
    <3> QED BY <2>3, <3>1, <3>2
  <2>4. Closed(Q)
    BY <2>2, <2>3
  <2>5. <<s, v>> \in Q
    BY <1>4, <2>1, <2>4
  <2> HIDE DEF R
  <2> QED BY <2>5
<1>5. \A s \in SUBSET S : \A v, w \in A : <<s, v>> \in R /\ <<s, w>> \in R => v = w
  <2> DEFINE Bad == {s \in SUBSET S : \E v, w \in A : <<s, v>> \in R /\ <<s, w>> \in R /\ v # w}
  <2>1. SUFFICES ASSUME Bad # {} PROVE FALSE
    <3> HIDE DEF R
    <3> QED OBVIOUS
  <2>2. IsWellFoundedOn(StrictSubsetOrdering(S), FiniteSubsetsOf(S))
    BY FS_StrictSubsetOrderingWellFounded
  <2>3. Bad \subseteq FiniteSubsetsOf(S)
    BY FS_FiniteSubsetsOfFinite
  <2>4. PICK s \in Bad : \A t \in Bad : <<t, s>> \notin StrictSubsetOrdering(S)
    <3> HIDE DEF Bad
    <3> QED BY <2>1, <2>2, <2>3, WFMin
  <2>5. PICK v \in A, w \in A : <<s, v>> \in R /\ <<s, w>> \in R /\ v # w
    BY <2>4
  <2>6. s # {}
    <3> HIDE DEF R
    <3> QED BY <1>4, <2>4, <2>5
  <2>7. PICK x \in A : <<s \ {c[s]}, x>> \in R /\ v = h[s][x]
    <3> HIDE DEF R
    <3> QED BY <1>4, <2>4, <2>5, <2>6
  <2>7a. PICK y \in A : <<s \ {c[s]}, y>> \in R /\ w = h[s][y]
    <3> HIDE DEF R
    <3> QED BY <1>4, <2>4, <2>5, <2>6
  <2>8. <<s \ {c[s]}, s>> \in StrictSubsetOrdering(S)
    BY <1>1, <2>6, <2>4 DEF StrictSubsetOrdering
  <2>9. s \ {c[s]} \notin Bad
    BY <2>4, <2>8
  <2>10. x = y
    <3> HIDE DEF R
    <3> QED BY <1>1, <2>4, <2>7, <2>7a, <2>9
  <2> QED BY <2>5, <2>7, <2>7a, <2>10
<1> DEFINE f == [s \in SUBSET S |-> CHOOSE v \in A : <<s, v>> \in R]
<1>6. \A s \in SUBSET S : f[s] \in A /\ <<s, f[s]>> \in R
  <2> HIDE DEF R
  <2> QED BY <1>3
<1>7. ASSUME NEW s \in SUBSET S
      PROVE  f[s] = IF s = {} THEN a ELSE h[s][f[s \ {c[s]}]]
  <2>1. CASE s = {}
    <3> HIDE DEF R, f
    <3> QED BY <1>4, <1>6, <2>1
  <2>2. CASE s # {}
    <3>1. PICK u \in A : <<s \ {c[s]}, u>> \in R /\ f[s] = h[s][u]
      <4> HIDE DEF R, f
      <4> QED BY <1>4, <1>6, <2>2
    <3>2. u = f[s \ {c[s]}]
      <4> HIDE DEF R, f
      <4> QED BY <1>5, <1>6, <3>1
    <3> QED BY <2>2, <3>1, <3>2
  <2> QED BY <2>1, <2>2
<1>8. f \in [SUBSET S -> A]
  <2> HIDE DEF R
  <2> QED BY <1>3
<1> HIDE DEF f, R
<1> QED BY <1>7, <1>8 DEF IsFold

(* The highest index of some rows.                                         *)
LEMMA HighestIs ==
  ASSUME NEW S \in SUBSET Nat, IsFiniteSet(S), NEW s \in SUBSET S, s # {}
  PROVE  Max(s) \in s /\ \A y \in s : y <= Max(s)
<1> DEFINE HasMax(t) == \E x \in t : \A y \in t : x >= y
           Bad == {t \in SUBSET S : t # {} /\ ~HasMax(t)}
<1>1. ASSUME Bad # {} PROVE FALSE
  <2>1. IsWellFoundedOn(StrictSubsetOrdering(S), FiniteSubsetsOf(S))
    BY FS_StrictSubsetOrderingWellFounded
  <2>2. Bad \subseteq FiniteSubsetsOf(S)
    BY FS_FiniteSubsetsOfFinite
  <2>3. PICK t \in Bad : \A u \in Bad : <<u, t>> \notin StrictSubsetOrdering(S)
    <3> HIDE DEF Bad
    <3> QED BY <1>1, <2>1, <2>2, WFMin
  <2>4. t \in SUBSET S /\ t # {} /\ ~HasMax(t)
    OBVIOUS
  <2>5. PICK x \in t : TRUE
    BY <2>4
  <2>6. <<t \ {x}, t>> \in StrictSubsetOrdering(S)
    BY <2>4, <2>5 DEF StrictSubsetOrdering
  <2>7. t \ {x} \notin Bad
    BY <2>3, <2>6
  <2>8. t \ {x} = {} \/ HasMax(t \ {x})
    BY <2>4, <2>7
  <2>9. CASE t \ {x} = {}
    <3>1. \A y \in t : y = x
      BY <2>9
    <3>2. \A y \in t : x >= y
      BY <2>4, <3>1
    <3> QED BY <2>4, <2>5, <3>2
  <2>10. CASE HasMax(t \ {x})
    <3>1. PICK z \in t \ {x} : \A y \in t \ {x} : z >= y
      BY <2>10
    <3>2. x \in Nat /\ z \in Nat /\ \A y \in t : y \in Nat
      BY <2>4, <2>5
    <3>3. CASE x >= z
      <4>1. \A y \in t : x >= y
        BY <3>1, <3>2, <3>3
      <4> QED BY <2>4, <2>5, <4>1
    <3>4. CASE z >= x
      <4>1. \A y \in t : z >= y
        BY <3>1, <3>2, <3>4
      <4> QED BY <2>4, <3>1, <4>1
    <3> QED BY <3>2, <3>3, <3>4
  <2> QED BY <2>8, <2>9, <2>10
<1>2. HasMax(s)
  BY <1>1
<1>3. Max(s) \in s /\ \A y \in s : Max(s) >= y
  BY <1>2 DEF Max
<1>4. \A y \in s : y \in Nat /\ Max(s) \in Nat
  BY <1>3
<1> QED BY <1>3, <1>4

(* A walk over rows, the lowest index first: f[s] is what the rows of s    *)
(* make of a.                                                              *)
Walks(f, S, a, h) ==
  /\ f[{}] = a
  /\ \A s \in SUBSET S : s # {} => f[s] = h[Max(s)][f[s \ {Max(s)}]]

LEMMA WalkExists ==
  ASSUME NEW S \in SUBSET Nat, IsFiniteSet(S), NEW A, NEW a \in A,
         NEW h \in [S -> [A -> A]]
  PROVE  \E f \in [SUBSET S -> A] : Walks(f, S, a, h)
<1> DEFINE c == [s \in SUBSET S |-> Max(s)]
           k == [s \in SUBSET S |-> [g \in A |-> IF s = {} THEN g ELSE h[Max(s)][g]]]
<1>1. \A s \in SUBSET S : s # {} => Max(s) \in s /\ Max(s) \in S
  BY HighestIs
<1>2. Chooses(c, S)
  BY <1>1 DEF Chooses
<1>3. k \in [SUBSET S -> [A -> A]]
  <2>1. ASSUME NEW s \in SUBSET S, NEW g \in A
        PROVE  (IF s = {} THEN g ELSE h[Max(s)][g]) \in A
    <3>1. s # {} => Max(s) \in S
      BY <1>1
    <3> QED BY <3>1
  <2> QED BY <2>1
<1>4. /\ \A s \in SUBSET S : c[s] = Max(s)
      /\ \A s \in SUBSET S : \A g \in A : s # {} => k[s][g] = h[Max(s)][g]
  OBVIOUS
<1> HIDE DEF c, k
<1>5. PICK f \in [SUBSET S -> A] : IsFold(f, S, a, c, k)
  BY <1>2, <1>3, FoldExists
<1>6. f[{}] = a
  BY <1>5 DEF IsFold
<1>7. ASSUME NEW s \in SUBSET S, s # {}
      PROVE  f[s] = h[Max(s)][f[s \ {Max(s)}]]
  <2>1. f[s] = k[s][f[s \ {Max(s)}]]
    BY <1>4, <1>5, <1>7 DEF IsFold
  <2>2. f[s \ {Max(s)}] \in A
    OBVIOUS
  <2> QED BY <1>4, <1>7, <2>1, <2>2
<1> QED BY <1>6, <1>7 DEF Walks

(* The rows up to one, and those before it.                                *)
UpTo(S, x) == {y \in S : y <= x}
Before(S, x) == {y \in S : y < x}

(* What holds before the first row and, if it holds before a row, behind   *)
(* it, holds behind the last one.                                          *)
LEMMA WalkInduction ==
  ASSUME NEW S \in SUBSET Nat, IsFiniteSet(S), NEW A, NEW a,
         NEW h, NEW f, NEW G \in [SUBSET S -> SUBSET A],
         f[{}] = a, a \in G[{}],
         \A s \in SUBSET S : s # {} /\ f[s \ {Max(s)}] \in A =>
           f[s] = h[Max(s)][f[s \ {Max(s)}]],
         \A x \in S : \A g \in G[Before(S, x)] : h[x][g] \in G[UpTo(S, x)]
  PROVE  f[S] \in G[S]
<1> DEFINE Initial(s) == \A x \in s, y \in S : y <= x => y \in s
           Bad == {s \in SUBSET S : Initial(s) /\ f[s] \notin G[s]}
<1>1. SUFFICES ASSUME Bad # {} PROVE FALSE
  OBVIOUS
<1>2. IsWellFoundedOn(StrictSubsetOrdering(S), FiniteSubsetsOf(S))
  BY FS_StrictSubsetOrderingWellFounded
<1>3. Bad \subseteq FiniteSubsetsOf(S)
  BY FS_FiniteSubsetsOfFinite
<1>4. PICK s \in Bad : \A t \in Bad : <<t, s>> \notin StrictSubsetOrdering(S)
  <2> HIDE DEF Bad
  <2> QED BY <1>1, <1>2, <1>3, WFMin
<1>5. s \in SUBSET S /\ Initial(s) /\ f[s] \notin G[s] /\ s # {}
  BY <1>4
<1> DEFINE x == Max(s)
<1>6. x \in s /\ \A y \in s : y <= x
  BY <1>5, HighestIs
<1> HIDE DEF x
<1>7. s = UpTo(S, x)
  <2>1. \A y \in S : y <= x => y \in s
    BY <1>5, <1>6
  <2>2. \A y \in s : y \in S
    BY <1>5
  <2> QED BY <1>6, <2>1, <2>2 DEF UpTo
<1>8. s \ {x} = Before(S, x)
  <2>1. x \in Nat /\ \A y \in S : y \in Nat
    BY <1>5, <1>6
  <2>2. \A y \in S : y < x <=> y <= x /\ y # x
    BY <2>1
  <2> QED BY <1>7, <2>2 DEF UpTo, Before
<1>9. Initial(s \ {x})
  <2> SUFFICES ASSUME NEW z \in s \ {x}, NEW y \in S, y <= z
               PROVE  y \in s \ {x}
    OBVIOUS
  <2>1. y \in s
    BY <1>5
  <2>2. z <= x /\ z # x /\ z \in Nat /\ x \in Nat /\ y \in Nat
    BY <1>5, <1>6
  <2>3. y # x
    BY <2>2
  <2> QED BY <2>1, <2>3
<1>10. <<s \ {x}, s>> \in StrictSubsetOrdering(S)
  BY <1>5, <1>6 DEF StrictSubsetOrdering
<1>11. f[s \ {x}] \in G[s \ {x}] /\ s \ {x} \in SUBSET S
  <2>1. s \ {x} \in SUBSET S
    BY <1>5
  <2>2. s \ {x} \notin Bad
    BY <1>4, <1>10
  <2> QED BY <1>9, <2>1, <2>2
<1>12. f[s] = h[x][f[s \ {x}]]
  BY <1>5, <1>11 DEF x
<1>13. h[x][f[s \ {x}]] \in G[UpTo(S, x)]
  BY <1>5, <1>6, <1>8, <1>11
<1> QED BY <1>5, <1>7, <1>12, <1>13

LEMMA IndexIsFinite == IsFiniteSet(Index) /\ Index \in SUBSET Nat
<1>1. MaxSize - 1 \in Nat
  BY ChunkAssumption
<1>2. (MaxSize - 1) \div ChunkSize \in Nat
  BY <1>1, Division
<1>3. IsFiniteSet(0..((MaxSize - 1) \div ChunkSize))
  BY <1>2, FS_Interval
<1> QED BY <1>3, Chunks DEF Index

LEMMA RowsAre ==
  ASSUME ChunkInv, NEW from \in Nat, NEW to \in Nat
  PROVE  /\ Rows(from, to) \in SUBSET Nat /\ IsFiniteSet(Rows(from, to))
         /\ \A i \in Rows(from, to) :
              /\ i \in Index /\ i \in Nat /\ from <= i /\ i <= to
              /\ chunk[i] # <<>> /\ chunk[i] \in Seq(Stores)
              /\ i \in InFile /\ i * ChunkSize \in Nat /\ i * ChunkSize < size
<1>1. Rows(from, to) \subseteq Index
  BY DEF Rows
<1>2. Rows(from, to) \in SUBSET Nat /\ IsFiniteSet(Rows(from, to))
  BY <1>1, IndexIsFinite, FS_Subset
<1>3. ASSUME NEW i \in Rows(from, to)
      PROVE  /\ i \in Index /\ i \in Nat /\ from <= i /\ i <= to
             /\ chunk[i] # <<>> /\ chunk[i] \in Seq(Stores)
             /\ i \in InFile /\ i * ChunkSize \in Nat /\ i * ChunkSize < size
  <2>1. i \in Index /\ i \in Nat /\ from <= i /\ i <= to /\ chunk[i] # <<>>
    BY <1>1, <1>2 DEF Rows
  <2>2. RowOK(i, chunk[i], size) /\ size \in Nat /\ i * ChunkSize \in Nat
    BY <2>1, Starts, ChunkAssumption DEF ChunkInv
  <2>3. Len(chunk[i]) \in Nat /\ Len(chunk[i]) # 0
    BY <2>1, <2>2, EmptySeq, LenProperties DEF RowOK
  <2>4. i * ChunkSize < size
    BY <2>1, <2>2, <2>3 DEF RowOK
  <2> QED BY <2>1, <2>2, <2>4 DEF InFile, RowOK
<1> QED BY <1>2, <1>3

LEMMA HighestUpTo ==
  ASSUME NEW S \in SUBSET Nat, IsFiniteSet(S), NEW x \in S
  PROVE  x \in UpTo(S, x) /\ Max(UpTo(S, x)) = x
<1> DEFINE U == UpTo(S, x)
<1>1. x \in Nat /\ x \in U /\ U \in SUBSET S
  BY DEF UpTo
<1>2. Max(U) \in U /\ \A y \in U : y <= Max(U)
  BY <1>1, HighestIs
<1>3. Max(U) <= x /\ x <= Max(U) /\ Max(U) \in Nat
  BY <1>1, <1>2 DEF UpTo
<1> QED BY <1>1, <1>3

(* What a row that is whole holds.                                         *)
LEMMA WholeRow ==
  ASSUME ChunkInv, NEW i \in InFile, Whole(i)
  PROVE  /\ i \in Index /\ i \in Nat /\ i * ChunkSize \in Nat /\ size \in Nat
         /\ chunk[i] \in Seq(Stores) /\ Len(chunk[i]) \in Nat \ {0}
         /\ Len(chunk[i]) <= ChunkSize
         /\ i * ChunkSize + Len(chunk[i]) <= size
         /\ i * ChunkSize + Len(chunk[i]) = size \/ Len(chunk[i]) = ChunkSize
         /\ \A j \in 1..Len(chunk[i]) : chunk[i][j] = Stored[i * ChunkSize + j]
<1>1. /\ i \in Index /\ i \in Nat /\ i * ChunkSize \in Nat /\ size \in Nat
      /\ i * ChunkSize < size /\ RowOK(i, chunk[i], size)
  BY Chunks, Starts, ChunkAssumption DEF ChunkInv, InFile
<1>2. /\ chunk[i] \in Seq(Stores) /\ Len(chunk[i]) \in Nat
      /\ Len(chunk[i]) = Flat!Smaller(ChunkSize, size - i * ChunkSize)
  BY <1>1, LenProperties DEF RowOK, Whole
<1>3. /\ Len(chunk[i]) # 0 /\ Len(chunk[i]) <= ChunkSize
      /\ i * ChunkSize + Len(chunk[i]) <= size
      /\ i * ChunkSize + Len(chunk[i]) = size \/ Len(chunk[i]) = ChunkSize
  BY <1>1, <1>2, ChunkAssumption DEF Flat!Smaller
<1>4. ASSUME NEW j \in 1..Len(chunk[i])
      PROVE  chunk[i][j] = Stored[i * ChunkSize + j]
  <2>1. j \in 1..ChunkSize /\ i * ChunkSize + j <= size /\ j <= Len(chunk[i])
    BY <1>1, <1>2, <1>3, ChunkAssumption
  <2>2. Slot(chunk[i], j) = Stored[i * ChunkSize + j]
    BY <1>1, <2>1, SlotOf
  <2> QED BY <2>1, <2>2 DEF Slot
<1> QED BY <1>1, <1>2, <1>3, <1>4

(* A chunk without a row reads as zeros.                                   *)
LEMMA NoRowIsZeros ==
  ASSUME ChunkInv, NEW k \in 1..size
  PROVE  \E i \in Index, j \in 1..ChunkSize :
           /\ k = i * ChunkSize + j /\ i \in Nat /\ i * ChunkSize \in Nat
           /\ chunk[i] = <<>> => Stored[k] = 0
<1>1. PICK i \in Index, j \in 1..ChunkSize :
        k = i * ChunkSize + j /\ StoredOf(size, chunk)[k] = Slot(chunk[i], j)
  BY StoredAt DEF ChunkInv
<1>2. i \in Nat /\ i * ChunkSize \in Nat
  BY Chunks, Starts
<1>3. ASSUME chunk[i] = <<>> PROVE Stored[k] = 0
  <2>1. Len(chunk[i]) = 0
    BY <1>3
  <2>2. ~(j <= Len(chunk[i]))
    BY <2>1
  <2> QED BY <1>1, <2>2, StoredIs DEF Slot
<1> QED BY <1>1, <1>2, <1>3

LEMMA Joined ==
  ASSUME NEW u \in Seq(Stores), NEW v \in Seq(Stores)
  PROVE  /\ u \o v \in Seq(Stores)
         /\ Len(u \o v) = Len(u) + Len(v)
         /\ \A k \in 1..(Len(u) + Len(v)) : (u \o v)[k] =
              IF k <= Len(u) THEN u[k] ELSE v[k - Len(u)]
BY ConcatProperties

(* read_all_content: the bytes of the rows up to one.                      *)
AllStep == [i \in Rows(0, MaxSize) |-> [v \in Seq(Stores) |-> v \o chunk[i]]]
Prefix(s) ==
  {v \in Seq(Stores) :
     /\ s = {} => v = <<>>
     /\ s # {} => Len(v) = Flat!Smaller((Max(s) + 1) * ChunkSize, size)
     /\ \A k \in 1..Len(v) : v[k] = Stored[k]}

LEMMA AllStepKeeps ==
  ASSUME ChunkInv, \A i \in InFile : Whole(i),
         NEW x \in Rows(0, MaxSize), NEW g \in Prefix(Before(Rows(0, MaxSize), x))
  PROVE  g \o chunk[x] \in Prefix(UpTo(Rows(0, MaxSize), x))
<1> DEFINE R == Rows(0, MaxSize)
           B == Before(R, x)
           U == UpTo(R, x)
<1>0. MaxSize \in Nat /\ 0 \in Nat
  BY ChunkAssumption
<1>1. /\ R \in SUBSET Nat /\ IsFiniteSet(R)
      /\ x \in InFile /\ x \in Nat /\ x * ChunkSize < size
  BY <1>0, RowsAre
<1>2. /\ x \in Index /\ x * ChunkSize \in Nat /\ size \in Nat
      /\ chunk[x] \in Seq(Stores) /\ Len(chunk[x]) \in Nat \ {0}
      /\ Len(chunk[x]) <= ChunkSize
      /\ x * ChunkSize + Len(chunk[x]) <= size
      /\ x * ChunkSize + Len(chunk[x]) = size \/ Len(chunk[x]) = ChunkSize
      /\ \A j \in 1..Len(chunk[x]) : chunk[x][j] = Stored[x * ChunkSize + j]
  BY <1>1, WholeRow
<1>3. /\ g \in Seq(Stores) /\ Len(g) \in Nat
      /\ B = {} => g = <<>>
      /\ B # {} => Len(g) = Flat!Smaller((Max(B) + 1) * ChunkSize, size)
      /\ \A k \in 1..Len(g) : g[k] = Stored[k]
  BY LenProperties DEF Prefix
<1>4. x # 0 => x - 1 \in B
  <2> SUFFICES ASSUME x # 0 PROVE x - 1 \in B
    OBVIOUS
  <2>1. x - 1 \in Nat /\ x - 1 < x /\ x - 1 \in Index
    <3> DEFINE m == (MaxSize - 1) \div ChunkSize
    <3>1. m \in Nat
      <4>1. MaxSize - 1 \in Nat
        BY ChunkAssumption
      <4> QED BY <4>1, Division
    <3>2. Index = 0..m
      BY DEF Index
    <3> HIDE DEF m
    <3> QED BY <1>1, <1>2, <3>1, <3>2
  <2>2. (x - 1) * ChunkSize \in Nat /\ (x - 1) * ChunkSize + ChunkSize <= x * ChunkSize
    BY <1>1, <2>1, Starts, InOrder
  <2>3. x - 1 \in InFile
    BY <1>1, <1>2, <2>1, <2>2, ChunkAssumption DEF InFile
  <2>4. Len(chunk[x - 1]) # 0
    BY <2>3, WholeRow
  <2>5. chunk[x - 1] # <<>>
    BY <2>4
  <2>6. x - 1 <= MaxSize
    <3>1. x <= MaxSize
      BY <1>0, RowsAre
    <3> QED BY <1>0, <1>1, <3>1
  <2>7. x - 1 \in R
    BY <2>1, <2>5, <2>6 DEF Rows
  <2> QED BY <2>1, <2>7 DEF Before
<1>5. Len(g) = x * ChunkSize
  <2>1. CASE x = 0
    <3>1. B = {}
      BY <1>1, <2>1 DEF Before
    <3>2. x * ChunkSize = 0
      BY <2>1, ChunkAssumption
    <3>3. Len(g) = 0
      BY <1>3, <3>1
    <3> QED BY <3>2, <3>3
  <2>2. CASE x # 0
    <3>1. B \in SUBSET R /\ B # {}
      BY <1>4, <2>2 DEF Before
    <3>2. Max(B) \in B /\ \A y \in B : y <= Max(B)
      BY <1>1, <3>1, HighestIs
    <3>3. Max(B) \in Nat /\ Max(B) < x /\ x - 1 <= Max(B)
      BY <1>1, <1>4, <2>2, <3>1, <3>2 DEF Before
    <3>4. Max(B) + 1 = x
      BY <1>1, <3>3
    <3>5. Len(g) = Flat!Smaller(x * ChunkSize, size)
      BY <1>3, <3>1, <3>4
    <3> QED BY <1>1, <1>2, <3>5 DEF Flat!Smaller
  <2> QED BY <2>1, <2>2
<1> DEFINE p == x * ChunkSize
           c == chunk[x]
<1>6. /\ g \o c \in Seq(Stores)
      /\ Len(g \o c) = p + Len(c)
      /\ \A k \in 1..(p + Len(c)) : (g \o c)[k] = Stored[k]
  <2>1. /\ p \in Nat /\ Len(g) = p /\ Len(c) \in Nat /\ c \in Seq(Stores)
        /\ \A j \in 1..Len(c) : c[j] = Stored[p + j]
    BY <1>2, <1>5
  <2> HIDE DEF p, c
  <2>2. /\ g \o c \in Seq(Stores)
        /\ Len(g \o c) = Len(g) + Len(c)
        /\ \A k \in 1..(Len(g) + Len(c)) : (g \o c)[k] =
             IF k <= Len(g) THEN g[k] ELSE c[k - Len(g)]
    <3>1. g \in Seq(Stores) /\ c \in Seq(Stores)
      BY <1>3, <2>1
    <3> QED BY <3>1, Joined
  <2>3. ASSUME NEW k \in 1..(p + Len(c))
        PROVE  (g \o c)[k] = Stored[k]
    <3>1. (g \o c)[k] = IF k <= p THEN g[k] ELSE c[k - p]
      BY <2>1, <2>2
    <3>2. CASE k <= p
      BY <1>3, <2>1, <3>1, <3>2
    <3>3. CASE ~(k <= p)
      <4> DEFINE j == k - p
      <4>1. j \in 1..Len(c) /\ p + j = k
        BY <2>1, <3>3
      <4>2. c[j] = Stored[p + j]
        BY <2>1, <4>1
      <4> QED BY <3>1, <3>3, <4>1, <4>2
    <3> QED BY <3>2, <3>3
  <2> QED BY <2>1, <2>2, <2>3
<1>7. x \in U /\ Max(U) = x
  BY <1>1, HighestUpTo
<1>8. p + Len(c) = Flat!Smaller((x + 1) * ChunkSize, size)
  <2>1. (x + 1) * ChunkSize = p + ChunkSize
    BY <1>1, Starts
  <2>2. /\ p \in Nat /\ size \in Nat /\ Len(c) \in Nat /\ Len(c) <= ChunkSize
        /\ p + Len(c) <= size
        /\ p + Len(c) = size \/ Len(c) = ChunkSize
    BY <1>2
  <2> HIDE DEF p, c
  <2> QED BY <2>1, <2>2, ChunkAssumption DEF Flat!Smaller
<1> HIDE DEF p
<1> QED BY <1>6, <1>7, <1>8 DEF Prefix

LEMMA AllWalk ==
  ASSUME ChunkInv, \A i \in InFile : Whole(i)
  PROVE  \E all \in Prefix(Rows(0, MaxSize)) :
           AllContent = SubSeq(all, 1, Flat!Smaller(size, Len(all)))
<1> DEFINE R == Rows(0, MaxSize)
           A == Seq(Stores)
           h == AllStep
           G == [s \in SUBSET R |-> Prefix(s)]
           Iter(f) == f = [s \in SUBSET R |->
                             IF s = {} THEN <<>>
                             ELSE f[s \ {Max(s)}] \o chunk[Max(s)]]
<1>1. MaxSize \in Nat /\ 0 \in Nat
  BY ChunkAssumption
<1>2. R \in SUBSET Nat /\ IsFiniteSet(R) /\ \A i \in R : chunk[i] \in A
  BY <1>1, RowsAre
<1>3. /\ h \in [R -> [A -> A]] /\ <<>> \in A
      /\ \A i \in R : \A v \in A : h[i][v] = v \o chunk[i]
  <2>1. \A i \in R : \A v \in A : v \o chunk[i] \in A
    BY <1>2, ConcatProperties
  <2> QED BY <2>1 DEF AllStep
<1>4. G \in [SUBSET R -> SUBSET A] /\ \A s \in SUBSET R : G[s] = Prefix(s)
  BY DEF Prefix
<1> HIDE DEF R, A, h, G
<1>5. \E f : Iter(f)
  <2>1. PICK f \in [SUBSET R -> A] : Walks(f, R, <<>>, h)
    BY <1>2, <1>3, WalkExists
  <2>2. ASSUME NEW s \in SUBSET R, s # {}
        PROVE  f[s] = f[s \ {Max(s)}] \o chunk[Max(s)]
    <3>1. f[s] = h[Max(s)][f[s \ {Max(s)}]]
      BY <2>1, <2>2 DEF Walks
    <3>2. Max(s) \in R /\ f[s \ {Max(s)}] \in A
      BY <1>2, <2>2, HighestIs
    <3> QED BY <1>3, <3>1, <3>2
  <2>3. f[{}] = <<>>
    BY <2>1 DEF Walks
  <2>4. Iter(f)
    BY <2>2, <2>3
  <2> HIDE DEF Iter
  <2> QED BY <2>4
<1> DEFINE f == CHOOSE g : Iter(g)
<1>6. Iter(f)
  <2> HIDE DEF Iter
  <2> QED BY <1>5
<1>7. AllContent = SubSeq(f[R], 1, Flat!Smaller(size, Len(f[R])))
  BY DEF AllContent, MapThenFoldSet, R
<1>8. f[{}] = <<>>
  <2> HIDE DEF f
  <2> QED BY <1>6
<1>9. ASSUME NEW s \in SUBSET R, s # {}, f[s \ {Max(s)}] \in A
      PROVE  f[s] = h[Max(s)][f[s \ {Max(s)}]]
  <2>1. f[s] = f[s \ {Max(s)}] \o chunk[Max(s)]
    <3> HIDE DEF f
    <3> QED BY <1>6, <1>9
  <2>2. Max(s) \in R
    BY <1>2, <1>9, HighestIs
  <2> HIDE DEF f
  <2> QED BY <1>3, <1>9, <2>1, <2>2
<1> HIDE DEF f
<1> DEFINE a == <<>>
<1>10. a \in G[{}]
  <2>1. <<>> \in Prefix({})
    BY DEF Prefix
  <2> QED BY <1>4, <2>1
<1>11. \A x \in R : \A g \in G[Before(R, x)] : h[x][g] \in G[UpTo(R, x)]
  <2> SUFFICES ASSUME NEW x \in R, NEW g \in G[Before(R, x)]
               PROVE  h[x][g] \in G[UpTo(R, x)]
    OBVIOUS
  <2>1. Before(R, x) \in SUBSET R /\ UpTo(R, x) \in SUBSET R
    BY DEF Before, UpTo
  <2>2. g \in Prefix(Before(R, x)) /\ g \in A
    BY <1>4, <2>1
  <2>3. g \o chunk[x] \in Prefix(UpTo(R, x))
    BY <2>2, AllStepKeeps DEF R
  <2> QED BY <1>3, <1>4, <2>1, <2>2, <2>3
<1>12. f[R] \in G[R]
  <2>1. f[{}] = a
    BY <1>8
  <2>2. \A s \in SUBSET R : s # {} /\ f[s \ {Max(s)}] \in A =>
          f[s] = h[Max(s)][f[s \ {Max(s)}]]
    BY <1>9
  <2>3. R \in SUBSET Nat /\ IsFiniteSet(R) /\ G \in [SUBSET R -> SUBSET A]
    BY <1>2, <1>4
  <2> HIDE DEF a
  <2> QED BY <1>10, <1>11, <2>1, <2>2, <2>3, WalkInduction
<1>13. f[R] \in Prefix(R)
  BY <1>4, <1>12
<1> QED BY <1>7, <1>13 DEF R

LEMMA AllIsStored ==
  ASSUME ChunkInv, \A i \in InFile : Whole(i)
  PROVE  AllContent = Stored
<1> DEFINE R == Rows(0, MaxSize)
<1>0. MaxSize \in Nat /\ 0 \in Nat /\ size \in 0..MaxSize /\ size \in Nat
  BY ChunkAssumption DEF ChunkInv
<1>1. PICK all \in Prefix(R) :
        AllContent = SubSeq(all, 1, Flat!Smaller(size, Len(all)))
  BY AllWalk
<1>2. R \in SUBSET Nat /\ IsFiniteSet(R)
  BY <1>0, RowsAre
<1>3. Len(all) = size
  <2>1. CASE size = 0
    <3>1. R = {}
      BY <1>0, <2>1, RowsAre
    <3> QED BY <2>1, <3>1 DEF Prefix
  <2>2. CASE size # 0
    <3>1. size \in 1..size /\ size \in 1..MaxSize
      BY <1>0, <2>2
    <3>2. PICK i \in Index, j \in 1..ChunkSize : size = i * ChunkSize + j
      BY <3>1, Place
    <3>3. i \in Nat /\ i * ChunkSize \in Nat
      BY Chunks, Starts
    <3>4. i \in InFile
      BY <1>0, <3>2, <3>3, ChunkAssumption DEF InFile
    <3>5. Len(chunk[i]) # 0
      BY <3>4, WholeRow
    <3>6. i <= MaxSize
      <4>1. i <= i * ChunkSize
        BY <3>3, ChunkAssumption
      <4> QED BY <1>0, <3>2, <3>3, <4>1, ChunkAssumption
    <3>7. i \in R
      BY <3>3, <3>5, <3>6 DEF Rows
    <3>8. Max(R) \in R /\ Max(R) \in Nat /\ i <= Max(R)
      BY <1>2, <3>7, HighestIs
    <3>9. (Max(R) + 1) * ChunkSize >= size
      <4>1. i < Max(R) + 1 /\ Max(R) + 1 \in Nat /\ (Max(R) + 1) * ChunkSize \in Nat
        BY <3>3, <3>8, Starts
      <4>2. i * ChunkSize + ChunkSize <= (Max(R) + 1) * ChunkSize
        BY <3>3, <4>1, InOrder
      <4> QED BY <1>0, <3>2, <3>3, <4>1, <4>2, ChunkAssumption
    <3>10. Len(all) = Flat!Smaller((Max(R) + 1) * ChunkSize, size)
      BY <3>7 DEF Prefix
    <3>11. (Max(R) + 1) * ChunkSize \in Nat
      BY <3>8, Starts
    <3> QED BY <1>0, <3>9, <3>10, <3>11 DEF Flat!Smaller
  <2> QED BY <2>1, <2>2
<1>4. all \in Seq(Stores) /\ \A k \in 1..size : all[k] = Stored[k]
  BY <1>3 DEF Prefix
<1>5. AllContent = SubSeq(all, 1, size)
  BY <1>0, <1>1, <1>3 DEF Flat!Smaller
<1>6. SubSeq(all, 1, size) = all
  BY <1>3, <1>4, SubSeqFull
<1>7. all = [k \in 1..size |-> all[k]]
  BY <1>3, <1>4, LenProperties
<1>8. Stored = [k \in 1..size |-> Stored[k]]
  BY StoredIsFile
<1> QED BY <1>4, <1>5, <1>6, <1>7, <1>8

(* What the push worker sends is the file, byte for byte, if each of its   *)
(* chunks is whole.                                                        *)
THEOREM PushedIsStored == Spec => []PushesWhatIsStored
<1>1. ChunkInv => PushesWhatIsStored
  <2> SUFFICES ASSUME ChunkInv PROVE PushesWhatIsStored
    OBVIOUS
  <2>1. ChunkTypeOK
    BY LenProperties, ElementOfSeq DEF ChunkInv, RowOK, ChunkTypeOK, Stores
  <2>2. (\A i \in InFile : Whole(i)) => AllContent = Stored
    BY AllIsStored
  <2> QED BY <2>1, <2>2 DEF PushesWhatIsStored
<1> QED BY <1>1, ChunkInvInit, ChunkStep, PTL DEF Spec
-----------------------------------------------------------------------------
(***************************************************************************)
(* read: want bytes from off on, all of them in the file.                  *)
(***************************************************************************)
InWindow(off, want) ==
  /\ ChunkInv /\ off \in Nat /\ want \in Nat \ {0}
  /\ off + want <= size

StartChunk(off) == off \div ChunkSize
EndChunk(off, want) == (off + want - 1) \div ChunkSize
Walked(off, want) == Rows(StartChunk(off), EndChunk(off, want))

LEMMA Window ==
  ASSUME NEW off, NEW want, InWindow(off, want)
  PROVE  /\ off \in Nat /\ want \in Nat \ {0} /\ size \in Nat /\ ChunkSize \in Nat \ {0}
         /\ off + want <= size /\ size <= MaxSize
         /\ StartChunk(off) \in Nat /\ StartChunk(off) * ChunkSize \in Nat
         /\ StartChunk(off) * ChunkSize <= off
         /\ off < StartChunk(off) * ChunkSize + ChunkSize
         /\ off % ChunkSize = off - StartChunk(off) * ChunkSize
         /\ EndChunk(off, want) \in Nat /\ EndChunk(off, want) * ChunkSize \in Nat
         /\ EndChunk(off, want) * ChunkSize < off + want
         /\ off + want <= EndChunk(off, want) * ChunkSize + ChunkSize
<1> DEFINE e == off + want - 1
<1>1. off \in Nat /\ want \in Nat \ {0} /\ size \in Nat /\ ChunkSize \in Nat \ {0}
      /\ e \in Nat /\ off + want <= size /\ size <= MaxSize
  BY ChunkAssumption DEF InWindow, ChunkInv
<1>2. /\ StartChunk(off) \in Nat /\ StartChunk(off) * ChunkSize \in Nat
      /\ StartChunk(off) * ChunkSize <= off
      /\ off < StartChunk(off) * ChunkSize + ChunkSize
  BY <1>1, InChunk DEF StartChunk
<1>3. off % ChunkSize = off - StartChunk(off) * ChunkSize
  BY <1>1, <1>2, Quotient
<1>4. /\ EndChunk(off, want) \in Nat /\ EndChunk(off, want) * ChunkSize \in Nat
      /\ EndChunk(off, want) * ChunkSize <= e /\ e < EndChunk(off, want) * ChunkSize + ChunkSize
  BY <1>1, InChunk DEF EndChunk
<1>5. /\ EndChunk(off, want) * ChunkSize < off + want
      /\ off + want <= EndChunk(off, want) * ChunkSize + ChunkSize
  <2> DEFINE l == EndChunk(off, want) * ChunkSize
  <2> HIDE DEF l
  <2>1. l <= e /\ e < l + ChunkSize /\ l \in Nat
    BY <1>4 DEF l
  <2>2. l < off + want /\ off + want <= l + ChunkSize
    BY <1>1, <2>1
  <2> QED BY <2>2 DEF l
<1> QED BY <1>1, <1>2, <1>3, <1>4, <1>5

(* Each byte lies in one chunk of those that are walked, and is zero if    *)
(* that has no row.                                                        *)
LEMMA ByteOf ==
  ASSUME NEW off, NEW want, InWindow(off, want), NEW k \in 1..want
  PROVE  \E i \in Nat, j \in 1..ChunkSize :
           /\ i * ChunkSize \in Nat /\ off + k = i * ChunkSize + j
           /\ i \notin Walked(off, want) => Stored[off + k] = 0
<1> DEFINE a == StartChunk(off)
           b == EndChunk(off, want)
<1>1. /\ off \in Nat /\ want \in Nat \ {0} /\ size \in Nat /\ ChunkSize \in Nat \ {0}
      /\ off + want <= size
      /\ a \in Nat /\ a * ChunkSize \in Nat /\ a * ChunkSize <= off
      /\ b \in Nat /\ b * ChunkSize \in Nat /\ off + want <= b * ChunkSize + ChunkSize
  BY Window
<1>2. off + k \in 1..size
  BY <1>1
<1>3. PICK i \in Index, j \in 1..ChunkSize :
        /\ off + k = i * ChunkSize + j /\ i \in Nat /\ i * ChunkSize \in Nat
        /\ chunk[i] = <<>> => Stored[off + k] = 0
  BY <1>2, NoRowIsZeros DEF InWindow
<1> HIDE DEF a, b
<1>4. a <= i
  <2>1. i < a => i * ChunkSize + ChunkSize <= a * ChunkSize
    BY <1>1, <1>3, InOrder
  <2> DEFINE p == i * ChunkSize
             q == a * ChunkSize
  <2>2. /\ p \in Nat /\ q \in Nat /\ off + k = p + j /\ q <= off
        /\ i < a => p + ChunkSize <= q
    BY <1>1, <1>3, <2>1
  <2> HIDE DEF p, q
  <2> QED BY <1>1, <1>3, <2>2
<1>5. i <= b
  <2>1. b < i => b * ChunkSize + ChunkSize <= i * ChunkSize
    BY <1>1, <1>3, InOrder
  <2> DEFINE p == i * ChunkSize
             q == b * ChunkSize
  <2>2. /\ p \in Nat /\ q \in Nat /\ off + k = p + j /\ off + want <= q + ChunkSize
        /\ b < i => q + ChunkSize <= p
        /\ off \in Nat /\ want \in Nat /\ ChunkSize \in Nat /\ b \in Nat /\ i \in Nat
    BY <1>1, <1>3, <2>1
  <2> HIDE DEF p, q
  <2> QED BY <2>2
<1>6. i \notin Walked(off, want) => Stored[off + k] = 0
  <2>1. a <= i /\ i <= b /\ chunk[i] # <<>> => i \in Walked(off, want)
    BY <1>3 DEF Walked, Rows, a, b
  <2> QED BY <1>3, <1>4, <1>5, <2>1
<1> QED BY <1>3, <1>6

LEMMA ZerosAre ==
  ASSUME NEW n \in Int
  PROVE  /\ Zeros(n) \in Seq(Stores)
         /\ Len(Zeros(n)) = IF n > 0 THEN n ELSE 0
         /\ \A k \in 1..n : Zeros(n)[k] = 0
<1>1. CASE n > 0
  <2>1. n \in Nat /\ Zeros(n) \in [1..n -> Stores] /\ \A k \in 1..n : Zeros(n)[k] = 0
    BY <1>1 DEF Zeros, Stores
  <2>2. Zeros(n) \in Seq(Stores)
    BY <2>1, SeqDef
  <2>3. Len(Zeros(n)) = n
    BY <2>1, <2>2, LenProperties
  <2> QED BY <1>1, <2>1, <2>2, <2>3
<1>2. CASE ~(n > 0)
  <2>1. 1..n = {} /\ 1..0 = {}
    BY <1>2
  <2>2. Zeros(n) \in [1..0 -> Stores]
    BY <2>1 DEF Zeros
  <2>3. Zeros(n) \in Seq(Stores)
    BY <2>2, SeqDef
  <2>4. Len(Zeros(n)) = 0
    BY <2>2, <2>3, LenProperties
  <2> QED BY <1>2, <2>1, <2>3, <2>4
<1> QED BY <1>1, <1>2

(* What has been read behind the last of some rows.                        *)
Acc == [out : Seq(Stores), next : Nat]

Answer(s, off, want) ==
  {a \in Acc :
     /\ s = {} => a.out = <<>> /\ a.next = StartChunk(off)
     /\ s # {} => /\ a.next = Max(s) + 1
                  /\ Len(a.out) = Flat!Smaller(want, a.next * ChunkSize - off)
     /\ \A k \in 1..Len(a.out) : a.out[k] = Stored[off + k]}

Gap(n, x, off) ==
  (x - n) * ChunkSize - (IF n = StartChunk(off) /\ n < x THEN off % ChunkSize ELSE 0)
Skip(x, off) == IF x = StartChunk(off) THEN off % ChunkSize ELSE 0
Taken(x, off) == SubSeq(chunk[x], Skip(x, off) + 1, Len(chunk[x]))
All(a, x, off) == a.out \o Zeros(Gap(a.next, x, off)) \o Taken(x, off)

LEMMA StepIs ==
  ASSUME NEW a, NEW x, NEW off, NEW want
  PROVE  ReadStep(a, x, off, want) =
           [out |-> SubSeq(All(a, x, off), 1, Flat!Smaller(want, Len(All(a, x, off)))),
            next |-> x + 1]
BY DEF ReadStep, All, Gap, Skip, Taken, StartChunk

(* The row's bytes follow the gap and the gap what was read.               *)
LEMMA Places ==
  ASSUME NEW off, NEW want, InWindow(off, want), NEW x \in Walked(off, want),
         NEW g \in Answer(Before(Walked(off, want), x), off, want)
  PROVE  LET L == Len(g.out)
             gap == Gap(g.next, x, off)
             skip == Skip(x, off)
             p == x * ChunkSize
             B == Before(Walked(off, want), x)
         IN /\ L \in Nat /\ gap \in Nat /\ skip \in Nat /\ p \in Nat /\ x \in Nat
            /\ p < off + want /\ off < p + ChunkSize
            /\ L + gap - skip = p - off
            /\ skip > 0 => p <= off /\ L = 0 /\ gap = 0
            /\ skip = 0 => off <= p
            /\ \A k \in 1..want, i \in B, j \in 1..ChunkSize :
                 off + k = i * ChunkSize + j => k <= L
<1> DEFINE R == Walked(off, want)
           B == Before(R, x)
           n == g.next
           L == Len(g.out)
           p == x * ChunkSize
           a == StartChunk(off)
           b == EndChunk(off, want)
<1>1. /\ off \in Nat /\ want \in Nat \ {0} /\ ChunkSize \in Nat \ {0}
      /\ a \in Nat /\ a * ChunkSize \in Nat
      /\ a * ChunkSize <= off /\ off < a * ChunkSize + ChunkSize
      /\ off % ChunkSize = off - a * ChunkSize
      /\ b \in Nat /\ b * ChunkSize \in Nat /\ b * ChunkSize < off + want
  BY Window
<1>2. /\ R \in SUBSET Nat /\ IsFiniteSet(R)
      /\ \A y \in R : y \in Nat /\ a <= y /\ y <= b
  BY <1>1, RowsAre DEF InWindow, Walked
<1>3. /\ x \in Nat /\ a <= x /\ x <= b /\ p \in Nat
  BY <1>2, Starts
<1>4. a * ChunkSize <= p /\ p <= b * ChunkSize
  <2> HIDE DEF a, b, R
  <2>1. a = x \/ a * ChunkSize + ChunkSize <= p
    <3>1. a < x => a * ChunkSize + ChunkSize <= x * ChunkSize
      BY <1>1, <1>3, InOrder
    <3> QED BY <1>1, <1>3, <3>1
  <2>2. x = b \/ p + ChunkSize <= b * ChunkSize
    <3>1. x < b => x * ChunkSize + ChunkSize <= b * ChunkSize
      BY <1>1, <1>3, InOrder
    <3> QED BY <1>1, <1>3, <3>1
  <2>3. a = x => a * ChunkSize = p
    OBVIOUS
  <2>4. x = b => p = b * ChunkSize
    OBVIOUS
  <2> DEFINE u == a * ChunkSize
             v == b * ChunkSize
  <2>5. u \in Nat /\ v \in Nat /\ p \in Nat /\ ChunkSize \in Nat
    BY <1>1, <1>3
  <2> HIDE DEF p, u, v
  <2> QED BY <2>1, <2>2, <2>3, <2>4, <2>5 DEF u, v
<1>5. /\ g.out \in Seq(Stores) /\ n \in Nat /\ L \in Nat
      /\ B = {} => g.out = <<>> /\ n = a
      /\ B # {} => n = Max(B) + 1 /\ L = Flat!Smaller(want, n * ChunkSize - off)
  BY LenProperties DEF Answer, Acc
<1>6. B = {} => L = 0 /\ n = a
  BY <1>5
<1>7. ASSUME B # {}
      PROVE  /\ a < n /\ n <= x /\ n * ChunkSize \in Nat
             /\ n * ChunkSize <= p /\ off < n * ChunkSize
             /\ L = n * ChunkSize - off
             /\ \A i \in B : i \in Nat /\ i < n
  <2>1. B \in SUBSET R
    BY DEF Before
  <2>2. Max(B) \in B /\ \A y \in B : y <= Max(B)
    BY <1>2, <1>7, <2>1, HighestIs
  <2>3. Max(B) \in Nat /\ a <= Max(B) /\ Max(B) < x /\ n = Max(B) + 1
    BY <1>2, <1>5, <1>7, <2>1, <2>2 DEF Before
  <2>4. a < n /\ n <= x /\ n \in Nat /\ n * ChunkSize \in Nat
    <3>1. a < n /\ n <= x /\ n \in Nat
      <4> HIDE DEF a, n, p, L, B
      <4> QED BY <1>1, <1>3, <2>3
    <3> QED BY <3>1, Starts
  <2>5. n = x \/ n * ChunkSize + ChunkSize <= p
    BY <1>3, <2>4, InOrder
  <2>6. a * ChunkSize + ChunkSize <= n * ChunkSize
    BY <1>1, <2>4, InOrder
  <2>7. n = x => n * ChunkSize = p
    OBVIOUS
  <2>8. L = Flat!Smaller(want, n * ChunkSize - off)
    BY <1>5, <1>7
  <2>9. \A i \in B : i \in Nat /\ i < n
    BY <1>2, <2>1, <2>2, <2>3
  <2> DEFINE u == a * ChunkSize
             v == b * ChunkSize
             w == n * ChunkSize
  <2>10. /\ u \in Nat /\ v \in Nat /\ w \in Nat /\ p \in Nat
         /\ off \in Nat /\ want \in Nat /\ ChunkSize \in Nat
         /\ w = p \/ w + ChunkSize <= p
         /\ u + ChunkSize <= w /\ L = Flat!Smaller(want, w - off)
         /\ p <= v /\ v < off + want /\ off < u + ChunkSize
    BY <1>1, <1>3, <1>4, <2>4, <2>5, <2>6, <2>7, <2>8
  <2> HIDE DEF a, b, p, u, v, w, n, L
  <2>11. w <= p /\ off < w /\ w - off < want
    BY <2>10
  <2>12. L = w - off
    BY <2>10, <2>11 DEF Flat!Smaller
  <2> QED BY <2>4, <2>9, <2>10, <2>11, <2>12 DEF w
<1>8. x = a => B = {}
  <2> SUFFICES ASSUME x = a, NEW y \in B PROVE FALSE
    OBVIOUS
  <2>1. y \in R /\ y < x
    BY DEF Before
  <2> QED BY <1>1, <1>2, <2>1
<1> DEFINE gap == Gap(n, x, off)
           skip == Skip(x, off)
<1>9. p < off + want
  <2> DEFINE v == b * ChunkSize
  <2>1. p \in Nat /\ v \in Nat /\ p <= v /\ v < off + want /\ off \in Nat /\ want \in Nat
    BY <1>1, <1>3, <1>4
  <2> HIDE DEF p, v
  <2> QED BY <2>1
<1>10. off < p + ChunkSize
  <2> DEFINE u == a * ChunkSize
  <2>1. /\ p \in Nat /\ u \in Nat /\ u <= p /\ off < u + ChunkSize
        /\ off \in Nat /\ ChunkSize \in Nat
    BY <1>1, <1>3, <1>4
  <2> HIDE DEF p, u
  <2> QED BY <2>1
<1>11. /\ gap \in Nat /\ skip \in Nat /\ L + gap - skip = p - off
       /\ skip > 0 => p <= off /\ L = 0 /\ gap = 0
       /\ skip = 0 => off <= p
  <2>1. CASE x = a
    <3>1. L = 0 /\ n = a
      BY <1>6, <1>8, <2>1
    <3>2. gap = (x - x) * ChunkSize - 0 /\ skip = off % ChunkSize
      BY <1>3, <2>1, <3>1 DEF Gap, Skip
    <3>3. gap = 0 /\ skip = off - p /\ p <= off
      BY <1>1, <1>3, <2>1, <3>2
    <3> HIDE DEF gap, skip, p, L
    <3> QED BY <1>1, <1>3, <3>1, <3>3
  <2>2. CASE x # a
    <3>1. skip = 0
      BY <2>2 DEF Skip
    <3>2. a < x
      BY <1>1, <1>3, <2>2
    <3>3. a * ChunkSize + ChunkSize <= p
      BY <1>1, <1>3, <3>2, InOrder
    <3>4. off < p
      <4> DEFINE u == a * ChunkSize
      <4>1. /\ u \in Nat /\ p \in Nat /\ off \in Nat /\ ChunkSize \in Nat
            /\ u + ChunkSize <= p /\ off < u + ChunkSize
        BY <1>1, <1>3, <3>3
      <4> HIDE DEF u, p
      <4> QED BY <4>1
    <3>5. CASE B = {}
      <4>1. gap = (x - a) * ChunkSize - (off % ChunkSize) /\ L = 0
        BY <1>6, <3>2, <3>5 DEF Gap
      <4>2. (x - a) * ChunkSize = p - a * ChunkSize
        BY <1>1, <1>3
      <4>3. gap = p - off
        <5> DEFINE u == a * ChunkSize
                   r == off % ChunkSize
                   q == (x - a) * ChunkSize
        <5>1. gap = q - r /\ q = p - u /\ r = off - u /\ u \in Nat /\ p \in Nat /\ off \in Nat
          BY <1>1, <1>3, <4>1, <4>2
        <5> HIDE DEF u, r, q, p, gap
        <5> QED BY <5>1
      <4> HIDE DEF gap, skip, p, L
      <4> QED BY <1>1, <1>3, <3>1, <3>4, <4>1, <4>3
    <3>6. CASE B # {}
      <4>1. n # a /\ n \in Nat
        BY <1>1, <1>5, <1>7, <3>6
      <4>2. gap = (x - n) * ChunkSize
        BY <1>1, <1>3, <4>1 DEF Gap
      <4>3. (x - n) * ChunkSize = p - n * ChunkSize
        BY <1>1, <1>3, <4>1
      <4> DEFINE w == n * ChunkSize
      <4>4. /\ gap = p - w /\ L = w - off /\ w <= p /\ off < w
            /\ w \in Nat /\ p \in Nat /\ off \in Nat
        BY <1>1, <1>3, <1>7, <3>6, <4>2, <4>3
      <4> HIDE DEF gap, skip, p, L, w
      <4> QED BY <3>1, <3>4, <4>4
    <3> QED BY <3>5, <3>6
  <2> QED BY <2>1, <2>2
<1>12. ASSUME NEW k \in 1..want, NEW i \in B, NEW j \in 1..ChunkSize,
              off + k = i * ChunkSize + j
       PROVE  k <= L
  <2>1. /\ i \in Nat /\ i < n /\ n \in Nat /\ n * ChunkSize \in Nat
        /\ L = n * ChunkSize - off
    BY <1>5, <1>7
  <2>2. i * ChunkSize + ChunkSize <= n * ChunkSize /\ i * ChunkSize \in Nat
    BY <2>1, InOrder, Starts
  <2> DEFINE u == i * ChunkSize
             w == n * ChunkSize
  <2>3. /\ u \in Nat /\ w \in Nat /\ u + ChunkSize <= w /\ off + k = u + j
        /\ L = w - off /\ off \in Nat /\ want \in Nat /\ ChunkSize \in Nat
    BY <1>1, <1>12, <2>1, <2>2
  <2> HIDE DEF u, w, L
  <2> QED BY <2>3
<1> HIDE DEF gap, skip, p, L, B
<1>13. L \in Nat /\ p \in Nat /\ x \in Nat
  BY <1>3, <1>5
<1> QED BY <1>9, <1>10, <1>11, <1>12, <1>13 DEF gap, skip, p, L, B

LEMMA Pieces ==
  ASSUME NEW off, NEW want, InWindow(off, want), NEW x \in Walked(off, want),
         NEW a \in Acc
  PROVE  LET gap == Gap(a.next, x, off)
             skip == Skip(x, off)
             t == Taken(x, off)
             all == All(a, x, off)
         IN /\ a.out \in Seq(Stores) /\ gap \in Int /\ skip \in Nat
            /\ t \in Seq(Stores)
            /\ Len(t) = IF skip < Len(chunk[x]) THEN Len(chunk[x]) - skip ELSE 0
            /\ \A j \in 1..(Len(chunk[x]) - skip) : t[j] = chunk[x][skip + j]
            /\ all \in Seq(Stores)
            /\ Len(all) = Len(a.out) + (IF gap > 0 THEN gap ELSE 0) + Len(t)
            /\ all = (a.out \o Zeros(gap)) \o t
<1> DEFINE gap == Gap(a.next, x, off)
           skip == Skip(x, off)
           t == Taken(x, off)
           c == chunk[x]
           z == Zeros(gap)
<1>1. /\ off \in Nat /\ ChunkSize \in Nat \ {0} /\ off % ChunkSize \in Nat
      /\ StartChunk(off) \in Nat /\ EndChunk(off, want) \in Nat
  <2>1. /\ off \in Nat /\ ChunkSize \in Nat \ {0} /\ StartChunk(off) \in Nat
        /\ EndChunk(off, want) \in Nat
    BY Window
  <2>2. off % ChunkSize \in Nat
    BY <2>1, Division
  <2> QED BY <2>1, <2>2
<1>2. x \in Nat /\ c \in Seq(Stores) /\ Len(c) \in Nat
  BY <1>1, RowsAre, LenProperties DEF InWindow, Walked
<1>3. a.out \in Seq(Stores) /\ a.next \in Nat /\ Len(a.out) \in Nat
  BY LenProperties DEF Acc
<1>4. gap \in Int /\ skip \in Nat
  <2>1. (x - a.next) * ChunkSize \in Int
    BY <1>1, <1>2, <1>3
  <2>2. skip \in Nat
    BY <1>1 DEF Skip
  <2> QED BY <1>1, <2>1, <2>2 DEF Gap
<1>5. /\ t \in Seq(Stores)
      /\ Len(t) = IF skip < Len(c) THEN Len(c) - skip ELSE 0
      /\ \A j \in 1..(Len(c) - skip) : t[j] = c[skip + j]
  <2> HIDE DEF c
  <2>0. t = SubSeq(c, skip + 1, Len(c))
    BY DEF Taken, c
  <2> HIDE DEF skip, t
  <2>1. skip + 1 \in Nat \ {0} /\ Len(c) \in 0..Len(c)
    BY <1>2, <1>4
  <2>2. /\ SubSeq(c, skip + 1, Len(c)) \in Seq(Stores)
        /\ Len(SubSeq(c, skip + 1, Len(c))) =
             IF skip + 1 <= Len(c) THEN Len(c) - (skip + 1) + 1 ELSE 0
        /\ \A j \in 1..(Len(c) - (skip + 1) + 1) :
             SubSeq(c, skip + 1, Len(c))[j] = c[(skip + 1) + j - 1]
    BY <1>2, <2>1, PartIsRow
  <2>3. \A j \in 1..(Len(c) - skip) : t[j] = c[skip + j]
    <3> SUFFICES ASSUME NEW j \in 1..(Len(c) - skip) PROVE t[j] = c[skip + j]
      OBVIOUS
    <3>1. j \in 1..(Len(c) - (skip + 1) + 1) /\ (skip + 1) + j - 1 = skip + j
      BY <1>2, <1>4
    <3> QED BY <2>0, <2>2, <3>1
  <2> QED BY <1>2, <1>4, <2>0, <2>2, <2>3
<1>6. z \in Seq(Stores) /\ Len(z) = IF gap > 0 THEN gap ELSE 0
  <2> HIDE DEF gap
  <2> QED BY <1>4, ZerosAre
<1>7. a.out \o z \in Seq(Stores) /\ Len(a.out \o z) = Len(a.out) + Len(z)
  <2> HIDE DEF z
  <2> QED BY <1>3, <1>6, Joined
<1>8. /\ (a.out \o z) \o t \in Seq(Stores)
      /\ Len((a.out \o z) \o t) = Len(a.out) + Len(z) + Len(t)
  <2> HIDE DEF z, t
  <2> QED BY <1>5, <1>7, Joined
<1>9. All(a, x, off) = (a.out \o z) \o t
  BY DEF All
<1> QED BY <1>3, <1>4, <1>5, <1>6, <1>8, <1>9

LEMMA StepTyped ==
  ASSUME NEW off, NEW want, InWindow(off, want), NEW x \in Walked(off, want),
         NEW a \in Acc
  PROVE  LET all == All(a, x, off)
             r == ReadStep(a, x, off, want)
         IN /\ r \in Acc /\ r.next = x + 1
            /\ Len(all) \in Nat /\ Len(r.out) = Flat!Smaller(want, Len(all))
            /\ \A k \in 1..Flat!Smaller(want, Len(all)) : r.out[k] = all[k]
<1> DEFINE all == All(a, x, off)
           m == Flat!Smaller(want, Len(all))
           r == ReadStep(a, x, off, want)
<1>1. all \in Seq(Stores) /\ Len(all) \in Nat
  BY Pieces, LenProperties
<1>2. want \in Nat \ {0} /\ x \in Nat
  <2>1. want \in Nat \ {0} /\ StartChunk(off) \in Nat /\ EndChunk(off, want) \in Nat
    BY Window
  <2> QED BY <2>1, RowsAre DEF InWindow, Walked
<1>3. r = [out |-> SubSeq(all, 1, m), next |-> x + 1]
  BY StepIs
<1> HIDE DEF all, r
<1>4. m \in 0..Len(all)
  BY <1>1, <1>2 DEF Flat!Smaller
<1> HIDE DEF m
<1>5. /\ SubSeq(all, 1, m) \in Seq(Stores)
      /\ Len(SubSeq(all, 1, m)) = IF 1 <= m THEN m - 1 + 1 ELSE 0
      /\ \A j \in 1..(m - 1 + 1) : SubSeq(all, 1, m)[j] = all[1 + j - 1]
  BY <1>1, <1>4, PartIsRow
<1>6. m \in Nat /\ m - 1 + 1 = m /\ \A j \in 1..m : 1 + j - 1 = j
  BY <1>1, <1>4
<1>7. Len(SubSeq(all, 1, m)) = m /\ \A j \in 1..m : SubSeq(all, 1, m)[j] = all[j]
  BY <1>5, <1>6
<1>8. r \in Acc /\ r.next = x + 1 /\ r.out = SubSeq(all, 1, m)
  BY <1>2, <1>3, <1>5 DEF Acc
<1> QED BY <1>1, <1>7, <1>8 DEF all, r, m

(* The bytes up to the end of the row are those of the file.               *)
LEMMA AllBytes ==
  ASSUME NEW off, NEW want, InWindow(off, want),
         \A i \in InFile : Whole(i) \/ chunk[i] = <<>>,
         NEW x \in Walked(off, want),
         NEW g \in Answer(Before(Walked(off, want), x), off, want)
  PROVE  /\ Len(All(g, x, off)) = x * ChunkSize - off + Len(chunk[x])
         /\ \A k \in 1..Flat!Smaller(want, Len(All(g, x, off))) :
              All(g, x, off)[k] = Stored[off + k]
<1> DEFINE R == Walked(off, want)
           B == Before(R, x)
           L == Len(g.out)
           gap == Gap(g.next, x, off)
           skip == Skip(x, off)
           p == x * ChunkSize
           c == chunk[x]
           t == Taken(x, off)
           z == Zeros(gap)
           all == All(g, x, off)
<1>1. /\ off \in Nat /\ want \in Nat \ {0} /\ size \in Nat /\ ChunkSize \in Nat \ {0}
      /\ off + want <= size
      /\ StartChunk(off) \in Nat /\ EndChunk(off, want) \in Nat
  BY Window
<1>2. /\ L \in Nat /\ gap \in Nat /\ skip \in Nat /\ p \in Nat /\ x \in Nat
      /\ p < off + want /\ off < p + ChunkSize
      /\ L + gap - skip = p - off
      /\ skip > 0 => p <= off /\ L = 0 /\ gap = 0
      /\ skip = 0 => off <= p
      /\ \A k \in 1..want, i \in B, j \in 1..ChunkSize :
           off + k = i * ChunkSize + j => k <= L
  BY Places
<1>3. g \in Acc /\ \A k \in 1..L : g.out[k] = Stored[off + k]
  BY DEF Answer
<1>4. /\ Len(c) \in Nat \ {0} /\ Len(c) <= ChunkSize
      /\ p + Len(c) <= size
      /\ p + Len(c) = size \/ Len(c) = ChunkSize
      /\ \A j \in 1..Len(c) : c[j] = Stored[p + j]
  <2>1. x \in InFile /\ chunk[x] # <<>>
    BY <1>1, RowsAre DEF InWindow, Walked
  <2> QED BY <2>1, WholeRow DEF InWindow
<1>5. /\ g.out \in Seq(Stores) /\ t \in Seq(Stores) /\ all \in Seq(Stores)
      /\ Len(t) = IF skip < Len(c) THEN Len(c) - skip ELSE 0
      /\ \A j \in 1..(Len(c) - skip) : t[j] = c[skip + j]
      /\ Len(all) = L + (IF gap > 0 THEN gap ELSE 0) + Len(t)
      /\ all = (g.out \o z) \o t
  BY <1>3, Pieces
<1>6. z \in Seq(Stores) /\ Len(z) = gap /\ \A k \in 1..gap : z[k] = 0
  <2>1. gap \in Nat /\ gap \in Int
    BY <1>2
  <2> HIDE DEF gap
  <2>2. /\ Zeros(gap) \in Seq(Stores)
        /\ Len(Zeros(gap)) = IF gap > 0 THEN gap ELSE 0
        /\ \A k \in 1..gap : Zeros(gap)[k] = 0
    BY <2>1, ZerosAre
  <2> QED BY <2>1, <2>2
<1> HIDE DEF L, gap, skip, p, c, t, z, all, B
<1>7. skip < Len(c)
  BY <1>1, <1>2, <1>4
<1>8. Len(t) = Len(c) - skip /\ Len(all) = p - off + Len(c) /\ Len(all) = L + gap + Len(t)
  <2>1. /\ L \in Nat /\ gap \in Nat /\ skip \in Nat /\ p \in Nat /\ off \in Nat
        /\ Len(c) \in Nat /\ L + gap - skip = p - off /\ skip < Len(c)
    BY <1>1, <1>2, <1>4, <1>7
  <2>2. Len(t) = Len(c) - skip
    BY <1>5, <1>7
  <2>3. (IF gap > 0 THEN gap ELSE 0) = gap
    BY <2>1
  <2>4. Len(all) = L + gap + Len(t)
    BY <1>5, <2>3
  <2>5. L + gap + (Len(c) - skip) = p - off + Len(c)
    BY <2>1
  <2> QED BY <2>2, <2>4, <2>5
<1>9. /\ g.out \o z \in Seq(Stores) /\ Len(g.out \o z) = L + gap
      /\ \A k \in 1..(L + gap) : (g.out \o z)[k] = IF k <= L THEN g.out[k] ELSE z[k - L]
  BY <1>5, <1>6, Joined DEF L
<1>10. \A k \in 1..(L + gap + Len(t)) :
         all[k] = IF k <= L + gap THEN (g.out \o z)[k] ELSE t[k - (L + gap)]
  BY <1>5, <1>9, Joined
<1>11. ASSUME NEW k \in 1..want, k <= Len(all) PROVE all[k] = Stored[off + k]
  <2>1. k \in Nat /\ k >= 1 /\ k \in 1..(L + gap + Len(t))
    BY <1>1, <1>8, <1>11
  <2>2. CASE k <= L
    <3>1. k \in 1..L /\ k \in 1..(L + gap) /\ k <= L + gap
      BY <1>2, <2>1, <2>2
    <3>2. all[k] = (g.out \o z)[k] /\ (g.out \o z)[k] = g.out[k]
      BY <1>9, <1>10, <2>1, <2>2, <3>1
    <3> QED BY <1>3, <3>1, <3>2
  <2>3. CASE ~(k <= L) /\ k <= L + gap
    <3>1. k - L \in 1..gap /\ k \in 1..(L + gap)
      BY <1>2, <2>1, <2>3
    <3>2. all[k] = 0
      BY <1>6, <1>9, <1>10, <2>1, <2>3, <3>1
    <3>3. PICK i \in Nat, j \in 1..ChunkSize :
            /\ i * ChunkSize \in Nat /\ off + k = i * ChunkSize + j
            /\ i \notin Walked(off, want) => Stored[off + k] = 0
      BY ByteOf
    <3>4. i \notin B
      BY <1>2, <2>3, <3>3
    <3>5. skip = 0
      BY <1>1, <1>2, <2>1, <2>3
    <3>6. off + k <= p
      BY <1>1, <1>2, <2>1, <2>3, <3>5
    <3>7. i < x
      <4>1. x <= i => p <= i * ChunkSize
        <5>1. x < i => p + ChunkSize <= i * ChunkSize
          BY <1>2, InOrder DEF p
        <5>2. x = i => p = i * ChunkSize
          BY DEF p
        <5> QED BY <1>1, <1>2, <3>3, <5>1, <5>2
      <4> DEFINE q == i * ChunkSize
      <4>2. /\ q \in Nat /\ off + k = q + j /\ j \in Nat /\ j >= 1
            /\ x <= i => p <= q
        BY <1>1, <3>3, <4>1
      <4> HIDE DEF q
      <4> QED BY <1>1, <1>2, <3>6, <4>2
    <3>8. i \notin R
      BY <3>4, <3>7 DEF B, Before
    <3> QED BY <3>2, <3>3, <3>8
  <2>4. CASE ~(k <= L + gap)
    <3> DEFINE j == k - (L + gap)
               i == skip + j
    <3>1. j \in 1..(Len(c) - skip) /\ i \in 1..Len(c) /\ p + i = off + k
      <4>1. /\ L \in Nat /\ gap \in Nat /\ skip \in Nat /\ p \in Nat /\ off \in Nat
            /\ Len(c) \in Nat /\ L + gap - skip = p - off
            /\ k \in Nat /\ k <= L + gap + (Len(c) - skip)
        BY <1>1, <1>2, <1>4, <1>8, <2>1
      <4> QED BY <2>4, <4>1
    <3>2. all[k] = t[j]
      BY <1>10, <2>1, <2>4
    <3> HIDE DEF j
    <3>3. t[j] = c[i]
      BY <1>5, <3>1
    <3> HIDE DEF i
    <3> QED BY <1>4, <3>1, <3>2, <3>3
  <2> QED BY <2>2, <2>3, <2>4
<1>12. ASSUME NEW k \in 1..Flat!Smaller(want, Len(all))
       PROVE  all[k] = Stored[off + k]
  <2>1. Len(all) \in Nat
    BY <1>5, LenProperties
  <2>2. k \in 1..want /\ k <= Len(all)
    BY <1>1, <2>1 DEF Flat!Smaller
  <2> QED BY <1>11, <2>2
<1> QED BY <1>8, <1>12 DEF all, p, c

LEMMA StepAnswers ==
  ASSUME NEW off, NEW want, InWindow(off, want),
         \A i \in InFile : Whole(i) \/ chunk[i] = <<>>,
         NEW x \in Walked(off, want),
         NEW g \in Answer(Before(Walked(off, want), x), off, want)
  PROVE  ReadStep(g, x, off, want) \in Answer(UpTo(Walked(off, want), x), off, want)
<1> DEFINE R == Walked(off, want)
           U == UpTo(R, x)
           r == ReadStep(g, x, off, want)
           all == All(g, x, off)
           p == x * ChunkSize
           c == chunk[x]
<1>1. /\ off \in Nat /\ want \in Nat \ {0} /\ size \in Nat /\ ChunkSize \in Nat \ {0}
      /\ off + want <= size
      /\ StartChunk(off) \in Nat /\ EndChunk(off, want) \in Nat
  BY Window
<1>2. /\ R \in SUBSET Nat /\ IsFiniteSet(R) /\ x \in Nat /\ p \in Nat
      /\ x \in InFile /\ c # <<>>
  BY <1>1, RowsAre DEF InWindow, Walked
<1>3. /\ Len(c) \in Nat \ {0} /\ p + Len(c) <= size /\ Len(c) <= ChunkSize
      /\ p + Len(c) = size \/ Len(c) = ChunkSize
  BY <1>2, WholeRow DEF InWindow
<1>4. g \in Acc
  BY DEF Answer
<1>5. /\ r \in Acc /\ r.next = x + 1
      /\ Len(all) \in Nat /\ Len(r.out) = Flat!Smaller(want, Len(all))
      /\ \A k \in 1..Flat!Smaller(want, Len(all)) : r.out[k] = all[k]
  BY <1>4, StepTyped
<1>6. /\ Len(all) = p - off + Len(c)
      /\ \A k \in 1..Flat!Smaller(want, Len(all)) : all[k] = Stored[off + k]
  BY AllBytes
<1>7. x \in U /\ Max(U) = x
  BY <1>2, HighestUpTo
<1>8. (x + 1) * ChunkSize = p + ChunkSize
  BY <1>2, Starts
<1> HIDE DEF r, all, p, c, U
<1>9. Flat!Smaller(want, Len(all)) = Flat!Smaller(want, (x + 1) * ChunkSize - off)
  <2> DEFINE e == Len(all)
             l == Len(c)
             n == (x + 1) * ChunkSize - off
  <2>1. /\ p \in Nat /\ off \in Nat /\ want \in Nat /\ l \in Nat /\ off + want <= size
        /\ size \in Nat
        /\ p + l = size \/ l = ChunkSize
        /\ ChunkSize \in Nat /\ l <= ChunkSize
        /\ e = p - off + l /\ n = p + ChunkSize - off
    BY <1>1, <1>2, <1>3, <1>6, <1>8
  <2> HIDE DEF e, l, n
  <2>2. e = n \/ (want <= e /\ want <= n)
    BY <2>1
  <2>3. e \in Int /\ n \in Int /\ want \in Int
    BY <2>1
  <2>4. Flat!Smaller(want, e) = Flat!Smaller(want, n)
    BY <2>2, <2>3 DEF Flat!Smaller
  <2> QED BY <2>4 DEF e, n
<1>10. \A k \in 1..Len(r.out) : r.out[k] = Stored[off + k]
  BY <1>5, <1>6
<1>11. Len(r.out) = Flat!Smaller(want, r.next * ChunkSize - off)
  BY <1>5, <1>9
<1> QED BY <1>5, <1>7, <1>10, <1>11 DEF Answer, r, U

(* What the rows of a window add up to.                                    *)
Start(off) == [out |-> <<>>, next |-> off \div ChunkSize]

LEMMA ReadWalk ==
  ASSUME NEW off, NEW want, InWindow(off, want),
         \A i \in InFile : Whole(i) \/ chunk[i] = <<>>
  PROVE  MapThenFoldSet(LAMBDA i, acc : ReadStep(acc, i, off, want), Start(off),
                        LAMBDA i : i, LAMBDA R : Max(R), Walked(off, want))
           \in Answer(Walked(off, want), off, want)
<1> DEFINE R == Walked(off, want)
           a == Start(off)
           h == [i \in R |-> [v \in Acc |-> ReadStep(v, i, off, want)]]
           G == [s \in SUBSET R |-> Answer(s, off, want)]
           Iter(f) == f = [s \in SUBSET R |->
                             IF s = {} THEN a
                             ELSE ReadStep(f[s \ {Max(s)}], Max(s), off, want)]
<1>1. R \in SUBSET Nat /\ IsFiniteSet(R)
  <2>1. StartChunk(off) \in Nat /\ EndChunk(off, want) \in Nat
    BY Window
  <2> QED BY <2>1, RowsAre DEF InWindow, Walked
<1>2. a \in Acc /\ a.out = <<>> /\ a.next = StartChunk(off)
  <2>1. StartChunk(off) \in Nat
    BY Window
  <2> QED BY <2>1 DEF Acc, Start, StartChunk
<1>3. /\ h \in [R -> [Acc -> Acc]]
      /\ \A i \in R : \A v \in Acc : h[i][v] = ReadStep(v, i, off, want)
  <2>1. \A i \in R : \A v \in Acc : ReadStep(v, i, off, want) \in Acc
    BY StepTyped
  <2> QED BY <2>1
<1>4. G \in [SUBSET R -> SUBSET Acc] /\ \A s \in SUBSET R : G[s] = Answer(s, off, want)
  BY DEF Answer
<1>5. a \in G[{}]
  <2>1. Len(a.out) = 0
    BY <1>2
  <2>2. a \in Answer({}, off, want)
    BY <1>2, <2>1 DEF Answer
  <2> QED BY <1>4, <2>2
<1> HIDE DEF R, a, h, G
<1>6. \E f : Iter(f)
  <2>1. PICK f \in [SUBSET R -> Acc] : Walks(f, R, a, h)
    BY <1>1, <1>2, <1>3, WalkExists
  <2>2. ASSUME NEW s \in SUBSET R, s # {}
        PROVE  f[s] = ReadStep(f[s \ {Max(s)}], Max(s), off, want)
    <3>1. f[s] = h[Max(s)][f[s \ {Max(s)}]]
      BY <2>1, <2>2 DEF Walks
    <3>2. Max(s) \in R /\ f[s \ {Max(s)}] \in Acc
      BY <1>1, <2>2, HighestIs
    <3> QED BY <1>3, <3>1, <3>2
  <2>3. f[{}] = a
    BY <2>1 DEF Walks
  <2>4. Iter(f)
    BY <2>2, <2>3
  <2> HIDE DEF Iter
  <2> QED BY <2>4
<1> DEFINE f == CHOOSE g : Iter(g)
<1>7. Iter(f)
  <2> HIDE DEF Iter
  <2> QED BY <1>6
<1>8. MapThenFoldSet(LAMBDA i, acc : ReadStep(acc, i, off, want), Start(off),
                     LAMBDA i : i, LAMBDA T : Max(T), Walked(off, want)) = f[R]
  BY DEF MapThenFoldSet, R, a
<1>9. f[{}] = a
  <2> HIDE DEF f
  <2> QED BY <1>7
<1>10. ASSUME NEW s \in SUBSET R, s # {}, f[s \ {Max(s)}] \in Acc
       PROVE  f[s] = h[Max(s)][f[s \ {Max(s)}]]
  <2>1. f[s] = ReadStep(f[s \ {Max(s)}], Max(s), off, want)
    <3> HIDE DEF f
    <3> QED BY <1>7, <1>10
  <2>2. Max(s) \in R
    BY <1>1, <1>10, HighestIs
  <2> HIDE DEF f
  <2> QED BY <1>3, <1>10, <2>1, <2>2
<1> HIDE DEF f
<1>11. \A x \in R : \A g \in G[Before(R, x)] : h[x][g] \in G[UpTo(R, x)]
  <2> SUFFICES ASSUME NEW x \in R, NEW g \in G[Before(R, x)]
               PROVE  h[x][g] \in G[UpTo(R, x)]
    OBVIOUS
  <2>1. Before(R, x) \in SUBSET R /\ UpTo(R, x) \in SUBSET R
    BY DEF Before, UpTo
  <2>2. g \in Answer(Before(R, x), off, want) /\ g \in Acc
    BY <1>4, <2>1
  <2>3. ReadStep(g, x, off, want) \in Answer(UpTo(R, x), off, want)
    BY <2>2, StepAnswers DEF R
  <2> QED BY <1>3, <1>4, <2>1, <2>2, <2>3
<1>12. f[R] \in G[R]
  <2>1. \A s \in SUBSET R : s # {} /\ f[s \ {Max(s)}] \in Acc =>
          f[s] = h[Max(s)][f[s \ {Max(s)}]]
    BY <1>10
  <2>2. R \in SUBSET Nat /\ IsFiniteSet(R) /\ G \in [SUBSET R -> SUBSET Acc]
    BY <1>1, <1>4
  <2> DEFINE A == Acc
  <2>3. /\ \A s \in SUBSET R : s # {} /\ f[s \ {Max(s)}] \in A =>
             f[s] = h[Max(s)][f[s \ {Max(s)}]]
        /\ G \in [SUBSET R -> SUBSET A]
    BY <2>1, <2>2
  <2> HIDE DEF A, Iter
  <2> QED BY <1>5, <1>9, <1>11, <2>2, <2>3, WalkInduction
<1>13. f[R] \in Answer(R, off, want)
  BY <1>4, <1>12
<1> QED BY <1>8, <1>13 DEF R

(* What is read of rows that are whole or not there is what the file holds.*)
LEMMA AnswerIsFile ==
  ASSUME NEW off, NEW want, InWindow(off, want),
         NEW a \in Answer(Walked(off, want), off, want)
  PROVE  Flat!Resized(a.out, want) = [k \in 1..want |-> Stored[off + k]]
<1> DEFINE R == Walked(off, want)
<1>1. /\ off \in Nat /\ want \in Nat \ {0} /\ ChunkSize \in Nat \ {0}
      /\ StartChunk(off) \in Nat /\ EndChunk(off, want) \in Nat
  BY Window
<1>2. /\ R \in SUBSET Nat /\ IsFiniteSet(R)
      /\ \A k \in 1..Len(a.out) : a.out[k] = Stored[off + k]
      /\ a \in Acc /\ a.next \in Nat /\ Len(a.out) \in Nat
      /\ R # {} => /\ a.next = Max(R) + 1
                   /\ Len(a.out) = Flat!Smaller(want, a.next * ChunkSize - off)
  BY <1>1, RowsAre, LenProperties DEF InWindow, Walked, Answer, Acc
<1>3. ASSUME NEW k \in 1..want
      PROVE  (IF k <= Len(a.out) THEN a.out[k] ELSE 0) = Stored[off + k]
  <2>1. CASE k <= Len(a.out)
    <3>1. k \in 1..Len(a.out)
      BY <1>1, <1>2, <2>1
    <3> QED BY <1>2, <2>1, <3>1
  <2>2. CASE ~(k <= Len(a.out))
    <3>1. PICK i \in Nat, j \in 1..ChunkSize :
            /\ i * ChunkSize \in Nat /\ off + k = i * ChunkSize + j
            /\ i \notin R => Stored[off + k] = 0
      BY ByteOf
    <3>2. ASSUME i \in R PROVE FALSE
      <4>1. Max(R) \in Nat /\ i <= Max(R) /\ R # {}
        BY <1>2, <3>2, HighestIs
      <4>2. i < a.next /\ Len(a.out) = Flat!Smaller(want, a.next * ChunkSize - off)
        BY <1>2, <4>1
      <4>3. i * ChunkSize + ChunkSize <= a.next * ChunkSize /\ a.next * ChunkSize \in Nat
        BY <1>2, <4>2, InOrder, Starts
      <4> DEFINE u == i * ChunkSize
                 v == a.next * ChunkSize
                 L == Len(a.out)
      <4>4. /\ u \in Nat /\ v \in Nat /\ u + ChunkSize <= v /\ off + k = u + j
            /\ L = Flat!Smaller(want, v - off) /\ ~(k <= L) /\ k \in Nat /\ k <= want
        BY <1>1, <2>2, <3>1, <4>2, <4>3
      <4> HIDE DEF u, v, L, R
      <4> QED BY <1>1, <4>4 DEF Flat!Smaller
    <3> QED BY <2>2, <3>1, <3>2
  <2> QED BY <2>1, <2>2
<1> QED BY <1>3 DEF Flat!Resized

LEMMA ReadIsFlat ==
  ASSUME ChunkInv, \A i \in InFile : Whole(i) \/ chunk[i] = <<>>,
         NEW off \in 0..MaxSize - 1, NEW n \in 1..MaxSize
  PROVE  ~ReadPanics(off, n) /\ Read(off, n) = Flat!Read(off, n)
<1> DEFINE want == Flat!Smaller(n, size - off)
<1>1. /\ off \in Nat /\ n \in Nat \ {0} /\ size \in Nat /\ ChunkSize \in Nat \ {0}
      /\ Stored \in Seq(Stores) /\ Len(Stored) = size
  BY StoredIsFile, ChunkAssumption DEF ChunkInv
<1>2. CASE off >= size
  <2>1. ~(off < size) /\ Flat!Smaller(off, size) = size /\ Flat!Smaller(off + n, size) = size
    BY <1>1, <1>2 DEF Flat!Smaller
  <2>2. Flat!Read(off, n) = SubSeq(Stored, size + 1, size)
    BY <1>1, <2>1 DEF Flat!Read
  <2>3. SubSeq(Stored, size + 1, size) = <<>>
    <3>1. size + 1 \in Nat \ {0} /\ size \in 0..size /\ ~(size + 1 <= size)
      BY <1>1
    <3>2. /\ SubSeq(Stored, size + 1, size) \in Seq(Stores)
          /\ Len(SubSeq(Stored, size + 1, size)) = 0
      BY <1>1, <3>1, PartIsRow
    <3> QED BY <3>2, EmptySeq
  <2>4. Read(off, n) = <<>>
    BY <1>2 DEF Read
  <2>5. ~ReadPanics(off, n)
    BY <2>1 DEF ReadPanics
  <2> QED BY <2>2, <2>3, <2>4, <2>5
<1>3. CASE ~(off >= size)
  <2>1. want \in Nat \ {0} /\ off + want <= size
    BY <1>1, <1>3 DEF Flat!Smaller
  <2>2. /\ Flat!Smaller(off, size) = off /\ Flat!Smaller(off + n, size) = off + want
        /\ off + want # 0
    BY <1>1, <1>3 DEF Flat!Smaller
  <2> HIDE DEF want
  <2>3. InWindow(off, want)
    BY <1>1, <2>1 DEF InWindow
  <2> DEFINE walked == MapThenFoldSet(LAMBDA i, acc : ReadStep(acc, i, off, want), Start(off),
                                      LAMBDA i : i, LAMBDA R : Max(R), Walked(off, want))
  <2>4. walked \in Answer(Walked(off, want), off, want)
    BY <2>3, ReadWalk
  <2>5. Read(off, n) = Flat!Resized(walked.out, want)
    BY <1>3, <2>2 DEF Read, Walked, StartChunk, EndChunk, Start, want
  <2> HIDE DEF walked
  <2>6. Read(off, n) = [k \in 1..want |-> Stored[off + k]]
    BY <2>3, <2>4, <2>5, AnswerIsFile
  <2>7. Flat!Read(off, n) = SubSeq(Stored, off + 1, off + want)
    BY <1>1, <2>2 DEF Flat!Read
  <2>8. SubSeq(Stored, off + 1, off + want) = [k \in 1..want |-> Stored[off + k]]
    <3> DEFINE m == off + 1
               e == off + want
               q == SubSeq(Stored, m, e)
    <3>1. /\ m \in Nat \ {0} /\ e \in 0..Len(Stored)
          /\ m <= e /\ e - m + 1 = want
          /\ \A j \in 1..want : m + j - 1 = off + j
      BY <1>1, <2>1
    <3> HIDE DEF m, e
    <3>2. /\ q \in Seq(Stores)
          /\ Len(q) = IF m <= e THEN e - m + 1 ELSE 0
          /\ \A j \in 1..(e - m + 1) : q[j] = Stored[m + j - 1]
      BY <1>1, <3>1, PartIsRow
    <3> HIDE DEF q
    <3>3. Len(q) = want /\ \A j \in 1..want : q[j] = Stored[off + j]
      BY <3>1, <3>2
    <3>4. q = [k \in 1..want |-> q[k]]
      BY <3>2, <3>3, LenProperties
    <3>5. q = [k \in 1..want |-> Stored[off + k]]
      BY <3>3, <3>4
    <3> QED BY <3>5 DEF m, e, q
  <2>9. ~ReadPanics(off, n)
    <3> SUFFICES ASSUME chunk[off \div ChunkSize] # <<>>
                 PROVE  ~(off % ChunkSize > Len(chunk[off \div ChunkSize]))
      BY DEF ReadPanics
    <3> DEFINE a == StartChunk(off)
    <3>1. /\ a \in Nat /\ a * ChunkSize \in Nat /\ a * ChunkSize <= off
          /\ off < a * ChunkSize + ChunkSize
          /\ off % ChunkSize = off - a * ChunkSize
      BY <2>3, Window
    <3>2. off + 1 \in 1..MaxSize
      BY ChunkAssumption
    <3>3. PICK i \in Index, j \in 1..ChunkSize : (off + 1 - 1) \div ChunkSize = i
      BY <3>2, Place
    <3>4. a \in Index
      <4>1. off + 1 - 1 = off
        BY <1>1
      <4> QED BY <3>3, <4>1 DEF StartChunk
    <3>5. a \in InFile /\ chunk[a] # <<>>
      <4>1. a * ChunkSize < size
        <5> DEFINE p == a * ChunkSize
        <5>1. p \in Nat /\ p <= off
          BY <3>1
        <5> HIDE DEF p
        <5>2. p < size
          BY <1>1, <1>3, <5>1
        <5> QED BY <5>2 DEF p
      <4> QED BY <3>4, <4>1 DEF InFile, StartChunk
    <3>6. /\ Len(chunk[a]) \in Nat
          /\ a * ChunkSize + Len(chunk[a]) = size \/ Len(chunk[a]) = ChunkSize
      BY <3>5, WholeRow
    <3>7. off - a * ChunkSize <= Len(chunk[a])
      <4> DEFINE p == a * ChunkSize
                 l == Len(chunk[a])
      <4>1. p \in Nat /\ l \in Nat /\ off < p + ChunkSize /\ (p + l = size \/ l = ChunkSize)
        BY <3>1, <3>6
      <4> HIDE DEF p, l, a
      <4>2. off - p <= l
        BY <1>1, <1>3, <4>1
      <4> QED BY <4>2 DEF p, l
    <3> HIDE DEF a
    <3>8. ~(off % ChunkSize > Len(chunk[a]))
      <4> DEFINE u == off % ChunkSize
                 v == off - a * ChunkSize
      <4>0. ASSUME NEW p \in Nat PROVE off - p \in Int
        BY <1>1
      <4>1. u = v /\ v <= Len(chunk[a]) /\ v \in Int /\ Len(chunk[a]) \in Nat
        BY <3>1, <3>6, <3>7, <4>0
      <4> HIDE DEF u, v
      <4>2. ~(u > Len(chunk[a]))
        BY <4>1
      <4> QED BY <4>2 DEF u
    <3> QED BY <3>8 DEF a, StartChunk
  <2> QED BY <2>6, <2>7, <2>8, <2>9
<1> QED BY <1>2, <1>3

(* A read at any offset and of any length returns the bytes of the flat    *)
(* array, if each row is whole: a chunk without one reads as zeros, at the *)
(* start, in the middle and at the end of what is read.                    *)
THEOREM RowsReadBack == Spec => []WholeRowsReadBack
<1>1. ChunkInv => WholeRowsReadBack
  BY ReadIsFlat DEF WholeRowsReadBack, ReadsAgree
<1> QED BY <1>1, ChunkInvInit, ChunkStep, PTL DEF Spec
=============================================================================
