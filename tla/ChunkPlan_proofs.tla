--------------------------- MODULE ChunkPlan_proofs ---------------------------
(***************************************************************************)
(* What the plans of ChunkPlan do to single bytes, for every chunk size:    *)
(* where a byte of the content lies, and what a planned or trimmed chunk    *)
(* reads as.  FileData_proofs and BlockVolume_proofs rest on these lemmas.  *)
(***************************************************************************)
EXTENDS ChunkPlan, SequenceTheorems, FiniteSetTheorems, TLAPS

\* Byte i of a content is position PlaceOf(i) of chunk ChunkOf(i).
ChunkOf(i) == (i - 1) \div ChunkSize
PlaceOf(i) == ((i - 1) % ChunkSize) + 1

\* What position o of a chunk reads as.
ByteAt(c, o) == IF o <= Len(c) THEN c[o] ELSE 0

Contents(B) == {s \in Seq(B) : Len(s) <= ChunkSize}

(***************************************************************************)
(* Max and Min of two numbers.                                              *)
(***************************************************************************)
LEMMA TwoMax ==
  ASSUME NEW a \in Int, NEW b \in Int
  PROVE  Max({a, b}) = IF a >= b THEN a ELSE b
  <1>1. \E x \in {a, b} : \A y \in {a, b} : x >= y
    OBVIOUS
  <1> QED BY <1>1 DEF Max

LEMMA TwoMin ==
  ASSUME NEW a \in Int, NEW b \in Int
  PROVE  Min({a, b}) = IF a <= b THEN a ELSE b
  <1>1. \E x \in {a, b} : \A y \in {a, b} : x <= y
    OBVIOUS
  <1> QED BY <1>1 DEF Min

(***************************************************************************)
(* Chunks follow each other: the next one starts where one ends.            *)
(***************************************************************************)
LEMMA Starts ==
  ASSUME NEW k \in Nat
  PROVE  k * ChunkSize \in Nat /\ (k + 1) * ChunkSize = k * ChunkSize + ChunkSize
  BY ChunkSizeAssumption

LEMMA LaterStarts ==
  ASSUME NEW j \in Nat, NEW k \in Nat, j < k
  PROVE  j * ChunkSize + ChunkSize <= k * ChunkSize
  <1>1. PICK d \in Nat : k = j + 1 + d
    <2>1. k - (j + 1) \in Nat /\ k = j + 1 + (k - (j + 1))
      OBVIOUS
    <2> QED BY <2>1
  <1>2. d * ChunkSize \in Nat
    BY ChunkSizeAssumption
  <1>3. k * ChunkSize = j * ChunkSize + ChunkSize + d * ChunkSize
    BY <1>1, ChunkSizeAssumption
  <1>4. j * ChunkSize \in Nat
    BY ChunkSizeAssumption
  <1> QED BY <1>2, <1>3, <1>4, ChunkSizeAssumption

(***************************************************************************)
(* Every byte has one chunk and one place in it.                            *)
(***************************************************************************)
LEMMA Quotient ==
  ASSUME NEW n \in Nat
  PROVE  /\ n \div ChunkSize \in Nat
         /\ (n \div ChunkSize) * ChunkSize <= n
         /\ n < (n \div ChunkSize) * ChunkSize + ChunkSize
         /\ n % ChunkSize = n - (n \div ChunkSize) * ChunkSize
  BY ChunkSizeAssumption

LEMMA Position ==
  ASSUME NEW i \in Nat \ {0}
  PROVE  /\ ChunkOf(i) \in Nat /\ PlaceOf(i) \in 1 .. ChunkSize
         /\ ChunkOf(i) * ChunkSize + PlaceOf(i) = i
  <1>1. i - 1 \in Nat
    OBVIOUS
  <1> DEFINE q == (i - 1) \div ChunkSize
  <1>2. /\ q \in Nat /\ q * ChunkSize <= i - 1 /\ i - 1 < q * ChunkSize + ChunkSize
        /\ (i - 1) % ChunkSize = (i - 1) - q * ChunkSize
    BY <1>1, Quotient
  <1>3. q * ChunkSize \in Nat
    BY <1>2, Starts
  <1> HIDE DEF q
  <1> QED BY <1>1, <1>2, <1>3, ChunkSizeAssumption DEF ChunkOf, PlaceOf, q

LEMMA PositionUnique ==
  ASSUME NEW i \in Nat \ {0}, NEW k \in Nat, k * ChunkSize < i, i <= k * ChunkSize + ChunkSize
  PROVE  ChunkOf(i) = k /\ PlaceOf(i) = i - k * ChunkSize
  <1> DEFINE q == ChunkOf(i)
             o == PlaceOf(i)
  <1>1. q \in Nat /\ o \in 1 .. ChunkSize /\ q * ChunkSize + o = i
    BY Position
  <1>2. q * ChunkSize \in Nat /\ k * ChunkSize \in Nat
    BY <1>1, Starts
  <1> HIDE DEF q, o
  <1>3. ~ (q < k)
    <2> SUFFICES ASSUME q < k PROVE FALSE
      OBVIOUS
    <2>1. q * ChunkSize + ChunkSize <= k * ChunkSize
      BY <1>1, LaterStarts
    <2> QED BY <1>1, <1>2, <2>1, ChunkSizeAssumption
  <1>4. ~ (k < q)
    <2> SUFFICES ASSUME k < q PROVE FALSE
      OBVIOUS
    <2>1. k * ChunkSize + ChunkSize <= q * ChunkSize
      BY <1>1, LaterStarts
    <2> QED BY <1>1, <1>2, <2>1, ChunkSizeAssumption
  <1>5. q = k
    BY <1>1, <1>3, <1>4
  <1>6. o = i - k * ChunkSize
    BY <1>1, <1>2, <1>5
  <1> QED BY <1>5, <1>6 DEF q, o

(***************************************************************************)
(* The chunks from that of byte off + 1 to that of byte off + n are those   *)
(* that have a byte in common with the extent.                              *)
(***************************************************************************)
LEMMA ExtentChunks ==
  ASSUME NEW off \in Nat, NEW n \in Nat \ {0}, NEW k \in Nat
  PROVE  k \in off \div ChunkSize .. (off + n - 1) \div ChunkSize
         <=> (k * ChunkSize < off + n /\ off < k * ChunkSize + ChunkSize)
  <1> DEFINE p == off \div ChunkSize
             q == (off + n - 1) \div ChunkSize
  <1>1. p \in Nat /\ p * ChunkSize <= off /\ off < p * ChunkSize + ChunkSize
    BY Quotient
  <1>2. off + n - 1 \in Nat
    OBVIOUS
  <1>3. q \in Nat /\ q * ChunkSize <= off + n - 1 /\ off + n - 1 < q * ChunkSize + ChunkSize
    BY <1>2, Quotient
  <1>4. p * ChunkSize \in Nat /\ q * ChunkSize \in Nat /\ k * ChunkSize \in Nat
    BY <1>1, <1>3, Starts
  <1> HIDE DEF p, q
  <1>5. p <= k => off < k * ChunkSize + ChunkSize
    <2>1. CASE p = k
      BY <1>1, <2>1
    <2>2. CASE p < k
      <3>1. p * ChunkSize + ChunkSize <= k * ChunkSize
        BY <1>1, <2>2, LaterStarts
      <3> QED BY <1>1, <1>4, <3>1, ChunkSizeAssumption
    <2> QED BY <1>1, <2>1, <2>2
  <1>6. k < p => ~ (off < k * ChunkSize + ChunkSize)
    <2> SUFFICES ASSUME k < p PROVE ~ (off < k * ChunkSize + ChunkSize)
      OBVIOUS
    <2>1. k * ChunkSize + ChunkSize <= p * ChunkSize
      BY <1>1, LaterStarts
    <2> QED BY <1>1, <1>4, <2>1, ChunkSizeAssumption
  <1>7. k <= q => k * ChunkSize < off + n
    <2>1. CASE k = q
      BY <1>2, <1>3, <1>4, <2>1
    <2>2. CASE k < q
      <3>1. k * ChunkSize + ChunkSize <= q * ChunkSize
        BY <1>3, <2>2, LaterStarts
      <3> QED BY <1>2, <1>3, <1>4, <3>1, ChunkSizeAssumption
    <2> QED BY <1>3, <2>1, <2>2
  <1>8. q < k => ~ (k * ChunkSize < off + n)
    <2> SUFFICES ASSUME q < k PROVE ~ (k * ChunkSize < off + n)
      OBVIOUS
    <2>1. q * ChunkSize + ChunkSize <= k * ChunkSize
      BY <1>3, LaterStarts
    <2> QED BY <1>2, <1>3, <1>4, <2>1, ChunkSizeAssumption
  <1>9. k \in p .. q <=> p <= k /\ k <= q
    BY <1>1, <1>3
  <1>10. (p <= k \/ k < p) /\ (k <= q \/ q < k)
    BY <1>1, <1>3
  <1> QED BY <1>5, <1>6, <1>7, <1>8, <1>9, <1>10 DEF p, q

(***************************************************************************)
(* The chunks of a content of m bytes: chunk numbers are numbers, every     *)
(* byte has a chunk, and every chunk begins within the content.             *)
(***************************************************************************)
LEMMA ChunksOfSize ==
  ASSUME NEW m \in Nat
  PROVE  LET ks == 0 .. (m - 1) \div ChunkSize
         IN  /\ ks \subseteq Nat
             /\ \A i \in 1 .. m : ChunkOf(i) \in ks
             /\ m > 0 => \A k \in ks : k * ChunkSize < m
  <1> DEFINE ks == 0 .. (m - 1) \div ChunkSize
  <1>1. ChunkSize \in Nat \ {0}
    BY ChunkSizeAssumption
  <1>2. (m - 1) \div ChunkSize \in Int
    BY <1>1
  <1>3. ks \subseteq Nat
    BY <1>2
  <1>4. m > 0 => \A k \in Nat : k \in ks <=> k * ChunkSize < m
    <2> SUFFICES ASSUME m > 0, NEW k \in Nat PROVE k \in ks <=> k * ChunkSize < m
      OBVIOUS
    <2>1. m \in Nat \ {0} /\ 0 \in Nat
      OBVIOUS
    <2>2. k \in 0 \div ChunkSize .. (0 + m - 1) \div ChunkSize
          <=> (k * ChunkSize < 0 + m /\ 0 < k * ChunkSize + ChunkSize)
      BY <2>1, ExtentChunks
    <2>3. 0 + m - 1 = m - 1 /\ 0 + m = m /\ 0 \div ChunkSize = 0
      BY <1>1, Quotient
    <2>4. k * ChunkSize \in Nat
      BY Starts
    <2> QED BY <1>1, <2>2, <2>3, <2>4
  <1>5. ASSUME NEW i \in 1 .. m PROVE ChunkOf(i) \in ks
    <2> DEFINE q == ChunkOf(i)
    <2>1. q \in Nat /\ PlaceOf(i) \in 1 .. ChunkSize /\ q * ChunkSize + PlaceOf(i) = i
      BY Position
    <2>2. q * ChunkSize \in Nat
      BY <2>1, Starts
    <2> HIDE DEF q
    <2>3. q * ChunkSize < m /\ m > 0
      BY <1>1, <2>1, <2>2
    <2> QED BY <1>4, <2>1, <2>3 DEF q
  <1> QED BY <1>3, <1>4, <1>5

(***************************************************************************)
(* read_range: as many bytes as the content has, each from its place.       *)
(***************************************************************************)
LEMMA Reading ==
  ASSUME NEW f, f.size \in Nat
  PROVE  /\ DOMAIN ReadRange(f) = 1 .. f.size
         /\ \A i \in 1 .. f.size : ReadRange(f)[i] = ByteAt(f.chunks[ChunkOf(i)], PlaceOf(i))
         /\ Len(ReadRange(f)) = f.size
  <1>1. DOMAIN ReadRange(f) = 1 .. f.size
    BY DEF ReadRange
  <1>2. \A i \in 1 .. f.size : ReadRange(f)[i] = ByteAt(f.chunks[ChunkOf(i)], PlaceOf(i))
    BY DEF ReadRange, ByteAt, ChunkOf, PlaceOf
  <1>3. Len(ReadRange(f)) = f.size
    <2> DEFINE read == ReadRange(f)
               n == f.size
               S == {read[i] : i \in 1 .. n}
    <2>1. read = [i \in 1 .. n |-> read[i]] /\ DOMAIN read = 1 .. n /\ n \in Nat
      BY <1>1 DEF ReadRange
    <2> HIDE DEF read, n
    <2>2. \A i \in 1 .. n : read[i] \in S
      OBVIOUS
    <2> HIDE DEF S
    <2>3. read \in Seq(S)
      BY <2>1, <2>2
    <2>4. Len(read) \in Nat /\ DOMAIN read = 1 .. Len(read)
      BY <2>3
    <2>5. Len(read) = n
      BY <2>1, <2>4
    <2> QED BY <2>5 DEF read, n
  <1> QED BY <1>1, <1>2, <1>3

(***************************************************************************)
(* plan_write: the planned chunk reads as the data where the write falls on *)
(* it and as the old chunk elsewhere, and ends where one of the two ends.   *)
(***************************************************************************)
OldChunk(f, k) == IF k * ChunkSize >= f.size THEN <<>> ELSE f.chunks[k]

Overwrites(new, old, start, off, data) ==
  /\ Len(new) <= Len(old) \/ start + Len(new) <= off + Len(data)
  /\ \A o \in 1 .. ChunkSize : ByteAt(new, o) =
        IF off < start + o /\ start + o <= off + Len(data) THEN data[start + o - off]
        ELSE ByteAt(old, o)

LEMMA PutChunkReads ==
  ASSUME NEW f, NEW B, 0 \in B, NEW k \in Nat, NEW off \in Nat, NEW data \in Seq(B),
         f.size \in Nat, f.chunks[k] \in Contents(B),
         k * ChunkSize < off + Len(data), off < k * ChunkSize + ChunkSize
  PROVE  /\ PutChunk(f, k, off, data) \in Contents(B)
         /\ Overwrites(PutChunk(f, k, off, data), OldChunk(f, k), k * ChunkSize, off, data)
  <1> DEFINE start == k * ChunkSize
             n == Len(data)
             old == IF start >= f.size THEN <<>> ELSE f.chunks[k]
             from == Max({off, start})
             to == Min({off + n, start + ChunkSize})
             m == Max({to - start, Len(old)})
             byte(j) == IF start + j > from /\ start + j <= to THEN data[start + j - off]
                        ELSE IF j <= Len(old) THEN old[j] ELSE 0
             new == [j \in 1 .. m |-> byte(j)]
  <1>1. start \in Nat /\ n \in Nat /\ ChunkSize \in Nat \ {0}
    BY Starts, ChunkSizeAssumption
  <1>2. old \in Seq(B) /\ Len(old) \in Nat /\ Len(old) <= ChunkSize
    BY <1>1 DEF Contents
  <1>3. start < off + n /\ off < start + ChunkSize
    OBVIOUS
  <1> HIDE DEF old, start, n
  <1>4. from = IF off >= start THEN off ELSE start
    BY <1>1, TwoMax
  <1>5. to = IF off + n <= start + ChunkSize THEN off + n ELSE start + ChunkSize
    BY <1>1, TwoMin
  <1> HIDE DEF from, to
  <1>6. to \in Nat /\ to - start \in Int /\ from \in Nat
    <2>1. from \in Nat
      BY <1>1, <1>4
    <2>2. to \in Nat
      BY <1>1, <1>5
    <2> QED BY <1>1, <2>1, <2>2
  <1>7. m = IF to - start >= Len(old) THEN to - start ELSE Len(old)
    BY <1>2, <1>6, TwoMax
  <1> HIDE DEF m
  <1>8. m \in Nat /\ m <= ChunkSize
    <2>1. to - start \in Nat /\ to - start <= ChunkSize
      BY <1>1, <1>3, <1>5, <1>6
    <2> QED BY <1>1, <1>2, <1>7, <2>1
  <1>9. \A j \in 1 .. m : byte(j) \in B
    <2> SUFFICES ASSUME NEW j \in 1 .. m PROVE byte(j) \in B
      OBVIOUS
    <2>1. CASE start + j > from /\ start + j <= to
      <3>1. start + j - off \in 1 .. n
        BY <1>1, <1>4, <1>5, <1>6, <1>8, <2>1
      <3>2. data[start + j - off] \in B
        BY <3>1 DEF n
      <3> QED BY <2>1, <3>2
    <2>2. CASE ~ (start + j > from /\ start + j <= to) /\ j <= Len(old)
      <3>1. old[j] \in B
        BY <1>2, <1>8, <2>2
      <3> QED BY <2>2, <3>1
    <2>3. CASE ~ (start + j > from /\ start + j <= to) /\ ~ (j <= Len(old))
      BY <2>3
    <2> QED BY <2>1, <2>2, <2>3
  <1>10. new \in Seq(B) /\ Len(new) = m /\ \A j \in 1 .. m : new[j] = byte(j)
    <2> HIDE DEF byte
    <2> QED BY <1>8, <1>9
  <1>11. new = PutChunk(f, k, off, data)
    BY DEF PutChunk, start, n, old, from, to, m
  <1> HIDE DEF new
  <1>12. \A o \in 1 .. ChunkSize : ByteAt(new, o) =
            IF off < start + o /\ start + o <= off + n THEN data[start + o - off] ELSE ByteAt(old, o)
    <2> SUFFICES ASSUME NEW o \in 1 .. ChunkSize
                 PROVE  ByteAt(new, o) = IF off < start + o /\ start + o <= off + n
                                         THEN data[start + o - off] ELSE ByteAt(old, o)
      OBVIOUS
    <2>1. (start + o > from /\ start + o <= to) <=> (off < start + o /\ start + o <= off + n)
      BY <1>1, <1>4, <1>5
    <2>2. ByteAt(new, o) = IF o <= m THEN new[o] ELSE 0
      BY <1>10 DEF ByteAt
    <2>3. CASE o <= m
      <3>1. new[o] = byte(o)
        BY <1>8, <1>10, <2>3
      <3> QED BY <2>1, <2>2, <2>3, <3>1 DEF ByteAt
    <2>4. CASE ~ (o <= m)
      <3>1. ~ (o <= Len(old)) /\ ~ (start + o <= to)
        BY <1>1, <1>2, <1>6, <1>7, <1>8, <2>4
      <3> QED BY <2>1, <2>2, <2>4, <3>1 DEF ByteAt
    <2> QED BY <2>3, <2>4
  <1>13. m <= Len(old) \/ start + m <= off + n
    BY <1>1, <1>2, <1>5, <1>6, <1>7
  <1>14. new \in Contents(B)
    BY <1>8, <1>10 DEF Contents
  <1>15. old = OldChunk(f, k)
    BY DEF OldChunk, old, start
  <1>16. Overwrites(new, old, start, off, data)
    BY <1>10, <1>12, <1>13 DEF Overwrites, n
  <1> QED BY <1>11, <1>14, <1>15, <1>16 DEF start

(***************************************************************************)
(* plan_truncate: the trimmed tail chunk reads as before up to the new end  *)
(* and as zeros beyond it, and does not reach beyond it.                    *)
(***************************************************************************)
LEMMA TrimmedReads ==
  ASSUME NEW f, NEW B, NEW k \in Nat, NEW n \in Nat,
         f.chunks[k] \in Contents(B), k * ChunkSize <= n
  PROVE  LET start == k * ChunkSize
             new == Trimmed(f, n, k)
         IN  /\ new \in Contents(B) /\ start + Len(new) <= n
             /\ \A o \in 1 .. ChunkSize :
                   ByteAt(new, o) = IF start + o <= n THEN ByteAt(f.chunks[k], o) ELSE 0
  <1> DEFINE start == k * ChunkSize
             old == f.chunks[k]
             m == Min({Len(old), n - start})
             new == SubSeq(old, 1, m)
  <1>1. start \in Nat /\ ChunkSize \in Nat \ {0} /\ start <= n
    BY Starts, ChunkSizeAssumption
  <1>2. old \in Seq(B) /\ Len(old) \in Nat /\ Len(old) <= ChunkSize
    BY DEF Contents
  <1> HIDE DEF start, old
  <1>3. n - start \in Nat
    BY <1>1
  <1>4. m = IF Len(old) <= n - start THEN Len(old) ELSE n - start
    BY <1>2, <1>3, TwoMin
  <1> HIDE DEF m
  <1>5. m \in Nat /\ m <= Len(old)
    BY <1>2, <1>3, <1>4
  <1>6. new \in Seq(B) /\ Len(new) = m /\ \A j \in 1 .. m : new[j] = old[j]
    BY <1>2, <1>5
  <1> HIDE DEF new
  <1>7. new \in Contents(B) /\ start + Len(new) <= n
    BY <1>1, <1>2, <1>3, <1>4, <1>5, <1>6 DEF Contents
  <1>8. ASSUME NEW o \in 1 .. ChunkSize
        PROVE  ByteAt(new, o) = IF start + o <= n THEN ByteAt(old, o) ELSE 0
    BY <1>1, <1>2, <1>3, <1>4, <1>5, <1>6 DEF ByteAt
  <1>9. new = Trimmed(f, n, k)
    BY DEF Trimmed, new, m, old, start
  <1> QED BY <1>7, <1>8, <1>9 DEF start, old

(***************************************************************************)
(* A batch takes some of the chunks it is to delete.                        *)
(***************************************************************************)
LEMMA LowestSome ==
  ASSUME NEW ks, NEW n
  PROVE  Lowest(ks, n) \subseteq ks
  BY DEF Lowest, Quantify

LEMMA LowestAll ==
  ASSUME NEW ks, IsFiniteSet(ks), NEW n \in Nat, ~ (Cardinality(ks) >= n)
  PROVE  Lowest(ks, n) = ks
  <1>1. \A k \in ks : Quantify(ks, LAMBDA j : j < k) < n
    <2> SUFFICES ASSUME NEW k \in ks PROVE Cardinality({j \in ks : j < k}) < n
      BY DEF Quantify
    <2> DEFINE part == {j \in ks : j < k}
    <2>1. part \subseteq ks
      OBVIOUS
    <2> HIDE DEF part
    <2>2. IsFiniteSet(part) /\ Cardinality(part) <= Cardinality(ks)
      BY <2>1, FS_Subset
    <2>3. Cardinality(part) \in Nat /\ Cardinality(ks) \in Nat
      BY <2>2, FS_CardinalityType
    <2>4. Cardinality(part) < n
      BY <2>2, <2>3
    <2> QED BY <2>4 DEF part
  <1> QED BY <1>1, Zenon DEF Lowest

(***************************************************************************)
(* A set of numbers up to n that is not empty has a largest one.            *)
(***************************************************************************)
LEMMA LargestOf ==
  ASSUME NEW n \in Nat, NEW S, S \subseteq 1 .. n, S # {}
  PROVE  Max(S) \in S /\ \A j \in S : Max(S) >= j
  <1> DEFINE D == {n - j : j \in S}
  <1>1. D \subseteq Nat /\ D # {}
    <2>1. \A j \in S : n - j \in Nat
      OBVIOUS
    <2>2. PICK j \in S : TRUE
      BY Zenon
    <2>3. n - j \in D
      BY <2>2
    <2> QED BY <2>1, <2>3
  <1>2. PICK d \in D : \A e \in D : ~ (<<e, d>> \in OpToRel(<, Nat))
    BY Zenon, <1>1, WFMin, NatLessThanWellFounded
  <1>3. \A e \in D : ~ (e < d)
    BY <1>1, <1>2, Zenon DEF OpToRel
  <1>4. PICK m \in S : d = n - m
    OBVIOUS
  <1>5. ASSUME NEW j \in S PROVE m >= j
    <2>1. n - j \in D
      OBVIOUS
    <2>2. ~ (n - j < n - m)
      BY Zenon, <1>3, <1>4, <2>1
    <2>3. j \in Int /\ m \in Int
      OBVIOUS
    <2> QED BY <2>2, <2>3
  <1> QED BY <1>4, <1>5, Zenon DEF Max
===============================================================================
