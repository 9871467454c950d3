--------------------------- MODULE FileData_proofs ---------------------------
(***************************************************************************)
(* For every chunk size, file size and number of deletes in a batch: the    *)
(* chunked file implements ByteFile, a sequence of bytes.                   *)
(***************************************************************************)
EXTENDS FileData, ChunkPlan_proofs

Byte == Bytes \cup {0}

(***************************************************************************)
(* The inductive invariant.  The records have their fields (what is billed  *)
(* does not matter here).  Unless a setattr was cut short, no chunk reaches *)
(* beyond the size, except one that lies there as a whole: of the live      *)
(* file, one that setattr is still going to delete; of the durable one, one *)
(* whose delete was not yet durable, which a crash counts as a cut.         *)
(***************************************************************************)
Fields(f) == f \in [size : {f.size}, billed : {f.billed}, qB : {f.qB}, chunks : {f.chunks}]

Shape(f) == Fields(f) /\ f.size \in 0 .. MaxSize /\ f.chunks \in [FileChunks -> Contents(Byte)]

Within(f, k) == Len(f.chunks[k]) = 0 \/ k * ChunkSize + Len(f.chunks[k]) <= f.size

IInv ==
  /\ Shape(fdb) /\ Shape(fsaved) /\ spill \subseteq FileChunks /\ cut \in BOOLEAN
  /\ \A k \in spill : k * ChunkSize >= fdb.size
  /\ ~ cut => \A k \in FileChunks : /\ Within(fdb, k) \/ k \in spill
                                    /\ Within(fsaved, k) \/ k * ChunkSize >= fsaved.size

LEMMA Settled ==
  ASSUME IInv, ~ cut, spill = {}, NEW k \in FileChunks
  PROVE  Within(fdb, k)
  BY Zenon DEF IInv

(***************************************************************************)
(* Chunk numbers are numbers, and every byte of a file has a chunk.         *)
(***************************************************************************)
LEMMA ChunkNumbers ==
  ASSUME MaxSize \in Nat
  PROVE  /\ FileChunks \subseteq Nat
         /\ \A i \in 1 .. MaxSize : ChunkOf(i) \in FileChunks
  BY ChunksOfSize, Zenon DEF FileChunks

(***************************************************************************)
(* Billing changes the counters alone.                                      *)
(***************************************************************************)
Rewritten(f, n, c, d) == Billed([f EXCEPT !.size = n, !.chunks = c], d)

LEMMA BillingOnly ==
  ASSUME NEW f, Fields(f), NEW n, NEW c, NEW d
  PROVE  LET g == Rewritten(f, n, c, d)
         IN  Fields(g) /\ g.size = n /\ g.chunks = c
  BY Zenon DEF Fields, Billed, Rewritten

(***************************************************************************)
(* A byte of the content, from the chunk that has it.                       *)
(***************************************************************************)
LEMMA ByteOf ==
  ASSUME MaxSize \in Nat, NEW f, Shape(f), NEW i \in 1 .. f.size
  PROVE  LET k == ChunkOf(i)
             o == PlaceOf(i)
         IN  /\ k \in FileChunks /\ k \in Nat /\ o \in 1 .. ChunkSize
             /\ k * ChunkSize \in Nat /\ k * ChunkSize + o = i
             /\ ReadRange(f)[i] = ByteAt(f.chunks[k], o)
  <1>1. f.size \in Nat /\ f.size <= MaxSize
    BY DEF Shape
  <1>2. i \in Nat \ {0} /\ i \in 1 .. MaxSize
    BY <1>1
  <1>3. ChunkOf(i) \in FileChunks
    BY <1>2, ChunkNumbers
  <1>4. /\ ChunkOf(i) \in Nat /\ PlaceOf(i) \in 1 .. ChunkSize
        /\ ChunkOf(i) * ChunkSize + PlaceOf(i) = i
    BY <1>2, Position
  <1>5. ChunkOf(i) * ChunkSize \in Nat
    BY <1>4, Starts
  <1>6. ReadRange(f)[i] = ByteAt(f.chunks[ChunkOf(i)], PlaceOf(i))
    BY <1>1, Reading
  <1> QED BY <1>3, <1>4, <1>5, <1>6

(***************************************************************************)
(* In a file whose chunks lie within its size, what it has none of yet is   *)
(* zero.                                                                    *)
(***************************************************************************)
LEMMA BeyondIsZero ==
  ASSUME NEW f, NEW k \in Nat, NEW o \in 1 .. ChunkSize, f.size \in Nat, Within(f, k),
         f.chunks[k] \in Contents(Byte), k * ChunkSize + o > f.size
  PROVE  ByteAt(f.chunks[k], o) = 0
  <1>1. k * ChunkSize \in Nat /\ ChunkSize \in Nat
    BY Starts, ChunkSizeAssumption
  <1>2. Len(f.chunks[k]) \in Nat
    BY DEF Contents
  <1> DEFINE start == k * ChunkSize
  <1>3. start \in Nat /\ start + o > f.size
        /\ (Len(f.chunks[k]) = 0 \/ start + Len(f.chunks[k]) <= f.size)
    BY <1>1, Zenon DEF Within
  <1> HIDE DEF start
  <1>4. ~ (o <= Len(f.chunks[k]))
    BY <1>1, <1>2, <1>3
  <1> QED BY <1>4 DEF ByteAt

LEMMA InitInv == ASSUME MaxSize \in Nat, FileInit PROVE IInv /\ Abstract!Init
  <1>1. Fields(Empty) /\ Empty.size = 0 /\ Empty.chunks = [k \in FileChunks |-> <<>>]
    BY DEF Empty, Fields
  <1>2. <<>> \in Contents(Byte) /\ Len(<<>>) = 0
    BY ChunkSizeAssumption DEF Contents
  <1>3. Shape(Empty)
    BY <1>1, <1>2 DEF Shape
  <1>4. \A k \in FileChunks : Within(Empty, k)
    BY <1>1, <1>2 DEF Within
  <1>5. IInv
    BY <1>3, <1>4, Zenon DEF FileInit, IInv
  <1>6. ReadRange(Empty) = <<>>
    BY <1>1 DEF ReadRange
  <1> QED BY <1>5, <1>6 DEF FileInit, Abstract!Init

(***************************************************************************)
(* Vfs::write changes the bytes it names, and what it adds before them is   *)
(* zero.                                                                    *)
(***************************************************************************)
LEMMA WriteStep ==
  ASSUME MaxSize \in Nat, IInv, NEW off \in 0 .. MaxSize - 1, NEW n \in 1 .. MaxSize - off, NEW b \in Bytes,
         Write(off, [i \in 1 .. n |-> b])
  PROVE  IInv' /\ Abstract!Write(off, n, b)
  <1> DEFINE data == [i \in 1 .. n |-> b]
             ks == off \div ChunkSize .. (off + Len(data) - 1) \div ChunkSize
             size == Max({fdb.size, off + Len(data)})
             new(k) == PutChunk(fdb, k, off, data)
             old(k) == OldChunk(fdb, k)
  <1>1. /\ off \in Nat /\ n \in Nat \ {0} /\ off + n <= MaxSize /\ ChunkSize \in Nat \ {0}
        /\ fdb.size \in Nat /\ fdb.size <= MaxSize /\ 0 \in Byte
    BY ChunkSizeAssumption DEF IInv, Shape, Byte
  <1>2. data \in Seq(Byte) /\ Len(data) = n /\ \A i \in 1 .. n : data[i] = b
    BY <1>1 DEF Byte
  <1> HIDE DEF data
  <1>3. size = IF off + n > fdb.size THEN off + n ELSE fdb.size
    BY <1>1, <1>2, TwoMax
  <1>4. \A k \in FileChunks : k \in Nat /\ k * ChunkSize \in Nat
    BY Zenon, ChunkNumbers, Starts
  <1>5. \A k \in FileChunks : k \in ks <=> k * ChunkSize < off + n /\ off < k * ChunkSize + ChunkSize
    BY Zenon, <1>1, <1>2, <1>4, ExtentChunks
  <1>6. \A k \in FileChunks : fdb.chunks[k] \in Contents(Byte)
    BY DEF IInv, Shape
  <1>7. \A k \in FileChunks : k \in ks =>
          /\ new(k) \in Contents(Byte)
          /\ Len(new(k)) <= Len(old(k)) \/ k * ChunkSize + Len(new(k)) <= off + n
          /\ \A o \in 1 .. ChunkSize : ByteAt(new(k), o) =
                IF off < k * ChunkSize + o /\ k * ChunkSize + o <= off + n THEN data[k * ChunkSize + o - off]
                ELSE ByteAt(old(k), o)
    <2> SUFFICES ASSUME NEW k \in FileChunks, k \in ks
                 PROVE  /\ new(k) \in Contents(Byte)
                        /\ Len(new(k)) <= Len(old(k)) \/ k * ChunkSize + Len(new(k)) <= off + n
                        /\ \A o \in 1 .. ChunkSize : ByteAt(new(k), o) =
                              IF off < k * ChunkSize + o /\ k * ChunkSize + o <= off + n
                              THEN data[k * ChunkSize + o - off] ELSE ByteAt(old(k), o)
      OBVIOUS
    <2>1. /\ k \in Nat /\ fdb.chunks[k] \in Contents(Byte)
          /\ k * ChunkSize < off + Len(data) /\ off < k * ChunkSize + ChunkSize
      BY <1>2, <1>4, <1>5, <1>6
    <2>2. new(k) \in Contents(Byte) /\ Overwrites(new(k), old(k), k * ChunkSize, off, data)
      BY <1>1, <1>2, <2>1, PutChunkReads, Zenon
    <2> HIDE DEF new, old
    <2> QED BY <1>2, <2>2 DEF Overwrites
  <1>8. /\ Fields(fdb') /\ fdb'.size = size
        /\ fdb'.chunks = [k \in FileChunks |-> IF k \in ks THEN new(k) ELSE fdb.chunks[k]]
        /\ spill = {} /\ UNCHANGED <<fsaved, spill, cut>>
    <2>1. Fields(fdb)
      BY DEF IInv, Shape
    <2> DEFINE put == [k \in ks |-> new(k)]
               c == [k \in FileChunks |-> IF k \in ks THEN put[k] ELSE fdb.chunks[k]]
    <2>2. /\ fdb' = Rewritten(fdb, size, c, PlanDelta(fdb, size, put))
          /\ spill = {} /\ UNCHANGED <<fsaved, spill, cut>>
      BY DEF Write, data, Rewritten
    <2>3. c = [k \in FileChunks |-> IF k \in ks THEN new(k) ELSE fdb.chunks[k]]
      OBVIOUS
    <2> HIDE DEF c, put, size, ks, new
    <2>4. Fields(fdb') /\ fdb'.size = size /\ fdb'.chunks = c
      BY <2>1, <2>2, BillingOnly
    <2> QED BY <2>2, <2>3, <2>4
  <1> HIDE DEF ks, size, new
  <1>9. size \in 0 .. MaxSize
    BY <1>1, <1>3
  <1>10. Shape(fdb')
    BY <1>6, <1>7, <1>8, <1>9 DEF Shape
  <1>11. ASSUME ~ cut, NEW k \in FileChunks PROVE Within(fdb', k)
    <2>1. Within(fdb, k)
      BY <1>8, <1>11, Settled, Zenon
    <2>2. Len(fdb.chunks[k]) \in Nat /\ Len(<<>>) = 0
      BY <1>6 DEF Contents
    <2>3. CASE k \in ks
      <3>1. fdb'.chunks[k] = new(k) /\ Len(new(k)) \in Nat
        BY <1>7, <1>8, <2>3 DEF Contents
      <3> HIDE DEF old
      <3>2. Len(old(k)) = 0 \/ k * ChunkSize + Len(old(k)) <= fdb.size
        BY <2>1, <2>2 DEF Within, old, OldChunk
      <3>3. Len(old(k)) \in Nat
        BY <2>2 DEF old, OldChunk
      <3> DEFINE start == k * ChunkSize
                 len == Len(new(k))
                 was == Len(old(k))
      <3>4. /\ start \in Nat /\ len \in Nat /\ was \in Nat
            /\ len <= was \/ start + len <= off + n
            /\ was = 0 \/ start + was <= fdb.size
        BY <1>4, <1>7, <2>3, <3>1, <3>2, <3>3
      <3>5. len = 0 \/ start + len <= size
        <4> HIDE DEF start, len, was
        <4> QED BY <1>1, <1>3, <3>4
      <3> QED BY <1>8, <3>1, <3>5 DEF Within
    <2>4. CASE k \notin ks
      <3>1. fdb'.chunks[k] = fdb.chunks[k]
        BY <1>8, <2>4
      <3> DEFINE start == k * ChunkSize
                 len == Len(fdb.chunks[k])
      <3>2. start \in Nat /\ len \in Nat /\ (len = 0 \/ start + len <= fdb.size)
        BY <1>4, <2>1, <2>2 DEF Within
      <3>3. len = 0 \/ start + len <= size
        <4> HIDE DEF start, len
        <4> QED BY <1>1, <1>3, <3>2
      <3> QED BY <1>8, <3>1, <3>3 DEF Within
    <2> QED BY <2>3, <2>4
  <1>12. IInv'
    BY <1>8, <1>10, <1>11 DEF IInv
  <1>13. ASSUME NEW i \in 1 .. size
         PROVE  /\ i \in off + 1 .. off + n => ReadRange(fdb')[i] = b
                /\ i \notin off + 1 .. off + n =>
                     IF i <= fdb.size THEN ReadRange(fdb')[i] = ReadRange(fdb)[i]
                     ELSE cut \/ ReadRange(fdb')[i] = 0
    <2> DEFINE k == ChunkOf(i)
               o == PlaceOf(i)
    <2>1. /\ k \in FileChunks /\ k \in Nat /\ o \in 1 .. ChunkSize
          /\ k * ChunkSize \in Nat /\ k * ChunkSize + o = i
          /\ ReadRange(fdb')[i] = ByteAt(fdb'.chunks[k], o)
      BY <1>8, <1>10, ByteOf
    <2>2. i <= fdb.size => ReadRange(fdb)[i] = ByteAt(fdb.chunks[k], o)
      <3>1. i <= fdb.size => i \in 1 .. fdb.size
        BY <1>1
      <3>2. Shape(fdb)
        BY DEF IInv
      <3> QED BY <3>1, <3>2, ByteOf
    <2> HIDE DEF k, o
    <2>3. i > fdb.size => cut \/ ByteAt(fdb.chunks[k], o) = 0
      <3> SUFFICES ASSUME i > fdb.size, ~ cut PROVE ByteAt(fdb.chunks[k], o) = 0
        BY Zenon
      <3>1. Within(fdb, k)
        BY <1>8, <2>1, Settled, Zenon
      <3>2. fdb.chunks[k] \in Contents(Byte) /\ k * ChunkSize + o > fdb.size
        BY <1>6, <2>1, Zenon
      <3> QED BY <1>1, <2>1, <3>1, <3>2, BeyondIsZero, Zenon
    <2>4. CASE k \in ks
      <3>1. fdb'.chunks[k] = new(k)
        BY <1>8, <2>1, <2>4
      <3>2. ByteAt(new(k), o) = IF off < i /\ i <= off + n THEN data[i - off] ELSE ByteAt(old(k), o)
        BY <1>7, <2>1, <2>4, SMTT(30)
      <3>3. i \in off + 1 .. off + n => data[i - off] = b
        BY <1>1, <1>2
      <3>4. i <= fdb.size => old(k) = fdb.chunks[k]
        <4> DEFINE start == k * ChunkSize
        <4>1. start \in Nat /\ o \in 1 .. ChunkSize /\ start + o = i
          BY <2>1, Zenon
        <4>2. i <= fdb.size => ~ (start >= fdb.size)
          <5> HIDE DEF start
          <5> QED BY <1>1, <4>1
        <4> QED BY <4>2, Zenon DEF OldChunk
      <3>5. i > fdb.size => old(k) = fdb.chunks[k] \/ ByteAt(old(k), o) = 0
        <4>1. ByteAt(<<>>, o) = 0
          BY <2>1 DEF ByteAt
        <4> QED BY <4>1 DEF OldChunk
      <3>6. /\ ReadRange(fdb')[i] = ByteAt(new(k), o)
            /\ i \in off + 1 .. off + n <=> off < i /\ i <= off + n
            /\ i <= fdb.size \/ i > fdb.size
        <4>1. ReadRange(fdb')[i] = ByteAt(new(k), o)
          BY <2>1, <3>1, Zenon
        <4> QED BY <1>1, <1>3, <4>1
      <3> QED BY <2>2, <2>3, <3>2, <3>3, <3>4, <3>5, <3>6, Zenon
    <2>5. CASE k \notin ks
      <3>1. fdb'.chunks[k] = fdb.chunks[k]
        BY <1>8, <2>1, <2>5
      <3>2. i \notin off + 1 .. off + n
        <4> DEFINE start == k * ChunkSize
        <4>1. /\ start \in Nat /\ o \in 1 .. ChunkSize /\ start + o = i
              /\ ~ (start < off + n /\ off < start + ChunkSize)
          BY <1>5, <2>1, <2>5, Zenon
        <4> HIDE DEF start
        <4> QED BY <1>1, <4>1
      <3>3. i <= fdb.size \/ i > fdb.size
        BY <1>1, <1>3
      <3> QED BY <2>1, <2>2, <2>3, <3>1, <3>2, <3>3, Zenon
    <2> QED BY <2>4, <2>5
  <1>14. Len(ReadRange(fdb)) = fdb.size /\ Len(ReadRange(fdb')) = size
    BY <1>1, <1>8, <1>9, Reading
  <1>15. Abstract!Becomes(IF off + n > Len(ReadRange(fdb)) THEN off + n ELSE Len(ReadRange(fdb)),
                          off + 1 .. off + n)
    BY <1>3, <1>8, <1>13, <1>14 DEF Abstract!Becomes
  <1>16. \A i \in off + 1 .. off + n : ReadRange(fdb')[i] = b
    BY <1>1, <1>3, <1>13
  <1> QED BY <1>12, <1>15, <1>16 DEF Abstract!Write

(***************************************************************************)
(* Vfs::setattr keeps the bytes up to the new size; what it adds is zero    *)
(* unless an earlier one was cut short.                                     *)
(***************************************************************************)
LEMMA GrowStep ==
  ASSUME MaxSize \in Nat, IInv, NEW n \in 0 .. MaxSize, Truncate(n), n > fdb.size
  PROVE  IInv' /\ Abstract!Truncate(n)
  <1>1. /\ n \in Nat /\ ChunkSize \in Nat \ {0} /\ fdb.size \in Nat /\ Fields(fdb)
        /\ \A k \in FileChunks : fdb.chunks[k] \in Contents(Byte)
    BY ChunkSizeAssumption DEF IInv, Shape
  <1>2. /\ fdb' = [fdb EXCEPT !.size = n] /\ spill = {}
        /\ UNCHANGED <<spill, fsaved, cut>>
    BY DEF Truncate
  <1>3. Fields(fdb') /\ fdb'.size = n /\ fdb'.chunks = fdb.chunks
    BY <1>1, <1>2 DEF Fields
  <1>4. Shape(fdb')
    BY <1>3 DEF IInv, Shape
  <1>5. \A k \in FileChunks : k \in Nat /\ k * ChunkSize \in Nat
    BY ChunkNumbers, Starts
  <1>6. \A k \in FileChunks : Within(fdb, k) => Within(fdb', k)
    <2> SUFFICES ASSUME NEW k \in FileChunks, Within(fdb, k) PROVE Within(fdb', k)
      OBVIOUS
    <2>1. Len(fdb.chunks[k]) \in Nat
      BY <1>1 DEF Contents
    <2> QED BY <1>1, <1>3, <1>5, <2>1 DEF Within
  <1>7. IInv'
    BY <1>2, <1>4, <1>6 DEF IInv
  <1>8. ASSUME NEW i \in 1 .. n
        PROVE  IF i <= fdb.size THEN ReadRange(fdb')[i] = ReadRange(fdb)[i]
               ELSE cut \/ ReadRange(fdb')[i] = 0
    <2> DEFINE k == ChunkOf(i)
               o == PlaceOf(i)
    <2>1. /\ k \in FileChunks /\ k \in Nat /\ o \in 1 .. ChunkSize
          /\ k * ChunkSize \in Nat /\ k * ChunkSize + o = i
          /\ ReadRange(fdb')[i] = ByteAt(fdb.chunks[k], o)
      BY <1>3, <1>4, ByteOf
    <2>2. i <= fdb.size => ReadRange(fdb)[i] = ByteAt(fdb.chunks[k], o)
      <3>1. i <= fdb.size => i \in 1 .. fdb.size
        BY <1>1
      <3>2. Shape(fdb)
        BY DEF IInv
      <3> QED BY <3>1, <3>2, ByteOf
    <2> HIDE DEF k, o
    <2>3. i > fdb.size => cut \/ ByteAt(fdb.chunks[k], o) = 0
      <3> SUFFICES ASSUME i > fdb.size, ~ cut PROVE ByteAt(fdb.chunks[k], o) = 0
        BY Zenon
      <3>1. Within(fdb, k)
        BY <1>2, <2>1, Settled, Zenon
      <3>2. fdb.chunks[k] \in Contents(Byte) /\ k * ChunkSize + o > fdb.size
        BY <1>1, <2>1, Zenon
      <3> QED BY <1>1, <2>1, <3>1, <3>2, BeyondIsZero, Zenon
    <2> QED BY <1>1, <2>1, <2>2, <2>3
  <1>9. Len(ReadRange(fdb)) = fdb.size /\ Len(ReadRange(fdb')) = n
    BY <1>1, <1>3, Reading
  <1> QED BY <1>2, <1>7, <1>8, <1>9 DEF Abstract!Truncate, Abstract!Becomes

LEMMA ShrinkStep ==
  ASSUME MaxSize \in Nat, IInv, NEW n \in 0 .. MaxSize, Truncate(n), ~ (n > fdb.size)
  PROVE  IInv' /\ Abstract!Truncate(n)
  <1> DEFINE ks == {k \in FileChunks : k >= n \div ChunkSize /\ Len(fdb.chunks[k]) > 0}
             deletes == {k \in ks : k * ChunkSize >= n}
             left == [k \in FileChunks |-> IF k \in deletes THEN <<>>
                                       ELSE IF k \in ks THEN Trimmed(fdb, n, k) ELSE fdb.chunks[k]]
             now == FirstOf(deletes)
             after == [k \in FileChunks |-> IF k \in deletes \ now THEN fdb.chunks[k] ELSE left[k]]
  <1>1. /\ n \in Nat /\ ChunkSize \in Nat \ {0} /\ fdb.size \in Nat /\ Fields(fdb)
        /\ \A k \in FileChunks : fdb.chunks[k] \in Contents(Byte)
    BY ChunkSizeAssumption DEF IInv, Shape
  <1>2. /\ Fields(fdb') /\ fdb'.size = n /\ fdb'.chunks = after /\ spill = {} /\ n < fdb.size
        /\ spill' = deletes \ now /\ UNCHANGED <<fsaved, cut>>
    <2> DEFINE delta == BilledOf(n, left, ks) - BilledOf(fdb.size, fdb.chunks, ks)
    <2>1. /\ fdb' = Rewritten(fdb, n, after, delta)
          /\ spill = {} /\ spill' = deletes \ now /\ UNCHANGED <<fsaved, cut>> /\ n # fdb.size
      BY Zenon DEF Truncate, Rewritten
    <2> HIDE DEF delta, after, now, deletes
    <2>2. Fields(fdb') /\ fdb'.size = n /\ fdb'.chunks = after
      BY <1>1, <2>1, BillingOnly
    <2> QED BY <1>1, <2>1, <2>2
  <1>3. \A k \in FileChunks : k \in Nat /\ k * ChunkSize \in Nat /\ Len(fdb.chunks[k]) \in Nat
    BY <1>1, ChunkNumbers, Starts DEF Contents
  <1>4. \A k \in FileChunks : ~ (k * ChunkSize >= n) =>
          /\ Trimmed(fdb, n, k) \in Contents(Byte)
          /\ k * ChunkSize + Len(Trimmed(fdb, n, k)) <= n
          /\ \A o \in 1 .. ChunkSize : ByteAt(Trimmed(fdb, n, k), o) =
                IF k * ChunkSize + o <= n THEN ByteAt(fdb.chunks[k], o) ELSE 0
    <2> SUFFICES ASSUME NEW k \in FileChunks, ~ (k * ChunkSize >= n)
                 PROVE  /\ Trimmed(fdb, n, k) \in Contents(Byte)
                        /\ k * ChunkSize + Len(Trimmed(fdb, n, k)) <= n
                        /\ \A o \in 1 .. ChunkSize : ByteAt(Trimmed(fdb, n, k), o) =
                              IF k * ChunkSize + o <= n THEN ByteAt(fdb.chunks[k], o) ELSE 0
      OBVIOUS
    <2>1. k \in Nat /\ fdb.chunks[k] \in Contents(Byte) /\ k * ChunkSize <= n
      BY <1>1, <1>3
    <2> QED BY <1>1, <2>1, TrimmedReads
  <1>5. <<>> \in Contents(Byte) /\ Len(<<>>) = 0
    BY <1>1 DEF Contents
  <1>6. now \subseteq deletes
    BY LowestSome, Zenon DEF FirstOf
  <1>7. ASSUME NEW k \in FileChunks
        PROVE  \/ k * ChunkSize >= n /\ k \in spill' /\ after[k] = fdb.chunks[k]
               \/ after[k] = <<>> /\ k * ChunkSize >= n
               \/ after[k] = fdb.chunks[k] /\ k \notin ks
               \/ after[k] = Trimmed(fdb, n, k) /\ ~ (k * ChunkSize >= n)
    BY <1>2
  <1> HIDE DEF after, now
  <1>8. \A k \in FileChunks : after[k] \in Contents(Byte)
    BY <1>1, <1>4, <1>5, <1>7
  <1>9. Shape(fdb')
    <2>1. after = [k \in FileChunks |-> after[k]]
      BY DEF after
    <2> QED BY <1>2, <1>8, <2>1 DEF Shape
  <1>10. ASSUME NEW k \in FileChunks, Within(fdb, k)
         PROVE  Within(fdb', k) \/ k \in spill'
    <2>1. CASE after[k] = <<>>
      BY <1>2, <1>5, <2>1 DEF Within
    <2>2. CASE after[k] = fdb.chunks[k] /\ k \notin ks
      <3>1. k < n \div ChunkSize \/ Len(fdb.chunks[k]) = 0
        <4>1. n \div ChunkSize \in Nat
          BY <1>1, Quotient
        <4>2. ~ (k >= n \div ChunkSize) \/ ~ (Len(fdb.chunks[k]) > 0)
          BY <2>2
        <4> QED BY <1>3, <4>1, <4>2
      <3>2. CASE Len(fdb.chunks[k]) = 0
        BY <1>2, <2>2, <3>2 DEF Within
      <3>3. CASE k < n \div ChunkSize
        <4>1. k * ChunkSize + ChunkSize <= (n \div ChunkSize) * ChunkSize
          BY Zenon, <1>1, <1>3, <3>3, Quotient, LaterStarts
        <4>2. (n \div ChunkSize) * ChunkSize <= n /\ (n \div ChunkSize) * ChunkSize \in Nat
          BY <1>1, Quotient, Starts
        <4>3. Len(fdb.chunks[k]) <= ChunkSize
          BY <1>1 DEF Contents
        <4>4. k * ChunkSize + Len(fdb.chunks[k]) <= n
          <5> DEFINE start == k * ChunkSize
                     end == (n \div ChunkSize) * ChunkSize
                     len == Len(fdb.chunks[k])
          <5>1. /\ start \in Nat /\ end \in Nat /\ len \in Nat /\ start + ChunkSize <= end
                /\ end <= n /\ len <= ChunkSize
            BY <1>3, <4>1, <4>2, <4>3
          <5> HIDE DEF start, end, len
          <5>2. start + len <= n
            BY <1>1, <5>1
          <5> QED BY <5>2 DEF start, len
        <4> QED BY <1>2, <2>2, <4>4 DEF Within
      <3> QED BY <3>1, <3>2, <3>3
    <2>3. CASE after[k] = Trimmed(fdb, n, k) /\ ~ (k * ChunkSize >= n)
      BY <1>2, <1>4, <2>3 DEF Within
    <2> QED BY <1>7, <2>1, <2>2, <2>3
  <1>11. /\ spill' \subseteq FileChunks
         /\ \A k \in spill' : k * ChunkSize >= fdb'.size
    BY <1>2
  <1>12. IInv'
    BY <1>2, <1>9, <1>10, <1>11 DEF IInv
  <1>13. ASSUME NEW i \in 1 .. n PROVE ReadRange(fdb')[i] = ReadRange(fdb)[i]
    <2> DEFINE k == ChunkOf(i)
               o == PlaceOf(i)
    <2>1. /\ k \in FileChunks /\ k \in Nat /\ o \in 1 .. ChunkSize
          /\ k * ChunkSize \in Nat /\ k * ChunkSize + o = i
          /\ ReadRange(fdb')[i] = ByteAt(after[k], o)
      BY <1>2, <1>9, ByteOf
    <2>2. ReadRange(fdb)[i] = ByteAt(fdb.chunks[k], o)
      <3>1. i \in 1 .. fdb.size
        BY <1>1, <1>2
      <3> QED BY <3>1, ByteOf DEF IInv
    <2> HIDE DEF k, o
    <2>3. ~ (k * ChunkSize >= n)
      BY <1>1, <2>1
    <2>4. ByteAt(after[k], o) = ByteAt(fdb.chunks[k], o)
      BY <1>1, <1>4, <1>7, <2>1, <2>3
    <2> QED BY <2>1, <2>2, <2>4
  <1>14. Len(ReadRange(fdb)) = fdb.size /\ Len(ReadRange(fdb')) = n
    BY <1>1, <1>2, Reading
  <1>15. \A i \in 1 .. n : i <= fdb.size
    BY <1>1, <1>2
  <1> QED BY <1>2, <1>12, <1>13, <1>14, <1>15 DEF Abstract!Truncate, Abstract!Becomes

(***************************************************************************)
(* The deletes that follow are of chunks beyond the size: nobody sees them. *)
(***************************************************************************)
LEMMA SpillStep ==
  ASSUME MaxSize \in Nat, IInv, SpillDeletes
  PROVE  IInv' /\ UNCHANGED Abstract!vars
  <1> DEFINE now == FirstOf(spill)
  <1>1. now \subseteq spill
    BY LowestSome DEF FirstOf
  <1> HIDE DEF now
  <1>2. /\ fdb' = [fdb EXCEPT !.chunks = [k \in FileChunks |-> IF k \in now THEN <<>> ELSE @[k]]]
        /\ spill' = spill \ now /\ UNCHANGED <<fsaved, cut>>
    BY DEF SpillDeletes, now
  <1>3. Fields(fdb) /\ fdb.size \in Nat /\ ChunkSize \in Nat \ {0}
    BY ChunkSizeAssumption DEF IInv, Shape
  <1>4. /\ Fields(fdb') /\ fdb'.size = fdb.size
        /\ fdb'.chunks = [k \in FileChunks |-> IF k \in now THEN <<>> ELSE fdb.chunks[k]]
    BY <1>2, <1>3 DEF Fields
  <1>5. <<>> \in Contents(Byte) /\ Len(<<>>) = 0
    BY <1>3 DEF Contents
  <1>6. Shape(fdb')
    BY <1>4, <1>5 DEF IInv, Shape
  <1>7. \A k \in FileChunks : Within(fdb, k) => Within(fdb', k)
    BY <1>4, <1>5 DEF Within
  <1>8. \A k \in now : Within(fdb', k)
    BY <1>1, <1>4, <1>5 DEF IInv, Within
  <1>9. IInv'
    BY <1>1, <1>2, <1>4, <1>6, <1>7, <1>8 DEF IInv
  <1>10. ASSUME NEW i \in 1 .. fdb.size PROVE ReadRange(fdb')[i] = ReadRange(fdb)[i]
    <2> DEFINE k == ChunkOf(i)
               o == PlaceOf(i)
    <2>1. /\ k \in FileChunks /\ k \in Nat /\ o \in 1 .. ChunkSize
          /\ k * ChunkSize \in Nat /\ k * ChunkSize + o = i
          /\ ReadRange(fdb')[i] = ByteAt(fdb'.chunks[k], o)
      BY <1>4, <1>6, ByteOf
    <2>2. ReadRange(fdb)[i] = ByteAt(fdb.chunks[k], o)
      BY ByteOf DEF IInv
    <2> HIDE DEF k, o
    <2>3. k \notin now
      BY <1>1, <1>3, <2>1 DEF IInv
    <2> QED BY <1>4, <2>1, <2>2, <2>3
  <1>11. ReadRange(fdb') = ReadRange(fdb)
    <2>1. DOMAIN ReadRange(fdb') = 1 .. fdb.size /\ DOMAIN ReadRange(fdb) = 1 .. fdb.size
      BY Zenon, <1>3, <1>4, Reading
    <2>2. /\ ReadRange(fdb') = [i \in 1 .. fdb.size |-> ReadRange(fdb')[i]]
          /\ ReadRange(fdb) = [i \in 1 .. fdb.size |-> ReadRange(fdb)[i]]
      BY <1>4 DEF ReadRange
    <2> QED BY <1>10, <2>2
  <1> QED BY <1>2, <1>9, <1>11 DEF Abstract!vars

(***************************************************************************)
(* A crash falls back to the durable file.  When it has chunks beyond its   *)
(* size, that is a cut.                                                     *)
(***************************************************************************)
LEMMA CrashStep ==
  ASSUME MaxSize \in Nat, IInv, FileCrash
  PROVE  IInv' /\ Abstract!Crash
  <1>1. /\ fdb' = fsaved /\ spill' = {} /\ fsaved' = fsaved
        /\ cut' = (cut \/ Beyond(fsaved) # {})
    BY DEF FileCrash
  <1>2. ASSUME ~ cut', NEW k \in FileChunks PROVE Within(fsaved, k)
    <2>1. ~ cut /\ k \notin Beyond(fsaved)
      BY Zenon, <1>1, <1>2
    <2>2. Within(fsaved, k) \/ k * ChunkSize >= fsaved.size
      BY <2>1 DEF IInv
    <2>3. Len(fsaved.chunks[k]) \in Nat
      BY DEF IInv, Shape, Contents
    <2> QED BY <2>1, <2>2, <2>3 DEF Beyond, Within
  <1>3. cut' \in BOOLEAN
    BY <1>1 DEF IInv
  <1>4. IInv'
    BY <1>1, <1>2, <1>3 DEF IInv
  <1>5. cut' \in {cut, TRUE}
    BY <1>1, Zenon DEF IInv
  <1> QED BY <1>1, <1>4, <1>5, Zenon DEF Abstract!Crash

LEMMA FlushStep ==
  ASSUME MaxSize \in Nat, IInv, FileFlush
  PROVE  IInv' /\ Abstract!Flush
  <1>1. fsaved' = fdb /\ UNCHANGED <<fdb, spill, cut>>
    BY DEF FileFlush
  <1>2. /\ Shape(fdb') /\ Shape(fsaved') /\ spill' \subseteq FileChunks /\ cut' \in BOOLEAN
        /\ \A k \in spill' : k * ChunkSize >= fdb'.size
    BY <1>1, Zenon DEF IInv
  <1>3. ASSUME ~ cut', NEW k \in FileChunks
        PROVE  /\ Within(fdb', k) \/ k \in spill'
               /\ Within(fsaved', k) \/ k * ChunkSize >= fsaved'.size
    BY <1>1, <1>3, Zenon DEF IInv
  <1>4. IInv'
    BY <1>2, <1>3, Zenon DEF IInv
  <1> QED BY <1>1, <1>4 DEF Abstract!Flush

LEMMA TearStep ==
  ASSUME MaxSize \in Nat, IInv, SpillFails
  PROVE  IInv' /\ Abstract!Tear
  <1>1. spill' = {} /\ cut' = TRUE /\ UNCHANGED <<fdb, fsaved>>
    BY DEF SpillFails
  <1>2. IInv'
    BY <1>1 DEF IInv
  <1> QED BY <1>1, <1>2 DEF Abstract!Tear

LEMMA Step ==
  ASSUME MaxSize \in Nat, IInv, [FileNext]_fvars
  PROVE  IInv' /\ [Abstract!Next]_(Abstract!vars)
  <1> DEFINE Goal == IInv' /\ [Abstract!Next]_(Abstract!vars)
  <1>1. ASSUME NEW off \in 0 .. MaxSize - 1, NEW n \in 1 .. MaxSize - off, NEW b \in Bytes,
               Write(off, [i \in 1 .. n |-> b])
        PROVE  Goal
    <2>1. IInv' /\ Abstract!Write(off, n, b)
      BY Zenon, <1>1, WriteStep
    <2> QED BY <2>1 DEF Abstract!Next
  <1>2. ASSUME NEW n \in 0 .. MaxSize, Truncate(n) PROVE Goal
    <2>1. IInv' /\ Abstract!Truncate(n)
      BY <1>2, GrowStep, ShrinkStep
    <2> QED BY <2>1 DEF Abstract!Next
  <1>3. CASE SpillDeletes
    BY <1>3, SpillStep
  <1>4. CASE SpillFails
    BY <1>4, TearStep DEF Abstract!Next
  <1>5. CASE FileFlush
    BY <1>5, FlushStep DEF Abstract!Next
  <1>6. CASE FileCrash
    BY <1>6, CrashStep DEF Abstract!Next
  <1>7. CASE UNCHANGED fvars
    BY <1>7 DEF fvars, IInv, Abstract!vars
  <1> QED BY <1>1, <1>2, <1>3, <1>4, <1>5, <1>6, <1>7, Zenon DEF FileNext

(***************************************************************************)
(* The chunks of a file implement a sequence of bytes: a write or a         *)
(* truncate, wherever it falls on chunk boundaries, changes exactly the     *)
(* bytes it names; growth shows zeros unless a setattr ended before its     *)
(* last delete; a crash falls back to what was durable (plan_write,         *)
(* plan_truncate, Vfs::write, Vfs::setattr).                                *)
(***************************************************************************)
THEOREM FileImplementsByteFile == FileSpec => ImplementsByteFile
  <1>1. FileInit => IInv /\ Abstract!Init
    BY InitInv, FileAssumption
  <1>2. IInv /\ [FileNext]_fvars => IInv' /\ [Abstract!Next]_(Abstract!vars)
    BY Step, FileAssumption
  <1> QED BY <1>1, <1>2, PTL DEF FileSpec, ImplementsByteFile, Abstract!Spec
==============================================================================
