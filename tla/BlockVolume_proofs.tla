-------------------------- MODULE BlockVolume_proofs --------------------------
(***************************************************************************)
(* For every chunk size, device size, number of requests in flight and      *)
(* batch size: what the device answered is what it holds (and, under FUA,   *)
(* what is durable), and a commit changes the bytes of its extent only.     *)
(***************************************************************************)
EXTENDS BlockVolume, ChunkPlan_proofs

Byte == Bytes \cup {0}

\* Place o of chunk k is a byte of the device; it is one of request c.
Exists(k, o) == k * ChunkSize + o <= Size
Asked(c, k, o) == c.off < k * ChunkSize + o /\ k * ChunkSize + o <= c.off + c.len

(***************************************************************************)
(* The inductive invariant.  A request that is not answered holds the locks *)
(* of the chunks it has a byte in, and no two hold one in common: what a    *)
(* request planned from the chunks it read is still right when it commits.  *)
(*                                                                          *)
(* Planned: each new chunk is the old one with the extent overwritten, and  *)
(* a chunk of the extent without a new one reads as asked already, or is a  *)
(* covered one of a trim with batches to come.  A trim between two batches  *)
(* has its edges done.  A committed request reads as asked in all of its    *)
(* chunks, and durably so when FUA is about to be answered.                 *)
(***************************************************************************)
Ats == {"idle", "plan", "undo", "commit", "flush", "ack"}
Ops == {"", "write", "trim", "zeroes"}

DiskShape(d) == d \in [size : {Size}, qB : {d.qB}, chunks : [Chunks -> Contents(Byte)]]

Shape(c) ==
  c \in [at : Ats, op : Ops, off : Nat, len : Nat, byte : Byte, fua : BOOLEAN,
         new : {c.new}, delta : {c.delta}, edges : BOOLEAN, more : BOOLEAN]

Fits(c) ==
  /\ c.len > 0 /\ c.off + c.len <= Size
  /\ c.op # "write" => c.byte = 0

Locks(c) == IF c.at = "idle" THEN {} ELSE ChunksOf(c.off, c.len)

\* Chunk k of d reads as c asks where it asks.
Holds(d, c, k) == \A o \in 1 .. ChunkSize : Asked(c, k, o) => ByteAt(d.chunks[k], o) = c.byte

\* s is chunk k of d, overwritten by c.
Written(d, c, k, s) ==
  /\ s \in Contents(Byte)
  /\ \A o \in 1 .. ChunkSize : Exists(k, o) =>
        ByteAt(s, o) = IF Asked(c, k, o) THEN c.byte ELSE ByteAt(d.chunks[k], o)

Planned(d, c) ==
  /\ DOMAIN c.new \subseteq ChunksOf(c.off, c.len)
  /\ \A k \in DOMAIN c.new : Written(d, c, k, c.new[k])
  /\ \A k \in ChunksOf(c.off, c.len) :
        k \in DOMAIN c.new \/ Holds(d, c, k) \/ (c.more /\ FullyCovered(c, k))
  /\ c.more => c.op = "trim"

EdgesDone(d, c) ==
  c.op = "trim" /\ \A k \in ChunksOf(c.off, c.len) : FullyCovered(c, k) \/ Holds(d, c, k)

HoldsAll(d, c) == \A k \in ChunksOf(c.off, c.len) : Holds(d, c, k)

\* Request c, on a device that holds d, with d0 durable.
Right(d, d0, c) ==
  /\ c.at # "idle" => Fits(c)
  /\ c.at = "plan" /\ c.edges => EdgesDone(d, c)
  /\ c.at = "commit" => Planned(d, c)
  /\ c.at \in {"flush", "ack"} => HoldsAll(d, c)
  /\ c.at = "ack" /\ c.fua => HoldsAll(d0, c)

Exclusive ==
  /\ locked = [t \in Threads |-> Locks(pc[t])]
  /\ \A t, u \in Threads : t # u => locked[t] \cap locked[u] = {}

IInv ==
  /\ DiskShape(db) /\ DiskShape(saved)
  /\ pc = [t \in Threads |-> pc[t]] /\ \A t \in Threads : Shape(pc[t])
  /\ Exclusive
  /\ \A t \in Threads : Right(db, saved, pc[t])

(***************************************************************************)
(* The chunks of a request are chunks of the device that have a byte of it. *)
(***************************************************************************)
LEMMA DeviceChunks ==
  /\ Chunks \subseteq Nat
  /\ \A i \in 1 .. Size : ChunkOf(i) \in Chunks
  /\ \A k \in Chunks : k * ChunkSize \in Nat /\ k * ChunkSize < Size
  <1>1. Size \in Nat /\ Size > 0
    BY BlockAssumption
  <1>2. /\ Chunks \subseteq Nat /\ \A i \in 1 .. Size : ChunkOf(i) \in Chunks
        /\ \A k \in Chunks : k * ChunkSize < Size
    BY <1>1, ChunksOfSize DEF Chunks
  <1> QED BY <1>2, Starts

LEMMA ExtentOfDevice ==
  ASSUME NEW c, Shape(c), Fits(c)
  PROVE  /\ c.off \in Nat /\ c.len \in Nat \ {0} /\ c.off + c.len <= Size
         /\ ChunksOf(c.off, c.len) \subseteq Chunks
         /\ \A k \in Chunks : k \in ChunksOf(c.off, c.len)
                              <=> (k * ChunkSize < c.off + c.len /\ c.off < k * ChunkSize + ChunkSize)
  <1>1. c.off \in Nat /\ c.len \in Nat \ {0} /\ c.off + c.len <= Size /\ Size \in Nat \ {0}
    BY BlockAssumption DEF Shape, Fits
  <1>2. \A k \in Nat : k \in ChunksOf(c.off, c.len)
                       <=> (k * ChunkSize < c.off + c.len /\ c.off < k * ChunkSize + ChunkSize)
    BY <1>1, ExtentChunks, Zenon DEF ChunksOf
  <1>3. ChunksOf(c.off, c.len) \subseteq Nat
    <2>1. c.off \in Nat /\ c.off + c.len - 1 \in Nat
      BY <1>1
    <2>2. c.off \div ChunkSize \in Nat /\ (c.off + c.len - 1) \div ChunkSize \in Nat
      BY <2>1, Quotient, Zenon
    <2> QED BY <2>2 DEF ChunksOf
  <1>4. ASSUME NEW k \in Nat, k * ChunkSize < c.off + c.len PROVE k \in Chunks
    <2> DEFINE start == k * ChunkSize
    <2>1. start \in Nat /\ start < c.off + c.len
      BY <1>4, Starts
    <2>2. start + 1 \in 1 .. Size
      <3> HIDE DEF start
      <3> QED BY <1>1, <2>1
    <2>3. ChunkOf(start + 1) = k
      <3>1. start + 1 \in Nat \ {0} /\ start < start + 1 /\ start + 1 <= start + ChunkSize
        <4> HIDE DEF start
        <4> QED BY <2>1, ChunkSizeAssumption
      <3> QED BY <3>1, PositionUnique
    <2> QED BY <2>2, <2>3, DeviceChunks
  <1> QED BY <1>1, <1>2, <1>3, <1>4, DeviceChunks

(***************************************************************************)
(* What a device reads as at a byte of a request that all its chunks hold.  *)
(***************************************************************************)
LEMMA DeviceByte ==
  ASSUME NEW d, DiskShape(d), NEW i \in 1 .. Size
  PROVE  LET k == ChunkOf(i)
             o == PlaceOf(i)
         IN  /\ k \in Chunks /\ o \in 1 .. ChunkSize
             /\ k * ChunkSize \in Nat /\ k * ChunkSize + o = i
             /\ ReadRange(d)[i] = ByteAt(d.chunks[k], o)
  <1>1. d.size = Size /\ Size \in Nat
    BY BlockAssumption DEF DiskShape
  <1>2. i \in Nat \ {0}
    BY <1>1
  <1>3. /\ ChunkOf(i) \in Nat /\ PlaceOf(i) \in 1 .. ChunkSize
        /\ ChunkOf(i) * ChunkSize + PlaceOf(i) = i
    BY <1>2, Position
  <1>4. ReadRange(d)[i] = ByteAt(d.chunks[ChunkOf(i)], PlaceOf(i))
    BY <1>1, Reading
  <1> QED BY <1>3, <1>4, DeviceChunks

LEMMA HeldReads ==
  ASSUME NEW d, DiskShape(d), NEW c, Shape(c), Fits(c), HoldsAll(d, c), NEW i \in Extent(c)
  PROVE  ReadRange(d)[i] = c.byte
  <1>1. /\ c.off \in Nat /\ c.len \in Nat \ {0} /\ c.off + c.len <= Size /\ Size \in Nat
    BY ExtentOfDevice, BlockAssumption
  <1>2. i \in 1 .. Size /\ c.off < i /\ i <= c.off + c.len
    BY <1>1 DEF Extent
  <1> DEFINE k == ChunkOf(i)
             o == PlaceOf(i)
  <1>3. /\ k \in Chunks /\ o \in 1 .. ChunkSize /\ k * ChunkSize \in Nat /\ k * ChunkSize + o = i
        /\ ReadRange(d)[i] = ByteAt(d.chunks[k], o)
    BY <1>2, DeviceByte
  <1> HIDE DEF k, o
  <1>4. k * ChunkSize < c.off + c.len /\ c.off < k * ChunkSize + ChunkSize
    <2> DEFINE start == k * ChunkSize
    <2>1. start \in Nat /\ start + o = i
      BY <1>3
    <2> HIDE DEF start
    <2>2. start < c.off + c.len /\ c.off < start + ChunkSize
      BY <1>1, <1>2, <1>3, <2>1, ChunkSizeAssumption
    <2> QED BY <2>2 DEF start
  <1>5. k \in ChunksOf(c.off, c.len)
    BY <1>3, <1>4, ExtentOfDevice
  <1>6. Asked(c, k, o)
    BY <1>2, <1>3 DEF Asked
  <1> QED BY <1>3, <1>5, <1>6 DEF HoldsAll, Holds

(***************************************************************************)
(* Stripping trailing zeros changes nothing that is read.                   *)
(***************************************************************************)
LEMMA Stripped ==
  ASSUME NEW s, s \in Contents(Byte)
  PROVE  /\ TrimTrailingZeroes(s) \in Contents(Byte)
         /\ \A o \in 1 .. ChunkSize : ByteAt(TrimTrailingZeroes(s), o) = ByteAt(s, o)
  <1> DEFINE N == NonZero(s)
             n == Len(s)
  <1>1. s \in Seq(Byte) /\ n \in Nat /\ n <= ChunkSize /\ DOMAIN s = 1 .. n /\ ChunkSize \in Nat
    BY ChunkSizeAssumption DEF Contents
  <1>2. N \subseteq 1 .. n /\ \A j \in 1 .. n : j \notin N => s[j] = 0
    BY <1>1 DEF NonZero
  <1>3. CASE N = {}
    <2>1. TrimTrailingZeroes(s) = <<>>
      BY <1>3 DEF TrimTrailingZeroes
    <2>2. <<>> \in Contents(Byte) /\ Len(<<>>) = 0
      BY <1>1 DEF Contents
    <2>3. \A o \in 1 .. ChunkSize : ByteAt(s, o) = 0
      BY <1>1, <1>2, <1>3 DEF ByteAt
    <2>4. \A o \in 1 .. ChunkSize : ByteAt(<<>>, o) = 0
      BY <2>2 DEF ByteAt
    <2> QED BY <2>1, <2>2, <2>3, <2>4
  <1>4. CASE N # {}
    <2> DEFINE m == Max(N)
               z == SubSeq(s, 1, m)
    <2>1. m \in N /\ \A j \in N : m >= j
      BY <1>1, <1>2, <1>4, LargestOf
    <2> HIDE DEF m, N
    <2>2. m \in 1 .. n
      BY <1>2, <2>1
    <2> HIDE DEF n
    <2>3. TrimTrailingZeroes(s) = z
      BY <1>4, Zenon DEF TrimTrailingZeroes, m, N
    <2>4. z \in Seq(Byte) /\ Len(z) = m /\ \A j \in 1 .. m : z[j] = s[j]
      BY <1>1, <2>2 DEF n
    <2> HIDE DEF z
    <2>5. z \in Contents(Byte)
      BY <1>1, <2>2, <2>4 DEF Contents
    <2>6. ASSUME NEW o \in 1 .. ChunkSize PROVE ByteAt(z, o) = ByteAt(s, o)
      <3>1. CASE o <= m
        <4>1. o \in 1 .. m /\ o <= n
          BY <1>1, <2>2, <3>1
        <4> QED BY <2>4, <4>1 DEF ByteAt, n
      <3>2. CASE ~ (o <= m)
        <4>1. ByteAt(z, o) = 0
          BY <2>4, <3>2 DEF ByteAt
        <4>2. o <= n => s[o] = 0
          <5>1. o \notin N
            BY <1>1, <2>1, <2>2, <3>2
          <5> QED BY <1>1, <1>2, <5>1
        <4> QED BY <4>1, <4>2 DEF ByteAt, n
      <3> QED BY <3>1, <3>2
    <2> QED BY <2>3, <2>5, <2>6
  <1> QED BY <1>3, <1>4

(***************************************************************************)
(* stage_zeroes_for_existing_chunk: the chunk with the extent zeroed.       *)
(***************************************************************************)
LEMMA ZeroesWritten ==
  ASSUME DiskShape(db), NEW c, Shape(c), Fits(c), c.op # "write", NEW k \in ChunksOf(c.off, c.len)
  PROVE  Written(db, c, k, StageZeroes(c, k))
  <1> DEFINE old == db.chunks[k]
             start == k * ChunkSize
             len == Len(old)
             end == ChunkEnd(k)
             off == c.off
             stop == c.off + c.len
             from == Max({off, start}) - start
             last == Min({stop, end}) - start
             to == Min({last, len})
             zero == [j \in DOMAIN old |-> IF start + j \in Extent(c) THEN 0 ELSE old[j]]
  <1>1. /\ off \in Nat /\ stop \in Nat /\ stop <= Size /\ Size \in Nat /\ c.byte = 0
        /\ ChunkSize \in Nat \ {0}
    BY ExtentOfDevice, BlockAssumption, ChunkSizeAssumption DEF Fits
  <1>2. k \in Chunks /\ k \in Nat /\ start \in Nat /\ start < Size
    BY ExtentOfDevice, DeviceChunks, Zenon
  <1>3. old \in Contents(Byte)
    BY <1>2 DEF DiskShape
  <1>4. old \in Seq(Byte) /\ len \in Nat /\ len <= ChunkSize /\ DOMAIN old = 1 .. len
    BY <1>3 DEF Contents
  <1>5. (k + 1) * ChunkSize = start + ChunkSize
    BY <1>2, Starts
  <1>6. end = IF start + ChunkSize <= Size THEN start + ChunkSize ELSE Size
    <2>1. start + ChunkSize \in Int /\ Size \in Int
      BY <1>1, <1>2
    <2> QED BY <1>5, <2>1, TwoMin DEF ChunkEnd
  <1>7. \A o : /\ Exists(k, o) <=> start + o <= Size
               /\ Asked(c, k, o) <=> off < start + o /\ start + o <= stop
    BY DEF Exists, Asked
  <1>8. StageZeroes(c, k) = IF off <= start /\ end <= stop THEN <<>>
                            ELSE IF from >= to THEN old ELSE TrimTrailingZeroes(zero)
    BY DEF StageZeroes, FullyCovered
  <1>9. \A j \in Int : start + j \in Extent(c) <=> off < start + j /\ start + j <= stop
    BY <1>1, <1>2 DEF Extent
  <1> HIDE DEF start, end, off, stop
  <1>10. from = (IF off >= start THEN off ELSE start) - start
    BY <1>1, <1>2, TwoMax
  <1>11. end \in Nat /\ last = (IF stop <= end THEN stop ELSE end) - start
    <2>1. end \in Nat
      BY <1>1, <1>2, <1>6
    <2> QED BY <1>1, <2>1, TwoMin
  <1>12. from \in Int /\ last \in Int
    <2>1. from \in Int
      BY <1>1, <1>2, <1>10
    <2> QED BY <1>1, <1>2, <1>11, <2>1
  <1> HIDE DEF from, last
  <1>13. to = IF last <= len THEN last ELSE len
    BY <1>4, <1>12, TwoMin
  <1> HIDE DEF to
  <1>14. CASE off <= start /\ end <= stop
    <2>1. <<>> \in Contents(Byte) /\ Len(<<>>) = 0
      BY <1>1 DEF Contents
    <2>2. \A o \in 1 .. ChunkSize : Exists(k, o) => Asked(c, k, o)
      <3> SUFFICES ASSUME NEW o \in 1 .. ChunkSize, start + o <= Size
                   PROVE  off < start + o /\ start + o <= stop
        BY <1>7
      <3>1. start + o <= end
        BY <1>1, <1>2, <1>6
      <3> QED BY <1>1, <1>2, <1>11, <1>14, <3>1
    <2>3. \A o \in 1 .. ChunkSize : ByteAt(<<>>, o) = 0
      BY <2>1 DEF ByteAt
    <2> QED BY <1>1, <1>8, <1>14, <2>1, <2>2, <2>3 DEF Written
  <1>15. CASE ~ (off <= start /\ end <= stop) /\ from >= to
    <2>1. StageZeroes(c, k) = old
      BY <1>8, <1>15
    <2>2. ASSUME NEW o \in 1 .. ChunkSize, Exists(k, o), Asked(c, k, o) PROVE ByteAt(old, o) = 0
      <3>1. start + o <= Size /\ off < start + o /\ start + o <= stop
        BY <1>7, <2>2
      <3>2. o > from
        BY <1>1, <1>2, <1>10, <3>1
      <3>3. o <= last
        <4>1. start + o <= end
          BY <1>1, <1>2, <1>6, <3>1
        <4> QED BY <1>1, <1>2, <1>11, <3>1, <4>1
      <3>4. ~ (o <= len)
        BY <1>4, <1>12, <1>13, <1>15, <3>2, <3>3
      <3> QED BY <3>4 DEF ByteAt
    <2> QED BY <1>1, <1>3, <2>1, <2>2 DEF Written
  <1>16. CASE ~ (off <= start /\ end <= stop) /\ ~ (from >= to)
    <2>1. StageZeroes(c, k) = TrimTrailingZeroes(zero)
      BY <1>8, <1>16
    <2>2. zero \in Seq(Byte) /\ Len(zero) = len
      <3>1. \A j \in 1 .. len : (IF start + j \in Extent(c) THEN 0 ELSE old[j]) \in Byte
        BY <1>4 DEF Byte
      <3>2. zero = [j \in 1 .. len |-> IF start + j \in Extent(c) THEN 0 ELSE old[j]]
        BY <1>4
      <3> HIDE DEF len
      <3> QED BY <1>4, <3>1, <3>2
    <2>3. zero \in Contents(Byte)
      BY <1>4, <2>2 DEF Contents
    <2>4. ASSUME NEW o \in 1 .. ChunkSize
          PROVE  ByteAt(zero, o) = IF Asked(c, k, o) THEN 0 ELSE ByteAt(old, o)
      <3>1. Asked(c, k, o) <=> start + o \in Extent(c)
        BY <1>7, <1>9
      <3>2. CASE o <= len
        <4>1. zero[o] = IF start + o \in Extent(c) THEN 0 ELSE old[o]
          BY <1>1, <1>4, <3>2
        <4> QED BY <2>2, <3>1, <3>2, <4>1 DEF ByteAt
      <3>3. CASE ~ (o <= len)
        BY <2>2, <3>3 DEF ByteAt
      <3> QED BY <3>2, <3>3
    <2> HIDE DEF zero
    <2> QED BY <1>1, <2>1, <2>3, <2>4, Stripped DEF Written
  <1> QED BY <1>14, <1>15, <1>16

(***************************************************************************)
(* plan_write on a device: the chunk with the extent overwritten.           *)
(***************************************************************************)
LEMMA DataWritten ==
  ASSUME DiskShape(db), NEW c, Shape(c), Fits(c), NEW k \in ChunksOf(c.off, c.len)
  PROVE  Written(db, c, k, PutChunk(db, k, c.off, [i \in 1 .. c.len |-> c.byte]))
  <1> DEFINE data == [i \in 1 .. c.len |-> c.byte]
             new == PutChunk(db, k, c.off, data)
  <1>1. /\ c.off \in Nat /\ c.len \in Nat \ {0} /\ c.byte \in Byte /\ 0 \in Byte
        /\ db.size = Size /\ Size \in Nat /\ ChunkSize \in Nat \ {0}
    BY ExtentOfDevice, BlockAssumption, ChunkSizeAssumption DEF Shape, DiskShape, Byte
  <1>2. data \in Seq(Byte) /\ Len(data) = c.len /\ \A i \in 1 .. c.len : data[i] = c.byte
    BY <1>1
  <1> HIDE DEF data
  <1>3. /\ k \in Chunks /\ k \in Nat /\ k * ChunkSize \in Nat /\ k * ChunkSize < Size
        /\ k * ChunkSize < c.off + c.len /\ c.off < k * ChunkSize + ChunkSize
    BY ExtentOfDevice, DeviceChunks, Zenon
  <1>4. db.chunks[k] \in Contents(Byte)
    BY <1>3 DEF DiskShape
  <1>5. /\ k * ChunkSize < c.off + Len(data) /\ db.size \in Nat
    BY <1>1, <1>2, <1>3
  <1>6. new \in Contents(Byte) /\ Overwrites(new, OldChunk(db, k), k * ChunkSize, c.off, data)
    BY <1>1, <1>2, <1>3, <1>4, <1>5, PutChunkReads, Zenon
  <1> HIDE DEF new
  <1> DEFINE start == k * ChunkSize
  <1>7. OldChunk(db, k) = db.chunks[k]
    <2>1. start \in Nat /\ start < Size
      BY <1>3
    <2>2. ~ (start >= db.size)
      <3> HIDE DEF start
      <3> QED BY <1>1, <2>1
    <2> QED BY <2>2 DEF OldChunk
  <1>8. ASSUME NEW o \in 1 .. ChunkSize
        PROVE  ByteAt(new, o) = IF Asked(c, k, o) THEN c.byte ELSE ByteAt(db.chunks[k], o)
    <2>1. ByteAt(new, o) = IF c.off < start + o /\ start + o <= c.off + c.len
                           THEN data[start + o - c.off] ELSE ByteAt(db.chunks[k], o)
      BY <1>2, <1>6, <1>7 DEF Overwrites
    <2>2. Asked(c, k, o) <=> c.off < start + o /\ start + o <= c.off + c.len
      BY DEF Asked
    <2>3. start \in Nat
      BY <1>3
    <2> HIDE DEF start
    <2>4. c.off < start + o /\ start + o <= c.off + c.len => data[start + o - c.off] = c.byte
      <3>1. c.off < start + o /\ start + o <= c.off + c.len => start + o - c.off \in 1 .. c.len
        BY <1>1, <2>3
      <3> QED BY <1>2, <3>1
    <2> QED BY <2>1, <2>2, <2>4
  <1> QED BY <1>6, <1>8, Zenon DEF Written, new, data

(***************************************************************************)
(* Planning: each chunk of the batch is the old one, overwritten, and what  *)
(* the batch leaves out holds already or is left to the next batch.         *)
(***************************************************************************)
LEMMA BatchPlanned ==
  ASSUME DiskShape(db), NEW c, Shape(c), Fits(c), c.edges => EdgesDone(db, c),
         NEW p, p.off = c.off, p.len = c.len, p.byte = c.byte, p.op = c.op,
         p.new = Batch(c), p.more = (c.op = "trim" /\ Cardinality(Covered(c)) >= TrimBatch)
  PROVE  Planned(db, p)
  <1> DEFINE K == ChunksOf(c.off, c.len)
             edge == {k \in K : ~ FullyCovered(c, k)}
             first == Lowest(Covered(c), TrimBatch)
             ks == IF c.op = "trim" THEN (IF c.edges THEN {} ELSE edge) \cup first ELSE K
  <1>1. first \subseteq Covered(c)
    BY LowestSome
  <1>2. Covered(c) \subseteq K
    BY DEF Covered
  <1> HIDE DEF first
  <1>3. DOMAIN Batch(c) = ks /\ \A k \in ks :
          Batch(c)[k] = IF c.op = "write" THEN PutChunk(db, k, c.off, [i \in 1 .. c.len |-> c.byte])
                        ELSE StageZeroes(c, k)
    BY DEF Batch, first
  <1>4. ks \subseteq K
    BY <1>1, <1>2
  <1>5. ASSUME NEW k \in ks PROVE Written(db, c, k, Batch(c)[k])
    <2>1. k \in K
      BY <1>4
    <2>2. CASE c.op = "write"
      BY <1>3, <2>1, <2>2, DataWritten, Zenon
    <2>3. CASE c.op # "write"
      BY Zenon, <1>3, <2>1, <2>3, ZeroesWritten
    <2> QED BY <2>2, <2>3
  <1>6. ASSUME NEW k \in K, k \notin ks, ~ p.more
        PROVE  Holds(db, c, k)
    <2>1. c.op = "trim"
      BY <1>6
    <2>2. first = Covered(c)
      <3>1. IsFiniteSet(Covered(c))
        <4>1. c.off \div ChunkSize \in Int /\ (c.off + c.len - 1) \div ChunkSize \in Int
          BY ExtentOfDevice, ChunkSizeAssumption
        <4>2. IsFiniteSet(K)
          BY <4>1, FS_Interval DEF ChunksOf
        <4> QED BY <1>2, <4>2, FS_Subset
      <3> QED BY <1>6, <2>1, <3>1, LowestAll, BlockAssumption, Zenon DEF first
    <2>3. CASE ~ FullyCovered(c, k)
      <3>1. c.edges
        BY <1>6, <2>1, <2>3
      <3> QED BY <2>3, <3>1 DEF EdgesDone
    <2>4. CASE FullyCovered(c, k)
      <3>1. ~ (Len(db.chunks[k]) > 0)
        BY <1>6, <2>1, <2>2, <2>4 DEF Covered
      <3>2. k \in Chunks
        BY ExtentOfDevice
      <3>3. Len(db.chunks[k]) = 0
        BY <3>1, <3>2 DEF DiskShape, Contents
      <3>4. \A o \in 1 .. ChunkSize : ByteAt(db.chunks[k], o) = 0
        BY <3>3 DEF ByteAt
      <3> QED BY <2>1, <3>4 DEF Holds, Fits
    <2> QED BY <2>3, <2>4
  <1>7. ASSUME NEW k \in K, k \notin ks, ~ FullyCovered(c, k)
        PROVE  Holds(db, c, k)
    <2>1. c.op = "trim" /\ c.edges
      BY <1>7
    <2> QED BY <1>7, <2>1 DEF EdgesDone
  <1>8. p.more => c.op = "trim"
    BY Zenon
  <1>9. \A k : /\ Holds(db, c, k) => Holds(db, p, k)
               /\ FullyCovered(c, k) => FullyCovered(p, k)
               /\ \A s : Written(db, c, k, s) => Written(db, p, k, s)
    BY DEF Holds, Written, Asked, FullyCovered
  <1> HIDE DEF ks
  <1> QED BY <1>3, <1>4, <1>5, <1>6, <1>7, <1>8, <1>9 DEF Planned

(***************************************************************************)
(* What a request was right about stays so while its chunks stay the same.  *)
(***************************************************************************)
LEMMA Undisturbed ==
  ASSUME NEW d, NEW e, NEW d0, NEW e0, NEW c, Right(d, d0, c), c.at # "idle",
         \A k \in ChunksOf(c.off, c.len) : e.chunks[k] = d.chunks[k],
         e0 = d0 \/ e0 = d
  PROVE  Right(e, e0, c)
  <1> DEFINE K == ChunksOf(c.off, c.len)
  <1>1. \A k \in K : Holds(d, c, k) => Holds(e, c, k)
    BY DEF Holds
  <1>2. \A k \in K : \A s : Written(d, c, k, s) => Written(e, c, k, s)
    BY DEF Written
  <1>3. EdgesDone(d, c) => EdgesDone(e, c)
    BY <1>1 DEF EdgesDone
  <1>4. Planned(d, c) => Planned(e, c)
    BY <1>1, <1>2 DEF Planned
  <1>5. HoldsAll(d, c) => HoldsAll(e, c)
    BY <1>1 DEF HoldsAll
  <1>6. c.at = "ack" /\ c.fua => HoldsAll(e0, c)
    BY DEF Right
  <1> QED BY <1>3, <1>4, <1>5, <1>6 DEF Right

(***************************************************************************)
(* A step of one request keeps the invariant if it does for that request    *)
(* and changes only chunks it has locked.                                   *)
(***************************************************************************)
LEMMA OneSteps ==
  ASSUME IInv, NEW t \in Threads, NEW p, Shape(p), pc' = [pc EXCEPT ![t] = p],
         locked' = [locked EXCEPT ![t] = Locks(p)],
         \A u \in Threads : u # t => locked[u] \cap Locks(p) = {},
         DiskShape(db'), DiskShape(saved'),
         \A k \in Chunks : k \notin locked[t] => db'.chunks[k] = db.chunks[k],
         saved' = saved \/ saved' = db,
         Right(db', saved', p)
  PROVE  IInv'
  <1>1. /\ pc = [u \in Threads |-> pc[u]] /\ \A u \in Threads : Shape(pc[u]) /\ Right(db, saved, pc[u])
        /\ locked = [u \in Threads |-> Locks(pc[u])]
        /\ \A u, v \in Threads : u # v => locked[u] \cap locked[v] = {}
    BY DEF IInv, Exclusive
  <1>2. pc'[t] = p /\ \A u \in Threads : u # t => pc'[u] = pc[u]
    BY <1>1
  <1>3. pc' = [u \in Threads |-> pc'[u]]
    BY <1>1
  <1>4. \A u \in Threads : Shape(pc'[u])
    BY <1>1, <1>2
  <1>5. locked'[t] = Locks(p) /\ \A u \in Threads : u # t => locked'[u] = locked[u]
    BY <1>1
  <1>6. locked' = [u \in Threads |-> Locks(pc'[u])]
    <2>1. locked' = [u \in Threads |-> locked'[u]]
      BY <1>1, Zenon
    <2>2. \A u \in Threads : locked'[u] = Locks(pc'[u])
      BY <1>1, <1>2, <1>5
    <2> QED BY <2>1, <2>2
  <1>7. \A u, v \in Threads : u # v => locked'[u] \cap locked'[v] = {}
    BY <1>1, <1>5
  <1>8. ASSUME NEW u \in Threads PROVE Right(db', saved', pc'[u])
    <2>1. CASE u = t
      BY <1>2, <2>1
    <2>2. CASE u # t
      <3> DEFINE c == pc[u]
      <3>1. pc'[u] = c /\ Right(db, saved, c) /\ Shape(c)
        BY <1>1, <1>2, <2>2
      <3>2. CASE c.at = "idle"
        BY <3>1, <3>2 DEF Right
      <3>3. CASE c.at # "idle"
        <4>1. Fits(c)
          BY <3>1, <3>3 DEF Right
        <4>2. locked[u] = ChunksOf(c.off, c.len)
          BY <1>1, <3>3 DEF Locks
        <4>3. ChunksOf(c.off, c.len) \subseteq Chunks
          BY <3>1, <4>1, ExtentOfDevice
        <4>4. \A k \in ChunksOf(c.off, c.len) : k \notin locked[t]
          BY <1>1, <2>2, <4>2
        <4>5. \A k \in ChunksOf(c.off, c.len) : db'.chunks[k] = db.chunks[k]
          BY <4>3, <4>4
        <4> HIDE DEF c
        <4> QED BY <3>1, <3>3, <4>5, Undisturbed
      <3> QED BY <3>2, <3>3
    <2> QED BY <2>1, <2>2
  <1> QED BY <1>3, <1>4, <1>6, <1>7, <1>8, Zenon DEF IInv, Exclusive

LEMMA Fresh ==
  /\ Shape(Idle) /\ Locks(Idle) = {}
  /\ \A d, d0 : Right(d, d0, Idle)
  BY DEF Idle, Shape, Locks, Right, Byte, Ats, Ops

LEMMA InitInv == ASSUME Init PROVE IInv
  <1>1. <<>> \in Contents(Byte)
    BY ChunkSizeAssumption DEF Contents
  <1>2. DiskShape(db) /\ saved = db
    BY <1>1 DEF Init, DiskShape
  <1>3. pc = [t \in Threads |-> Idle] /\ locked = [t \in Threads |-> {}]
    BY DEF Init
  <1> QED BY <1>2, <1>3, Fresh DEF IInv, Exclusive

\* An answer gives the locks back, whatever became of the request.
LEMMA AnswerStep ==
  ASSUME IInv, NEW t \in Threads, Answer(t), UNCHANGED <<db, saved>>
  PROVE  IInv'
  <1>1. pc' = [pc EXCEPT ![t] = Idle] /\ locked' = [locked EXCEPT ![t] = Locks(Idle)]
    BY Fresh DEF Answer
  <1>2. DiskShape(db') /\ DiskShape(saved') /\ db' = db /\ saved' = saved
    BY DEF IInv
  <1> QED BY <1>1, <1>2, Fresh, OneSteps, Zenon

\* c is a request as it arrives, at its first place or about to be planned.
Arrived(c, at, op, off, len, byte, fua) ==
  c \in [at : {at}, op : {op}, off : {off}, len : {len}, byte : {byte}, fua : {fua},
         new : {c.new}, delta : {c.delta}, edges : {FALSE}, more : {FALSE}]

LEMMA RequestFields ==
  ASSUME NEW op, NEW off, NEW len, NEW byte, NEW fua
  PROVE  /\ Arrived(Request(op, off, len, byte, fua), "idle", op, off, len, byte, fua)
         /\ Arrived([Request(op, off, len, byte, fua) EXCEPT !.at = "plan"], "plan", op, off, len, byte, fua)
  BY Zenon DEF Request, Idle, Arrived

\* A request inside the device arrives and locks its chunks.
LEMMA StartStep ==
  ASSUME IInv, NEW t \in Threads, NEW c \in Requests, Valid(c), Start(t, c)
  PROVE  IInv'
  <1> DEFINE p == [c EXCEPT !.at = "plan"]
  <1>1. PICK op \in {"write", "trim", "zeroes"}, o \in 0 .. Size - 1, n \in 1 .. Size,
             b \in Bytes \cup {0}, f \in BOOLEAN :
               c = Request(op, o, n, b, f)
    BY DEF Requests
  <1>2. Arrived(c, "idle", op, o, n, b, f)
    BY <1>1, RequestFields, Zenon
  <1>3. Arrived(p, "plan", op, o, n, b, f)
    BY <1>1, RequestFields, Zenon
  <1>4. o \in Nat /\ n \in Nat /\ n > 0 /\ o + n <= Size
    BY <1>2, BlockAssumption DEF Valid, Arrived
  <1> HIDE DEF p
  <1>5. Shape(p)
    BY <1>3, <1>4, Zenon DEF Shape, Ats, Ops, Byte, Arrived
  <1>6. Fits(p)
    BY <1>2, <1>3, <1>4 DEF Fits, Valid, Arrived
  <1>7. Right(db, saved, p)
    BY <1>3, <1>6, Zenon DEF Right, Arrived
  <1>8. Locks(p) = ChunksOf(c.off, c.len)
    BY <1>2, <1>3 DEF Locks, Arrived
  <1>9. /\ pc' = [pc EXCEPT ![t] = p] /\ locked' = [locked EXCEPT ![t] = Locks(p)]
        /\ \A u \in Threads : locked[u] \cap Locks(p) = {}
        /\ db' = db /\ saved' = saved
    BY <1>8, Zenon DEF Start, p
  <1>10. DiskShape(db') /\ DiskShape(saved')
    BY <1>9 DEF IInv
  <1> QED BY <1>5, <1>7, <1>9, <1>10, OneSteps, Zenon

(***************************************************************************)
(* What a step of a request changes of it, and what that leaves alone.      *)
(***************************************************************************)
Same(p, c) == p.op = c.op /\ p.off = c.off /\ p.len = c.len /\ p.byte = c.byte /\ p.fua = c.fua

LEMMA SameExtent ==
  ASSUME NEW p, NEW c, Same(p, c)
  PROVE  /\ Fits(c) => Fits(p)
         /\ \A d : HoldsAll(d, c) => HoldsAll(d, p)
         /\ \A d : EdgesDone(d, c) => EdgesDone(d, p)
  BY DEF Same, Fits, HoldsAll, EdgesDone, Holds, Asked, FullyCovered

\* The batch is planned under the locks; nothing is written yet.
LEMMA ReserveStep ==
  ASSUME IInv, NEW t \in Threads, Reserve(t)
  PROVE  IInv'
  <1> DEFINE c == pc[t]
             delta == PlanDelta(db, Size, Batch(c))
             new == Batch(c)
             more == (c.op = "trim" /\ Cardinality(Covered(c)) >= TrimBatch)
             at == IF delta > 0 /\ tracked' > HardLimit THEN "undo" ELSE "commit"
             p == [c EXCEPT !.new = new, !.delta = delta, !.more = more, !.at = at]
  <1>1. /\ c.at = "plan" /\ pc' = [pc EXCEPT ![t] = p]
        /\ db' = db /\ saved' = saved /\ locked' = locked
    BY DEF Reserve
  <1>2. Shape(c) /\ Right(db, saved, c) /\ DiskShape(db) /\ DiskShape(saved)
    BY DEF IInv
  <1>3. Fits(c) /\ (c.edges => EdgesDone(db, c))
    BY <1>1, <1>2 DEF Right
  <1>4. at \in {"undo", "commit"} /\ more \in BOOLEAN
    BY Zenon
  <1> HIDE DEF at, new, more, delta
  <1>5. Shape(p) /\ Same(p, c) /\ p.at = at /\ p.new = new /\ p.more = more
    <2> HIDE DEF c
    <2> QED BY <1>2, <1>4, Zenon DEF Shape, Same, Ats
  <1> HIDE DEF p
  <1>6. Planned(db, p)
    BY <1>2, <1>3, <1>5, BatchPlanned DEF Same, new, more
  <1>7. Right(db', saved', p)
    BY <1>1, <1>3, <1>4, <1>5, <1>6, SameExtent, Zenon DEF Right
  <1>8. Locks(p) = locked[t]
    <2>1. locked[t] = Locks(c)
      BY DEF IInv, Exclusive
    <2> QED BY <1>1, <1>4, <1>5, <2>1 DEF Locks, Same
  <1>9. locked' = [locked EXCEPT ![t] = Locks(p)] /\ \A u \in Threads : u # t => locked[u] \cap Locks(p) = {}
    BY <1>1, <1>8 DEF IInv, Exclusive
  <1> HIDE DEF c
  <1> QED BY <1>1, <1>2, <1>5, <1>7, <1>9, OneSteps, Zenon

(***************************************************************************)
(* A planned batch, written: its chunks hold what was asked, and what it    *)
(* left to later batches are covered chunks.                                *)
(***************************************************************************)
LEMMA BatchWritten ==
  ASSUME NEW d, DiskShape(d), NEW c, Shape(c), Fits(c), Planned(d, c), NEW e, DiskShape(e),
         \A k \in Chunks : e.chunks[k] = IF k \in DOMAIN c.new THEN c.new[k] ELSE d.chunks[k]
  PROVE  /\ c.more => EdgesDone(e, c)
         /\ ~ c.more => HoldsAll(e, c)
  <1> DEFINE K == ChunksOf(c.off, c.len)
  <1>1. K \subseteq Chunks /\ c.off + c.len <= Size /\ c.off + c.len \in Nat /\ Size \in Nat
    BY ExtentOfDevice, BlockAssumption
  <1>2. ASSUME NEW k \in DOMAIN c.new PROVE Holds(e, c, k)
    <2>1. k \in K /\ k \in Chunks /\ e.chunks[k] = c.new[k] /\ Written(d, c, k, c.new[k])
      BY <1>1, <1>2 DEF Planned
    <2>2. ASSUME NEW o \in 1 .. ChunkSize, Asked(c, k, o) PROVE Exists(k, o)
      <3> DEFINE start == k * ChunkSize
      <3>1. start \in Nat /\ start + o <= c.off + c.len
        BY <2>1, <2>2, DeviceChunks DEF Asked
      <3>2. start + o <= Size
        <4> HIDE DEF start
        <4> QED BY <1>1, <3>1
      <3> QED BY <3>2 DEF Exists
    <2> QED BY <2>1, <2>2 DEF Holds, Written
  <1>3. ASSUME NEW k \in K, k \notin DOMAIN c.new, Holds(d, c, k) PROVE Holds(e, c, k)
    BY <1>1, <1>3 DEF Holds
  <1> QED BY <1>2, <1>3 DEF Planned, EdgesDone, HoldsAll

\* The commit writes the batch; the request goes on, flushes or is answered.
LEMMA CommitStep ==
  ASSUME IInv, NEW t \in Threads, Commit(t)
  PROVE  IInv'
  <1> DEFINE c == pc[t]
             at == IF c.more THEN "plan" ELSE IF c.fua THEN "flush" ELSE "ack"
             p == [c EXCEPT !.edges = TRUE, !.new = <<>>, !.delta = 0, !.at = at]
             n == [k \in Chunks |-> IF k \in DOMAIN c.new THEN c.new[k] ELSE db.chunks[k]]
  <1>1. /\ c.at = "commit" /\ pc' = [pc EXCEPT ![t] = p]
        /\ db' = [db EXCEPT !.qB = @ + c.delta, !.chunks = n]
        /\ saved' = saved /\ locked' = locked
    BY DEF Commit
  <1>2. Shape(c) /\ Right(db, saved, c) /\ DiskShape(db) /\ DiskShape(saved)
    BY DEF IInv
  <1>3. Fits(c) /\ Planned(db, c)
    BY <1>1, <1>2 DEF Right
  <1>4. at \in {"plan", "flush", "ack"} /\ (at = "plan" <=> c.more) /\ (at = "ack" => ~ c.fua)
    OBVIOUS
  <1>5. Shape(p) /\ Same(p, c) /\ p.at = at
    <2> HIDE DEF c, at
    <2> QED BY <1>2, <1>4, Zenon DEF Shape, Same, Ats
  <1> HIDE DEF p, at
  <1>6. n \in [Chunks -> Contents(Byte)]
    <2>1. \A k \in Chunks : db.chunks[k] \in Contents(Byte)
      BY <1>2 DEF DiskShape
    <2>2. \A k \in DOMAIN c.new : c.new[k] \in Contents(Byte)
      BY <1>3 DEF Planned, Written
    <2> HIDE DEF c
    <2> QED BY <2>1, <2>2
  <1>7. \A k \in Chunks : n[k] = IF k \in DOMAIN c.new THEN c.new[k] ELSE db.chunks[k]
    OBVIOUS
  <1> HIDE DEF n
  <1>8. DiskShape(db') /\ db'.chunks = n
    BY <1>1, <1>2, <1>6, Zenon DEF DiskShape
  <1>9. (c.more => EdgesDone(db', c)) /\ (~ c.more => HoldsAll(db', c))
    BY Zenon, <1>2, <1>3, <1>7, <1>8, BatchWritten
  <1>10. Right(db', saved', p)
    <2>1. Fits(p) /\ (at = "plan" => EdgesDone(db', p)) /\ (at # "plan" => HoldsAll(db', p))
      BY Zenon, <1>3, <1>4, <1>5, <1>9, SameExtent
    <2>2. at = "ack" => ~ p.fua
      BY <1>4, <1>5 DEF Same
    <2> QED BY <1>4, <1>5, <2>1, <2>2, Zenon DEF Right
  <1>11. locked[t] = Locks(c) /\ Locks(c) = ChunksOf(c.off, c.len) /\ Locks(p) = locked[t]
    <2>1. locked[t] = Locks(c)
      BY DEF IInv, Exclusive
    <2> QED BY <1>1, <1>4, <1>5, <2>1 DEF Locks, Same
  <1>12. locked' = [locked EXCEPT ![t] = Locks(p)] /\ \A u \in Threads : u # t => locked[u] \cap Locks(p) = {}
    BY <1>1, <1>11, Zenon DEF IInv, Exclusive
  <1>13. \A k \in Chunks : k \notin locked[t] => db'.chunks[k] = db.chunks[k]
    BY <1>3, <1>7, <1>8, <1>11 DEF Planned
  <1> HIDE DEF c
  <1> QED BY <1>1, <1>2, <1>5, <1>8, <1>10, <1>12, <1>13, OneSteps, Zenon

\* The flush of FUA makes durable what the request committed.
LEMMA FuaFlushStep ==
  ASSUME IInv, NEW t \in Threads, FuaFlush(t)
  PROVE  IInv'
  <1> DEFINE c == pc[t]
             p == [c EXCEPT !.at = "ack"]
  <1>1. c.at = "flush" /\ pc' = [pc EXCEPT ![t] = p] /\ db' = db /\ saved' = db /\ locked' = locked
    BY DEF FuaFlush
  <1>2. Shape(c) /\ Right(db, saved, c) /\ DiskShape(db)
    BY DEF IInv
  <1>3. Fits(c) /\ HoldsAll(db, c)
    BY <1>1, <1>2 DEF Right
  <1>4. Shape(p) /\ Same(p, c) /\ p.at = "ack"
    <2> HIDE DEF c
    <2> QED BY <1>2 DEF Shape, Same, Ats
  <1> HIDE DEF p
  <1>5. Right(db', saved', p)
    BY <1>1, <1>3, <1>4, SameExtent, Zenon DEF Right
  <1>6. Locks(p) = locked[t]
    <2>1. locked[t] = Locks(c)
      BY DEF IInv, Exclusive
    <2> QED BY <1>1, <1>4, <2>1 DEF Locks, Same
  <1>7. locked' = [locked EXCEPT ![t] = Locks(p)] /\ \A u \in Threads : u # t => locked[u] \cap Locks(p) = {}
    BY <1>1, <1>6 DEF IInv, Exclusive
  <1> HIDE DEF c
  <1> QED BY <1>1, <1>2, <1>4, <1>5, <1>7, OneSteps, Zenon

\* A flush of the whole database, a new writer, a restart.
LEMMA FlushStep ==
  ASSUME IInv, Flush
  PROVE  IInv'
  <1>1. saved' = db /\ db' = db /\ pc' = pc /\ locked' = locked
    BY DEF Flush
  <1>2. ASSUME NEW t \in Threads PROVE Right(db, db, pc[t])
    <2> DEFINE c == pc[t]
    <2>1. Right(db, saved, c)
      BY DEF IInv
    <2> HIDE DEF c
    <2>2. Right(db, db, c)
      BY <2>1 DEF Right
    <2> QED BY <2>2 DEF c
  <1> QED BY <1>1, <1>2 DEF IInv, Exclusive

LEMMA CrashStep ==
  ASSUME IInv, Crash
  PROVE  IInv'
  <1>1. /\ db' = saved /\ saved' = saved
        /\ pc' = [t \in Threads |-> Idle] /\ locked' = [t \in Threads |-> {}]
    BY DEF Crash
  <1> QED BY <1>1, Fresh DEF IInv, Exclusive

LEMMA NextStep ==
  ASSUME IInv, [Next]_vars
  PROVE  IInv'
  <1>1. CASE UNCHANGED vars
    BY <1>1 DEF vars, IInv, Exclusive
  <1>2. ASSUME NEW t \in Threads, NEW c \in {r \in Requests : Valid(r)}, Start(t, c) PROVE IInv'
    BY <1>2, StartStep
  <1>3. ASSUME NEW t \in Threads, Reserve(t) PROVE IInv'
    BY <1>3, ReserveStep
  <1>4. ASSUME NEW t \in Threads, Commit(t) PROVE IInv'
    BY <1>4, CommitStep
  <1>5. ASSUME NEW t \in Threads, FuaFlush(t) PROVE IInv'
    BY <1>5, FuaFlushStep
  <1>6. ASSUME NEW t \in Threads, Undo(t) \/ CommitFails(t) \/ FlushFails(t) \/ Refused(t) \/ Ack(t)
        PROVE  IInv'
    <2>1. Answer(t) /\ UNCHANGED <<db, saved>>
      BY <1>6 DEF Undo, CommitFails, FlushFails, Refused, Ack
    <2> QED BY <2>1, AnswerStep
  <1>7. CASE Flush
    BY <1>7, FlushStep
  <1>8. CASE Fence
    BY <1>8 DEF Fence, IInv, Exclusive
  <1>9. CASE Crash
    BY <1>9, CrashStep
  <1> QED BY <1>1, <1>2, <1>3, <1>4, <1>5, <1>6, <1>7, <1>8, <1>9, Zenon DEF Next

LEMMA Invariance == Spec => []IInv
  BY InitInv, NextStep, PTL DEF Spec

(***************************************************************************)
(* BlockVolume::write, trim and write_zeroes: an answered request reads as  *)
(* asked over its whole extent, whatever requests shared its chunks, and an *)
(* answer under FUA was durable before it was given.                        *)
(***************************************************************************)
THEOREM DeviceHolds == Spec => []DeviceAnswers
  <1>1. IInv => DeviceAnswers
    <2> SUFFICES ASSUME IInv, NEW t \in Threads, pc[t].at = "ack", NEW i \in Extent(pc[t])
                 PROVE  /\ ReadRange(db)[i] = pc[t].byte
                        /\ pc[t].fua => ReadRange(saved)[i] = pc[t].byte
      BY DEF DeviceAnswers, AnsweredContent, FuaDurable
    <2>1. DiskShape(db) /\ DiskShape(saved) /\ Shape(pc[t]) /\ Right(db, saved, pc[t])
      BY DEF IInv
    <2>2. Fits(pc[t]) /\ HoldsAll(db, pc[t]) /\ (pc[t].fua => HoldsAll(saved, pc[t]))
      BY <2>1 DEF Right
    <2> QED BY <2>1, <2>2, HeldReads
  <1> QED BY <1>1, Invariance, PTL

\* A byte that a commit changes is in the extent of its request.
LEMMA CommitBytes ==
  ASSUME IInv, NEW t \in Threads, Commit(t), NEW i \in 1 .. Size,
         ReadRange(db')[i] # ReadRange(db)[i]
  PROVE  pc[t].at = "commit" /\ pc'[t].at # "commit" /\ i \in Extent(pc[t])
  <1> DEFINE c == pc[t]
             k == ChunkOf(i)
             o == PlaceOf(i)
  <1>1. /\ Shape(c) /\ Right(db, saved, c) /\ DiskShape(db) /\ pc = [u \in Threads |-> pc[u]]
    BY DEF IInv
  <1>2. c.at = "commit" /\ Fits(c) /\ Planned(db, c)
    BY <1>1 DEF Commit, Right
  <1>3. DiskShape(db')
    BY CommitStep DEF IInv
  <1>4. /\ k \in Chunks /\ o \in 1 .. ChunkSize /\ k * ChunkSize \in Nat /\ k * ChunkSize + o = i
        /\ ReadRange(db)[i] = ByteAt(db.chunks[k], o)
    BY <1>1, DeviceByte
  <1>5. ReadRange(db')[i] = ByteAt(db'.chunks[k], o)
    BY <1>3, DeviceByte
  <1>6. db'.chunks[k] = IF k \in DOMAIN c.new THEN c.new[k] ELSE db.chunks[k]
    BY <1>1, <1>4 DEF Commit, DiskShape
  <1>7. pc'[t].at # "commit"
    BY <1>1, Zenon DEF Commit, Shape
  <1> HIDE DEF k, o, c
  <1>8. k \in DOMAIN c.new /\ Written(db, c, k, c.new[k])
    BY <1>2, <1>4, <1>5, <1>6, Zenon DEF Planned
  <1>9. Exists(k, o)
    BY <1>4, BlockAssumption DEF Exists
  <1>10. Asked(c, k, o)
    BY <1>4, <1>5, <1>6, <1>8, <1>9, Zenon DEF Written
  <1>11. i \in Extent(c)
    BY <1>1, <1>4, <1>10 DEF Asked, Extent, Shape
  <1> QED BY <1>2, <1>7, <1>11 DEF c

(***************************************************************************)
(* A commit changes no byte outside the extent of its request: the rest of  *)
(* a chunk it rewrites is as it was, also what another request committed to *)
(* that chunk before this one could lock it.                                *)
(***************************************************************************)
THEOREM CommitWritesItsExtent == Spec => OnlyItsExtent
  <1> DEFINE Moved == \E t \in Threads : pc[t].at = "commit" /\ pc'[t].at \in {"plan", "flush", "ack"}
             Own == \A i \in 1 .. Size : ReadRange(db')[i] # ReadRange(db)[i] =>
                      \E t \in Threads : pc[t].at = "commit" /\ pc'[t].at # "commit" /\ i \in Extent(pc[t])
  <1>1. ASSUME IInv, [Next]_vars PROVE [Moved => Own]_vars
    <2>1. CASE db' = db
      BY Zenon, <2>1
    <2>2. CASE \E t \in Threads : Commit(t)
      BY <1>1, <2>2, CommitBytes
    <2>3. CASE Crash
      BY <2>3, Zenon DEF Crash, Idle
    <2>4. db' = db \/ (\E t \in Threads : Commit(t)) \/ Crash
      BY <1>1, Zenon DEF Next, vars, Start, Reserve, Undo, CommitFails, FuaFlush, FlushFails, Refused, Ack,
                  Flush, Fence
    <2> QED BY Zenon, <2>1, <2>2, <2>3, <2>4
  <1> QED BY <1>1, Invariance, PTL DEF Spec, OnlyItsExtent
===============================================================================
