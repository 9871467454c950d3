------------------------------ MODULE ChunkPlan ------------------------------
(***************************************************************************)
(* Content in chunks, as pure functions: reading it, planning a write or a  *)
(* truncate of it, and what is billed for it (slatefs-core/src/data.rs,     *)
(* quota.rs).  Files and block devices use the same plans.  A file f has a  *)
(* size and chunks; a chunk is the sequence of its bytes, <<>> if absent.   *)
(***************************************************************************)
EXTENDS Integers, Sequences, FiniteSetsExt

CONSTANTS ChunkSize,
          Bytes       \* the bytes written; 0 is what a hole reads as

ASSUME ChunkSizeAssumption == ChunkSize \in Nat \ {0}

(***************************************************************************)
(* quota.rs: billed_chunk_bytes.                                            *)
(***************************************************************************)
BilledChunkBytes(size, start, len) ==
    Min({len, IF size > start THEN size - start ELSE 0})

BilledOf(size, chunks, ks) ==
    MapThenSumSet(LAMBDA k : BilledChunkBytes(size, k * ChunkSize, Len(chunks[k])), ks)

(***************************************************************************)
(* data.rs: read_range of the whole file; an absent chunk, and what lies    *)
(* beyond the end of a short one, reads as zeros.                           *)
(***************************************************************************)
ReadRange(f) ==
    [i \in 1 .. f.size |->
        LET c == f.chunks[(i - 1) \div ChunkSize]
            o == ((i - 1) % ChunkSize) + 1
        IN  IF o <= Len(c) THEN c[o] ELSE 0]

(***************************************************************************)
(* data.rs: plan_write.  Chunks at or above the old size are not read: they *)
(* are taken to be absent.                                                  *)
(***************************************************************************)
\* Mutant: the old bytes of a partly overwritten chunk are not read.
PutChunk_NoRead(f, k, off, data) ==
    LET start == k * ChunkSize
        from == Max({off, start})
        to == Min({off + Len(data), start + ChunkSize})
    IN  [j \in 1 .. to - start |-> IF start + j > from THEN data[start + j - off] ELSE 0]

PutChunk(f, k, off, data) ==
    LET start == k * ChunkSize
        from == Max({off, start})
        to == Min({off + Len(data), start + ChunkSize})
        old == IF start >= f.size THEN <<>> ELSE f.chunks[k]
    IN  [j \in 1 .. Max({to - start, Len(old)}) |->
            IF start + j > from /\ start + j <= to THEN data[start + j - off]
            ELSE IF j <= Len(old) THEN old[j] ELSE 0]

BilledDelta(f, size, k, new) ==
    LET start == k * ChunkSize
        old == IF start >= f.size THEN 0 ELSE Len(f.chunks[k])
    IN  BilledChunkBytes(size, start, Len(new)) - BilledChunkBytes(f.size, start, old)

PlanDelta(f, size, new) ==
    MapThenSumSet(LAMBDA k : BilledDelta(f, size, k, new[k]), DOMAIN new)

(***************************************************************************)
(* data.rs, plan_truncate: the tail chunk of a file cut to n bytes.         *)
(***************************************************************************)
Trimmed(f, n, k) ==
    SubSeq(f.chunks[k], 1, Min({Len(f.chunks[k]), n - k * ChunkSize}))

\* The first n of a set of chunk numbers.
Lowest(ks, n) == {k \in ks : Quantify(ks, LAMBDA j : j < k) < n}
===============================================================================
