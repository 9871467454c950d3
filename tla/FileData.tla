------------------------------- MODULE FileData -------------------------------
(***************************************************************************)
(* The content of a file in chunks, and what is billed for it: plan_write   *)
(* and plan_truncate (slatefs-core/src/data.rs), the batches Vfs::write and *)
(* Vfs::setattr build from them (vfs_impl.rs), the accounting rule of       *)
(* quota.rs, and the chunk deletes a large truncate commits in batches of   *)
(* their own after the one that changes the size.                           *)
(*                                                                          *)
(* One file; its lock makes write and setattr exclusive.  A chunk is the    *)
(* sequence of its bytes, <<>> if absent.  `fsaved` is the volume at the    *)
(* last batch that is durable.                                              *)
(***************************************************************************)
EXTENDS ChunkPlan

CONSTANTS MaxSize,        \* bound: the largest file
          InlineDeletes   \* INLINE_DELETES, also the size of the later batches

ASSUME FileAssumption == MaxSize \in Nat

FileChunks == 0 .. (MaxSize - 1) \div ChunkSize

VARIABLES fdb,      \* [size, billed (in the inode), qB, chunks]
          fsaved,
          spill,   \* the chunks a setattr in progress has still to delete
          cut      \* history: some setattr ended before its last delete

fvars == <<fdb, fsaved, spill, cut>>

(***************************************************************************)
(* The type invariant.                                                      *)
(***************************************************************************)
Files == [size : 0 .. MaxSize, billed : Int, qB : Int,
          chunks : [FileChunks -> UNION {[1 .. n -> Bytes \cup {0}] : n \in 0 .. ChunkSize}]]

FileTypeOK == fdb \in Files /\ fsaved \in Files /\ spill \subseteq FileChunks /\ cut \in BOOLEAN

Empty == [size |-> 0, billed |-> 0, qB |-> 0, chunks |-> [k \in FileChunks |-> <<>>]]

FileInit == fdb = Empty /\ fsaved = Empty /\ spill = {} /\ cut = FALSE

Beyond(f) == {k \in FileChunks : k * ChunkSize >= f.size /\ Len(f.chunks[k]) > 0}

Billed(f, delta) == [f EXCEPT !.billed = @ + delta, !.qB = @ + delta]

(***************************************************************************)
(* Vfs::write: plan and commit, one batch under the inode's lock.           *)
(***************************************************************************)
Write(off, data) ==
    LET ks == off \div ChunkSize .. (off + Len(data) - 1) \div ChunkSize
        size == Max({fdb.size, off + Len(data)})
        new == [k \in ks |-> PutChunk(fdb, k, off, data)]
    IN  /\ spill = {}
        /\ fdb' = Billed([fdb EXCEPT !.size = size,
                           !.chunks = [k \in FileChunks |-> IF k \in ks THEN new[k] ELSE @[k]]],
                         PlanDelta(fdb, size, new))
        /\ UNCHANGED <<fsaved, spill, cut>>

(***************************************************************************)
(* data.rs: plan_truncate, and the first batch of Vfs::setattr: the size,   *)
(* the trimmed tail, the first InlineDeletes deletes, the billing.  Growing *)
(* changes the size alone.                                                  *)
(***************************************************************************)
FirstOf(ks) == Lowest(ks, InlineDeletes)

Truncate(n) ==
    LET ks == {k \in FileChunks : k >= n \div ChunkSize /\ Len(fdb.chunks[k]) > 0}
        deletes == {k \in ks : k * ChunkSize >= n}
        left == [k \in FileChunks |-> IF k \in deletes THEN <<>>
                                  ELSE IF k \in ks THEN Trimmed(fdb, n, k) ELSE fdb.chunks[k]]
        delta == BilledOf(n, left, ks) - BilledOf(fdb.size, fdb.chunks, ks)
        now == FirstOf(deletes)
    IN  /\ spill = {} /\ n # fdb.size
        /\ IF n > fdb.size
           THEN fdb' = [fdb EXCEPT !.size = n] /\ UNCHANGED spill
           ELSE /\ fdb' = Billed([fdb EXCEPT !.size = n,
                                   !.chunks = [k \in FileChunks |-> IF k \in deletes \ now THEN fdb.chunks[k]
                                                                ELSE left[k]]], delta)
                /\ spill' = deletes \ now
        /\ UNCHANGED <<fsaved, cut>>

(***************************************************************************)
(* The follow-up batches of Vfs::setattr, the lock still held.              *)
(***************************************************************************)
SpillDeletes ==
    LET now == FirstOf(spill)
    IN  /\ spill # {}
        /\ fdb' = [fdb EXCEPT !.chunks = [k \in FileChunks |-> IF k \in now THEN <<>> ELSE @[k]]]
        /\ spill' = spill \ now
        /\ UNCHANGED <<fsaved, cut>>

SpillFails ==
    /\ spill # {}
    /\ spill' = {} /\ cut' = TRUE
    /\ UNCHANGED <<fdb, fsaved>>

(***************************************************************************)
(* SlateDB (external): batches become durable in order; a crash keeps a     *)
(* prefix of them.                                                          *)
(***************************************************************************)
FileFlush == fsaved # fdb /\ fsaved' = fdb /\ UNCHANGED <<fdb, spill, cut>>

FileCrash ==
    /\ fdb' = fsaved /\ spill' = {}
    /\ cut' = (cut \/ Beyond(fsaved) # {})
    /\ UNCHANGED fsaved

FileNext ==
    \/ \E off \in 0 .. MaxSize - 1 : \E n \in 1 .. MaxSize - off : \E b \in Bytes :
          Write(off, [i \in 1 .. n |-> b])
    \/ \E n \in 0 .. MaxSize : Truncate(n)
    \/ SpillDeletes \/ SpillFails
    \/ FileFlush \/ FileCrash

FileSpec == FileInit /\ [][FileNext]_fvars
-------------------------------------------------------------------------------
(***************************************************************************)
(* The chunks implement a sequence of bytes: no write or truncate, however  *)
(* it falls on chunk boundaries, and no crash shows bytes the sequence does *)
(* not have.  A crash falls back to what was durable.  Only after a setattr *)
(* that ended before its last delete may growth show old bytes; even then a *)
(* write changes exactly the bytes it names.                                *)
(***************************************************************************)
Abstract ==
    INSTANCE ByteFile WITH bytes <- ReadRange(fdb), durable <- ReadRange(fsaved), torn <- cut
ImplementsByteFile == Abstract!Spec

(***************************************************************************)
(* fsck.rs recounts the billed bytes of every chunk and calls a difference  *)
(* to the counters a bug: there is none, live or after a crash, unless a    *)
(* setattr ended before its last delete.                                    *)
(***************************************************************************)
Exact(f) == f.qB = f.billed /\ f.billed = BilledOf(f.size, f.chunks, FileChunks)
FileBilledExact == ~ cut => Exact(fdb) /\ Exact(fsaved)

(***************************************************************************)
(* setattr: "trailing chunks bill 0 and are unreachable if we crash before  *)
(* deleting them": a file that is grown reads as zeros where it grew.       *)
(***************************************************************************)
GrowthReadsZeros ==
    [][\A n \in 0 .. MaxSize :
          Truncate(n) => \A i \in fdb.size + 1 .. n : ReadRange(fdb')[i] = 0]_fvars
===============================================================================
