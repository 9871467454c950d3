----------------------------- MODULE BlockVolume -----------------------------
(***************************************************************************)
(* A block device with several requests in flight (slatefs-core/src/        *)
(* block.rs: write, trim, write_zeroes, flush, commit) under the chunk      *)
(* locks, with the in-memory quota tracker (quota.rs: reserve, release),    *)
(* refused writes and crashes.                                              *)
(*                                                                          *)
(* A request reads the chunks of its extent and plans its batch, reserves   *)
(* quota, commits, and with FUA flushes before it answers.  trim commits    *)
(* its deletes in batches.  write_range takes the chunk locks in stripe     *)
(* order (see Namespace), here in one step.                                 *)
(***************************************************************************)
EXTENDS ChunkPlan

CONSTANTS Threads, Size,
          TrimBatch,    \* BATCH in trim
          HardLimit,    \* the hard limit on bytes
          MayCrash, MayFail

ASSUME BlockAssumption ==
    /\ Size \in Nat \ {0} /\ TrimBatch \in Nat \ {0} /\ HardLimit \in Nat
    /\ MayCrash \in BOOLEAN /\ MayFail \in BOOLEAN

Chunks == 0 .. (Size - 1) \div ChunkSize

VARIABLES db,       \* [size, chunks, qB]
          saved,    \* the same, as durable
          tracked,  \* QuotaTracker.bytes
          locked,   \* per thread: the chunks it has locked
          pc,       \* per thread: the request and how far it is
          fenced,   \* a newer writer has opened the volume (external)
          dead      \* VolumeHealth.dead

vars == <<db, saved, tracked, locked, pc, fenced, dead>>

Idle == [at |-> "idle", op |-> "", off |-> 0, len |-> 0, byte |-> 0, fua |-> FALSE,
         new |-> <<>>, delta |-> 0, edges |-> FALSE, more |-> FALSE]

ChunksOf(off, len) == off \div ChunkSize .. (off + len - 1) \div ChunkSize
Extent(c) == c.off + 1 .. c.off + c.len
ChunkEnd(k) == Min({(k + 1) * ChunkSize, Size})
FullyCovered(c, k) == c.off <= k * ChunkSize /\ ChunkEnd(k) <= c.off + c.len

(***************************************************************************)
(* The type invariant; no chunk is locked twice.                            *)
(***************************************************************************)
Disks == [size : {Size}, qB : Int,
          chunks : [Chunks -> UNION {[1 .. n -> Bytes \cup {0}] : n \in 0 .. ChunkSize}]]

TypeOK ==
    /\ db \in Disks /\ saved \in Disks /\ tracked \in Int
    /\ \A t \in Threads : locked[t] \subseteq Chunks
    /\ \A t, u \in Threads : t # u => locked[t] \cap locked[u] = {}
    /\ \A t \in Threads : pc[t].at \in {"idle", "plan", "undo", "commit", "flush", "ack"}
    /\ fenced \in BOOLEAN /\ dead \in BOOLEAN

Init ==
    /\ db = [size |-> Size, qB |-> 0, chunks |-> [k \in Chunks |-> <<>>]]
    /\ saved = db
    /\ tracked = 0
    /\ locked = [t \in Threads |-> {}]
    /\ pc = [t \in Threads |-> Idle]
    /\ fenced = FALSE /\ dead = FALSE

(***************************************************************************)
(* A request inside the device arrives and takes its chunk locks.           *)
(***************************************************************************)
\* Mutant: a lock held by another request is not waited for.
Start_NoWait(t, c) ==
    /\ pc[t] = Idle /\ ~ dead
    /\ locked' = [locked EXCEPT ![t] = ChunksOf(c.off, c.len)]
    /\ pc' = [pc EXCEPT ![t] = [c EXCEPT !.at = "plan"]]
    /\ UNCHANGED <<db, saved, tracked, fenced, dead>>

\* Mutant: the last chunk of the extent is not locked.
Start_LastUnlocked(t, c) ==
    /\ pc[t] = Idle /\ ~ dead
    /\ \A u \in Threads : locked[u] \cap ChunksOf(c.off, c.len) = {}
    /\ locked' = [locked EXCEPT ![t] = ChunksOf(c.off, c.len - 1)]
    /\ pc' = [pc EXCEPT ![t] = [c EXCEPT !.at = "plan"]]
    /\ UNCHANGED <<db, saved, tracked, fenced, dead>>

Start(t, c) ==
    /\ pc[t] = Idle /\ ~ dead
    /\ \A u \in Threads : locked[u] \cap ChunksOf(c.off, c.len) = {}
    /\ locked' = [locked EXCEPT ![t] = ChunksOf(c.off, c.len)]
    /\ pc' = [pc EXCEPT ![t] = [c EXCEPT !.at = "plan"]]
    /\ UNCHANGED <<db, saved, tracked, fenced, dead>>

Answer(t) ==
    /\ pc' = [pc EXCEPT ![t] = Idle]
    /\ locked' = [locked EXCEPT ![t] = {}]

(***************************************************************************)
(* stage_zeroes_for_existing_chunk: a covered chunk is deleted, another one *)
(* zeroed in place and stripped of its trailing zeros.                      *)
(***************************************************************************)
NonZero(s) == {j \in DOMAIN s : s[j] # 0}
TrimTrailingZeroes(s) == IF NonZero(s) = {} THEN <<>> ELSE SubSeq(s, 1, Max(NonZero(s)))

\* Mutant: zeroing runs to the end of the chunk.
StageZeroes_ToEnd(c, k) ==
    LET old == db.chunks[k]
        start == k * ChunkSize
    IN  IF FullyCovered(c, k) THEN <<>>
        ELSE IF Max({c.off, start}) - start >= Len(old) THEN old
        ELSE TrimTrailingZeroes([j \in DOMAIN old |-> IF start + j > c.off THEN 0 ELSE old[j]])

StageZeroes(c, k) ==
    LET old == db.chunks[k]
        start == k * ChunkSize
        from == Max({c.off, start}) - start
        to == Min({Min({c.off + c.len, ChunkEnd(k)}) - start, Len(old)})
    IN  IF FullyCovered(c, k) THEN <<>>
        ELSE IF from >= to THEN old
        ELSE TrimTrailingZeroes([j \in DOMAIN old |-> IF start + j \in Extent(c) THEN 0 ELSE old[j]])

(***************************************************************************)
(* One batch of a request, from the chunks it reads: all of a write or a    *)
(* write_zeroes; of a trim the edges, then the covered chunks that exist, a *)
(* batch at a time until a scan comes back short.                           *)
(***************************************************************************)
Covered(c) == {k \in ChunksOf(c.off, c.len) : FullyCovered(c, k) /\ Len(db.chunks[k]) > 0}

Batch(c) ==
    LET ks == CASE c.op = "trim" -> (IF c.edges THEN {} ELSE {k \in ChunksOf(c.off, c.len) : ~ FullyCovered(c, k)})
                                       \cup Lowest(Covered(c), TrimBatch)
                [] OTHER -> ChunksOf(c.off, c.len)
        data == [i \in 1 .. c.len |-> c.byte]
    IN  [k \in ks |-> IF c.op = "write" THEN PutChunk(db, k, c.off, data) ELSE StageZeroes(c, k)]

(***************************************************************************)
(* Plan the batch and QuotaTracker::reserve: the counter is moved first and *)
(* moved back, in a later step, when it went over the limit.                *)
(***************************************************************************)
Reserve(t) ==
    LET c == pc[t]
        new == Batch(c)
        delta == PlanDelta(db, Size, new)
    IN  /\ c.at = "plan" /\ ~ dead
        /\ tracked' = tracked + delta
        /\ pc' = [pc EXCEPT ![t] = [c EXCEPT !.new = new, !.delta = delta,
                     !.more = c.op = "trim" /\ Cardinality(Covered(c)) >= TrimBatch,
                     !.at = IF delta > 0 /\ tracked' > HardLimit THEN "undo" ELSE "commit"]]
        /\ UNCHANGED <<db, saved, locked, fenced, dead>>

\* EDQUOT.
Undo(t) ==
    /\ pc[t].at = "undo"
    /\ tracked' = tracked - pc[t].delta
    /\ Answer(t)
    /\ UNCHANGED <<db, saved, fenced, dead>>

(***************************************************************************)
(* BlockVolume::commit, and the flush of FUA before the answer.             *)
(***************************************************************************)
\* Mutant: FUA is forgotten.
Commit_NoFlush(t) ==
    LET c == pc[t]
    IN  /\ c.at = "commit" /\ ~ fenced
        /\ db' = [db EXCEPT !.qB = @ + c.delta,
                    !.chunks = [k \in Chunks |-> IF k \in DOMAIN c.new THEN c.new[k] ELSE @[k]]]
        /\ pc' = [pc EXCEPT ![t] = [c EXCEPT !.edges = TRUE, !.new = <<>>, !.delta = 0,
                                             !.at = IF c.more THEN "plan" ELSE "ack"]]
        /\ UNCHANGED <<saved, tracked, locked, fenced, dead>>

\* Mutant: the counter is not merged in the batch of a trim.
Commit_NoMerge(t) ==
    LET c == pc[t]
    IN  /\ c.at = "commit" /\ ~ fenced
        /\ db' = [db EXCEPT !.qB = IF c.op = "trim" THEN @ ELSE @ + c.delta,
                    !.chunks = [k \in Chunks |-> IF k \in DOMAIN c.new THEN c.new[k] ELSE @[k]]]
        /\ pc' = [pc EXCEPT ![t] = [c EXCEPT !.edges = TRUE, !.new = <<>>, !.delta = 0,
                                             !.at = IF c.more THEN "plan" ELSE IF c.fua THEN "flush" ELSE "ack"]]
        /\ UNCHANGED <<saved, tracked, locked, fenced, dead>>

Commit(t) ==
    LET c == pc[t]
    IN  /\ c.at = "commit" /\ ~ fenced
        /\ db' = [db EXCEPT !.qB = @ + c.delta,
                    !.chunks = [k \in Chunks |-> IF k \in DOMAIN c.new THEN c.new[k] ELSE @[k]]]
        /\ pc' = [pc EXCEPT ![t] = [c EXCEPT !.edges = TRUE, !.new = <<>>, !.delta = 0,
                                             !.at = IF c.more THEN "plan" ELSE IF c.fua THEN "flush" ELSE "ack"]]
        /\ UNCHANGED <<saved, tracked, locked, fenced, dead>>

\* Mutant: the reservation is kept.
CommitFails_Keeps(t) ==
    /\ pc[t].at = "commit" /\ (MayFail \/ fenced)
    /\ dead' = (dead \/ fenced)
    /\ Answer(t)
    /\ UNCHANGED <<db, saved, tracked, fenced>>

\* note_storage_error marks the volume dead when the error is a fencing.
CommitFails(t) ==
    /\ pc[t].at = "commit" /\ (MayFail \/ fenced)
    /\ tracked' = tracked - pc[t].delta
    /\ dead' = (dead \/ fenced)
    /\ Answer(t)
    /\ UNCHANGED <<db, saved, fenced>>

FuaFlush(t) ==
    /\ pc[t].at = "flush" /\ ~ fenced
    /\ saved' = db
    /\ pc' = [pc EXCEPT ![t].at = "ack"]
    /\ UNCHANGED <<db, tracked, locked, fenced, dead>>

\* The write stays committed; the request answers an error.
FlushFails(t) ==
    /\ pc[t].at = "flush" /\ (MayFail \/ fenced)
    /\ dead' = (dead \/ fenced)
    /\ Answer(t)
    /\ UNCHANGED <<db, saved, tracked, fenced>>

\* ensure_live in commit.
Refused(t) ==
    /\ pc[t].at = "plan" /\ dead
    /\ Answer(t)
    /\ UNCHANGED <<db, saved, tracked, fenced, dead>>

Ack(t) == pc[t].at = "ack" /\ Answer(t) /\ UNCHANGED <<db, saved, tracked, fenced, dead>>

(***************************************************************************)
(* Db::flush, asked by a request or by SlateDB's timer; a newer writer that *)
(* fences this one; a restart, which loses what is not durable (external).  *)
(***************************************************************************)
Flush ==
    /\ MayCrash /\ ~ fenced /\ saved # db
    /\ saved' = db
    /\ UNCHANGED <<db, tracked, locked, pc, fenced, dead>>

Fence ==
    /\ MayCrash /\ ~ fenced
    /\ fenced' = TRUE
    /\ UNCHANGED <<db, saved, tracked, locked, pc, dead>>

Crash ==
    /\ MayCrash
    /\ db' = saved /\ tracked' = saved.qB
    /\ locked' = [t \in Threads |-> {}] /\ pc' = [t \in Threads |-> Idle]
    /\ fenced' = FALSE /\ dead' = FALSE
    /\ UNCHANGED saved

Request(op, off, len, byte, fua) ==
    [Idle EXCEPT !.op = op, !.off = off, !.len = len, !.byte = byte, !.fua = fua]
Requests ==
    {Request(op, o, n, b, f) :
        op \in {"write", "trim", "zeroes"}, o \in 0 .. Size - 1, n \in 1 .. Size,
        b \in Bytes \cup {0}, f \in BOOLEAN}
Valid(c) ==
    /\ c.off + c.len <= Size
    /\ c.byte = 0 <=> c.op # "write"
    /\ c.op = "trim" => ~ c.fua

Next ==
    \/ \E t \in Threads :
          \/ \E c \in {r \in Requests : Valid(r)} : Start(t, c)
          \/ Reserve(t) \/ Undo(t) \/ Commit(t) \/ CommitFails(t) \/ FuaFlush(t)
          \/ FlushFails(t) \/ Refused(t) \/ Ack(t)
    \/ Flush \/ Fence \/ Crash

Spec == Init /\ [][Next]_vars
-------------------------------------------------------------------------------
(***************************************************************************)
(* When a request is answered, its extent reads as it asked, whatever other *)
(* requests share its first and last chunks.                                *)
(***************************************************************************)
AnsweredContent ==
    \A t \in Threads : pc[t].at = "ack" =>
        \A i \in Extent(pc[t]) : ReadRange(db)[i] = pc[t].byte

(***************************************************************************)
(* A write or write_zeroes answered with FUA is durable                     *)
(* (docs/block-device-plan.md: "commit, then Db::flush() before replying"). *)
(***************************************************************************)
FuaDurable ==
    \A t \in Threads : pc[t].at = "ack" /\ pc[t].fua =>
        \A i \in Extent(pc[t]) : ReadRange(saved)[i] = pc[t].byte

(***************************************************************************)
(* What the device answered is what it holds, and what it answered under    *)
(* FUA is durable.                                                          *)
(***************************************************************************)
DeviceAnswers == AnsweredContent /\ FuaDurable

(***************************************************************************)
(* Outside a crash, a byte changes only by the commit of a request whose    *)
(* extent holds it: zeroing and overwriting part of a chunk keeps the rest. *)
(***************************************************************************)
OnlyItsExtent ==
    [][(\E t \in Threads : pc[t].at = "commit" /\ pc'[t].at \in {"plan", "flush", "ack"}) =>
          \A i \in 1 .. Size : ReadRange(db')[i] # ReadRange(db)[i] =>
             \E t \in Threads : pc[t].at = "commit" /\ pc'[t].at # "commit" /\ i \in Extent(pc[t])]_vars

(***************************************************************************)
(* fsck.rs, recount_block: the counter equals the billed bytes of the       *)
(* chunks, live and durable.                                                *)
(***************************************************************************)
BilledExact == \A d \in {db, saved} : d.qB = BilledOf(Size, d.chunks, Chunks)

(***************************************************************************)
(* The in-memory counter is the durable one plus what requests in flight    *)
(* have reserved: every path out of a request gives back what it took.      *)
(***************************************************************************)
TrackerExact ==
    tracked = db.qB + MapThenSumSet(LAMBDA t : pc[t].delta, Threads)

(***************************************************************************)
(* quota.rs, reserve: 'Returns `EDQUOT` if a hard limit would be exceeded': *)
(* with no request in flight the stored bytes are within the hard limit.    *)
(***************************************************************************)
WithinHardLimit == (\A t \in Threads : pc[t] = Idle) => db.qB <= HardLimit
===============================================================================
