--------------------------- MODULE OrphanLifecycle ---------------------------
(***************************************************************************)
(* The death of a file: unlink of its last name, hard links, open handles,  *)
(* the orphan marker, and the three places that reap it - unlink itself,    *)
(* the last close, and the mount after a crash (slatefs-core/src/           *)
(* vfs_impl.rs open, close, link, unlink, write, bury_inode, finish_orphan; *)
(* volume.rs HandleTable, reap_orphan_data, reap_crashed_orphans).          *)
(*                                                                          *)
(* One inode.  Its lock stripe serialises link, unlink, write and the end   *)
(* of close; open and the first half of close take no lock, and is_open is  *)
(* asked before the batch that depends on the answer commits.               *)
(***************************************************************************)
EXTENDS Integers, FiniteSets

CONSTANTS Threads, Names,
          MaxHandles,   \* bound: handles opened in one behaviour
          MaxCrashes,   \* bound: crashes in one behaviour
          NoThread

VARIABLES db,       \* the volume as the open database sees it
          saved,    \* the volume at some batch boundary that is durable
          tracked,  \* QuotaTracker.inodes, less the inodes not modelled
          handles,  \* HandleTable: the handles open on the inode
          opened,   \* HandleTable.next
          lock,     \* who holds the inode's stripe
          pc,       \* per thread: the next step of its call
          mount,    \* "down"; mounting: "chunks", "marker"; "up"
          crashes

vars == <<db, saved, tracked, handles, opened, lock, pc, mount, crashes>>

Idle == [at |-> "idle", name |-> "", open |-> FALSE]
At(t, p) == pc[t].at = p
Goto(t, p) == pc' = [pc EXCEPT ![t].at = p]
Return(t) == pc' = [pc EXCEPT ![t] = Idle]
Unlocked == lock = NoThread

(***************************************************************************)
(* Type invariant.                                                          *)
(***************************************************************************)
DBs == [present : BOOLEAN, nlink : 0 .. Cardinality(Names), names : SUBSET Names,
        orphan : BOOLEAN, chunks : BOOLEAN, qI : Int]

TypeOK ==
    /\ db \in DBs /\ saved \in DBs
    /\ tracked \in Int
    /\ handles \subseteq 1 .. opened /\ opened \in 0 .. MaxHandles
    /\ lock \in Threads \cup {NoThread}
    /\ \A t \in Threads : pc[t].at \in {"idle", "open", "check", "finish", "bury", "reap", "unmark"}
    /\ \A t \in Threads : At(t, "bury") \/ At(t, "reap") \/ At(t, "unmark") => lock = t
    /\ mount \in {"down", "chunks", "marker", "up"}
    /\ crashes \in 0 .. MaxCrashes

(***************************************************************************)
(* A mounted volume with one file, linked once, nobody having it open.      *)
(***************************************************************************)
Init ==
    /\ \E n \in Names :
          db = [present |-> TRUE, nlink |-> 1, names |-> {n}, orphan |-> FALSE,
                chunks |-> FALSE, qI |-> 1]
    /\ saved = db
    /\ tracked = 1
    /\ handles = {} /\ opened = 0
    /\ lock = NoThread
    /\ pc = [t \in Threads |-> Idle]
    /\ mount = "up"
    /\ crashes = 0

(***************************************************************************)
(* Vfs::open: load_inode (Stale if the inode is gone), then the handle.     *)
(***************************************************************************)
OpenLoad(t) ==
    /\ mount = "up" /\ At(t, "idle") /\ db.present
    /\ Goto(t, "open")
    /\ UNCHANGED <<db, saved, tracked, handles, opened, lock, mount, crashes>>

OpenHandle(t) ==
    /\ At(t, "open") /\ opened < MaxHandles
    /\ opened' = opened + 1
    /\ handles' = handles \cup {opened + 1}
    /\ Return(t)
    /\ UNCHANGED <<db, saved, tracked, lock, mount, crashes>>

(***************************************************************************)
(* Vfs::close.  HandleTable::close says whether this was the last handle;   *)
(* only then is the marker looked up, and only if it is there is the inode  *)
(* locked and the orphan finished.                                          *)
(***************************************************************************)
CloseHandle(t, h) ==
    /\ mount = "up" /\ At(t, "idle") /\ h \in handles
    /\ handles' = handles \ {h}
    /\ IF handles' = {} THEN Goto(t, "check") ELSE Return(t)
    /\ UNCHANGED <<db, saved, tracked, opened, lock, mount, crashes>>

CheckMarker(t) ==
    /\ At(t, "check")
    /\ IF db.orphan THEN Goto(t, "finish") ELSE Return(t)
    /\ UNCHANGED <<db, saved, tracked, handles, opened, lock, mount, crashes>>

(***************************************************************************)
(* finish_orphan, its first batch: settle quota and drop the inode, if it   *)
(* is still there.                                                          *)
(***************************************************************************)
Settled(d) == [d EXCEPT !.present = FALSE, !.nlink = 0, !.qI = @ - 1]

\* Mutant: the quota is settled without looking whether the inode is there.
FinishOrphan_Blind(t) ==
    /\ At(t, "finish") /\ Unlocked
    /\ lock' = t
    /\ db' = Settled(db)
    /\ tracked' = tracked - 1
    /\ Goto(t, "reap")
    /\ UNCHANGED <<saved, handles, opened, mount, crashes>>

FinishOrphan(t) ==
    /\ At(t, "finish") /\ Unlocked
    /\ lock' = t
    /\ db' = IF db.present THEN Settled(db) ELSE db
    /\ tracked' = IF db.present THEN tracked - 1 ELSE tracked
    /\ Goto(t, "reap")
    /\ UNCHANGED <<saved, handles, opened, mount, crashes>>

(***************************************************************************)
(* reap_orphan_data, run by unlink and by close under the lock: the chunks, *)
(* then the marker in a batch of its own.  Unlike the other commits these   *)
(* are plain db.write calls, which return once the batch is durable.        *)
(***************************************************************************)
\* Mutant: the marker goes first.
ReapChunks_MarkerFirst(t) ==
    /\ At(t, "reap")
    /\ db' = [db EXCEPT !.orphan = FALSE]
    /\ saved' = db'
    /\ Goto(t, "unmark")
    /\ UNCHANGED <<tracked, handles, opened, lock, mount, crashes>>

ReapChunks(t) ==
    /\ At(t, "reap")
    /\ db' = [db EXCEPT !.chunks = FALSE]
    /\ saved' = db'
    /\ Goto(t, "unmark")
    /\ UNCHANGED <<tracked, handles, opened, lock, mount, crashes>>

ReapMarker(t) ==
    /\ At(t, "unmark")
    /\ db' = [db EXCEPT !.orphan = FALSE]
    /\ saved' = db'
    /\ lock' = NoThread
    /\ Return(t)
    /\ UNCHANGED <<tracked, handles, opened, mount, crashes>>

(***************************************************************************)
(* Vfs::unlink, and the replaced target of Vfs::rename: under the locks the *)
(* entry is re-read and the inode loaded; bury_inode asks is_open while it  *)
(* builds the batch, the batch commits after an await.                      *)
(***************************************************************************)
Unlink(t, n) ==
    /\ mount = "up" /\ At(t, "idle") /\ Unlocked
    /\ n \in db.names /\ db.present
    /\ lock' = t
    /\ pc' = [pc EXCEPT ![t] = [at |-> "bury", name |-> n, open |-> handles # {}]]
    /\ UNCHANGED <<db, saved, tracked, handles, opened, mount, crashes>>

\* Mutant: the link count is not written back when other names remain.
UnlinkCommit_KeepsCount(t) ==
    LET n == pc[t].name
        last == db.nlink = 1
        kept == [db EXCEPT !.names = @ \ {n}, !.nlink = IF last THEN 0 ELSE @,
                           !.orphan = @ \/ last]
        reaps == last /\ ~ pc[t].open
    IN  /\ At(t, "bury")
        /\ db' = IF reaps THEN Settled(kept) ELSE kept
        /\ tracked' = IF reaps THEN tracked - 1 ELSE tracked
        /\ IF reaps THEN Goto(t, "reap") /\ UNCHANGED lock ELSE Return(t) /\ lock' = NoThread
        /\ UNCHANGED <<saved, handles, opened, mount, crashes>>

UnlinkCommit(t) ==
    LET n == pc[t].name
        last == db.nlink = 1
        kept == [db EXCEPT !.names = @ \ {n}, !.nlink = @ - 1, !.orphan = @ \/ last]
        reaps == last /\ ~ pc[t].open
    IN  /\ At(t, "bury")
        /\ db' = IF reaps THEN Settled(kept) ELSE kept
        /\ tracked' = IF reaps THEN tracked - 1 ELSE tracked
        /\ IF reaps THEN Goto(t, "reap") /\ UNCHANGED lock ELSE Return(t) /\ lock' = NoThread
        /\ UNCHANGED <<saved, handles, opened, mount, crashes>>

(***************************************************************************)
(* Vfs::link: loads the inode by number, whatever its link count, and adds  *)
(* a name.  Vfs::write: stores chunks of an inode that is there.  Both are  *)
(* one batch under the lock.                                                *)
(***************************************************************************)
Link(t, n) ==
    /\ mount = "up" /\ At(t, "idle") /\ Unlocked
    /\ db.present /\ n \notin db.names
    /\ db' = [db EXCEPT !.names = @ \cup {n}, !.nlink = @ + 1]
    /\ UNCHANGED <<saved, tracked, handles, opened, lock, pc, mount, crashes>>

Write(t) ==
    /\ mount = "up" /\ At(t, "idle") /\ Unlocked
    /\ db.present /\ ~ db.chunks
    /\ db' = [db EXCEPT !.chunks = TRUE]
    /\ UNCHANGED <<saved, tracked, handles, opened, lock, pc, mount, crashes>>

(***************************************************************************)
(* SlateDB (external): any batch boundary may be the durable one when the   *)
(* process dies.                                                            *)
(***************************************************************************)
Flush ==
    /\ mount # "down" /\ saved # db
    /\ saved' = db
    /\ UNCHANGED <<db, tracked, handles, opened, lock, pc, mount, crashes>>

Crash ==
    /\ mount # "down" /\ crashes < MaxCrashes
    /\ crashes' = crashes + 1
    /\ db' = saved
    /\ handles' = {} /\ lock' = NoThread /\ pc' = [t \in Threads |-> Idle]
    /\ mount' = "down"
    /\ UNCHANGED <<saved, tracked, opened>>

(***************************************************************************)
(* Mounting: reap_crashed_orphans, one batch for an inode that is still     *)
(* there, then reap_orphan_data; then the counters are loaded.              *)
(***************************************************************************)
MountSettle ==
    /\ mount = "down"
    /\ db' = IF db.orphan /\ db.present THEN Settled(db) ELSE db
    /\ saved' = db'
    /\ mount' = IF db.orphan THEN "chunks" ELSE "marker"
    /\ UNCHANGED <<tracked, handles, opened, lock, pc, crashes>>

MountReapChunks ==
    /\ mount = "chunks"
    /\ db' = [db EXCEPT !.chunks = FALSE]
    /\ saved' = db'
    /\ mount' = "marker"
    /\ UNCHANGED <<tracked, handles, opened, lock, pc, crashes>>

MountReady ==
    /\ mount = "marker"
    /\ db' = [db EXCEPT !.orphan = FALSE]
    /\ saved' = db'
    /\ tracked' = db.qI
    /\ mount' = "up"
    /\ UNCHANGED <<handles, opened, lock, pc, crashes>>

Next ==
    \/ \E t \in Threads :
          \/ OpenLoad(t) \/ OpenHandle(t)
          \/ \E h \in handles : CloseHandle(t, h)
          \/ CheckMarker(t) \/ FinishOrphan(t) \/ ReapChunks(t) \/ ReapMarker(t)
          \/ \E n \in Names : Unlink(t, n) \/ Link(t, n)
          \/ UnlinkCommit(t) \/ Write(t)
    \/ Flush \/ Crash
    \/ MountSettle \/ MountReapChunks \/ MountReady

Spec == Init /\ [][Next]_vars
-------------------------------------------------------------------------------
(***************************************************************************)
(* The durable inode counter counts the inode exactly as long as it exists, *)
(* at every batch boundary a crash can expose: the quota of a dying file is *)
(* settled once, by whichever of unlink, close and the mount gets there     *)
(* (fsck.rs: "any drift is a bug").  Once every call has returned, the      *)
(* in-memory counter agrees with it.                                        *)
(***************************************************************************)
Quiet == mount = "up" /\ \A t \in Threads : At(t, "idle")
QuotaExact ==
    /\ \A d \in {db, saved} : d.qI = (IF d.present THEN 1 ELSE 0)
    /\ Quiet => tracked = db.qI

(***************************************************************************)
(* fsck.rs calls "chunks for unknown inode" corruption: chunks belong to an *)
(* inode or to a marker that will have them reaped, whenever the process    *)
(* dies.                                                                    *)
(***************************************************************************)
ChunksOwned == \A d \in {db, saved} : d.chunks => d.present \/ d.orphan

(***************************************************************************)
(* fsck.rs checks nlink against the dirent count of every inode.            *)
(***************************************************************************)
LinkCountExact ==
    \A d \in {db, saved} : d.present => d.nlink = Cardinality(d.names)

(***************************************************************************)
(* fsck.rs reports a "dangling child ino": a name refers to an inode.       *)
(***************************************************************************)
NoDanglingName == db.names # {} => db.present

(***************************************************************************)
(* bury_inode: "Keep the inode readable/writable through existing handles". *)
(***************************************************************************)
OpenKeepsInode == handles # {} => db.present

(***************************************************************************)
(* docs/on-disk-format.md: "`o` orphan markers are reaped at mount/open or  *)
(* when the last open handle for the inode closes": once all calls have     *)
(* returned, no marker is left for a file that nobody has open.             *)
(***************************************************************************)
OrphanReapedAtLastClose == Quiet /\ handles = {} => ~ db.orphan
===============================================================================
