---------------------------- MODULE InodeAllocator ----------------------------
(***************************************************************************)
(* Inode numbers: the in-memory allocator with its lease, the durable       *)
(* high-water mark a/next_ino, and the creates that use the numbers         *)
(* (slatefs-core/src/meta/alloc.rs, Volume::alloc_ino and insert_new_node   *)
(* in vfs_impl.rs, the end of Volume::open_with_caches).                    *)
(*                                                                          *)
(* The volume's database is an ordered log of writes with a durable prefix; *)
(* alloc_ino and the creates write without waiting for durability, load     *)
(* waits.  A crash keeps at least the durable prefix.                       *)
(***************************************************************************)
EXTENDS Integers, Sequences

CONSTANTS Threads,      \* file-system calls that may run at the same time
          LeaseSize,    \* LEASE_SIZE
          FirstIno,     \* ROOT_INO + 1, what mkfs stores
          MaxIno,       \* bound: numbers handed out in one behaviour
          MaxMounts,    \* bound: mounts in one behaviour
          PutMayFail    \* whether a storage write can be refused

ASSUME AllocAssumption ==
    /\ LeaseSize \in Nat \ {0}
    /\ FirstIno \in Nat
    /\ MaxIno \in Nat
    /\ MaxMounts \in Nat
    /\ PutMayFail \in BOOLEAN

VARIABLES next, lease_end,  \* AllocState
          wal,              \* the log: marks and created inodes
          durable,          \* how much of it has reached the object store
          mounts,           \* number of mounts so far
          mounted,          \* a Volume is open
          call              \* per thread: the create in progress

vars == <<next, lease_end, wal, durable, mounts, mounted, call>>

Mark(m)          == [key |-> "next_ino", val |-> m, mount |-> mounts]
Created(i)       == [key |-> "inode", val |-> i, mount |-> mounts]
Idle             == [pc |-> "idle", ino |-> 0, renew |-> 0]

(***************************************************************************)
(* What db.get(KEY_NEXT_INO) returns: the last mark written.                *)
(***************************************************************************)
MarkIn(log) ==
    LET marks == {i \in 1 .. Len(log) : log[i].key = "next_ino"}
    IN  log[CHOOSE i \in marks : \A j \in marks : j <= i].val

(***************************************************************************)
(* The type invariant; the allocator never stands outside its lease.        *)
(***************************************************************************)
TypeOK ==
    /\ next \in Nat /\ lease_end \in Nat
    /\ mounted => next < lease_end
    /\ wal \in Seq([key : {"next_ino", "inode"}, val : Nat, mount : 0 .. MaxMounts])
    /\ durable \in 0 .. Len(wal)
    /\ mounts \in 0 .. MaxMounts /\ mounted \in BOOLEAN
    /\ call \in [Threads -> [pc : {"idle", "renew", "create"}, ino : Nat, renew : Nat]]

(***************************************************************************)
(* A volume after mkfs: the mark is durable, nothing is mounted.            *)
(***************************************************************************)
Init ==
    /\ next = 0 /\ lease_end = 0
    /\ mounts = 0
    /\ wal = <<Mark(FirstIno)>>
    /\ durable = 1
    /\ mounted = FALSE
    /\ call = [t \in Threads |-> Idle]

(***************************************************************************)
(* InodeAllocator::load, the last step of mounting.  The put is durable     *)
(* before load returns; a crash before that leaves the mark as it was.      *)
(***************************************************************************)
Load ==
    /\ ~ mounted /\ mounts < MaxMounts
    /\ mounts' = mounts + 1
    /\ mounted' = TRUE
    /\ next' = MarkIn(wal)
    /\ lease_end' = MarkIn(wal) + LeaseSize
    /\ wal' = Append(wal, Mark(MarkIn(wal) + LeaseSize))
    /\ durable' = Len(wal')
    /\ UNCHANGED call

(***************************************************************************)
(* InodeAllocator::allocate, under the allocator's mutex.                   *)
(***************************************************************************)
\* Mutant: the lease is renewed one number too late.
Allocate_Late(t) ==
    /\ mounted /\ call[t].pc = "idle" /\ next < MaxIno
    /\ next' = next + 1
    /\ LET renew == next + 1 = lease_end + 1
       IN /\ lease_end' = IF renew THEN lease_end + LeaseSize ELSE lease_end
          /\ call' = [call EXCEPT ![t] =
                [pc |-> IF renew THEN "renew" ELSE "create", ino |-> next,
                 renew |-> IF renew THEN lease_end + LeaseSize ELSE 0]]
    /\ UNCHANGED <<wal, durable, mounts, mounted>>

\* Mutant: the number is read without being consumed when no renewal is due.
Allocate_Peek(t) ==
    /\ mounted /\ call[t].pc = "idle" /\ next < MaxIno
    /\ LET renew == next + 1 = lease_end
       IN /\ next' = IF renew THEN next + 1 ELSE next
          /\ lease_end' = IF renew THEN lease_end + LeaseSize ELSE lease_end
          /\ call' = [call EXCEPT ![t] =
                [pc |-> IF renew THEN "renew" ELSE "create", ino |-> next,
                 renew |-> IF renew THEN lease_end + LeaseSize ELSE 0]]
    /\ UNCHANGED <<wal, durable, mounts, mounted>>

Allocate(t) ==
    /\ mounted /\ call[t].pc = "idle" /\ next < MaxIno
    /\ next' = next + 1
    /\ LET renew == next + 1 = lease_end
       IN /\ lease_end' = IF renew THEN lease_end + LeaseSize ELSE lease_end
          /\ call' = [call EXCEPT ![t] =
                [pc |-> IF renew THEN "renew" ELSE "create", ino |-> next,
                 renew |-> IF renew THEN lease_end + LeaseSize ELSE 0]]
    /\ UNCHANGED <<wal, durable, mounts, mounted>>

(***************************************************************************)
(* The rest of alloc_ino when a renewal is due: the put of the new mark,    *)
(* not awaiting durability.  If it is refused the call fails with Io, the   *)
(* number is never used and the allocator keeps the lease it gave itself.   *)
(***************************************************************************)
PutLease(t) ==
    /\ call[t].pc = "renew"
    /\ wal' = Append(wal, Mark(call[t].renew))
    /\ call' = [call EXCEPT ![t].pc = "create"]
    /\ UNCHANGED <<next, lease_end, durable, mounts, mounted>>

PutLeaseFails(t) ==
    /\ PutMayFail
    /\ call[t].pc = "renew"
    /\ call' = [call EXCEPT ![t] = Idle]
    /\ UNCHANGED <<next, lease_end, wal, durable, mounts, mounted>>

(***************************************************************************)
(* insert_new_node's commit: the batch that stores the new inode, or its    *)
(* refusal (also EDQUOT), which wastes the number.                          *)
(***************************************************************************)
Create(t) ==
    /\ call[t].pc = "create"
    /\ wal' = Append(wal, Created(call[t].ino))
    /\ call' = [call EXCEPT ![t] = Idle]
    /\ UNCHANGED <<next, lease_end, durable, mounts, mounted>>

CreateFails(t) ==
    /\ call[t].pc = "create"
    /\ call' = [call EXCEPT ![t] = Idle]
    /\ UNCHANGED <<next, lease_end, wal, durable, mounts, mounted>>

(***************************************************************************)
(* SlateDB (external): the log reaches the object store in order, by its    *)
(* flush interval or by an fsync; a crash loses a suffix that has not.      *)
(***************************************************************************)
Flush ==
    /\ mounted
    /\ durable' \in durable + 1 .. Len(wal)
    /\ UNCHANGED <<next, lease_end, wal, mounts, mounted, call>>

Crash ==
    /\ mounted
    /\ mounted' = FALSE
    /\ wal' = SubSeq(wal, 1, durable)
    /\ call' = [t \in Threads |-> Idle]
    /\ UNCHANGED <<next, lease_end, durable, mounts>>

Next ==
    \/ Load \/ Flush \/ Crash
    \/ \E t \in Threads : \/ Allocate(t) \/ PutLease(t) \/ PutLeaseFails(t)
                          \/ Create(t) \/ CreateFails(t)

Spec == Init /\ [][Next]_vars
-------------------------------------------------------------------------------
CreatesIn(log) == {i \in 1 .. Len(log) : log[i].key = "inode"}

(***************************************************************************)
(* While a volume stays mounted its allocator never hands a number to two   *)
(* creates, whichever of them are renewing the lease (allocate consumes the *)
(* number and extends the lease in one critical section).                   *)
(***************************************************************************)
UniqueWithinMount ==
    /\ \A i, j \in CreatesIn(wal) :
          i # j /\ wal[i].mount = wal[j].mount => wal[i].val # wal[j].val
    /\ \A t \in Threads : call[t].pc # "idle" =>
          /\ \A u \in Threads \ {t} : call[u].pc # "idle" => call[u].ino # call[t].ino
          /\ \A i \in CreatesIn(wal) : wal[i].mount = mounts => wal[i].val # call[t].ino

(***************************************************************************)
(* Two creates of one mount never get the same number, and the allocator    *)
(* always has a number of its lease left to hand out (allocate, alloc_ino). *)
(***************************************************************************)
NumbersSound == TypeOK /\ UniqueWithinMount

(***************************************************************************)
(* alloc.rs: "the single writer leases blocks of [LEASE_SIZE] numbers by    *)
(* durably bumping the mark before handing any of them out", so that no     *)
(* create that survives in the log is followed by another of its number.    *)
(***************************************************************************)
NoInodeReused ==
    \A i, j \in CreatesIn(wal) : i # j => wal[i].val # wal[j].val
===============================================================================
