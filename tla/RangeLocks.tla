------------------------------ MODULE RangeLocks ------------------------------
(***************************************************************************)
(* Open handles and the byte-range locks they own, as the Vfs calls open,   *)
(* close, lock and unlock of a mounted volume use them                      *)
(* (slatefs-core/src/vfs_impl.rs, volume.rs HandleTable, locks.rs).         *)
(*                                                                          *)
(* The handle table and the lock table are two mutexes.  lock and unlock    *)
(* look the handle up under the first and then act under the second; close  *)
(* removes the handle under the first and then drops its locks under the    *)
(* second.  The 9P server runs every request in a task of its own, so these *)
(* halves interleave: `calls` and `closing` hold the calls between theirs.  *)
(***************************************************************************)
EXTENDS RangeLockTable

CONSTANTS Inos,         \* inodes
          NoIno,        \* what by_handle yields for a handle not in the table
          MaxHandles,   \* bound: handles opened in one behaviour
          MaxOff        \* the offset u64::MAX, which also means "to EOF"

ASSUME RangeLocksAssumption ==
    /\ MaxHandles \in Nat
    /\ MaxOff \in Nat \ {0}
    /\ NoIno \notin Inos

VARIABLES next,       \* HandleTable.next: the last handle given out
          by_handle,  \* HandleTable.by_handle
          locks,      \* RangeLockTable.by_ino
          calls,      \* lock and unlock calls that have found their handle
          closing     \* handles removed, their locks not yet dropped

vars == <<next, by_handle, locks, calls, closing>>

Handles == 1 .. MaxHandles
Offsets == 0 .. MaxOff
Locks   == [ino : Inos, owner : Handles, start : Offsets, end : Offsets,
            exclusive : BOOLEAN]
Calls   == [op : {"lock", "unlock"}, arg : Locks]

(***************************************************************************)
(* The type invariant: ranges are never empty, and handles beyond the last  *)
(* one given out are not in the table.                                      *)
(***************************************************************************)
TypeOK ==
    /\ next \in 0 .. MaxHandles
    /\ by_handle \in [Handles -> Inos \cup {NoIno}]
    /\ \A h \in Handles : h > next => by_handle[h] = NoIno
    /\ locks \subseteq Locks
    /\ \A l \in locks : l.start < l.end
    /\ calls \subseteq Calls
    /\ \A c \in calls : c.arg.start < c.arg.end
    /\ closing \subseteq Handles

Init ==
    /\ next = 0
    /\ by_handle = [h \in Handles |-> NoIno]
    /\ locks = {}
    /\ calls = {}
    /\ closing = {}

(***************************************************************************)
(* Vfs::open, from the point where the inode has been loaded and access     *)
(* granted: HandleTable::open.                                              *)
(***************************************************************************)
Open(ino) ==
    /\ next < MaxHandles
    /\ next' = next + 1
    /\ by_handle' = [by_handle EXCEPT ![next + 1] = ino]
    /\ UNCHANGED <<locks, calls, closing>>

(***************************************************************************)
(* Vfs::lock and Vfs::unlock up to the handle lookup: an empty range and an *)
(* unknown handle are refused.  (So is every call on a dead volume, which   *)
(* is the action not being taken.)                                          *)
(***************************************************************************)
\* Mutant: the start >= end check is missing.
LookupHandle_EmptyRange(op, h, start, end, exclusive) ==
    /\ op = "unlock" => ~ exclusive
    /\ by_handle[h] # NoIno
    /\ calls' = calls \cup
         {[op |-> op, arg |-> [ino |-> by_handle[h], owner |-> h,
                               start |-> start, end |-> end,
                               exclusive |-> exclusive]]}
    /\ UNCHANGED <<next, by_handle, locks, closing>>

LookupHandle(op, h, start, end, exclusive) ==
    /\ start < end
    /\ op = "unlock" => ~ exclusive      \* unlock takes no such argument
    /\ by_handle[h] # NoIno
    /\ calls' = calls \cup
         {[op |-> op, arg |-> [ino |-> by_handle[h], owner |-> h,
                               start |-> start, end |-> end,
                               exclusive |-> exclusive]]}
    /\ UNCHANGED <<next, by_handle, locks, closing>>

(***************************************************************************)
(* The second half of Vfs::lock: try_lock, whose Err becomes WouldBlock.    *)
(***************************************************************************)
TryLock(c) ==
    /\ c.op = "lock"
    /\ calls' = calls \ {c}
    /\ locks' = IF Blocked(locks, c.arg) THEN locks ELSE Insert(locks, c.arg)
    /\ UNCHANGED <<next, by_handle, closing>>

(***************************************************************************)
(* The second half of Vfs::unlock.                                          *)
(***************************************************************************)
UnlockRange(c) ==
    /\ c.op = "unlock"
    /\ calls' = calls \ {c}
    /\ locks' = Carve(locks, c.arg)
    /\ UNCHANGED <<next, by_handle, closing>>

(***************************************************************************)
(* Vfs::close: HandleTable::close, then unlock_owner.  (What follows for    *)
(* the last handle of an unlinked file is module OrphanLifecycle.)          *)
(***************************************************************************)
CloseHandle(h) ==
    /\ by_handle[h] # NoIno
    /\ by_handle' = [by_handle EXCEPT ![h] = NoIno]
    /\ closing' = closing \cup {h}
    /\ UNCHANGED <<next, locks, calls>>

UnlockOwner(h) ==
    /\ h \in closing
    /\ closing' = closing \ {h}
    /\ locks' = DropOwner(locks, h)
    /\ UNCHANGED <<next, by_handle, calls>>

Next ==
    \/ \E ino \in Inos : Open(ino)
    \/ \E op \in {"lock", "unlock"}, h \in Handles, s \in Offsets, e \in Offsets,
          x \in BOOLEAN : LookupHandle(op, h, s, e, x)
    \/ \E c \in calls : TryLock(c) \/ UnlockRange(c)
    \/ \E h \in Handles : CloseHandle(h) \/ UnlockOwner(h)

Spec == Init /\ [][Next]_vars
-------------------------------------------------------------------------------
(***************************************************************************)
(* Two owners never hold conflicting locks: whatever a chain of partial     *)
(* upgrades, downgrades, unlocks and splits has left in the table, locks of *)
(* different owners that overlap are both shared.                           *)
(***************************************************************************)
Exclusion == \A k, l \in locks : ~ Conflicts(k, l)

(***************************************************************************)
(* One owner's locks on an inode are disjoint, so that each byte has one    *)
(* mode: carve leaves no remnant under the lock that replaces it.           *)
(***************************************************************************)
OwnerDisjoint ==
    \A k, l \in locks :
        k # l /\ k.ino = l.ino /\ k.owner = l.owner => ~ Overlaps(k, l)

(***************************************************************************)
(* What try_lock, unlock and unlock_owner keep true of the table: its locks *)
(* are well formed, owners exclude each other, and a byte has one mode per  *)
(* owner.                                                                   *)
(***************************************************************************)
TableSound == TypeOK /\ Exclusion /\ OwnerDisjoint

(***************************************************************************)
(* The table read byte by byte implements ByteLocks: every call changes     *)
(* exactly the requested bytes of its owner, and all bytes of a lock are    *)
(* granted or none.                                                         *)
(***************************************************************************)
HeldOn(t, i, o, b) ==
    {l \in t : l.ino = i /\ l.owner = o /\ l.start <= b /\ b < l.end}

ModeOf(t, i, o, b) ==
    IF HeldOn(t, i, o, b) = {} THEN "none"
    ELSE IF \E l \in HeldOn(t, i, o, b) : l.exclusive THEN "exclusive" ELSE "shared"

ModeMap(t) ==
    [x \in Inos \X Handles \X (0 .. MaxOff - 1) |-> ModeOf(t, x[1], x[2], x[3])]

Abstract == INSTANCE ByteLocks WITH
                Owners <- Handles, Bytes <- 0 .. MaxOff - 1, mode <- ModeMap(locks)

ImplementsByteLocks == Abstract!Spec

(***************************************************************************)
(* locks.rs says of unlock_owner, which close calls, "Drop everything held  *)
(* by `owner` (connection teardown)": a handle that is closed, its close    *)
(* finished, owns no lock.                                                  *)
(***************************************************************************)
ClosedHandleOwnsNothing ==
    \A l \in locks : by_handle[l.owner] # NoIno \/ l.owner \in closing
===============================================================================
