---------------------------- MODULE RangeLockTable ----------------------------
(***************************************************************************)
(* The advisory byte-range lock table of slatefs-core/src/locks.rs, as      *)
(* operators on one flat set of locks: by_ino is a map from inode to a      *)
(* vector of RangeLock, and here each lock carries its inode.  The vector's *)
(* order only decides which of several conflicting locks a refused caller   *)
(* is shown, so a set stands for it (two equal entries cannot arise: carve  *)
(* removes what a new lock of the same owner would overlap).                *)
(***************************************************************************)
EXTENDS Integers

(***************************************************************************)
(* LockRange::overlaps.  A range is half open, [start, end).                *)
(***************************************************************************)
Overlaps(a, b) == a.start < b.end /\ b.start < a.end

(***************************************************************************)
(* The predicate of try_lock's and test's find(): another owner's lock on   *)
(* the same inode, overlapping, and one of the two exclusive.               *)
(***************************************************************************)
\* Mutant: only an exclusive lock already in the table counts as a conflict.
Conflicts_HolderOnly(l, lock) ==
    /\ l.ino = lock.ino
    /\ l.owner # lock.owner
    /\ Overlaps(l, lock)
    /\ l.exclusive

Conflicts(l, lock) ==
    /\ l.ino = lock.ino
    /\ l.owner # lock.owner
    /\ Overlaps(l, lock)
    /\ l.exclusive \/ lock.exclusive

(***************************************************************************)
(* RangeLockTable::carve.  Locks of `owner` that overlap `range` are        *)
(* replaced by what sticks out of it on the left and on the right.          *)
(***************************************************************************)
Covered(l, range) ==
    /\ l.ino = range.ino
    /\ l.owner = range.owner
    /\ Overlaps(l, range)

LeftSurvivors(table, range) ==
    {[l EXCEPT !.end = range.start] :
        l \in {k \in table : Covered(k, range) /\ k.start < range.start}}

\* Mutant: the part of a split lock right of the range is lost.
RightSurvivors_Lost(table, range) == {}

RightSurvivors(table, range) ==
    {[l EXCEPT !.start = range.end] :
        l \in {k \in table : Covered(k, range) /\ range.end < k.end}}

Carve(table, range) ==
    {l \in table : ~ Covered(l, range)}
        \cup LeftSurvivors(table, range)
        \cup RightSurvivors(table, range)

(***************************************************************************)
(* RangeLockTable::try_lock, when it does not return Err(conflict): the     *)
(* owner's own overlaps are carved away, then the new lock is added.        *)
(***************************************************************************)
Blocked(table, lock) == \E l \in table : Conflicts(l, lock)

\* Mutant: the owner's overlapping locks are not carved away first.
Insert_NoCarve(table, lock) == table \cup {lock}

Insert(table, lock) == Carve(table, lock) \cup {lock}

(***************************************************************************)
(* RangeLockTable::unlock_owner.                                            *)
(***************************************************************************)
DropOwner(table, owner) == {l \in table : l.owner # owner}
===============================================================================
