-------------------------- MODULE RangeLocks_proofs --------------------------
(***************************************************************************)
(* For every set of inodes, every number of handles and every offset width: *)
(* the lock table keeps its type, its owners exclude each other, each owner *)
(* has one mode per byte, and the table implements ByteLocks.               *)
(***************************************************************************)
EXTENDS RangeLocks, TLAPS

(***************************************************************************)
(* How a lock k of the carved table comes from a lock l of the table: it is *)
(* l untouched, or what sticks out of the range r on its left or its right. *)
(***************************************************************************)
Untouched(k, l, r) == k = l /\ ~ Covered(l, r)
LeftOf(k, l, r)    == Covered(l, r) /\ l.start < r.start /\ k.start = l.start /\ k.end = r.start
RightOf(k, l, r)   == Covered(l, r) /\ r.end < l.end /\ k.start = r.end /\ k.end = l.end
ComesFrom(k, l, r) ==
    /\ k.ino = l.ino /\ k.owner = l.owner /\ k.exclusive = l.exclusive
    /\ Untouched(k, l, r) \/ LeftOf(k, l, r) \/ RightOf(k, l, r)

(***************************************************************************)
(* Every lock of the carved table comes from one of the table.              *)
(***************************************************************************)
LEMMA CarveMember ==
    ASSUME NEW t \in SUBSET Locks, NEW r \in Locks, NEW k \in Carve(t, r)
    PROVE  k \in Locks /\ \E l \in t : ComesFrom(k, l, r)
  <1>1. CASE k \in {l \in t : ~ Covered(l, r)}
    BY <1>1 DEF ComesFrom, Untouched
  <1>2. CASE k \in LeftSurvivors(t, r)
    <2>1. PICK l \in t : Covered(l, r) /\ l.start < r.start /\ k = [l EXCEPT !.end = r.start]
      BY <1>2 DEF LeftSurvivors
    <2>2. k = [ino |-> l.ino, owner |-> l.owner, start |-> l.start, end |-> r.start,
               exclusive |-> l.exclusive]
      BY <2>1 DEF Locks
    <2> QED  BY <2>1, <2>2 DEF Locks, ComesFrom, LeftOf
  <1>3. CASE k \in RightSurvivors(t, r)
    <2>1. PICK l \in t : Covered(l, r) /\ r.end < l.end /\ k = [l EXCEPT !.start = r.end]
      BY <1>3 DEF RightSurvivors
    <2>2. k = [ino |-> l.ino, owner |-> l.owner, start |-> r.end, end |-> l.end,
               exclusive |-> l.exclusive]
      BY <2>1 DEF Locks
    <2> QED  BY <2>1, <2>2 DEF Locks, ComesFrom, RightOf
  <1> QED  BY <1>1, <1>2, <1>3 DEF Carve

(***************************************************************************)
(* A sound table: non-empty ranges, no conflict between owners, no overlap  *)
(* within one.                                                              *)
(***************************************************************************)
NonEmpty(t) == \A l \in t : l.start < l.end
NoConflict(t) == \A k, l \in t : ~ Conflicts(k, l)
Disjoint(t) ==
    \A k, l \in t : k # l /\ k.ino = l.ino /\ k.owner = l.owner => ~ Overlaps(k, l)
Sound(t) == NonEmpty(t) /\ NoConflict(t) /\ Disjoint(t)

(***************************************************************************)
(* Carving keeps a table sound and leaves nothing of the owner in the range.*)
(***************************************************************************)
LEMMA CarveSound ==
    ASSUME NEW t \in SUBSET Locks, Sound(t), NEW r \in Locks, r.start < r.end
    PROVE  /\ Carve(t, r) \in SUBSET Locks
           /\ Sound(Carve(t, r))
           /\ \A k \in Carve(t, r) : ~ Covered(k, r)
  <1> DEFINE c == Carve(t, r)
  <1>1. c \in SUBSET Locks
    BY CarveMember
  <1>2. ASSUME NEW k \in c
        PROVE  k.start < k.end /\ ~ Covered(k, r)
    <2>1. PICK l \in t : ComesFrom(k, l, r)
      BY CarveMember
    <2> QED
      BY <2>1, <1>1 DEF ComesFrom, Untouched, LeftOf, RightOf, Covered, Overlaps, Sound,
                        NonEmpty, Locks, Offsets
  <1>3. ASSUME NEW j \in c, NEW k \in c
        PROVE  ~ Conflicts(j, k)
    <2>1. PICK a \in t : ComesFrom(j, a, r)
      BY CarveMember
    <2>2. PICK b \in t : ComesFrom(k, b, r)
      BY CarveMember
    <2>3. ~ Conflicts(a, b)
      BY DEF Sound, NoConflict
    <2> QED
      BY <2>1, <2>2, <2>3, <1>1 DEF ComesFrom, Untouched, LeftOf, RightOf, Covered,
                                    Overlaps, Conflicts, Locks, Offsets
  <1>4. ASSUME NEW j \in c, NEW k \in c, j # k, j.ino = k.ino, j.owner = k.owner
        PROVE  ~ Overlaps(j, k)
    <2>1. PICK a \in t : ComesFrom(j, a, r)
      BY CarveMember
    <2>2. PICK b \in t : ComesFrom(k, b, r)
      BY CarveMember
    <2>3. CASE a # b
      <3>1. ~ Overlaps(a, b)
        BY <1>4, <2>1, <2>2, <2>3, Zenon DEF Sound, Disjoint, ComesFrom
      <3> QED
        BY <3>1, <2>1, <2>2, <1>1 DEF ComesFrom, Untouched, LeftOf, RightOf, Covered,
                                      Overlaps, Locks, Offsets
    <2>4. CASE a = b
      <3>1. ~ (j.start = k.start /\ j.end = k.end)
        BY <1>1, <1>4, <2>1, <2>2, <2>4 DEF ComesFrom, Locks
      <3> QED
        BY <3>1, <1>4, <2>1, <2>2, <2>4, <1>1 DEF ComesFrom, Untouched, LeftOf, RightOf,
                                            Covered, Overlaps, Locks, Offsets
    <2> QED  BY <2>3, <2>4
  <1> QED  BY <1>1, <1>2, <1>3, <1>4 DEF Sound, NonEmpty, NoConflict, Disjoint

(***************************************************************************)
(* A lock that try_lock does not refuse keeps the table sound.              *)
(***************************************************************************)
LEMMA InsertSound ==
    ASSUME NEW t \in SUBSET Locks, Sound(t), NEW r \in Locks, r.start < r.end,
           ~ Blocked(t, r)
    PROVE  Insert(t, r) \in SUBSET Locks /\ Sound(Insert(t, r))
  <1> DEFINE c == Carve(t, r)
  <1>1. c \in SUBSET Locks /\ Sound(c) /\ \A k \in c : ~ Covered(k, r)
    BY CarveSound
  <1>2. ASSUME NEW k \in c
        PROVE  ~ Conflicts(k, r) /\ ~ Conflicts(r, k)
    <2>1. PICK l \in t : ComesFrom(k, l, r)
      BY CarveMember
    <2>2. ~ Conflicts(l, r)
      BY DEF Blocked
    <2> QED
      BY <1>1, <2>1, <2>2 DEF ComesFrom, Untouched, LeftOf, RightOf, Covered, Overlaps,
                              Conflicts, Locks, Offsets
  <1>3. ~ Conflicts(r, r)
    BY DEF Conflicts
  <1>4. \A k \in c : k.ino = r.ino /\ k.owner = r.owner => ~ Overlaps(k, r) /\ ~ Overlaps(r, k)
    BY <1>1 DEF Covered, Overlaps
  <1> QED
    BY <1>1, <1>2, <1>3, <1>4 DEF Insert, Sound, NonEmpty, NoConflict, Disjoint
-------------------------------------------------------------------------------
(***************************************************************************)
(* The inductive invariant: the type and the soundness of the table, which  *)
(* is Exclusion and OwnerDisjoint.                                          *)
(***************************************************************************)
IInv == TypeOK /\ Exclusion /\ OwnerDisjoint

(***************************************************************************)
(* The invariant says of the lock table what the lemmas on carve ask for.   *)
(***************************************************************************)
LEMMA SoundInv == IInv => locks \in SUBSET Locks /\ Sound(locks)
  BY DEF IInv, TypeOK, Exclusion, OwnerDisjoint, Sound, NonEmpty, NoConflict, Disjoint

(***************************************************************************)
(* Every step of the volume keeps the inductive invariant.                  *)
(***************************************************************************)
LEMMA Inductive == IInv /\ [Next]_vars => IInv'
  <1> SUFFICES ASSUME IInv, [Next]_vars PROVE IInv'
    OBVIOUS
  <1> USE RangeLocksAssumption
  <1>0. TypeOK /\ locks \in SUBSET Locks /\ Sound(locks)
    BY SoundInv DEF IInv
  <1>s. ASSUME locks' \in SUBSET Locks, Sound(locks')
        PROVE  /\ Exclusion' /\ OwnerDisjoint'
               /\ locks' \subseteq Locks /\ \A l \in locks' : l.start < l.end
    BY <1>s DEF Exclusion, OwnerDisjoint, Sound, NonEmpty, NoConflict, Disjoint
  <1>1. ASSUME NEW ino \in Inos, Open(ino) PROVE IInv'
    <2>1. TypeOK'
      BY <1>0, <1>1 DEF Open, TypeOK, Handles
    <2> QED  BY <2>1, <1>0, <1>1, <1>s DEF Open, IInv
  <1>2. ASSUME NEW op \in {"lock", "unlock"}, NEW h \in Handles, NEW s \in Offsets,
               NEW e \in Offsets, NEW x \in BOOLEAN, LookupHandle(op, h, s, e, x)
        PROVE IInv'
    <2>1. by_handle[h] \in Inos
      BY <1>0, <1>2 DEF LookupHandle, TypeOK
    <2>2. [ino |-> by_handle[h], owner |-> h, start |-> s, end |-> e, exclusive |-> x] \in Locks
      BY <2>1 DEF Locks
    <2>3. calls' \subseteq Calls /\ \A c \in calls' : c.arg.start < c.arg.end
      BY <1>0, <1>2, <2>2 DEF LookupHandle, TypeOK, Calls
    <2>4. TypeOK'
      BY <1>0, <1>2, <2>3 DEF LookupHandle, TypeOK
    <2> QED  BY <2>4, <1>0, <1>2, <1>s DEF LookupHandle, IInv
  <1>3. ASSUME NEW c \in calls, TryLock(c) PROVE IInv'
    <2>1. c.arg \in Locks /\ c.arg.start < c.arg.end
      BY <1>0 DEF TypeOK, Calls
    <2>2. locks' \in SUBSET Locks /\ Sound(locks')
      BY <1>0, <1>3, <2>1, InsertSound DEF TryLock
    <2>3. TypeOK'
      BY <1>0, <1>3, <2>2, <1>s DEF TryLock, TypeOK
    <2> QED  BY <2>2, <2>3, <1>s DEF IInv
  <1>4. ASSUME NEW c \in calls, UnlockRange(c) PROVE IInv'
    <2>1. c.arg \in Locks /\ c.arg.start < c.arg.end
      BY <1>0 DEF TypeOK, Calls
    <2>2. locks' \in SUBSET Locks /\ Sound(locks')
      BY <1>0, <1>4, <2>1, CarveSound DEF UnlockRange
    <2>3. TypeOK'
      BY <1>0, <1>4, <2>2, <1>s DEF UnlockRange, TypeOK
    <2> QED  BY <2>2, <2>3, <1>s DEF IInv
  <1>5. ASSUME NEW h \in Handles, CloseHandle(h) PROVE IInv'
    <2>1. TypeOK'
      BY <1>0, <1>5 DEF CloseHandle, TypeOK, Handles
    <2> QED  BY <2>1, <1>0, <1>5, <1>s DEF CloseHandle, IInv
  <1>6. ASSUME NEW h \in Handles, UnlockOwner(h) PROVE IInv'
    <2>1. locks' \in SUBSET Locks /\ Sound(locks')
      BY <1>0, <1>6 DEF UnlockOwner, DropOwner, Sound, NonEmpty, NoConflict, Disjoint
    <2>2. TypeOK'
      BY <1>0, <1>6, <2>1, <1>s DEF UnlockOwner, TypeOK
    <2> QED  BY <2>1, <2>2, <1>s DEF IInv
  <1>7. CASE UNCHANGED vars
    BY <1>7, <1>0 DEF vars, IInv, TypeOK, Exclusion, OwnerDisjoint
  <1> QED  BY <1>1, <1>2, <1>3, <1>4, <1>5, <1>6, <1>7 DEF Next

(***************************************************************************)
(* An empty table is sound.                                                 *)
(***************************************************************************)
LEMMA InitInv == Init => IInv
  BY RangeLocksAssumption DEF Init, IInv, TypeOK, Exclusion, OwnerDisjoint, Handles

(***************************************************************************)
(* The tables keep their types under every interleaving of the calls.       *)
(***************************************************************************)
THEOREM TypeCorrect == Spec => []TypeOK
  <1>1. Spec => []IInv
    BY InitInv, Inductive, PTL DEF Spec
  <1>2. IInv => TypeOK
    BY DEF IInv
  <1> QED  BY <1>1, <1>2, PTL

(***************************************************************************)
(* Advisory locks exclude: no sequence of lock, unlock and close calls, in  *)
(* any interleaving, leaves two owners with conflicting locks.              *)
(***************************************************************************)
THEOREM LocksExclude == Spec => []Exclusion
  <1>1. Spec => []IInv
    BY InitInv, Inductive, PTL DEF Spec
  <1>2. IInv => Exclusion
    BY DEF IInv
  <1> QED  BY <1>1, <1>2, PTL

(***************************************************************************)
(* One owner's locks on an inode never overlap: a byte has one mode.        *)
(***************************************************************************)
THEOREM OwnersLocksDisjoint == Spec => []OwnerDisjoint
  <1>1. Spec => []IInv
    BY InitInv, Inductive, PTL DEF Spec
  <1>2. IInv => OwnerDisjoint
    BY DEF IInv
  <1> QED  BY <1>1, <1>2, PTL

(***************************************************************************)
(* Both together: the lock table of a mounted volume is sound whatever the  *)
(* frontends call and however their calls interleave.                       *)
(***************************************************************************)
THEOREM TableStaysSound == Spec => []TableSound
  BY TypeCorrect, LocksExclude, OwnersLocksDisjoint, PTL DEF TableSound
-------------------------------------------------------------------------------
(***************************************************************************)
(* The refinement.  A byte of the owner outside the carved range, and every *)
(* byte of anyone else, stays under a lock of the same mode.                *)
(***************************************************************************)
Holds(l, i, o, b) == l.ino = i /\ l.owner = o /\ l.start <= b /\ b < l.end
InRange(r, i, o, b) == i = r.ino /\ o = r.owner /\ r.start <= b /\ b < r.end

(***************************************************************************)
(* carve leaves a byte outside the range under a lock of the same mode.     *)
(***************************************************************************)
LEMMA CarveKeeps ==
    ASSUME NEW t \in SUBSET Locks, NEW r \in Locks, NEW l \in t, NEW i, NEW o,
           NEW b \in Int, Holds(l, i, o, b), ~ InRange(r, i, o, b)
    PROVE  \E k \in Carve(t, r) : Holds(k, i, o, b) /\ k.exclusive = l.exclusive
  <1> USE DEF Locks, Offsets
  <1>1. CASE ~ Covered(l, r)
    BY <1>1 DEF Carve
  <1>2. CASE Covered(l, r) /\ b < r.start
    <2> DEFINE k == [l EXCEPT !.end = r.start]
    <2>1. k \in LeftSurvivors(t, r)
      BY <1>2 DEF LeftSurvivors, Holds
    <2>2. k = [ino |-> l.ino, owner |-> l.owner, start |-> l.start, end |-> r.start,
               exclusive |-> l.exclusive]
      OBVIOUS
    <2> HIDE DEF k
    <2>3. Holds(k, i, o, b) /\ k.exclusive = l.exclusive
      BY <1>2, <2>2 DEF Holds
    <2> QED  BY <2>1, <2>3 DEF Carve
  <1>3. CASE Covered(l, r) /\ r.end <= b
    <2> DEFINE k == [l EXCEPT !.start = r.end]
    <2>1. k \in RightSurvivors(t, r)
      BY <1>3 DEF RightSurvivors, Holds
    <2>2. k = [ino |-> l.ino, owner |-> l.owner, start |-> r.end, end |-> l.end,
               exclusive |-> l.exclusive]
      OBVIOUS
    <2> HIDE DEF k
    <2>3. Holds(k, i, o, b) /\ k.exclusive = l.exclusive
      BY <1>3, <2>2 DEF Holds
    <2> QED  BY <2>1, <2>3 DEF Carve
  <1> QED  BY <1>1, <1>2, <1>3 DEF Covered, InRange, Holds

(***************************************************************************)
(* carve leaves no lock of the owner in the range and adds none elsewhere.  *)
(***************************************************************************)
LEMMA CarveAdds ==
    ASSUME NEW t \in SUBSET Locks, NEW r \in Locks, r.start < r.end,
           NEW k \in Carve(t, r), NEW i, NEW o,
           NEW b \in Int, Holds(k, i, o, b)
    PROVE  /\ ~ InRange(r, i, o, b)
           /\ \E l \in t : Holds(l, i, o, b) /\ l.exclusive = k.exclusive
  <1>1. PICK l \in t : ComesFrom(k, l, r)
    BY CarveMember
  <1>2. k \in Locks
    BY CarveMember
  <1> QED
    BY <1>1, <1>2 DEF ComesFrom, Untouched, LeftOf, RightOf, Covered, Overlaps, Holds,
                      InRange, Locks, Offsets

(***************************************************************************)
(* ModeOf in terms of Holds, so that the provers see quantifiers only.      *)
(***************************************************************************)
LEMMA ModeOfHolds ==
    ASSUME NEW t, NEW i, NEW o, NEW b
    PROVE  ModeOf(t, i, o, b) =
             IF \E l \in t : Holds(l, i, o, b) /\ l.exclusive THEN "exclusive"
             ELSE IF \E l \in t : Holds(l, i, o, b) THEN "shared" ELSE "none"
  BY DEF ModeOf, HeldOn, Holds

(***************************************************************************)
(* So carve unlocks the bytes of the range and no others.                   *)
(***************************************************************************)
LEMMA CarveMode ==
    ASSUME NEW t \in SUBSET Locks, NEW r \in Locks, r.start < r.end,
           NEW i, NEW o, NEW b \in Int
    PROVE  ModeOf(Carve(t, r), i, o, b) =
               IF InRange(r, i, o, b) THEN "none" ELSE ModeOf(t, i, o, b)
  <1>1. (\E k \in Carve(t, r) : Holds(k, i, o, b)) <=>
            ~ InRange(r, i, o, b) /\ \E l \in t : Holds(l, i, o, b)
    BY CarveKeeps, CarveAdds
  <1>2. (\E k \in Carve(t, r) : Holds(k, i, o, b) /\ k.exclusive) <=>
            ~ InRange(r, i, o, b) /\ \E l \in t : Holds(l, i, o, b) /\ l.exclusive
    BY CarveKeeps, CarveAdds
  <1> QED  BY <1>1, <1>2, ModeOfHolds

(***************************************************************************)
(* try_lock gives the bytes of the range the new mode, and no others.       *)
(***************************************************************************)
LEMMA InsertMode ==
    ASSUME NEW t \in SUBSET Locks, NEW r \in Locks, r.start < r.end,
           NEW i, NEW o, NEW b \in Int
    PROVE  ModeOf(Insert(t, r), i, o, b) =
               IF InRange(r, i, o, b) THEN IF r.exclusive THEN "exclusive" ELSE "shared"
               ELSE ModeOf(t, i, o, b)
  <1>1. Holds(r, i, o, b) <=> InRange(r, i, o, b)
    BY DEF Holds, InRange
  <1>2. CASE InRange(r, i, o, b)
    <2>1. \A k \in Carve(t, r) : ~ Holds(k, i, o, b)
      BY <1>2, CarveAdds
    <2> QED  BY <1>1, <1>2, <2>1, ModeOfHolds DEF Insert
  <1>3. CASE ~ InRange(r, i, o, b)
    <2>1. ModeOf(Insert(t, r), i, o, b) = ModeOf(Carve(t, r), i, o, b)
      BY <1>1, <1>3, ModeOfHolds DEF Insert
    <2> QED  BY <1>3, <2>1, CarveMode
  <1> QED  BY <1>2, <1>3

(***************************************************************************)
(* Each step of the volume is a step of ByteLocks or leaves every byte's    *)
(* mode alone.                                                              *)
(***************************************************************************)
RangeBytes(r) == {b \in 0 .. MaxOff - 1 : r.start <= b /\ b < r.end}

(***************************************************************************)
(* try_lock that is not refused is Lock on the bytes of its range.          *)
(***************************************************************************)
LEMMA TryLockStep ==
    ASSUME IInv, NEW c \in calls, TryLock(c), ~ Blocked(locks, c.arg)
    PROVE  Abstract!Lock(c.arg.ino, c.arg.owner, RangeBytes(c.arg),
                         IF c.arg.exclusive THEN "exclusive" ELSE "shared")
  <1> DEFINE r == c.arg
             m == IF r.exclusive THEN "exclusive" ELSE "shared"
             D == Inos \X Handles \X (0 .. MaxOff - 1)
  <1>1. r \in Locks /\ r.start < r.end /\ locks \in SUBSET Locks /\ locks' = Insert(locks, r)
    BY DEF IInv, TypeOK, Calls, TryLock
  <1>2. ASSUME NEW p \in Handles \ {r.owner}, NEW b \in RangeBytes(r)
        PROVE  Abstract!Compatible(m, ModeMap(locks)[<<r.ino, p, b>>])
    <2>1. r.ino \in Inos /\ b \in 0 .. MaxOff - 1
      BY <1>1 DEF Locks, RangeBytes
    <2>2. ModeMap(locks)[<<r.ino, p, b>>] = ModeOf(locks, r.ino, p, b)
      BY <2>1 DEF ModeMap
    <2>3. \A l \in locks : Holds(l, r.ino, p, b) => ~ r.exclusive /\ ~ l.exclusive
      BY <1>1 DEF Blocked, Conflicts, Overlaps, Holds, Locks, Offsets, RangeBytes
    <2>4. ModeOf(locks, r.ino, p, b) = "none" \/ (~ r.exclusive /\ ModeOf(locks, r.ino, p, b) = "shared")
      BY <2>3, ModeOfHolds
    <2> QED  BY <2>2, <2>4 DEF Abstract!Compatible
  <1>3. ASSUME NEW x \in D
        PROVE  ModeMap(locks')[x] = IF x[1] = r.ino /\ x[2] = r.owner /\ x[3] \in RangeBytes(r)
                                    THEN m ELSE ModeMap(locks)[x]
    <2>1. ModeMap(locks')[x] = ModeOf(locks', x[1], x[2], x[3])
          /\ ModeMap(locks)[x] = ModeOf(locks, x[1], x[2], x[3])
      BY DEF ModeMap
    <2>2. x[3] \in Int
      OBVIOUS
    <2>3. ModeOf(locks', x[1], x[2], x[3]) =
            IF InRange(r, x[1], x[2], x[3]) THEN m ELSE ModeOf(locks, x[1], x[2], x[3])
      BY <1>1, <2>2, InsertMode
    <2> QED  BY <2>1, <2>3 DEF InRange, RangeBytes
  <1>4. ModeMap(locks') = Abstract!Updated(ModeMap(locks), r.ino, r.owner, RangeBytes(r), m)
    BY <1>3 DEF ModeMap, Abstract!Updated
  <1> QED  BY <1>2, <1>4 DEF Abstract!Lock, Abstract!Grantable

(***************************************************************************)
(* unlock is Unlock on the bytes of its range.                              *)
(***************************************************************************)
LEMMA UnlockStep ==
    ASSUME IInv, NEW c \in calls, UnlockRange(c)
    PROVE  Abstract!Unlock(c.arg.ino, c.arg.owner, RangeBytes(c.arg))
  <1> DEFINE r == c.arg
             D == Inos \X Handles \X (0 .. MaxOff - 1)
  <1>1. r \in Locks /\ r.start < r.end /\ locks \in SUBSET Locks /\ locks' = Carve(locks, r)
    BY DEF IInv, TypeOK, Calls, UnlockRange
  <1>3. ASSUME NEW x \in D
        PROVE  ModeMap(locks')[x] = IF x[1] = r.ino /\ x[2] = r.owner /\ x[3] \in RangeBytes(r)
                                    THEN "none" ELSE ModeMap(locks)[x]
    <2>1. ModeMap(locks')[x] = ModeOf(locks', x[1], x[2], x[3])
          /\ ModeMap(locks)[x] = ModeOf(locks, x[1], x[2], x[3])
      BY DEF ModeMap
    <2>2. x[3] \in Int
      OBVIOUS
    <2>3. ModeOf(locks', x[1], x[2], x[3]) =
            IF InRange(r, x[1], x[2], x[3]) THEN "none" ELSE ModeOf(locks, x[1], x[2], x[3])
      BY <1>1, <2>2, CarveMode
    <2> QED  BY <2>1, <2>3 DEF InRange, RangeBytes
  <1>4. ModeMap(locks') = Abstract!Updated(ModeMap(locks), r.ino, r.owner, RangeBytes(r), "none")
    BY <1>3 DEF ModeMap, Abstract!Updated
  <1> QED  BY <1>4 DEF Abstract!Unlock

(***************************************************************************)
(* The end of close is Release of all that the handle owned.                *)
(***************************************************************************)
LEMMA ReleaseStep ==
    ASSUME NEW h \in Handles, UnlockOwner(h)
    PROVE  Abstract!Release(h)
  <1>1. ASSUME NEW x \in Inos \X Handles \X (0 .. MaxOff - 1)
        PROVE  ModeMap(locks')[x] = IF x[2] = h THEN "none" ELSE ModeMap(locks)[x]
    <2>1. ModeMap(locks')[x] = ModeOf(locks', x[1], x[2], x[3])
          /\ ModeMap(locks)[x] = ModeOf(locks, x[1], x[2], x[3])
      BY DEF ModeMap
    <2>2. ModeOf(locks', x[1], x[2], x[3]) =
            IF x[2] = h THEN "none" ELSE ModeOf(locks, x[1], x[2], x[3])
      BY ModeOfHolds DEF UnlockOwner, DropOwner, Holds
    <2> QED  BY <2>1, <2>2
  <1> QED  BY <1>1 DEF ModeMap, Abstract!Release, Abstract!Released

(***************************************************************************)
(* The lock table implements the byte-lock specification: each call takes   *)
(* effect at once, on exactly the bytes it names, and never against another *)
(* owner's mode.                                                            *)
(***************************************************************************)
THEOREM TableImplementsByteLocks == Spec => ImplementsByteLocks
  <1>1. Init => Abstract!Init
    BY DEF Init, Abstract!Init, ModeMap, ModeOf, HeldOn
  <1>2. IInv /\ [Next]_vars => [Abstract!Next]_(ModeMap(locks))
    <2> SUFFICES ASSUME IInv, Next PROVE Abstract!Next \/ ModeMap(locks') = ModeMap(locks)
      BY DEF vars, ModeMap
    <2>1. ASSUME NEW c \in calls, TryLock(c) PROVE Abstract!Next \/ ModeMap(locks') = ModeMap(locks)
      <3>1. CASE Blocked(locks, c.arg)
        BY <2>1, <3>1 DEF TryLock
      <3>2. CASE ~ Blocked(locks, c.arg)
        <4>1. c.arg.ino \in Inos /\ c.arg.owner \in Handles
              /\ RangeBytes(c.arg) \in SUBSET (0 .. MaxOff - 1)
          BY DEF IInv, TypeOK, Calls, Locks, RangeBytes
        <4>2. Abstract!Lock(c.arg.ino, c.arg.owner, RangeBytes(c.arg),
                            IF c.arg.exclusive THEN "exclusive" ELSE "shared")
          BY <2>1, <3>2, TryLockStep
        <4> QED  BY <4>1, <4>2 DEF Abstract!Next
      <3> QED  BY <3>1, <3>2
    <2>2. ASSUME NEW c \in calls, UnlockRange(c) PROVE Abstract!Next \/ ModeMap(locks') = ModeMap(locks)
      <3>1. c.arg.ino \in Inos /\ c.arg.owner \in Handles
            /\ RangeBytes(c.arg) \in SUBSET (0 .. MaxOff - 1)
        BY DEF IInv, TypeOK, Calls, Locks, RangeBytes
      <3>2. Abstract!Unlock(c.arg.ino, c.arg.owner, RangeBytes(c.arg))
        BY <2>2, UnlockStep
      <3> QED  BY <3>1, <3>2 DEF Abstract!Next
    <2>3. ASSUME NEW h \in Handles, UnlockOwner(h) PROVE Abstract!Next \/ ModeMap(locks') = ModeMap(locks)
      BY <2>3, ReleaseStep DEF Abstract!Next
    <2>4. ASSUME NEW ino \in Inos, Open(ino) PROVE ModeMap(locks') = ModeMap(locks)
      BY <2>4 DEF Open
    <2>5. ASSUME NEW op \in {"lock", "unlock"}, NEW h \in Handles, NEW s \in Offsets,
                 NEW e \in Offsets, NEW x \in BOOLEAN, LookupHandle(op, h, s, e, x)
          PROVE  ModeMap(locks') = ModeMap(locks)
      BY <2>5 DEF LookupHandle
    <2>6. ASSUME NEW h \in Handles, CloseHandle(h) PROVE ModeMap(locks') = ModeMap(locks)
      BY <2>6 DEF CloseHandle
    <2> QED  BY <2>1, <2>2, <2>3, <2>4, <2>5, <2>6 DEF Next
  <1>3. Spec => []IInv
    BY InitInv, Inductive, PTL DEF Spec
  <1> QED  BY <1>1, <1>2, <1>3, PTL DEF Spec, ImplementsByteLocks, Abstract!Spec
===============================================================================
