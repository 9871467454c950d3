------------------------------- MODULE ByteLocks -------------------------------
(***************************************************************************)
(* What an advisory byte-range lock table promises, with no ranges in it:   *)
(* every byte of every inode is, for every owner, unlocked, locked shared   *)
(* or locked exclusive.  A lock call changes the requested bytes of one     *)
(* owner and nothing else, and is granted only if no other owner's mode on  *)
(* one of those bytes excludes it.                                          *)
(***************************************************************************)
CONSTANTS Inos, Owners, Bytes

VARIABLE mode

Modes == {"none", "shared", "exclusive"}

Compatible(m, n) == m = "none" \/ n = "none" \/ (m = "shared" /\ n = "shared")

TypeOK == mode \in [Inos \X Owners \X Bytes -> Modes]

Init == mode = [x \in Inos \X Owners \X Bytes |-> "none"]

(***************************************************************************)
(* The cells of a mode table that belong to owner o, on the bytes S of      *)
(* inode i, take mode m.  S is any set of bytes, a range being one.         *)
(***************************************************************************)
Updated(cur, i, o, S, m) ==
    [x \in Inos \X Owners \X Bytes |->
        IF x[1] = i /\ x[2] = o /\ x[3] \in S THEN m ELSE cur[x]]

Grantable(cur, i, o, S, m) ==
    \A p \in Owners \ {o}, b \in S : Compatible(m, cur[<<i, p, b>>])

Lock(i, o, S, m) == Grantable(mode, i, o, S, m) /\ mode' = Updated(mode, i, o, S, m)

Unlock(i, o, S) == mode' = Updated(mode, i, o, S, "none")

(***************************************************************************)
(* An owner goes away: all its bytes of all inodes are released.            *)
(***************************************************************************)
Released(cur, o) ==
    [x \in Inos \X Owners \X Bytes |-> IF x[2] = o THEN "none" ELSE cur[x]]

Release(o) == mode' = Released(mode, o)

\* A call that changes no byte is a stuttering step.
Next ==
    /\ mode' # mode
    /\ \E o \in Owners :
          \/ Release(o)
          \/ \E i \in Inos, S \in SUBSET Bytes :
                \/ Unlock(i, o, S)
                \/ \E m \in {"shared", "exclusive"} : Lock(i, o, S, m)

Spec == Init /\ [][Next]_mode
===============================================================================
