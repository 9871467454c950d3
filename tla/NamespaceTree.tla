---------------------------- MODULE NamespaceTree ----------------------------
(***************************************************************************)
(* What the namespace of a volume promises: a tree of directories with hard *)
(* links to files at its leaves, on which each operation is one atomic      *)
(* step.  No link counts, parent pointers, entry numbers or locks.          *)
(***************************************************************************)
EXTENDS Integers, FiniteSets

CONSTANTS Inos, Names, Root

VARIABLES kind,    \* what each inode is: "none", "file" or "dir"
          name     \* the entries: a set of <<directory, name, inode>>

vars == <<kind, name>>

Free(p, n)    == ~ \E c \in Inos : <<p, n, c>> \in name
EmptyDir(d)   == \A e \in name : e[1] # d
LastName(e)   == ~ \E f \in name \ {e} : f[3] = e[3]

\* d is at or above p, as the entries tell it: every set that holds p and,
\* with an inode, the directories naming it, holds d.
Above(d, p) ==
    \A S \in SUBSET Inos :
        (p \in S /\ \A e \in name : e[3] \in S => e[1] \in S) => d \in S

Without(i) == [kind EXCEPT ![i] = "none"]

Add(p, n, i, k) ==
    /\ kind[p] = "dir" /\ Free(p, n)
    /\ IF k = "link" THEN kind[i] = "file" /\ kind' = kind
                     ELSE kind[i] = "none" /\ kind' = [kind EXCEPT ![i] = k]
    /\ name' = name \cup {<<p, n, i>>}

Remove(e) ==
    /\ e \in name
    /\ kind[e[3]] = "dir" => EmptyDir(e[3])
    /\ name' = name \ {e}
    /\ kind' = IF LastName(e) THEN Without(e[3]) ELSE kind

\* The moved entry takes the place of whatever had the new name.
Move(e, p, n) ==
    LET old == {f \in name : f[1] = p /\ f[2] = n}
    IN  /\ e \in name /\ kind[p] = "dir"
        /\ kind[e[3]] = "dir" => ~ Above(e[3], p)
        /\ \A f \in old :
              /\ f[3] # e[3]
              /\ kind[f[3]] = kind[e[3]]
              /\ kind[f[3]] = "dir" => EmptyDir(f[3])
        /\ name' = (name \ ({e} \cup old)) \cup {<<p, n, e[3]>>}
        /\ kind' = [i \in Inos |->
                      IF \E f \in old : f[3] = i /\ LastName(f) THEN "none" ELSE kind[i]]

Init ==
    /\ kind \in [Inos -> {"none", "file", "dir"}]
    /\ name \subseteq Inos \X Names \X Inos
    /\ kind[Root] = "dir"

\* Every operation drops an entry, adds one or both.
Next ==
    LET gone  == name \ name'
        added == name' \ name
    IN  \/ \E e \in added, k \in {"file", "dir", "link"} : Add(e[1], e[2], e[3], k)
        \/ \E e \in gone : Remove(e) \/ \E f \in added : Move(e, f[1], f[2])

Spec == Init /\ [][Next]_vars
===============================================================================
