------------------------------ MODULE MC_Files ------------------------------
(***************************************************************************)
(* RangeLocks, Namespace and WorkingTree for TLC: the locks, the tree and   *)
(* the commits of a mounted volume.  They share no state: a behaviour is    *)
(* one of them, and part says which.                                        *)
(*                                                                          *)
(* Two handles on one inode, ranges over four offsets (so that a range can  *)
(* be split in two), and a call between its halves at any moment.  Four     *)
(* inode numbers, two names and two concurrent calls of any kind with any   *)
(* arguments, started from trees that differ in depth, in hard links and in *)
(* whether a number is left to create with; inodes 1 and 3 share a stripe.  *)
(* Two commits and two restores of a directory and a file of up to two      *)
(* chunks in it, with two client calls between any of their steps.          *)
(***************************************************************************)
EXTENDS RangeLocks, FiniteSets, TLC

CONSTANTS Parts,          \* a subset of {"locks", "tree", "commits"}
          MaxLockCalls,   \* bound: lock and unlock calls in flight at a time
          TreeInos, Names, Root, Threads, Stripe, NoThread, Trees, MaxCalls,
          Paths, Contents, ChunkSize, Starts, CommitSets, Roots,
          MaxCommits, MaxClients, MaxRestores, Part, None

VARIABLES part,
          ino, ent, idx, qI, fresh, stripes, rename_mutex, pc, started,
          live, trees, op, preview, inos, clients, restores

tvars == <<ino, ent, idx, qI, fresh, stripes, rename_mutex, pc, started>>
wvars == <<live, trees, op, preview, inos, clients, restores>>
allvars == <<part, vars, tvars, wvars>>

Tree == INSTANCE Namespace WITH Inos <- TreeInos, calls <- started
Work == INSTANCE WorkingTree

MCInos == 1 .. 4
MCNames == {"a", "b"}
MCStripe == <<2, 1, 2, 3>>

Dir(n, p, k) == [kind |-> "dir", nlink |-> n, parent |-> p, next |-> k]
File(n) == [kind |-> "file", nlink |-> n, parent |-> 1, next |-> 1]
Unused == [kind |-> "none", nlink |-> 0, parent |-> 1, next |-> 1]
E(d, n, c, i) == [dir |-> d, name |-> n, child |-> c, id |-> i]

\* /a (dir), /b (dir), one number left.
TwoDirs == [ino |-> <<Dir(4, 1, 3), Dir(2, 1, 1), Dir(2, 1, 1), Unused>>,
            ent |-> {E(1, "a", 2, 1), E(1, "b", 3, 2)}]
\* /a/a/a, all directories.
Chain == [ino |-> <<Dir(3, 1, 2), Dir(3, 1, 2), Dir(3, 2, 2), Dir(2, 3, 1)>>,
          ent |-> {E(1, "a", 2, 1), E(2, "a", 3, 1), E(3, "a", 4, 1)}]
\* /a/a and /b are one file, /a/b is another.
Linked == [ino |-> <<Dir(3, 1, 3), Dir(2, 1, 3), File(2), File(1)>>,
           ent |-> {E(1, "a", 2, 1), E(1, "b", 3, 2), E(2, "a", 3, 1), E(2, "b", 4, 2)}]
\* /a (dir) holding /a/b (dir), /b a directory: a target to replace.
Nested == [ino |-> <<Dir(4, 1, 3), Dir(3, 1, 2), Dir(2, 2, 1), Dir(2, 1, 1)>>,
           ent |-> {E(1, "a", 2, 1), E(2, "b", 3, 1), E(1, "b", 4, 2)}]

MCTrees == {TwoDirs, Chain, Linked, Nested}

\* A directory, empty or with a file of two chunks, or a file.
D == <<"d">>
F == <<"d", "f">>
N(kind, i, data) == [kind |-> kind, ino |-> i, data |-> data]
MCPaths == {<<>>, D, F}
MCContents == {<<"x">>, <<"y">>, <<"x", "y", "y">>}
MCStarts == {D :> N("dir", 1, <<"x">>) @@ F :> N("file", 2, <<"x", "y", "y">>),
             D :> N("file", 1, <<"x">>)}
MCSets == {{D}, {F}}
MCRoots == {<<>>, D}

WorkInit ==
    IF part = "commits" THEN Work!Init
    ELSE /\ live = None /\ trees = None /\ op = None /\ preview = None
         /\ inos = None /\ clients = None /\ restores = None

FilesInit ==
    /\ part \in Parts
    /\ Init /\ Tree!Init /\ WorkInit
    /\ part # "tree" => ent = Chain.ent

FilesNext ==
    \/ /\ part = "locks" /\ Next /\ UNCHANGED <<part, tvars, wvars>>
       /\ Cardinality(calls') <= MaxLockCalls
    \/ part = "tree" /\ Tree!Next /\ UNCHANGED <<part, vars, wvars>>
    \/ part = "commits" /\ Work!Next /\ UNCHANGED <<part, vars, tvars>>

FilesSpec == FilesInit /\ [][FilesNext]_allvars

Symmetry == Permutations(Threads)
-----------------------------------------------------------------------------
(***************************************************************************)
(* Between any two steps of concurrent calls the volume passes fsck, and    *)
(* every directory is reached from the root (Namespace).                    *)
(***************************************************************************)
NamespaceSound == part = "tree" => Tree!TypeOK /\ Tree!FsckClean /\ Tree!TreeRooted

(***************************************************************************)
(* Of the calls in progress one can always go on (Namespace).               *)
(***************************************************************************)
SomeCallRuns == part = "tree" => Tree!SomeCallRuns

(***************************************************************************)
(* Every call is one atomic step of a tree, or none (Namespace).            *)
(***************************************************************************)
ImplementsTree == Tree!ImplementsTree

(***************************************************************************)
(* A commit holds the live subtrees it names and the head's entries         *)
(* elsewhere; its index reaches each of them, and a diff names exactly what *)
(* differs (WorkingTree).                                                   *)
(***************************************************************************)
CommitsFaithful == part = "commits" => Work!TypeOK /\ Work!CommitsWhole /\ Work!IndexFaithful

(***************************************************************************)
(* A restore changes only the tree its preview was made from, shows no      *)
(* half-written file on the way, and one that reports success has restored  *)
(* every committed path (WorkingTree).                                      *)
(***************************************************************************)
RestoresFaithful ==
    part = "commits" => Work!RestoreMatches /\ Work!StagedWhole /\ Work!OverwritesOnlyPreviewed

(***************************************************************************)
(* An exact restore makes the subtree what was committed (WorkingTree).     *)
(***************************************************************************)
ExactRestores == part = "commits" => Work!ExactRestores
=============================================================================
