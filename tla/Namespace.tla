------------------------------ MODULE Namespace ------------------------------
(***************************************************************************)
(* The namespace operations of a volume as concurrent calls: create, mkdir, *)
(* link, unlink, rmdir and rename (slatefs-core/src/vfs_impl.rs) under the  *)
(* stripe locks and the rename mutex of locks.rs.                           *)
(*                                                                          *)
(* unlink, rmdir and rename read the entries they are about to change       *)
(* without a lock to learn which stripes to take, take them one by one in   *)
(* stripe order, and read again; rename then walks the parent_dir chain of  *)
(* directories it has not locked.  What is read under a lock and committed  *)
(* in one batch is one step.  Permission checks only return early and are   *)
(* left out; nobody has a file open (see OrphanLifecycle).                  *)
(***************************************************************************)
EXTENDS Integers, FiniteSets, FiniteSetsExt

CONSTANTS Inos, Names, Root, Threads,
          Stripe,     \* LockManager::stripe_of, a function on Inos
          NoThread,
          Trees,      \* the volumes to start from
          MaxCalls    \* bound: calls started in one behaviour

VARIABLES ino,      \* i keys: the inode records
          ent,      \* d keys: the directory entries
          idx,      \* the dirent_idx keys: entries by number
          qI,       \* KEY_QUOTA_INODES
          fresh,    \* inode numbers not handed out yet
          stripes,  \* who holds each stripe
          rename_mutex,
          pc, calls

vars == <<ino, ent, idx, qI, fresh, stripes, rename_mutex, pc, calls>>
fs == <<ino, ent, idx, qI, fresh>>

NoInode == [kind |-> "none", nlink |-> 0, parent |-> Root, next |-> 1]
NoEntry == [dir |-> Root, name |-> "", child |-> Root, id |-> 0]
Idle == [at |-> "idle", op |-> "", p |-> Root, n |-> "", p2 |-> Root, n2 |-> "",
         i |-> Root, src |-> {}, dst |-> {}, todo |-> {}, cursor |-> Root]

StripeIds == {Stripe[i] : i \in Inos}
IsDir(i) == ino[i].kind = "dir"
Exists(i) == ino[i].kind # "none"
DirentOf(p, n) == {e \in ent : e.dir = p /\ e.name = n}
Children(es) == {e.child : e \in es}
EmptyDir(d) == \A e \in ent : e.dir # d
AsIdx(e) == [dir |-> e.dir, id |-> e.id, child |-> e.child]

(***************************************************************************)
(* A volume in which nothing is running.                                    *)
(***************************************************************************)
Init ==
    /\ \E t \in Trees : ino = t.ino /\ ent = t.ent
    /\ idx = {AsIdx(e) : e \in ent}
    /\ fresh = {i \in Inos : ino[i].kind = "none"}
    /\ qI = Cardinality(Inos \ fresh)
    /\ stripes = [s \in StripeIds |-> NoThread]
    /\ rename_mutex = NoThread
    /\ pc = [t \in Threads |-> Idle]
    /\ calls = 0

Return(t) ==
    /\ pc' = [pc EXCEPT ![t] = Idle]
    /\ stripes' = [s \in StripeIds |-> IF stripes[s] = t THEN NoThread ELSE stripes[s]]
    /\ rename_mutex' = IF rename_mutex = t THEN NoThread ELSE rename_mutex

\* The loop's `continue`: the guards are dropped, the rename mutex is kept.
Retry(t) ==
    /\ pc' = [pc EXCEPT ![t].at = "snapshot"]
    /\ stripes' = [s \in StripeIds |-> IF stripes[s] = t THEN NoThread ELSE stripes[s]]
    /\ UNCHANGED <<fs, rename_mutex, calls>>

Fail(t) == Return(t) /\ UNCHANGED <<fs, calls>>
Commit(t) == Return(t) /\ UNCHANGED calls

(***************************************************************************)
(* A call arrives.  create, mkdir and link lock at once; unlink and rmdir   *)
(* look the entry up first; rename takes the rename mutex first.  A client  *)
(* names only inodes it was told of.                                        *)
(***************************************************************************)
Call(t) ==
    /\ pc[t].at = "idle" /\ calls < MaxCalls
    /\ calls' = calls + 1
    /\ \E p \in Inos \ fresh, n \in Names :
          \/ \E op \in {"create", "mkdir"} :
                pc' = [pc EXCEPT ![t] = [Idle EXCEPT !.at = "lock", !.op = op, !.p = p, !.n = n,
                                                     !.todo = {Stripe[p]}]]
          \/ \E i \in Inos \ fresh :
                pc' = [pc EXCEPT ![t] = [Idle EXCEPT !.at = "lock", !.op = "link", !.p = p, !.n = n,
                                                     !.i = i, !.todo = {Stripe[p], Stripe[i]}]]
          \/ \E op \in {"unlink", "rmdir"} :
                pc' = [pc EXCEPT ![t] = [Idle EXCEPT !.at = "snapshot", !.op = op, !.p = p, !.n = n]]
          \/ \E p2 \in Inos \ fresh, n2 \in Names :
                pc' = [pc EXCEPT ![t] = [Idle EXCEPT !.at = "mutex", !.op = "rename",
                                                     !.p = p, !.n = n, !.p2 = p2, !.n2 = n2]]
    /\ UNCHANGED <<fs, stripes, rename_mutex>>

RenameGuard(t) ==
    /\ pc[t].at = "mutex" /\ rename_mutex = NoThread
    /\ rename_mutex' = t
    /\ pc' = [pc EXCEPT ![t].at = "snapshot"]
    /\ UNCHANGED <<fs, stripes, calls>>

(***************************************************************************)
(* The unlocked read that decides which stripes to take.                    *)
(***************************************************************************)
Snapshot(t) ==
    LET c == pc[t]
        src == DirentOf(c.p, c.n)
        dst == IF c.op = "rename" THEN DirentOf(c.p2, c.n2) ELSE {}
        inos == {c.p} \cup Children(src) \cup Children(dst)
                  \cup (IF c.op = "rename" THEN {c.p2} ELSE {})
    IN  /\ c.at = "snapshot"
        /\ IF src = {} THEN Fail(t)
           ELSE /\ pc' = [pc EXCEPT ![t] = [c EXCEPT !.at = "lock", !.src = src, !.dst = dst,
                                                     !.todo = {Stripe[i] : i \in inos}]]
                /\ UNCHANGED <<fs, stripes, rename_mutex, calls>>

(***************************************************************************)
(* LockManager::write_many: distinct stripes, in ascending order.           *)
(***************************************************************************)
\* Mutant: the stripes are taken in whatever order they come.
Acquire_AnyOrder(t) ==
    /\ pc[t].at = "lock"
    /\ \E s \in pc[t].todo :
          /\ stripes[s] = NoThread
          /\ stripes' = [stripes EXCEPT ![s] = t]
          /\ LET rest == pc[t].todo \ {s}
             IN  pc' = [pc EXCEPT ![t] = [@ EXCEPT !.todo = rest,
                                                   !.at = IF rest = {} THEN "body" ELSE "lock"]]
    /\ UNCHANGED <<fs, rename_mutex, calls>>

\* Mutant: one stripe is thought to be enough.
Acquire_First(t) ==
    /\ pc[t].at = "lock"
    /\ LET s == Min(pc[t].todo)
       IN  /\ stripes[s] = NoThread
           /\ stripes' = [stripes EXCEPT ![s] = t]
           /\ pc' = [pc EXCEPT ![t] = [@ EXCEPT !.todo = {}, !.at = "body"]]
    /\ UNCHANGED <<fs, rename_mutex, calls>>

Acquire(t) ==
    /\ pc[t].at = "lock"
    /\ LET s == Min(pc[t].todo)
           rest == pc[t].todo \ {s}
       IN  /\ stripes[s] = NoThread
           /\ stripes' = [stripes EXCEPT ![s] = t]
           /\ pc' = [pc EXCEPT ![t] = [@ EXCEPT !.todo = rest,
                                                !.at = IF rest = {} THEN "body" ELSE "lock"]]
    /\ UNCHANGED <<fs, rename_mutex, calls>>

(***************************************************************************)
(* Vfs::create and Vfs::mkdir, ending in insert_new_node.                   *)
(***************************************************************************)
AddEntry(p, n, child) ==
    LET e == [dir |-> p, name |-> n, child |-> child, id |-> ino[p].next]
    IN  ent' = ent \cup {e} /\ idx' = idx \cup {AsIdx(e)}

NewNode(t) ==
    LET c == pc[t]
        dir == c.op = "mkdir"
    IN  /\ c.at = "body" /\ c.op \in {"create", "mkdir"}
        /\ IF ~ IsDir(c.p) \/ DirentOf(c.p, c.n) # {} \/ fresh = {} THEN Fail(t)
           ELSE LET i == Min(fresh)
                    node == [kind |-> IF dir THEN "dir" ELSE "file", nlink |-> IF dir THEN 2 ELSE 1,
                             parent |-> IF dir THEN c.p ELSE Root, next |-> 1]
                IN  /\ ino' = [ino EXCEPT ![i] = node, ![c.p].next = @ + 1,
                                          ![c.p].nlink = IF dir THEN @ + 1 ELSE @]
                    /\ AddEntry(c.p, c.n, i)
                    /\ qI' = qI + 1
                    /\ fresh' = fresh \ {i}
                    /\ Commit(t)

(***************************************************************************)
(* Vfs::link.                                                               *)
(***************************************************************************)
LinkBody(t) ==
    LET c == pc[t]
    IN  /\ c.at = "body" /\ c.op = "link"
        /\ IF ino[c.i].kind # "file" \/ ~ IsDir(c.p) \/ DirentOf(c.p, c.n) # {} THEN Fail(t)
           ELSE /\ ino' = [ino EXCEPT ![c.i].nlink = @ + 1, ![c.p].next = @ + 1]
                /\ AddEntry(c.p, c.n, c.i)
                /\ UNCHANGED <<qI, fresh>>
                /\ Commit(t)

(***************************************************************************)
(* Vfs::unlink and Vfs::rmdir, from the second read of the entry on.        *)
(***************************************************************************)
DropEntries(es) == ent' = ent \ es /\ idx' = idx \ {AsIdx(e) : e \in es}
Unnamed(i) == IF ino[i].nlink = 1 THEN NoInode ELSE [ino[i] EXCEPT !.nlink = @ - 1]

\* Mutant: the entries are looked up by inode, not by name.
UnlinkBody_ByInode(t) ==
    LET c == pc[t]
        now == DirentOf(c.p, c.n)
        child == CHOOSE i \in Children(c.src) : TRUE
    IN  /\ c.at = "body" /\ c.op = "unlink"
        /\ IF now # {} /\ now # c.src THEN Retry(t)
           ELSE IF now = {} \/ ~ IsDir(c.p) \/ ino[child].kind # "file" THEN Fail(t)
           ELSE /\ DropEntries({e \in ent : e.child = child})
                /\ ino' = [ino EXCEPT ![child] = NoInode]
                /\ qI' = qI - 1
                /\ UNCHANGED fresh
                /\ Commit(t)

UnlinkBody(t) ==
    LET c == pc[t]
        now == DirentOf(c.p, c.n)
        child == CHOOSE i \in Children(c.src) : TRUE
        dies == ino[child].nlink = 1
    IN  /\ c.at = "body" /\ c.op = "unlink"
        /\ IF now # {} /\ now # c.src THEN Retry(t)
           ELSE IF now = {} \/ ~ IsDir(c.p) \/ ino[child].kind # "file" THEN Fail(t)
           ELSE /\ DropEntries(c.src)
                /\ ino' = [ino EXCEPT ![child] = Unnamed(child)]
                /\ qI' = IF dies THEN qI - 1 ELSE qI
                /\ UNCHANGED fresh
                /\ Commit(t)

\* Mutant: the entry is removed without looking inside the directory.
RmdirBody_NonEmpty(t) ==
    LET c == pc[t]
        now == DirentOf(c.p, c.n)
        child == CHOOSE i \in Children(c.src) : TRUE
    IN  /\ c.at = "body" /\ c.op = "rmdir"
        /\ IF now # {} /\ now # c.src THEN Retry(t)
           ELSE IF now = {} \/ ~ IsDir(c.p) \/ ~ IsDir(child) THEN Fail(t)
           ELSE /\ DropEntries(c.src)
                /\ ino' = [ino EXCEPT ![child] = NoInode, ![c.p].nlink = @ - 1]
                /\ qI' = qI - 1
                /\ UNCHANGED fresh
                /\ Commit(t)

RmdirBody(t) ==
    LET c == pc[t]
        now == DirentOf(c.p, c.n)
        child == CHOOSE i \in Children(c.src) : TRUE
    IN  /\ c.at = "body" /\ c.op = "rmdir"
        /\ IF now # {} /\ now # c.src THEN Retry(t)
           ELSE IF now = {} \/ ~ IsDir(c.p) \/ ~ IsDir(child) \/ ~ EmptyDir(child) THEN Fail(t)
           ELSE /\ DropEntries(c.src)
                /\ ino' = [ino EXCEPT ![child] = NoInode, ![c.p].nlink = @ - 1]
                /\ qI' = qI - 1
                /\ UNCHANGED fresh
                /\ Commit(t)

(***************************************************************************)
(* Vfs::rename under its locks: revalidate both entries, return on a no-op, *)
(* start the cycle check when a directory changes parents.                  *)
(***************************************************************************)
RenameBody(t) ==
    LET c == pc[t]
        moved == CHOOSE i \in Children(c.src) : TRUE
    IN  /\ c.at = "body" /\ c.op = "rename"
        /\ IF DirentOf(c.p, c.n) # c.src \/ DirentOf(c.p2, c.n2) # c.dst THEN Retry(t)
           ELSE IF moved \in Children(c.dst) \/ <<c.p, c.n>> = <<c.p2, c.n2>>
                   \/ ~ IsDir(c.p) \/ ~ IsDir(c.p2) \/ ~ Exists(moved) THEN Fail(t)
           ELSE /\ pc' = [pc EXCEPT ![t] = [c EXCEPT !.cursor = c.p2,
                             !.at = IF IsDir(moved) /\ c.p # c.p2 THEN "walk" ELSE "commit"]]
                /\ UNCHANGED <<fs, stripes, rename_mutex, calls>>

\* Mutant: the walk starts above the new parent's parent.
Walk_SkipsOne(t) ==
    LET c == pc[t]
        up == ino[c.cursor].parent
    IN  /\ c.at = "walk"
        /\ IF c.src # {} /\ up \in Children(c.src) THEN Fail(t)
           ELSE /\ pc' = [pc EXCEPT ![t] = IF up = Root THEN [c EXCEPT !.at = "commit"]
                                           ELSE [c EXCEPT !.cursor = up]]
                /\ UNCHANGED <<fs, stripes, rename_mutex, calls>>

\* One inode of the parent_dir chain.
Walk(t) ==
    LET c == pc[t]
    IN  /\ c.at = "walk"
        /\ IF c.cursor \in Children(c.src) \/ ~ Exists(c.cursor) THEN Fail(t)
           ELSE /\ pc' = [pc EXCEPT ![t] = IF c.cursor = Root THEN [c EXCEPT !.at = "commit"]
                                           ELSE [c EXCEPT !.cursor = ino[c.cursor].parent]]
                /\ UNCHANGED <<fs, stripes, rename_mutex, calls>>

(***************************************************************************)
(* The rest of Vfs::rename: the replaced target, the entries, the link      *)
(* counts of the parents, `..` of a moved directory, one batch.             *)
(***************************************************************************)
RenameCommit(t) ==
    LET c == pc[t]
        moved == CHOOSE i \in Children(c.src) : TRUE
        target == Children(c.dst)
        subdir == IsDir(moved)
        dies == {i \in target : subdir \/ ino[i].nlink = 1}
        refused == \E i \in target : IsDir(i) # subdir \/ (subdir /\ ~ EmptyDir(i))
        move == subdir /\ c.p # c.p2
        lost(d) == (IF move /\ d = c.p THEN 1 ELSE 0) + (IF subdir /\ target # {} /\ d = c.p2 THEN 1 ELSE 0)
        e == [dir |-> c.p2, name |-> c.n2, child |-> moved, id |-> ino[c.p2].next]
    IN  /\ c.at = "commit"
        /\ IF refused THEN Fail(t)
           ELSE /\ ent' = (ent \ (c.src \cup c.dst)) \cup {e}
                /\ idx' = (idx \ {AsIdx(x) : x \in c.src \cup c.dst}) \cup {AsIdx(e)}
                /\ ino' = [i \in Inos |->
                     IF i \in dies THEN NoInode
                     ELSE IF i \in target THEN [ino[i] EXCEPT !.nlink = @ - 1]
                     ELSE [ino[i] EXCEPT
                             !.next = IF i = c.p2 THEN @ + 1 ELSE @,
                             !.nlink = @ - lost(i) + (IF move /\ i = c.p2 THEN 1 ELSE 0),
                             !.parent = IF move /\ i = moved THEN c.p2 ELSE @]]
                /\ qI' = qI - Cardinality(dies)
                /\ UNCHANGED fresh
                /\ Commit(t)

Step(t) ==
    \/ RenameGuard(t) \/ Snapshot(t) \/ Acquire(t)
    \/ NewNode(t) \/ LinkBody(t) \/ UnlinkBody(t) \/ RmdirBody(t)
    \/ RenameBody(t) \/ Walk(t) \/ RenameCommit(t)

Next == \E t \in Threads : Call(t) \/ Step(t)

Spec == Init /\ [][Next]_vars
-------------------------------------------------------------------------------
(***************************************************************************)
(* The type invariant; a call past its locks holds its parents' stripes.    *)
(***************************************************************************)
TypeOK ==
    /\ ino \in [Inos -> [kind : {"none", "file", "dir"}, nlink : Nat, parent : Inos, next : Nat]]
    /\ ent \subseteq [dir : Inos, name : Names, child : Inos, id : Nat]
    /\ idx \subseteq [dir : Inos, id : Nat, child : Inos]
    /\ fresh \subseteq Inos
    /\ stripes \in [StripeIds -> Threads \cup {NoThread}]
    /\ rename_mutex \in Threads \cup {NoThread}
    /\ \A t \in Threads : pc[t].at \in {"idle", "mutex", "snapshot", "lock", "body", "walk", "commit"}
    /\ \A t \in Threads : pc[t].at \in {"body", "walk", "commit"} =>
          /\ stripes[Stripe[pc[t].p]] = t
          /\ pc[t].op = "rename" => rename_mutex = t /\ stripes[Stripe[pc[t].p2]] = t

(***************************************************************************)
(* What fsck.rs (check_readable) demands of the tree after every commit,    *)
(* whatever calls raced: names are unique and refer to inodes, link counts  *)
(* count entries and subdirectories, a directory has one name, in the       *)
(* directory its parent_dir says, the index mirrors the entries and the     *)
(* inode counter is exact.                                                  *)
(***************************************************************************)
FsckClean ==
    /\ \A e \in ent : IsDir(e.dir) /\ Exists(e.child) /\ e.child # Root
    /\ \A e, f \in ent : e.dir = f.dir /\ (e.name = f.name \/ e.id = f.id) => e = f
    /\ \A i \in Inos \ {Root} :
          LET named == {e \in ent : e.child = i}
          IN  CASE ino[i].kind = "file" -> ino[i].nlink = Cardinality(named)
                [] ino[i].kind = "dir"  -> Cardinality(named) = 1 /\ \A e \in named : e.dir = ino[i].parent
                [] OTHER -> named = {}
    /\ \A d \in Inos : IsDir(d) =>
          ino[d].nlink = 2 + Cardinality({e \in ent : e.dir = d /\ IsDir(e.child)})
    /\ idx = {AsIdx(e) : e \in ent}
    /\ qI = Cardinality({i \in Inos : Exists(i)})

(***************************************************************************)
(* No rename, however it races others, detaches a directory from the root   *)
(* (locks.rs: "ancestor cycle checks must not race"): the only set of       *)
(* directories closed under parent_dir that misses the root is empty.  And  *)
(* the walk of the cycle check, which reads directories rename has not      *)
(* locked, never meets a missing one: the entry below keeps each alive.     *)
(***************************************************************************)
TreeRooted ==
    /\ \A S \in SUBSET {d \in Inos \ {Root} : IsDir(d)} :
          S # {} => \E d \in S : ino[d].parent \notin S
    /\ \A t \in Threads : pc[t].at = "walk" => IsDir(pc[t].cursor)

(***************************************************************************)
(* The namespace implements the atomic tree: each call takes effect at its  *)
(* commit, or not at all.                                                   *)
(***************************************************************************)
Abstract == INSTANCE NamespaceTree WITH
                kind <- [i \in Inos |-> ino[i].kind],
                name <- {<<e.dir, e.name, e.child>> : e \in ent}
ImplementsTree == Abstract!Spec

(***************************************************************************)
(* locks.rs, "in stripe order so concurrent multi-inode ops can't           *)
(* deadlock": the calls in progress never all wait for each other, whatever *)
(* they lock and whichever inodes share a stripe.                           *)
(***************************************************************************)
Waiting(t) ==
    \/ pc[t].at = "lock" /\ stripes[Min(pc[t].todo)] # NoThread
    \/ pc[t].at = "mutex" /\ rename_mutex # NoThread

SomeCallRuns ==
    LET active == {t \in Threads : pc[t].at # "idle"}
    IN  active # {} => \E t \in active : ~ Waiting(t)
===============================================================================
