------------------------------ MODULE AttrCache ------------------------------
(***************************************************************************)
(* The attribute and negative-entry caches of a volume (slatefs-core/src/   *)
(* attrcache.rs) between the read paths that fill them without a lock       *)
(* (load_inode_cached, lookup) and the mutations that write them through    *)
(* under their inode locks (setattr, create, unlink in vfs_impl.rs).        *)
(*                                                                          *)
(* One directory with one name; each create gives the name a new inode.     *)
(* An inode record is its version, counted from 1; 0 is no inode.           *)
(***************************************************************************)
EXTENDS Integers

CONSTANTS Threads,
          MaxInos,      \* bound: creates in one behaviour
          MaxVersion,   \* bound: versions of one inode
          NoThread

Inos == 1 .. MaxInos

VARIABLES ver,       \* the database: version of each inode
          name,      \* the database: inode the name refers to, 0 if none
          commits,   \* mutations committed per inode since its create
          attrs,     \* AttrCache.attrs: cached version, 0 if not cached
          negative,  \* AttrCache.negative holds the name
          dirLock,   \* stripe of the directory
          inoLock,   \* stripe of each inode
          pc

vars == <<ver, name, commits, attrs, negative, dirLock, inoLock, pc>>
store == <<ver, name, commits>>
cache == <<attrs, negative>>
locks == <<dirLock, inoLock>>

Idle == [at |-> "idle", op |-> "", i |-> 0, loaded |-> 0]
Goto(t, r) == pc' = [pc EXCEPT ![t] = r]

(***************************************************************************)
(* The type invariant; the name refers to an inode that is there.           *)
(***************************************************************************)
TypeOK ==
    /\ ver \in [Inos -> 0 .. MaxVersion] /\ attrs \in [Inos -> 0 .. MaxVersion]
    /\ commits \in [Inos -> 0 .. MaxVersion]
    /\ name \in 0 .. MaxInos /\ negative \in BOOLEAN
    /\ name # 0 => ver[name] # 0
    /\ dirLock \in Threads \cup {NoThread} /\ inoLock \in [Inos -> Threads \cup {NoThread}]
    /\ pc \in [Threads -> [at : {"idle", "load", "fill", "dirent", "miss", "commit", "write", "name"},
                           op : {"", "read", "setattr", "create", "unlink"},
                           i : 0 .. MaxInos, loaded : 0 .. MaxVersion]]

Init ==
    /\ ver = [i \in Inos |-> 0] /\ commits = ver /\ attrs = ver
    /\ name = 0 /\ negative = FALSE
    /\ dirLock = NoThread /\ inoLock = [i \in Inos |-> NoThread]
    /\ pc = [t \in Threads |-> Idle]

(***************************************************************************)
(* load_inode_cached: a hit returns; a miss reads the database, and fills   *)
(* the cache in a later step, with no lock held.                            *)
(***************************************************************************)
Getattr(t, i) ==
    /\ pc[t] = Idle /\ attrs[i] = 0 /\ ver[i] # 0
    /\ Goto(t, [at |-> "fill", op |-> "read", i |-> i, loaded |-> ver[i]])
    /\ UNCHANGED <<store, cache, locks>>

Fill(t) ==
    /\ pc[t].at = "fill"
    /\ attrs' = [attrs EXCEPT ![pc[t].i] = pc[t].loaded]
    /\ Goto(t, Idle)
    /\ UNCHANGED <<store, negative, locks>>

(***************************************************************************)
(* lookup: not found at once if the name is cached as absent; otherwise the *)
(* entry is read, and a missing one cached as absent, with no lock held.    *)
(***************************************************************************)
Lookup(t) ==
    /\ pc[t] = Idle /\ ~ negative
    /\ IF name = 0 THEN Goto(t, [Idle EXCEPT !.at = "miss", !.op = "read"])
       ELSE Goto(t, [Idle EXCEPT !.at = "load", !.op = "read", !.i = name])
    /\ UNCHANGED <<store, cache, locks>>

LookupLoad(t) ==
    /\ pc[t].at = "load"
    /\ LET i == pc[t].i
       IN  IF attrs[i] = 0 /\ ver[i] # 0
           THEN Goto(t, [pc[t] EXCEPT !.at = "fill", !.loaded = ver[i]])
           ELSE Goto(t, Idle)
    /\ UNCHANGED <<store, cache, locks>>

InsertNegative(t) ==
    /\ pc[t].at = "miss"
    /\ negative' = TRUE
    /\ Goto(t, Idle)
    /\ UNCHANGED <<store, attrs, locks>>

(***************************************************************************)
(* The mutations: lock, read the database directly, commit, write through.  *)
(***************************************************************************)
\* Mutant: the read of read-modify-write goes through the cache.
Setattr_Cached(t, i) ==
    /\ pc[t] = Idle /\ inoLock[i] = NoThread
    /\ ver[i] # 0 /\ ver[i] < MaxVersion
    /\ inoLock' = [inoLock EXCEPT ![i] = t]
    /\ Goto(t, [at |-> "commit", op |-> "setattr", i |-> i,
                loaded |-> IF attrs[i] # 0 THEN attrs[i] ELSE ver[i]])
    /\ UNCHANGED <<store, cache, dirLock>>

Setattr(t, i) ==
    /\ pc[t] = Idle /\ inoLock[i] = NoThread
    /\ ver[i] # 0 /\ ver[i] < MaxVersion
    /\ inoLock' = [inoLock EXCEPT ![i] = t]
    /\ Goto(t, [at |-> "commit", op |-> "setattr", i |-> i, loaded |-> ver[i]])
    /\ UNCHANGED <<store, cache, dirLock>>

Create(t, i) ==
    /\ pc[t] = Idle /\ dirLock = NoThread
    /\ name = 0 /\ commits[i] = 0 /\ \A j \in 1 .. i - 1 : commits[j] # 0
    /\ dirLock' = t
    /\ Goto(t, [at |-> "commit", op |-> "create", i |-> i, loaded |-> 0])
    /\ UNCHANGED <<store, cache, inoLock>>

Unlink(t) ==
    /\ pc[t] = Idle /\ dirLock = NoThread
    /\ name # 0 /\ inoLock[name] = NoThread
    /\ dirLock' = t /\ inoLock' = [inoLock EXCEPT ![name] = t]
    /\ Goto(t, [at |-> "commit", op |-> "unlink", i |-> name, loaded |-> ver[name]])
    /\ UNCHANGED <<store, cache>>

Commit(t) ==
    LET c == pc[t]
    IN  /\ c.at = "commit"
        /\ ver' = [ver EXCEPT ![c.i] = IF c.op = "unlink" THEN 0 ELSE c.loaded + 1]
        /\ name' = CASE c.op = "create" -> c.i [] c.op = "unlink" -> 0 [] OTHER -> name
        /\ commits' = [commits EXCEPT ![c.i] = IF c.op = "unlink" THEN @ ELSE @ + 1]
        /\ Goto(t, [c EXCEPT !.at = "write"])
        /\ UNCHANGED <<cache, locks>>

\* The commit may be refused by the storage; nothing is written through.
CommitFails(t) ==
    /\ pc[t].at = "commit"
    /\ Goto(t, Idle)
    /\ dirLock' = IF dirLock = t THEN NoThread ELSE dirLock
    /\ inoLock' = [i \in Inos |-> IF inoLock[i] = t THEN NoThread ELSE inoLock[i]]
    /\ UNCHANGED <<store, cache>>

WriteThrough(t) ==
    LET c == pc[t]
    IN  /\ c.at = "write"
        /\ attrs' = [attrs EXCEPT ![c.i] = IF c.op = "unlink" THEN 0 ELSE c.loaded + 1]
        /\ Goto(t, [c EXCEPT !.at = "name"])
        /\ UNCHANGED <<store, negative, locks>>

\* The negative entry, then the guards are dropped.
WriteName(t) ==
    LET c == pc[t]
    IN  /\ c.at = "name"
        /\ negative' = CASE c.op = "create" -> FALSE [] c.op = "unlink" -> TRUE [] OTHER -> negative
        /\ Goto(t, Idle)
        /\ dirLock' = IF dirLock = t THEN NoThread ELSE dirLock
        /\ inoLock' = [i \in Inos |-> IF inoLock[i] = t THEN NoThread ELSE inoLock[i]]
        /\ UNCHANGED <<store, attrs>>

(***************************************************************************)
(* moka (external) may drop any entry.                                      *)
(***************************************************************************)
Evict ==
    /\ \/ \E i \in Inos : attrs[i] # 0 /\ attrs' = [attrs EXCEPT ![i] = 0] /\ UNCHANGED negative
       \/ negative /\ negative' = FALSE /\ UNCHANGED attrs
    /\ UNCHANGED <<store, locks, pc>>

Next ==
    \/ \E t \in Threads :
          \/ \E i \in Inos : Getattr(t, i) \/ Setattr(t, i) \/ Create(t, i)
          \/ Fill(t) \/ Lookup(t) \/ LookupLoad(t) \/ InsertNegative(t)
          \/ Unlink(t) \/ Commit(t) \/ CommitFails(t) \/ WriteThrough(t) \/ WriteName(t)
    \/ Evict

Spec == Init /\ [][Next]_vars
-------------------------------------------------------------------------------
(***************************************************************************)
(* attrcache.rs: "mutation paths read the DB directly so a missed           *)
(* write-through can never corrupt a read-modify-write": a live inode is    *)
(* the result of every mutation committed to it, whatever the cache holds,  *)
(* and no reader is served what was never committed.                        *)
(***************************************************************************)
NoLostUpdate ==
    /\ \A i \in Inos : (ver[i] # 0 => ver[i] = commits[i]) /\ attrs[i] <= commits[i]
    /\ \A t \in Threads : pc[t].at = "fill" => pc[t].loaded <= commits[pc[t].i]

(***************************************************************************)
(* attrcache.rs: "Coherent by construction (DD-5)": with no mutation of the *)
(* inode in progress, cached attributes are the database's.                 *)
(***************************************************************************)
AttrsCoherent ==
    \A i \in Inos : inoLock[i] = NoThread /\ dirLock = NoThread => attrs[i] \in {0, ver[i]}

(***************************************************************************)
(* The same for negative entries: with no mutation of the directory in      *)
(* progress, a name cached as absent is absent.                             *)
(***************************************************************************)
NegativeCoherent == dirLock = NoThread /\ negative => name = 0
===============================================================================
