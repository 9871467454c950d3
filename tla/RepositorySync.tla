---------------------------- MODULE RepositorySync ----------------------------
(***************************************************************************)
(* Copies of one version repository that exchange sync packs and bundles    *)
(* (versioning.rs: sync_state, export_sync_bundle, apply_sync_bundle,       *)
(* export_bundle, import_bundle), while each makes commits of its own and   *)
(* collects its garbage.  VersionRefs is one copy from within; here is what *)
(* happens between two of them, for one branch.                             *)
(*                                                                          *)
(* A pack in transit may be late, repeated or lost: sent packs stay, and    *)
(* any of them may be applied at any time.  A tree has one node and one     *)
(* blob, named by its content.                                              *)
(***************************************************************************)
EXTENDS Integers, Sequences, FiniteSets

CONSTANTS Copies,        \* volumes with a copy of the repository, or none yet
          Trees,
          Beginnings,    \* [made, copy] a behaviour starts from
          MaxMade,       \* bound: commits made by all copies
          MaxDone,       \* bound: commits, collections, protections and transfers begun
          None

VARIABLES made,          \* every commit there has been: [parent, tree]
          copy,          \* per volume: the repository, or None
          transfer,      \* the push or pull at work: its step and what it has read
          packs,         \* sync packs that were sent
          bundles,       \* whole-repository bundles that were exported
          done

svars == <<made, copy, transfer, packs, bundles, done>>

\* A repository: its identity is the volume that began it.
Opened(who) ==
    [identity |-> who, commits |-> {}, pruned |-> {}, nodes |-> {}, blobs |-> {},
     head |-> None, previous |-> None, protected |-> FALSE]
NoTransfer == [at |-> "none"]

\* History: the commit and its ancestors, through commits `has' still holds.
ChainIn(all, has, id) ==
    LET up[i \in 0 .. MaxMade] ==
            IF i = 0 THEN id
            ELSE IF up[i - 1] \in has THEN all[up[i - 1]].parent ELSE None
    IN {up[i] : i \in 0 .. MaxMade} \ {None}
Chain(has, id) == ChainIn(made, has, id)

\* The branch and its reflog (one entry is kept) name commits.
Named(r) == {r.head, r.previous} \ {None}

(***************************************************************************)
(* reachable_sync_history: the commits, and where history was pruned.       *)
(***************************************************************************)
Reached(r, id) ==
    [commits |-> Chain(r.commits, id) \cap r.commits, pruned |-> Chain(r.commits, id) \ r.commits]

TreesOf(ids) == {made[id].tree : id \in ids}

\* verify(): what the references reach is there.
Verifies(r) ==
    /\ Named(r) \subseteq r.commits
    /\ \A id \in UNION {Chain(r.commits, n) : n \in Named(r)} :
          /\ id \in r.commits \union r.pruned
          /\ id \in r.commits => made[id].tree \in r.nodes \intersect r.blobs

\* validate_repository_bundle_payload: all objects, whether reached or not.
Valid(r) ==
    /\ r.commits \intersect r.pruned = {}
    /\ \A id \in r.commits : made[id].parent \in r.commits \union r.pruned \union {None}
    /\ TreesOf(r.commits) \subseteq r.nodes
    /\ r.nodes \subseteq r.blobs
    /\ Named(r) \subseteq r.commits
-------------------------------------------------------------------------------
SyncInit ==
    /\ \E start \in Beginnings : made = start.made /\ copy = start.copy
    /\ transfer = NoTransfer /\ packs = {} /\ bundles = {} /\ done = 0

Does == done < MaxDone /\ done' = done + 1
Puts(v, r) == copy' = [copy EXCEPT ![v] = r]

(***************************************************************************)
(* A commit on the branch; the first one opens the repository.              *)
(***************************************************************************)
Commit(v, tree) ==
    LET r == IF copy[v] = None THEN Opened(v) ELSE copy[v]
        id == Len(made) + 1
    IN /\ Does /\ id <= MaxMade
       /\ made' = Append(made, [parent |-> r.head, tree |-> tree])
       /\ Puts(v, [r EXCEPT !.commits = @ \union {id}, !.nodes = @ \union {tree},
                            !.blobs = @ \union {tree}, !.head = id, !.previous = r.head])
       /\ UNCHANGED <<transfer, packs, bundles>>

(***************************************************************************)
(* garbage_collect with keep_last = 1; a sweep that reaches max_deletions   *)
(* early has deleted blobs only (their keys come first).                    *)
(***************************************************************************)
Collect(v, whole) ==
    LET r == copy[v]
        live == Named(r)
        trees == TreesOf(live)
    IN /\ Does /\ r # None /\ r.head # None
       /\ IF whole THEN r.commits # live \/ r.nodes # trees \/ r.blobs # trees ELSE r.blobs # trees
       /\ Puts(v, IF whole
                  THEN [r EXCEPT !.commits = live, !.pruned = @ \union (r.commits \ live),
                                 !.nodes = trees, !.blobs = trees]
                  ELSE [r EXCEPT !.blobs = trees])
       /\ UNCHANGED <<made, transfer, packs, bundles>>

Protect(v) ==
    /\ Does /\ copy[v] # None /\ copy[v].head # None
    /\ Puts(v, [copy[v] EXCEPT !.protected = ~ @])
    /\ UNCHANGED <<made, transfer, packs, bundles>>
-------------------------------------------------------------------------------
(***************************************************************************)
(* A push or pull: the receiver's sync_state, then export_sync_bundle at    *)
(* the sender, which reads its branch, walks the histories and fetches the  *)
(* objects without a lock.                                                  *)
(***************************************************************************)
Advertise(from, to) ==
    /\ Does /\ transfer = NoTransfer /\ from # to /\ copy[from] # None
    /\ transfer' = [at |-> "head", from |-> from,
                    have |-> IF copy[to] = None THEN None ELSE copy[to].head]
    /\ UNCHANGED <<made, copy, packs, bundles>>

ReadBranch ==
    /\ transfer.at = "head"
    /\ transfer' = IF copy[transfer.from].head = None THEN NoTransfer
                   ELSE [at |-> "walk", from |-> transfer.from, have |-> transfer.have,
                         target |-> copy[transfer.from].head]
    /\ UNCHANGED <<made, copy, packs, bundles, done>>

\* What the sender believes the receiver to lack: the receiver's history is
\* the one the sender knows below the advertised head.
Lacks(r, target, have) ==
    LET source == Reached(r, target)
        remote == IF have \in r.commits THEN Reached(r, have) ELSE [commits |-> {}, pruned |-> {}]
        trees == TreesOf(source.commits) \ TreesOf(remote.commits)
    IN [identity |-> r.identity, expected |-> have, target |-> target,
        commits |-> source.commits \ remote.commits, pruned |-> source.pruned \ remote.pruned,
        nodes |-> trees, blobs |-> trees]

Walk ==
    /\ transfer.at = "walk"
    /\ LET r == copy[transfer.from]
           ends == {transfer.target} \union ({transfer.have} \intersect r.commits)
           readable == \A id \in ends : /\ Reached(r, id).pruned \subseteq r.pruned
                                        /\ TreesOf(Reached(r, id).commits) \subseteq r.nodes
       IN transfer' = IF readable THEN [at |-> "fetch", from |-> transfer.from,
                                        pack |-> Lacks(r, transfer.target, transfer.have)]
                      ELSE NoTransfer
    /\ UNCHANGED <<made, copy, packs, bundles, done>>

Fetch ==
    /\ transfer.at = "fetch"
    /\ LET r == copy[transfer.from]
           p == transfer.pack
           whole == /\ p.commits \subseteq r.commits /\ p.pruned \subseteq r.pruned
                    /\ p.nodes \subseteq r.nodes /\ p.blobs \subseteq r.blobs
       IN packs' = IF whole THEN packs \union {p} ELSE packs
    /\ transfer' = NoTransfer
    /\ UNCHANGED <<made, copy, bundles, done>>
-------------------------------------------------------------------------------
(***************************************************************************)
(* apply_sync_payload.  The objects of both, a commit before its marker.    *)
(***************************************************************************)
Joined(r, p) ==
    LET commits == r.commits \union p.commits
    IN [r EXCEPT !.commits = commits, !.pruned = (r.pruned \union p.pruned) \ commits,
                 !.nodes = @ \union p.nodes, !.blobs = @ \union p.blobs]

\* Mutant: only the commits are looked for, not their trees.
Accepts_CommitsOnly(r, p, force) ==
    /\ r.identity = p.identity /\ r.head = p.expected
    /\ ~ (force /\ r.protected)
    /\ p.target \in Joined(r, p).commits
    /\ \/ r.head = None \/ force
       \/ r.head \in Chain(Joined(r, p).commits, p.target)

\* Mutant: the head may have moved since it was advertised.
Accepts_AnyHead(r, p, force) ==
    /\ r.identity = p.identity
    /\ ~ (force /\ r.protected)
    /\ Valid(Joined(r, p)) /\ p.target \in Joined(r, p).commits

Accepts(r, p, force) ==
    /\ r.identity = p.identity /\ r.head = p.expected
    /\ ~ (force /\ r.protected)
    /\ Valid(Joined(r, p)) /\ p.target \in Joined(r, p).commits
    /\ \/ r.head = None \/ force
       \/ r.head \in Chain(Joined(r, p).commits, p.target)

(***************************************************************************)
(* apply_sync_bundle: a pack for an empty destination is checked by itself  *)
(* before a destination without a repository opens one with the sender's    *)
(* identity; if the pack is then refused the empty repository stays.        *)
(***************************************************************************)
Apply(v, p, force) ==
    LET r == IF copy[v] = None THEN Opened(p.identity) ELSE copy[v]
    IN /\ p.expected = None => Valid(Joined(Opened(p.identity), p)) /\ p.target \in p.commits
       /\ Puts(v, IF ~ Accepts(r, p, force) THEN r
                  ELSE IF p.target = r.head THEN Joined(r, p)
                  ELSE [Joined(r, p) EXCEPT !.head = p.target, !.previous = r.head])
       /\ UNCHANGED <<made, transfer, packs, bundles, done>>

(***************************************************************************)
(* export_bundle and import_bundle.  Protections stay behind.  The import   *)
(* opens the destination with the bundle's identity, wants it empty, and    *)
(* takes everything back if the result does not verify.                     *)
(***************************************************************************)
ExportBundle(v) ==
    /\ Does /\ copy[v] # None
    /\ bundles' = IF Verifies(copy[v]) /\ Valid(copy[v])
                  THEN bundles \union {[copy[v] EXCEPT !.protected = FALSE]} ELSE bundles
    /\ UNCHANGED <<made, copy, transfer, packs>>

ImportBundle(v, file) ==
    LET r == IF copy[v] = None THEN Opened(file.identity) ELSE copy[v]
    IN /\ Puts(v, IF r = Opened(file.identity) /\ Verifies(file) THEN file ELSE r)
       /\ UNCHANGED <<made, transfer, packs, bundles, done>>

SyncNext ==
    \/ \E v \in Copies :
          \/ \E tree \in Trees : Commit(v, tree)
          \/ \E whole \in BOOLEAN : Collect(v, whole)
          \/ Protect(v) \/ ExportBundle(v)
          \/ \E p \in packs, force \in BOOLEAN : Apply(v, p, force)
          \/ \E file \in bundles : ImportBundle(v, file)
    \/ \E from, to \in Copies : Advertise(from, to)
    \/ ReadBranch \/ Walk \/ Fetch

SyncSpec == SyncInit /\ [][SyncNext]_svars
-------------------------------------------------------------------------------
(***************************************************************************)
(* Whatever packs and bundles arrive, in whatever order and however often,  *)
(* while the copies commit and collect: in every copy the branch and its    *)
(* reflog can be read, history goes on until where it was pruned, and what  *)
(* is pruned is not held (apply_sync_payload validates the combined objects *)
(* before it writes any).  Trees further back may be half swept.            *)
(***************************************************************************)
CopiesReadable ==
    \A v \in Copies : copy[v] # None =>
        LET r == copy[v]
        IN /\ Named(r) \subseteq r.commits
           /\ TreesOf(Named(r)) \subseteq r.nodes \intersect r.blobs
           /\ UNION {Chain(r.commits, n) : n \in Named(r)} \subseteq r.commits \union r.pruned
           /\ r.commits \intersect r.pruned = {}

(***************************************************************************)
(* A repository keeps its identity, and a protected head is only replaced   *)
(* by one of its descendants, however late a pack is.                       *)
(***************************************************************************)
CopyStep ==
    \A v \in Copies : copy[v] # None =>
        /\ copy'[v].identity = copy[v].identity
        /\ copy[v].protected /\ copy'[v].head # copy[v].head =>
              copy[v].head \in ChainIn(made', DOMAIN made', copy'[v].head)

(***************************************************************************)
(* A pack made for the head the receiver has, of commits on top of it, is   *)
(* accepted.  TLC shows that it fails: the sender leaves out trees that     *)
(* commits below the advertised head had, which the receiver may have       *)
(* pruned; history the sender has pruned no longer shows a fast-forward;    *)
(* and a half-swept receiver refuses every pack.                            *)
(***************************************************************************)
PushesSucceed ==
    \A from, to \in Copies :
        LET f == copy[from]  t == copy[to]
        IN f # None /\ t # None /\ f.identity = t.identity /\ f.head # None /\ t.head # None =>
             (t.head \in Chain(DOMAIN made, f.head) => Accepts(t, Lacks(f, f.head, t.head), FALSE))
===============================================================================
