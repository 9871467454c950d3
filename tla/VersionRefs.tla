----------------------------- MODULE VersionRefs -----------------------------
(***************************************************************************)
(* The references of one version repository: branches, tags, reflogs,       *)
(* protections, attestations and retry records over a graph of immutable    *)
(* commits, and the collector that sweeps what no reference needs           *)
(* (slatefs-core/src/versioning.rs).                                        *)
(*                                                                          *)
(* Calls on one repository interleave: each prepares from heads it read     *)
(* without a lock and then writes one batch under ref_lock.  The collector  *)
(* takes no ref_lock; the maintenance lease and the daemon's per-volume     *)
(* version lock are what keep it apart from prepared calls, so here it runs *)
(* only between them.                                                       *)
(*                                                                          *)
(* A volume is one file, so a tree is the content of that file, stored as   *)
(* one node and one blob.  Commit bodies are numbered in the order they are *)
(* built (their ids are hashes of bodies that hold parents and time).  The  *)
(* byte quota only refuses calls and is left out.                           *)
(***************************************************************************)
EXTENDS Integers, Sequences, FiniteSets

CONSTANTS Clients,
          Names,         \* names for branches other than main, and for tags
          Contents,      \* file contents, hence trees
          Keys,          \* idempotency keys
          Users, Signers,
          Policies,      \* protection records
          Budgets,       \* max_deletions of a collection
          Windows,       \* reflog_keep_last values, all positive
          Histories,     \* the repositories a behaviour may start from
          MaxCommits,    \* bound: commit bodies built in one behaviour
          MaxCalls,      \* bound: calls in one behaviour
          None

VARIABLES body,   \* commit bodies by number
          repo,   \* the repository database
          keep,   \* reflog_keep_last
          op,     \* per client: the call it has prepared
          calls   \* calls started

vars == <<body, repo, keep, op, calls>>

Main == "main"
Branches == Names \cup {Main}
Ids == 1..MaxCommits
Range(s) == {s[i] : i \in DOMAIN s}

(***************************************************************************)
(* The repository database and prepared calls.                              *)
(***************************************************************************)
Body == [parents : UNION {[1..n -> Ids] : n \in 0..2}, tree : Contents, by : Users,
         key : Keys \cup {None}]
Entry == [prev : Ids \cup {None}, commit : Ids \cup {None}]
Repo == [commits : SUBSET Ids, pruned : SUBSET Ids, nodes : SUBSET Contents,
         blobs : SUBSET Contents, att : SUBSET (Ids \X Signers),
         idem : [Keys -> Ids \cup {None}],
         head : [Branches -> Ids \cup {None}], tag : [Names -> Ids \cup {None}],
         prot : [Branches -> Policies \cup {None}], log : [Branches -> Seq(Entry)]]

Idle == [kind |-> "idle"]
Publish(br, expected, id, req) ==
  [kind |-> "publish", br |-> br, expected |-> expected, id |-> id, req |-> req]

(***************************************************************************)
(* Type invariant; a reflog holds no more than its window.                  *)
(***************************************************************************)
TypeOK ==
  /\ body \in Seq(Body) /\ Len(body) <= MaxCommits
  /\ repo \in Repo
  /\ keep \in Windows /\ calls \in 0..MaxCalls
  /\ \A b \in Branches : Len(repo.log[b]) <= keep
  /\ \A c \in Clients : op[c].kind \in {"idle", "publish", "ff", "reset", "branch", "tag"}

\* A repository nothing was committed to.
Empty ==
  [commits |-> {}, pruned |-> {}, nodes |-> {}, blobs |-> {}, att |-> {},
   idem |-> [k \in Keys |-> None], head |-> [b \in Branches |-> None],
   tag |-> [n \in Names |-> None], prot |-> [b \in Branches |-> None],
   log |-> [b \in Branches |-> <<>>]]

Init ==
  /\ \E h \in Histories : body = h.body /\ repo = h.repo /\ keep = h.keep
  /\ op = [c \in Clients |-> Idle]
  /\ calls = 0
-------------------------------------------------------------------------------
(***************************************************************************)
(* Ancestry.  A missing commit is reached and not passed.                   *)
(***************************************************************************)
Parents(r, id) == IF id \in r.commits THEN Range(body[id].parents) ELSE {}

Ancestors(r, id) ==
  LET anc[i \in 0..MaxCommits] ==
        IF i = 0 THEN {id}
        ELSE UNION {{a} \cup Parents(r, a) : a \in anc[i - 1]}
  IN  anc[MaxCommits]

AncestorDistances(r, id) ==
  LET layer[i \in 0..MaxCommits] ==
        IF i = 0 THEN {id} ELSE UNION {Parents(r, a) : a \in layer[i - 1]}
  IN  [a \in Ancestors(r, id) |->
         CHOOSE i \in 0..MaxCommits :
           a \in layer[i] /\ \A j \in 0..(i - 1) : a \notin layer[j]]

\* Equal distances are told apart by the order of the hashes: any of them.
MergeBases(r, left, right) ==
  LET dl == AncestorDistances(r, left)
      dr == AncestorDistances(r, right)
      common == DOMAIN dl \cap DOMAIN dr
  IN  {a \in common : \A b \in common : dl[a] + dr[a] <= dl[b] + dr[b]}

Tree(id) == IF id = None THEN None ELSE body[id].tree

(***************************************************************************)
(* append_reflog: the new entry, and the oldest ones beyond the window out. *)
(* An entry's sequence number is one more than that of the entry before it. *)
(***************************************************************************)
\* Mutant: one entry too many is kept.
AppendReflog_OffByOne(log, prev, commit) ==
  LET excess == IF Len(log) > keep THEN Len(log) - keep ELSE 0
  IN  Append(SubSeq(log, excess + 1, Len(log)), [prev |-> prev, commit |-> commit])

AppendReflog(log, prev, commit) ==
  LET excess == IF Len(log) + 1 > keep THEN Len(log) + 1 - keep ELSE 0
  IN  Append(SubSeq(log, excess + 1, Len(log)), [prev |-> prev, commit |-> commit])

\* Mutant: the entry records no previous head.
MoveHead_NoPrevious(r, br, commit) ==
  [r EXCEPT !.head[br] = commit, !.log[br] = AppendReflog(@, None, commit)]

MoveHead(r, br, commit) ==
  [r EXCEPT !.head[br] = commit, !.log[br] = AppendReflog(@, r.head[br], commit)]

(***************************************************************************)
(* Protection.                                                              *)
(***************************************************************************)
Quorum(r, policy, id) ==
  Cardinality({s \in policy.trusted : <<id, s>> \in r.att}) >= policy.required

Authorized(r, br, id, by) ==
  r.prot[br] # None =>
    /\ r.prot[br].committers # {} => by \in r.prot[br].committers
    /\ Quorum(r, r.prot[br], id)

Unprotected(br) == repo.prot[br] = None
-------------------------------------------------------------------------------
(***************************************************************************)
(* Preparing a call: the heads it read, the objects it already wrote.       *)
(***************************************************************************)
Stage(c, newBody, br, req) ==
  /\ Len(body) < MaxCommits
  /\ body' = Append(body, newBody)
  /\ repo' = [repo EXCEPT !.nodes = @ \cup {newBody.tree}, !.blobs = @ \cup {newBody.tree}]
  /\ op' = [op EXCEPT ![c] = Publish(br, repo.head[br], Len(body) + 1, req)]
  /\ UNCHANGED keep

Prepare(c, o) ==
  /\ op' = [op EXCEPT ![c] = o]
  /\ UNCHANGED <<body, repo, keep>>

ParentsOf(id) == IF id = None THEN <<>> ELSE <<id>>

\* commit_paths_inner: a known retry key answers at once with its commit.
CommitPaths(c, br, tree, by, key) ==
  /\ op[c] = Idle
  /\ br = Main \/ repo.head[br] # None
  /\ key # None => repo.idem[key] = None
  /\ tree # Tree(repo.head[br])
  /\ Stage(c, [parents |-> ParentsOf(repo.head[br]), tree |-> tree, by |-> by, key |-> key],
           br, None)

\* cherry_pick_inner: source against one of its parents, onto the target.
CherryPick(c, source, br, by, key) ==
  /\ op[c] = Idle
  /\ source \in repo.commits
  /\ br = Main \/ repo.head[br] # None
  /\ key # None => repo.idem[key] = None
  /\ \E parent \in IF body[source].parents = <<>> THEN {None} ELSE Range(body[source].parents) :
       /\ parent # None => parent \in repo.commits
       /\ Tree(source) # Tree(parent)
       /\ Tree(repo.head[br]) # Tree(source)
       /\ Tree(repo.head[br]) = Tree(parent)
  /\ Stage(c, [parents |-> ParentsOf(repo.head[br]), tree |-> Tree(source), by |-> by,
               key |-> key], br, None)

\* Three-way merge of one path: what only one side changed, or the strategy.
Merged(base, ours, theirs) ==
  IF theirs \in {base, ours} THEN {ours}
  ELSE IF ours = base THEN {theirs}
  ELSE {ours, theirs}

\* merge_branch_inner: up to date, fast-forward, or a commit of two parents.
MergeBranch(c, source, target, by) ==
  LET s == repo.head[source]
      t == repo.head[target]
  IN  /\ op[c] = Idle
      /\ source # target /\ s # None /\ t # None
      /\ s \notin Ancestors(repo, t)
      /\ IF t \in Ancestors(repo, s)
         THEN Prepare(c, [kind |-> "ff", source |-> source, br |-> target, from |-> s,
                          expected |-> t, by |-> by])
         ELSE \E base \in MergeBases(repo, t, s) \cap repo.commits :
                \E tree \in Merged(Tree(base), Tree(t), Tree(s)) :
                  Stage(c, [parents |-> <<t, s>>, tree |-> tree, by |-> by, key |-> None],
                        target, <<source, s>>)

ResetBranch(c, br, id) ==
  /\ op[c] = Idle
  /\ repo.head[br] # None /\ id \in repo.commits
  /\ Prepare(c, [kind |-> "reset", br |-> br, expected |-> repo.head[br], id |-> id])

CreateRef(c, kind, name, id) ==
  /\ op[c] = Idle
  /\ id \in repo.commits
  /\ Prepare(c, [kind |-> kind, br |-> name, id |-> id])
-------------------------------------------------------------------------------
(***************************************************************************)
(* Under ref_lock.  A check that fails ends the call and changes nothing.   *)
(***************************************************************************)
Finish(c, r) ==
  /\ op' = [op EXCEPT ![c] = Idle]
  /\ repo' = r
  /\ UNCHANGED <<body, keep, calls>>

AddCommit(r, id) ==
  [r EXCEPT !.commits = @ \cup {id},
            !.idem = [k \in Keys |-> IF body[id].key = k THEN id ELSE @[k]]]

\* Mutant: the retry key is not looked up again under the lock.
PublishCommit_NoReplay(c) ==
  LET o == op[c] IN
  /\ o.kind = "publish"
  /\ Finish(c, IF /\ repo.head[o.br] = o.expected
                  /\ Authorized(repo, o.br, o.id, body[o.id].by)
               THEN MoveHead(AddCommit(repo, o.id), o.br, o.id) ELSE repo)

PublishCommit(c) ==
  LET o == op[c]
      key == body[o.id].key
  IN  /\ o.kind = "publish"
      /\ Finish(c, IF /\ key # None => repo.idem[key] = None
                      /\ repo.head[o.br] = o.expected
                      /\ Authorized(repo, o.br, o.id, body[o.id].by)
                      /\ o.req # None => repo.head[o.req[1]] = o.req[2]
                   THEN MoveHead(AddCommit(repo, o.id), o.br, o.id) ELSE repo)

FastForwardBranch(c) ==
  LET o == op[c] IN
  /\ o.kind = "ff"
  /\ Finish(c, IF /\ repo.head[o.source] = o.from
                  /\ repo.head[o.br] = o.expected
                  /\ Authorized(repo, o.br, o.from, o.by)
               THEN MoveHead(repo, o.br, o.from) ELSE repo)

ResetUnderLock(c) ==
  LET o == op[c] IN
  /\ o.kind = "reset"
  /\ Finish(c, IF Unprotected(o.br) /\ repo.head[o.br] = o.expected
               THEN MoveHead(repo, o.br, o.id) ELSE repo)

CreateBranch(c) ==
  LET o == op[c] IN
  /\ o.kind = "branch"
  /\ Finish(c, IF repo.head[o.br] = None /\ repo.tag[o.br] = None /\ Unprotected(o.br)
               THEN MoveHead(repo, o.br, o.id) ELSE repo)

CreateTag(c) ==
  LET o == op[c] IN
  /\ o.kind = "tag"
  /\ Finish(c, IF repo.tag[o.br] = None /\ repo.head[o.br] = None
               THEN [repo EXCEPT !.tag[o.br] = o.id] ELSE repo)

(***************************************************************************)
(* Calls that do all their work under ref_lock.                             *)
(***************************************************************************)
Write(r) == repo' = r /\ UNCHANGED <<body, keep, op>>

DeleteBranch(name) ==
  /\ Unprotected(name) /\ repo.head[name] # None
  /\ Write(MoveHead(repo, name, None))

DeleteTag(name) ==
  /\ repo.tag[name] # None
  /\ Write([repo EXCEPT !.tag[name] = None])

\* "manager" is None for offline access, which no policy restricts.
SetBranchProtected(br, policy, manager) ==
  /\ repo.head[br] # None
  /\ manager # None /\ repo.prot[br] # None =>
       repo.prot[br].managers = {} \/ manager \in repo.prot[br].managers
  /\ policy # None => Quorum(repo, policy, repo.head[br])
  /\ policy # repo.prot[br]
  /\ Write([repo EXCEPT !.prot[br] = policy])

RecoverBranch(br, i) ==
  LET to == repo.log[br][i].prev IN
  /\ Unprotected(br)
  /\ to # None /\ to \in repo.commits
  /\ repo.head[br] # to
  /\ (br # Main /\ repo.head[br] = None) => repo.tag[br] = None
  /\ Write(MoveHead(repo, br, to))

\* put_attestation takes no lock: one key.
PutAttestation(id, signer) ==
  /\ id \in repo.commits /\ <<id, signer>> \notin repo.att
  /\ Write([repo EXCEPT !.att = @ \cup {<<id, signer>>}])

\* A new recovery window: the policy, then prune_reflogs on every branch.
SetReflogWindow(k) ==
  /\ k # keep
  /\ \A c \in Clients : op[c] = Idle
  /\ keep' = k
  /\ repo' = [repo EXCEPT !.log = [b \in Branches |->
                LET n == Len(@[b]) IN SubSeq(@[b], IF n > k THEN n - k + 1 ELSE 1, n)]]
  /\ UNCHANGED <<body, op>>
-------------------------------------------------------------------------------
(***************************************************************************)
(* A native sync pack from another copy of the repository: one commit the   *)
(* copy made on top of a commit this one has or has pruned, with its        *)
(* objects, its signature if it has one, and the pruned parent if the copy  *)
(* still has it.                                                            *)
(***************************************************************************)
ReflogIds(r) ==
  {e.prev : e \in UNION {Range(r.log[b]) : b \in Branches}}
    \cup {e.commit : e \in UNION {Range(r.log[b]) : b \in Branches}}
RefIds(r) ==
  (Range(r.head) \cup Range(r.tag) \cup ReflogIds(r)) \ {None}

\* validate_repository_bundle_payload over the destination and the pack.
ValidBundle(r, bodies) ==
  /\ r.commits \cap r.pruned = {}
  /\ \A id \in r.commits : /\ Range(bodies[id].parents) \subseteq r.commits \cup r.pruned
                           /\ bodies[id].tree \in r.nodes
  /\ r.nodes \subseteq r.blobs
  /\ {a[1] : a \in r.att} \subseteq r.commits
  /\ RefIds(r) \subseteq r.commits

\* verify(): what the references reach is there, and the policies hold.
Verify(r) ==
  /\ RefIds(r) \subseteq r.commits
  /\ \A id \in UNION {Ancestors(r, ref) : ref \in RefIds(r)} :
       /\ id \in r.commits \cup r.pruned
       /\ id \in r.commits => body[id].tree \in r.nodes \cap r.blobs
  /\ {a[1] : a \in r.att} \subseteq r.commits
  /\ \A b \in Branches : r.prot[b] # None =>
       r.head[b] # None /\ Quorum(r, r.prot[b], r.head[b])

\* Mutant: a forced update may replace a protected head.
ForceAllowed_Always(br, force) == TRUE

ForceAllowed(br, force) == force => Unprotected(br)

\* The objects of both, a commit before its mark of being pruned.
Combined(r, ids, trees, signatures) ==
  [r EXCEPT !.commits = @ \cup ids, !.pruned = @ \ ids,
            !.nodes = @ \cup trees, !.blobs = @ \cup trees, !.att = @ \cup signatures]

Sync(br, parent, tree, by, signed, back, force) ==
  LET id == Len(body) + 1
      combined == Combined(repo, back \cup {id}, {tree} \cup {body[p].tree : p \in back},
                           {id} \X signed)
      prev == repo.head[br]
      anc == {id} \cup (IF parent = None THEN {} ELSE Ancestors(combined, parent))
  IN  /\ id <= MaxCommits
      /\ body' = Append(body, [parents |-> ParentsOf(parent), tree |-> tree, by |-> by,
                               key |-> None])
      /\ ForceAllowed(br, force)
      /\ ValidBundle(combined, body')
      /\ prev = None \/ prev \in anc \/ force
      /\ Authorized(combined, br, id, by)
      /\ repo' = MoveHead(combined, br, id)
      /\ UNCHANGED <<keep, op>>
-------------------------------------------------------------------------------
(***************************************************************************)
(* garbage_collect.  A count and an age bound the first-parent history kept *)
(* of each branch; None is no bound.  Tags and reflogs keep their commits.  *)
(***************************************************************************)
FirstParents(r, id) ==
  LET next(i) == IF i # None /\ i \in r.commits /\ body[i].parents # <<>> THEN body[i].parents[1] ELSE None
      chain[i \in 0..MaxCommits] == IF i = 0 THEN id ELSE next(chain[i - 1])
  IN  [i \in {j \in 0..MaxCommits : chain[j] # None} |-> chain[i]]

\* Mutant: reflogs keep nothing.
Retained_NoReflogs(r, last, since) ==
  LET heads == (Range(r.head) \cup Range(r.tag)) \ {None}
  IN  IF last = None /\ since = None THEN UNION {Ancestors(r, id) : id \in heads} \cap r.commits
      ELSE heads

Retained(r, last, since) ==
  LET chains == {FirstParents(r, r.head[b]) : b \in {x \in Branches : r.head[x] # None}}
      kept == UNION {{ch[i] : i \in {j \in DOMAIN ch :
                        j = 0 \/ /\ last = None \/ j < last
                                 /\ since = None \/ ch[j] >= since}} : ch \in chains}
      all == IF last = None /\ since = None
             THEN UNION {Ancestors(r, id) : id \in kept} ELSE kept
  IN  (all \cap r.commits) \cup RefIds(r)

\* What a sweep may delete, in the order of the keys it scans.
Doomed(r, live) ==
  LET trees == {body[id].tree : id \in live}
  IN  << {"att"} \X {a \in r.att : a[1] \notin live},
         {"blob"} \X (r.blobs \ trees),
         {"commit"} \X (r.commits \ live),
         {"idem"} \X {k \in Keys : r.idem[k] # None /\ r.idem[k] \notin live},
         {"node"} \X (r.nodes \ trees) >>

Swept(r, del) ==
  LET gone(kind) == {d[2] : d \in {x \in del : x[1] = kind}}
  IN  [r EXCEPT !.att = @ \ gone("att"), !.blobs = @ \ gone("blob"),
                !.commits = @ \ gone("commit"), !.pruned = @ \cup gone("commit"),
                !.idem = [k \in Keys |-> IF k \in gone("idem") THEN None ELSE @[k]],
                !.nodes = @ \ gone("node")]

GarbageCollect(last, since, budget) ==
  LET live == Retained(repo, last, since)
      doomed == Doomed(repo, live)
      all == UNION Range(doomed)
  IN  /\ \A c \in Clients : op[c] = Idle
      /\ live \subseteq repo.commits
      /\ all # {}
      /\ \E del \in IF Cardinality(all) <= budget THEN {all}
                     ELSE {d \in SUBSET all : Cardinality(d) = budget} :
           /\ \A i, j \in DOMAIN doomed : (i < j /\ del \cap doomed[j] # {}) => doomed[i] \subseteq del
           /\ Write(Swept(repo, del))
-------------------------------------------------------------------------------
Start(c) ==
  \/ \E br \in Branches, t \in Contents, u \in Users, k \in Keys \cup {None} :
       CommitPaths(c, br, t, u, k)
  \/ \E id \in Ids, br \in Branches, u \in Users, k \in Keys \cup {None} :
       CherryPick(c, id, br, u, k)
  \/ \E s, t \in Branches, u \in Users : MergeBranch(c, s, t, u)
  \/ \E br \in Branches, id \in Ids : ResetBranch(c, br, id)
  \/ \E kind \in {"branch", "tag"}, n \in Names, id \in Ids : CreateRef(c, kind, n, id)

UnderLock(c) ==
  \/ PublishCommit(c) \/ FastForwardBranch(c) \/ ResetUnderLock(c)
  \/ CreateBranch(c) \/ CreateTag(c)

RefStep ==
  \/ \E n \in Names : DeleteBranch(n) \/ DeleteTag(n)
  \/ \E br \in Branches, p \in Policies \cup {None}, m \in Users \cup {None} :
       SetBranchProtected(br, p, m)
  \/ \E br \in Branches : \E i \in DOMAIN repo.log[br] : RecoverBranch(br, i)
  \/ \E id \in Ids, s \in Signers : PutAttestation(id, s)
  \/ \E k \in Windows : SetReflogWindow(k)

SyncStep ==
  \E br \in Branches, p \in repo.commits \cup repo.pruned \cup {None}, t \in Contents,
     u \in Users, sig \in SUBSET Signers, f \in BOOLEAN :
    \E back \in SUBSET ({p} \cap repo.pruned) : Sync(br, p, t, u, sig, back, f)

CollectStep ==
  \E last \in {None, 1}, since \in Ids \cup {None}, budget \in Budgets :
    GarbageCollect(last, since, budget)

Call == (\E c \in Clients : Start(c)) \/ RefStep \/ SyncStep \/ CollectStep

Next ==
  \/ calls < MaxCalls /\ calls' = calls + 1 /\ Call
  \/ \E c \in Clients : UnderLock(c)

Spec == Init /\ [][Next]_vars
-------------------------------------------------------------------------------
(***************************************************************************)
(* What verify() checks, at every moment: each branch, tag and reflog entry *)
(* names a commit that is there; from those, every ancestor is there or     *)
(* marked pruned and every tree is whole; signatures belong to commits; a   *)
(* protection guards a branch that exists and whose head has its quorum.    *)
(***************************************************************************)
RepositoryVerifies == Verify(repo)

(***************************************************************************)
(* "Tags and branch heads pin their commit and Prolly tree through both     *)
(* automatic and explicit GC until the reference is deleted" (README.md).   *)
(* A sweep that stops at its budget leaves commits whose blobs are gone and *)
(* whose records create_branch and create_tag still accept.                 *)
(***************************************************************************)
RefsPinTrees ==
  \A id \in (Range(repo.head) \cup Range(repo.tag)) \ {None} :
    id \in repo.commits /\ body[id].tree \in repo.nodes \cap repo.blobs

(***************************************************************************)
(* A retry key answers with one commit: of the commits the repository holds *)
(* no two were published under the same key (publish_commit looks the key   *)
(* up again under ref_lock), and the record of a key names a commit that    *)
(* resolve_idempotency will find.                                           *)
(***************************************************************************)
RetriesResolve ==
  /\ \A k \in Keys : repo.idem[k] # None => repo.idem[k] \in repo.commits
  /\ \A i, j \in repo.commits : (body[i].key # None /\ body[i].key = body[j].key) => i = j

(***************************************************************************)
(* The reflog of a branch is the story of its head: entries join up and the *)
(* last one is where the head is, through deletion, recovery, sync and the  *)
(* trimming of old entries.  It is what makes a reset or deleted head       *)
(* recoverable.                                                             *)
(***************************************************************************)
ReflogTracksHead ==
  \A b \in Branches :
    LET log == repo.log[b] IN
    /\ log = <<>> => repo.head[b] = None
    /\ log # <<>> => log[Len(log)].commit = repo.head[b]
    /\ \A i \in 1..(Len(log) - 1) : log[i].commit = log[i + 1].prev

(***************************************************************************)
(* Protection "is checked while holding the same ref lock as the mutation,  *)
(* so it cannot race a destructive move" (docs/architecture.md): a          *)
(* protected head only ever moves to a commit that descends from it.        *)
(***************************************************************************)
ProtectedHeadsAdvance ==
  [][\A b \in Branches :
       repo.prot[b] # None =>
         \A h \in {repo.head[b]} :
           (repo.head[b] # None /\ h \in Ancestors(repo, repo.head[b]))']_vars
===============================================================================
