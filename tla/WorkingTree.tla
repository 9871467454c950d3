----------------------------- MODULE WorkingTree -----------------------------
(***************************************************************************)
(* Commits of the live tree, working tree status, restore preview, restore  *)
(* and the historical index (VersionRepository in                           *)
(* slatefs-core/src/versioning.rs and build_index in version_snapshot.rs),  *)
(* one version operation at a time, while clients change the live tree.     *)
(*                                                                          *)
(* A path is the sequence of its names.  A node of the live tree has a      *)
(* kind, an inode number and data: the bytes of a file, the target of a     *)
(* symbolic link, the mode and owner of a directory (those of a file are    *)
(* compared and restored like its bytes and are left out).  A committed     *)
(* entry has the size that was recorded and the blobs that were read, chunk *)
(* by chunk, after it.                                                      *)
(***************************************************************************)
EXTENDS Integers, Sequences, FiniteSets, SequencesExt

CONSTANTS Paths,      \* the paths clients use, closed under parents
          Contents,   \* data of files and links: sequences
          ChunkSize,
          Starts,     \* the initial live trees: functions from paths to nodes
          CommitSets, \* the path sets that are committed
          Roots,      \* the roots that are restored
          MaxCommits, MaxClients, MaxRestores,
          Part,       \* a name no client uses, of the staged file of a restore
          None

VARIABLES live,    \* path -> node
          trees,   \* the committed trees: path -> entry
          op,      \* the version operation in progress
          preview, \* the preview last made
          inos,    \* inode numbers used
          clients, \* client steps left
          restores \* restores left

vars == <<live, trees, op, preview, inos, clients, restores>>

Idle == [pc |-> "idle"]
TreeRoot == <<>>
Parent(p) == Front(p)
Within(p, root) == IsPrefix(root, p)              \* path_is_within
Below(f, root) == {p \in DOMAIN f : Within(p, root)}
Keep(f, ps) == [p \in ps |-> f[p]]
Over(f, g) == [p \in DOMAIN f \cup DOMAIN g |-> IF p \in DOMAIN g THEN g[p] ELSE f[p]]
Set(f, p, x) == Over(f, [q \in {p} |-> x])
IsDir(p) == p = TreeRoot \/ (p \in DOMAIN live /\ live[p].kind = "dir")
Deepest(ps) == CHOOSE p \in ps : \A q \in ps : Len(q) <= Len(p)
Shallowest(ps) == CHOOSE p \in ps : \A q \in ps : Len(q) >= Len(p)
Clip(s, from, to) == SubSeq(s, from + 1, to)      \* the bytes from .. to - 1
Least(a, b) == IF a < b THEN a ELSE b
Most(a, b) == IF a > b THEN a ELSE b
DivCeil(a, b) == (a + b - 1) \div b

\* What a fingerprint and a comparison see of a node.
Visible(f, root) == [p \in Below(f, root) |-> <<f[p].kind, f[p].data>>]
-------------------------------------------------------------------------------
Init ==
  /\ live \in Starts
  /\ trees = <<>>
  /\ op = Idle
  /\ preview = None
  /\ inos = Cardinality(Paths)
  /\ clients = MaxClients
  /\ restores = MaxRestores

Active == op.pc # "idle"
Base == IF trees = <<>> THEN <<>> ELSE trees[Len(trees)]
Fail == op' = Idle
Goto(pc) == op' = [op EXCEPT !.pc = pc]

\* Mutant: the entries under the committed paths are only added to.
Kept_All(tree, paths) == DOMAIN tree

\* The entries a commit leaves alone: its paths are deleted, then captured.
Kept(tree, paths) == {p \in DOMAIN tree : ~\E root \in paths : Within(p, root)}

\* commit_paths_inner: the head's tree is the base.
BeginCommit ==
  /\ ~Active
  /\ Len(trees) < MaxCommits
  /\ \E paths \in CommitSets :
       op' = [pc |-> "capture", paths |-> paths, todo |-> paths, pending |-> {}, changes |-> <<>>,
              item |-> None, blobs |-> <<>>, clean |-> TRUE, was |-> live]
  /\ UNCHANGED <<live, trees, preview, inos, clients, restores>>

Capturing == op.pc = "capture" /\ UNCHANGED <<live, trees, preview, inos, clients, restores>>
Attr(p) == [path |-> p, kind |-> live[p].kind, ino |-> live[p].ino, size |-> Len(live[p].data)]

\* resolve_path_optional: a path that is gone is committed as deleted.
CaptureRoot ==
  /\ Capturing
  /\ op.item = None /\ op.pending = {} /\ op.todo # {}
  /\ LET p == Shallowest(op.todo)
         blocked == \E n \in 1 .. Len(p) - 1 : SubSeq(p, 1, n) \in DOMAIN live /\ ~IsDir(SubSeq(p, 1, n))
     IN IF blocked THEN Fail
        ELSE op' = [op EXCEPT !.todo = @ \ {p},
                              !.pending = IF p \in DOMAIN live THEN {Attr(p)} ELSE {}]

\* Reads by inode number: what is left of the file, or Stale.
Read(ino, from, to) ==
  LET ps == {p \in DOMAIN live : live[p].ino = ino}
  IN IF ps = {} THEN None
     ELSE LET data == live[CHOOSE p \in ps : TRUE].data
          IN Clip(data, from, Least(to, Len(data)))

Record(p, kind, size, blobs) == Set(op.changes, p, [kind |-> kind, size |-> size, blobs |-> blobs])

\* capture_subtree: the next node; a directory adds its children, a link is
\* read at once, a file chunk by chunk.
CaptureNode ==
  /\ Capturing
  /\ op.item = None /\ op.pending # {}
  /\ LET a == CHOOSE x \in op.pending : TRUE
         children == {p \in DOMAIN live : p # TreeRoot /\ Parent(p) = a.path}
         whole == Read(a.ino, 0, a.size)
     IN CASE a.kind = "file" -> op' = [op EXCEPT !.pending = @ \ {a}, !.item = a, !.blobs = <<>>]
          [] a.kind # "file" /\ whole = None -> Fail
          [] a.kind = "dir" /\ whole # None ->
               op' = [op EXCEPT !.pending = (@ \ {a}) \cup {Attr(p) : p \in children},
                                !.changes = Record(a.path, a.kind, a.size, <<whole>>)]
          [] a.kind = "link" /\ whole # None ->
               op' = [op EXCEPT !.pending = @ \ {a}, !.changes = Record(a.path, a.kind, a.size, <<whole>>)]

\* One chunk of a file, by the size that was read before.
CaptureChunk ==
  /\ Capturing
  /\ op.item # None
  /\ LET a == op.item
         at == Len(op.blobs) * ChunkSize
         bytes == Read(a.ino, at, Least(at + ChunkSize, a.size))
     IN \/ /\ Len(op.blobs) = DivCeil(a.size, ChunkSize)
           /\ op' = [op EXCEPT !.item = None, !.changes = Record(a.path, a.kind, a.size, op.blobs)]
        \/ /\ Len(op.blobs) < DivCeil(a.size, ChunkSize)
           /\ IF bytes = None THEN Fail ELSE op' = [op EXCEPT !.blobs = Append(@, bytes)]

\* prolly.batch; a commit without a change is refused.
PublishTree ==
  /\ op.pc = "capture"
  /\ op.item = None /\ op.pending = {} /\ op.todo = {}
  /\ LET tree == Over(Keep(Base, Kept(Base, op.paths)), op.changes)
     IN \/ tree = Base /\ Fail /\ UNCHANGED trees
        \/ /\ tree # Base
           /\ trees' = Append(trees, tree)
           /\ op' = [pc |-> "committed", paths |-> op.paths, clean |-> op.clean, was |-> op.was, base |-> Base]
  /\ UNCHANGED <<live, preview, inos, clients, restores>>
-------------------------------------------------------------------------------
\* Mutant: files of the same size count as unchanged.
Same_Sized(entry, node) == entry.size = Len(node.data)

\* version_entry_matches_live, for an entry and a node of one kind.
Same(entry, node) ==
  /\ entry.size = Len(node.data)
  /\ \A i \in DOMAIN entry.blobs :
       LET at == (i - 1) * ChunkSize
       IN entry.blobs[i] = Clip(node.data, at, Least(at + Len(entry.blobs[i]), Len(node.data)))

\* working_tree_status: path -> change.
Status(tree, root) ==
  LET versioned == Below(tree, root)
      present == Below(live, root)
      change(p) ==
        CASE p \notin versioned -> "added"
          [] p \notin present -> "deleted"
          [] p \in versioned \cap present /\ tree[p].kind # live[p].kind -> "type"
          [] p \in versioned \cap present /\ tree[p].kind = live[p].kind ->
               IF Same(tree[p], live[p]) THEN "none" ELSE "modified"
  IN [p \in {q \in versioned \cup present : change(q) # "none"} |-> change(p)]

\* preview_restore: path -> action.
Actions(status, mode) ==
  LET planned == {p \in DOMAIN status : status[p] # "added" \/ mode = "exact"}
  IN [p \in planned |-> CASE status[p] = "added" -> "delete"
                          [] status[p] = "deleted" -> "create"
                          [] OTHER -> "replace"]

\* Mutant: the token covers the plan and not what it would overwrite.
Token_Plan(commit, root, mode, actions) == <<commit, root, mode, actions>>

\* The token binds the commit, the plan and live_subtree_fingerprint.
Token(commit, root, mode, actions) == <<commit, root, mode, actions, Visible(live, root)>>

Unmoved == UNCHANGED <<live, trees, inos, clients>>

\* preview_restore and apply_restore start with a status ...
BeginRestore ==
  /\ ~Active
  /\ restores > 0
  /\ \E commit \in DOMAIN trees, root \in Roots, mode \in {"overlay", "exact"}, apply \in BOOLEAN :
       /\ apply => preview # None /\ <<commit, root, mode>> = <<preview.commit, preview.root, preview.mode>>
       /\ ~apply => preview = None
       /\ op' = [pc |-> "fingerprint", commit |-> commit, root |-> root, mode |-> mode,
                 apply |-> apply, actions |-> Actions(Status(trees[commit], root), mode),
                 clean |-> TRUE, was |-> live]
  /\ restores' = restores - 1
  /\ UNCHANGED preview
  /\ Unmoved

\* ... and a fingerprint; a preview ends there, and an apply with another
\* token is refused.
Fingerprint ==
  /\ op.pc = "fingerprint"
  /\ LET token == Token(op.commit, op.root, op.mode, op.actions)
     IN \/ /\ ~op.apply
           /\ preview' = [commit |-> op.commit, root |-> op.root, mode |-> op.mode, token |-> token,
                          seen |-> Visible(live, op.root)]
           /\ op' = Idle
        \/ op.apply /\ token # preview.token /\ Fail /\ UNCHANGED preview
        \/ op.apply /\ token = preview.token /\ Goto("plan") /\ UNCHANGED preview
  /\ UNCHANGED restores
  /\ Unmoved

\* canonicalize_path_set
Canonical(ps) == {p \in ps : ~\E q \in ps \ {p} : Within(p, q)}

\* apply_restore: a second status says which paths changed their type; those
\* and the deletions are removed, the rest of the plan is restored.
Plan ==
  /\ op.pc = "plan"
  /\ LET status == Status(trees[op.commit], op.root)
         removals == {p \in DOMAIN op.actions : op.actions[p] = "delete"}
                       \cup {p \in DOMAIN status : status[p] = "type"}
         roots == Canonical({p \in DOMAIN op.actions : op.actions[p] # "delete"})
     IN op' = [op EXCEPT !.pc = "remove"] @@ [removals |-> removals, rm |-> {}, staged |-> None,
                 todo |-> {p \in DOMAIN trees[op.commit] : \E r \in roots : Within(p, r)}]
  /\ UNCHANGED <<preview, restores>>
  /\ Unmoved

\* remove_live_subtree, deepest first: what is there when it is scanned ...
ScanRemoval ==
  /\ op.pc = "remove" /\ op.rm = {} /\ op.removals # {}
  /\ LET p == Deepest(op.removals)
     IN op' = [op EXCEPT !.removals = @ \ {p}, !.rm = Below(live, p)]
  /\ UNCHANGED <<preview, restores>>
  /\ Unmoved

Empty(p) == ~\E q \in DOMAIN live : q # p /\ Within(q, p)

\* ... is removed entry by entry.
RemoveEntry ==
  /\ op.pc = "remove" /\ op.rm # {}
  /\ LET p == Deepest(op.rm)
     IN \/ /\ p \in DOMAIN live /\ Empty(p)
           /\ live' = Keep(live, DOMAIN live \ {p})
           /\ op' = [op EXCEPT !.rm = @ \ {p}]
        \/ (p \notin DOMAIN live \/ ~Empty(p)) /\ Fail /\ UNCHANGED live
  /\ UNCHANGED <<trees, preview, inos, clients, restores>>

Removed ==
  /\ op.pc = "remove" /\ op.rm = {} /\ op.removals = {}
  /\ Goto("restore")
  /\ UNCHANGED <<preview, restores>>
  /\ Unmoved

Restoring == op.pc = "restore" /\ UNCHANGED <<trees, preview, clients, restores>>
Entry(p) == trees[op.commit][p]
Made(kind, data) == [kind |-> kind, ino |-> inos + 1, data |-> data]
Temp(p) == Append(Parent(p), Part)

\* restore_directory_entry
RestoreDirectory ==
  /\ Restoring
  /\ op.todo # {} /\ op.staged = None
  /\ LET p == Shallowest(op.todo)
         data == Entry(p).blobs[1]
     IN /\ Entry(p).kind = "dir"
        /\ \/ /\ IsDir(p)
              /\ live' = [live EXCEPT ![p].data = data]
              /\ op' = [op EXCEPT !.todo = @ \ {p}]
              /\ UNCHANGED inos
           \/ /\ p \notin DOMAIN live /\ IsDir(Parent(p))
              /\ live' = Set(live, p, Made("dir", data))
              /\ op' = [op EXCEPT !.todo = @ \ {p}]
              /\ inos' = inos + 1
           \/ /\ ~IsDir(p) /\ (p \in DOMAIN live \/ ~IsDir(Parent(p)))
              /\ Fail
              /\ UNCHANGED <<live, inos>>

\* Mutant: a file is restored in place.
Target_InPlace(p) == IF p \in DOMAIN live /\ ~IsDir(p) THEN p ELSE Temp(p)

\* The staged name a file or link is restored under.
Target(p) == Temp(p)

\* restore_regular_file and restore_symlink_entry: create the staged node, ...
Stage ==
  /\ Restoring
  /\ op.todo # {} /\ op.staged = None
  /\ LET p == Shallowest(op.todo)
         kind == Entry(p).kind
     IN /\ kind # "dir"
        /\ \/ /\ IsDir(Parent(p))
              /\ live' = Set(live, Target(p), Made(kind, IF kind = "link" THEN Entry(p).blobs[1] ELSE <<>>))
              /\ op' = [op EXCEPT !.staged = [path |-> p, temp |-> Target(p), done |-> kind = "link"]]
              /\ inos' = inos + 1
           \/ ~IsDir(Parent(p)) /\ Fail /\ UNCHANGED <<live, inos>>

\* read_file_range of a committed file: the bytes, or None for an error.
ReadRange(entry, from, len) ==
  LET start == Least(from, entry.size)
      end == Least(start + len, entry.size)
      first == start \div ChunkSize
      last == (end - 1) \div ChunkSize
      piece(i) ==
        LET blob == entry.blobs[i + 1]
        IN Clip(blob, Most(start - i * ChunkSize, 0), Least(end - i * ChunkSize, Len(blob)))
      bytes == FlattenSeq([k \in 1 .. last - first + 1 |-> piece(first + k - 1)])
  IN IF start = end THEN <<>>
     ELSE IF last >= Len(entry.blobs) THEN None
     ELSE IF Len(bytes) # end - start THEN None
     ELSE bytes

\* ... fill it chunk by chunk, ...
Fill ==
  /\ Restoring
  /\ op.staged # None /\ ~op.staged.done
  /\ op.staged.temp \in DOMAIN live
  /\ LET entry == Entry(op.staged.path)
         temp == op.staged.temp
         at == Len(live[temp].data)
         bytes == ReadRange(entry, at, ChunkSize)
     IN \/ /\ at = entry.size
           /\ op' = [op EXCEPT !.staged.done = TRUE]
           /\ UNCHANGED live
        \/ /\ at < entry.size /\ bytes \notin {None, <<>>}
           /\ live' = [live EXCEPT ![temp].data = @ \o bytes]
           /\ UNCHANGED op
        \/ /\ at < entry.size /\ bytes \in {None, <<>>}
           /\ live' = Keep(live, DOMAIN live \ {temp})
           /\ Fail
  /\ UNCHANGED inos

\* ... and rename it into place, or remove it when that fails.
Place ==
  /\ Restoring
  /\ op.staged # None /\ op.staged.done
  /\ LET p == op.staged.path
         temp == op.staged.temp
         rest == Keep(live, DOMAIN live \ {temp})
     IN \/ /\ ~IsDir(p)
           /\ live' = Set(rest, p, live[temp])
           /\ op' = [op EXCEPT !.todo = @ \ {p}, !.staged = None]
        \/ IsDir(p) /\ live' = rest /\ Fail
  /\ UNCHANGED inos

Restored ==
  /\ op.pc = "restore" /\ op.todo = {} /\ op.staged = None
  /\ Goto("restored")
  /\ preview' = None
  /\ UNCHANGED restores
  /\ Unmoved

\* The answer; or the daemon stops and leaves what is staged.
Finish == Active /\ op.pc \in {"committed", "restored"} /\ op' = Idle /\ UNCHANGED <<preview, restores>> /\ Unmoved
Crash == op.pc = "restore" /\ op.staged # None /\ op' = Idle /\ UNCHANGED <<preview, restores>> /\ Unmoved
-------------------------------------------------------------------------------
\* Clients create, write and remove nodes; they do not touch staged names.
Client ==
  /\ clients > 0
  /\ clients' = clients - 1
  /\ op' = IF Active THEN [op EXCEPT !.clean = FALSE] ELSE op
  /\ \E p \in Paths \ {TreeRoot} :
       \/ /\ p \notin DOMAIN live /\ IsDir(Parent(p))
          /\ \E kind \in {"file", "dir", "link"}, data \in Contents :
               live' = Set(live, p, Made(kind, data))
          /\ inos' = inos + 1
       \/ /\ p \in DOMAIN live /\ Empty(p)
          /\ live' = Keep(live, DOMAIN live \ {p})
          /\ UNCHANGED inos
       \/ /\ p \in DOMAIN live /\ live[p].kind = "file"
          /\ \E data \in Contents \ {live[p].data} : live' = [live EXCEPT ![p].data = data]
          /\ UNCHANGED inos
  /\ UNCHANGED <<trees, preview, restores>>

Committing == BeginCommit \/ CaptureRoot \/ CaptureNode \/ CaptureChunk \/ PublishTree

Applying ==
  \/ BeginRestore \/ Fingerprint \/ Plan \/ ScanRemoval \/ RemoveEntry \/ Removed
  \/ RestoreDirectory \/ Stage \/ Fill \/ Place \/ Restored

Next == Committing \/ Applying \/ Finish \/ Crash \/ Client

Spec == Init /\ [][Next]_vars
-------------------------------------------------------------------------------
Ancestors(p) == {SubSeq(p, 1, n) : n \in 0 .. Len(p) - 1}

\* The paths of a historical view: the ancestors that were not committed are
\* supplied.
Supplied(ps) == ps \cup UNION {Ancestors(p) : p \in ps} \cup {TreeRoot}

\* build_index: an inode number per path, the children by name and the links
\* of the directories; None when a path has a parent that is no directory.
BuildIndex(tree) ==
  LET paths == Supplied(DOMAIN tree)
      kind(p) == IF p \in DOMAIN tree THEN tree[p].kind ELSE "dir"
      order == SetToSeq(paths)
      ino(p) == CHOOSE i \in DOMAIN order : order[i] = p
  IN IF \E p \in paths \ {TreeRoot} : Parent(p) \in paths /\ kind(Parent(p)) # "dir" THEN None
     ELSE [path |-> order, root |-> ino(TreeRoot),
           lookup |-> [e \in {<<ino(Parent(p)), Last(p)>> : p \in {q \in paths \ {TreeRoot} : Parent(q) \in paths}} |->
                         ino(Append(order[e[1]], e[2]))],
           nlink |-> [i \in DOMAIN order |->
                        IF kind(order[i]) # "dir" THEN 1
                        ELSE 2 + Cardinality({p \in paths \ {TreeRoot} : Parent(p) = order[i] /\ kind(p) = "dir"})]]

\* Name by name, as a client looks a path up.
Walk(index, p) ==
  LET at[n \in 0 .. Len(p)] ==
        IF n = 0 THEN index.root
        ELSE IF at[n - 1] # None /\ <<at[n - 1], p[n]>> \in DOMAIN index.lookup
             THEN index.lookup[<<at[n - 1], p[n]>>] ELSE None
  IN at[Len(p)]

\* Mutant: a change of the chunks alone is not a change.
ContentChanged_Never(a, b) == FALSE

\* Any chunk key of a file differs.
ContentChanged(a, b) == a.blobs # b.blobs

\* diff_trees: path -> change, by the metadata key first.
Diff(from, to) ==
  LET change(p) ==
        CASE p \notin DOMAIN from -> "added"
          [] p \notin DOMAIN to -> "deleted"
          [] OTHER -> IF <<from[p].kind, from[p].size>> # <<to[p].kind, to[p].size>>
                         \/ ContentChanged(from[p], to[p])
                      THEN "modified" ELSE "none"
  IN [p \in {q \in DOMAIN from \cup DOMAIN to : change(q) # "none"} |-> change(p)]
-------------------------------------------------------------------------------
Bytes(entry) == FlattenSeq(entry.blobs)
Whole(entry) == Len(Bytes(entry)) = entry.size
Matches(entry, node) == entry.kind = node.kind /\ Bytes(entry) = node.data

(***************************************************************************)
(* Trees have a node for every path, in directories; committed entries one  *)
(* blob per chunk.                                                          *)
(***************************************************************************)
TypeOK ==
  /\ \A p \in DOMAIN live : p # TreeRoot /\ IsDir(Parent(p)) /\ live[p].kind \in {"file", "dir", "link"}
  /\ \A p, q \in DOMAIN live : live[p].ino = live[q].ino => p = q
  /\ \A i \in DOMAIN trees : \A p \in DOMAIN trees[i] :
       trees[i][p].kind = "file" => Len(trees[i][p].blobs) = DivCeil(trees[i][p].size, ChunkSize)

(***************************************************************************)
(* A commit during which no client wrote holds exactly the live subtrees it *)
(* names, deletions included, and the head's entries elsewhere; and any     *)
(* range of a committed file reads as those bytes.                          *)
(***************************************************************************)
CommitsWhole ==
  op.pc = "committed" /\ op.clean =>
    LET tree == trees[Len(trees)]
        named == {p \in DOMAIN op.was : \E root \in op.paths : Within(p, root)}
        others(f) == {p \in DOMAIN f : ~\E root \in op.paths : Within(p, root)}
    IN /\ DOMAIN tree = named \cup others(op.base)
       /\ \A p \in others(op.base) : tree[p] = op.base[p]
       /\ \A p \in named :
            /\ Matches(tree[p], op.was[p])
            /\ tree[p].kind = "file" =>
                 LET data == op.was[p].data
                 IN \A from, len \in 0 .. Len(data) + 1 :
                      ReadRange(tree[p], from, len) = Clip(data, Least(from, Len(data)), Least(from + len, Len(data)))

\* Every directory between the root and a committed path was committed too.
Rooted(tree, root) ==
  \A p \in Below(tree, root) : \A q \in Ancestors(p) \ {TreeRoot} :
    Within(q, root) => q \in DOMAIN tree /\ tree[q].kind = "dir"

\* What a finished restore says it did.
RestoredAll(tree, root) == \A p \in Below(tree, root) : p \in DOMAIN live /\ (Whole(tree[p]) => Matches(tree[p], live[p]))
NothingElse(tree, root) == Below(live, root) \subseteq DOMAIN tree
OthersKept(tree, root) ==
  \A p \in Below(op.was, root) \ DOMAIN tree :
    \/ p \in DOMAIN live /\ live[p] = op.was[p]
    \/ \E q \in Ancestors(p) \cap DOMAIN tree \cap DOMAIN op.was : tree[q].kind # op.was[q].kind

(***************************************************************************)
(* A restore that reports success, while no client wrote, has made every    *)
(* committed path under its root what the commit holds, whatever was there  *)
(* before; exact leaves nothing else, overlay keeps the other paths unless  *)
(* they were below a path that changed its type.  For a root under which    *)
(* every directory was committed.                                           *)
(***************************************************************************)
RestoreMatches ==
  op.pc = "restored" /\ op.clean =>
    LET tree == trees[op.commit]
    IN Rooted(tree, op.root) =>
         /\ RestoredAll(tree, op.root)
         /\ IF op.mode = "exact" THEN NothingElse(tree, op.root) ELSE OthersKept(tree, op.root)

(***************************************************************************)
(* "File replacements are staged atomically": at every moment of a restore, *)
(* a path holds what it held before or what was committed, never a part.    *)
(***************************************************************************)
StagedWhole ==
  op.pc = "restore" /\ op.clean =>
    \A p \in DOMAIN live :
      \/ Last(p) = Part
      \/ p \in DOMAIN op.was /\ live[p] = op.was[p]
      \/ p \in DOMAIN trees[op.commit] /\ Matches(Entry(p), live[p])

(***************************************************************************)
(* "rejects stale plans before mutation": a restore changes a tree only if  *)
(* it is, contents included, the one the preview was made from.             *)
(***************************************************************************)
OverwritesOnlyPreviewed ==
  op.pc \in {"remove", "restore"} /\ op.clean => Visible(op.was, op.root) = preview.seen

(***************************************************************************)
(* A historical view that can be built reaches every committed path name by *)
(* name, each by one inode number and nothing through a file; and the diff  *)
(* of two commits names exactly the paths that differ.                      *)
(***************************************************************************)
IndexFaithful ==
  \A i \in DOMAIN trees :
    LET index == BuildIndex(trees[i])
    IN /\ index # None =>
            \A p \in DOMAIN trees[i] :
              /\ Walk(index, p) # None
              /\ index.path[Walk(index, p)] = p
              /\ \A q \in Ancestors(p) : index.nlink[Walk(index, q)] >= 2
       /\ \A j \in DOMAIN trees :
            DOMAIN Diff(trees[i], trees[j]) =
              {p \in DOMAIN trees[i] \cup DOMAIN trees[j] :
                 ~(p \in DOMAIN trees[i] \cap DOMAIN trees[j] /\ trees[i][p] = trees[j][p])}

(***************************************************************************)
(* "Make the selected live subtree match the versioned tree exactly."       *)
(***************************************************************************)
ExactRestores ==
  op.pc = "restored" /\ op.clean /\ op.mode = "exact" => RestoredAll(trees[op.commit], op.root)

(***************************************************************************)
(* "Any commit, immutable tag, or branch head can also be served as its own *)
(* read-only NFS or 9P export".                                             *)
(***************************************************************************)
Exportable == \A i \in DOMAIN trees : BuildIndex(trees[i]) # None
===============================================================================
