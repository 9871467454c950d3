----------------------------- MODULE MC_Control -----------------------------
(***************************************************************************)
(* VersionRefs, RepositorySync, VolumeLifecycle and Placement for TLC: the  *)
(* records of a volume, of its history and of its place in the fleet.  They *)
(* share no state: a behaviour is one of them, and part says which.         *)
(*                                                                          *)
(* A repository with main and one more name.  Behaviours start from         *)
(* histories the calls themselves can make, so that a few more calls reach  *)
(* merges, pruned ancestors, protected heads and half-swept repositories.   *)
(* Two copies of a repository: none begun, one to replicate, and one that   *)
(* has pruned what the other still holds.                                   *)
(* Two administrators and two volumes, so that one may be the other's       *)
(* clone; three calls, with a crash or a fence between any two of their     *)
(* steps; two tenant keys and two checkpoints.  Three nodes and one volume  *)
(* with one endpoint, moved twice.                                          *)
(***************************************************************************)
EXTENDS VolumeLifecycle, Placement, TLC

CONSTANTS Parts,   \* a subset of {"history", "sync", "volumes", "fleet"}
          Clients, Names, Contents, Keys, Users, Signers, Policies, Budgets, Windows, Histories,
          MaxCommits, MaxRefCalls,
          b, k, x, y, z, u1, u2, s1,
          here, there, MaxMade, MaxDone

VARIABLES part, body, repo, keep, op, refcalls, made, copy, transfer, packs, bundles, done

hvars == <<body, repo, keep, op, refcalls>>
svars == <<made, copy, transfer, packs, bundles, done>>
allvars == <<part, vars, fleetvars, hvars, svars>>

Copies == {here, there}

History == INSTANCE VersionRefs WITH MaxCalls <- MaxRefCalls, calls <- refcalls
\* The same before any history is given, for the values of Histories below.
Blank == INSTANCE VersionRefs WITH MaxCalls <- MaxRefCalls, calls <- refcalls, Histories <- {}

SyncParent(parent, tree) == [parent |-> parent, tree |-> tree]
SyncCopy(ids, gone, head, trees) ==
  [identity |-> here, commits |-> ids, pruned |-> gone, nodes |-> trees, blobs |-> trees,
   head |-> head, previous |-> head - 1, protected |-> FALSE]
MCBeginnings == {
  [made |-> <<>>, copy |-> [v \in Copies |-> None]],
  [made |-> <<SyncParent(None, x), SyncParent(1, y)>>,
   copy |-> (here :> SyncCopy(1..2, {}, 2, {x, y})) @@ (there :> None)],
  [made |-> <<SyncParent(None, x), SyncParent(1, y), SyncParent(2, y)>>,
   copy |-> (here :> SyncCopy(1..3, {}, 3, {x, y})) @@ (there :> SyncCopy(2..3, {1}, 3, {y}))]}

Exchange == INSTANCE RepositorySync WITH Trees <- Contents, Beginnings <- MCBeginnings

\* u2 publishes and u1 manages; u1 publishes with the signature of s1.
Restricted == [committers |-> {u2}, managers |-> {u1}, trusted |-> {}, required |-> 0]
Quorate == [committers |-> {u1}, managers |-> {u2}, trusted |-> {s1}, required |-> 1]
MCPolicies == {Restricted, Quorate}

Made(parents, tree) == [parents |-> parents, tree |-> tree, by |-> u1, key |-> None]
Moved(from, to) == [prev |-> from, commit |-> to]

Fresh == [body |-> <<>>, repo |-> Blank!Empty, keep |-> 2]

\* Commit 1, branch b there, then a commit on each branch.
Diverged ==
  [body |-> <<Made(<<>>, x), Made(<<1>>, y), Made(<<1>>, y)>>, keep |-> 2,
   repo |-> [Blank!Empty EXCEPT
     !.commits = 1..3, !.nodes = {x, y}, !.blobs = {x, y},
     !.head = (Blank!Main :> 2) @@ (b :> 3),
     !.log = (Blank!Main :> <<Moved(None, 1), Moved(1, 2)>>) @@ (b :> <<Moved(None, 1), Moved(1, 3)>>)]]

\* Three commits on main, the last under a retry key; a window of one entry.
Line(tree) ==
  [body |-> <<Made(<<>>, tree), Made(<<1>>, y), [Made(<<2>>, x) EXCEPT !.key = k]>>, keep |-> 1,
   repo |-> [Blank!Empty EXCEPT
     !.commits = 1..3, !.nodes = {tree, x, y}, !.blobs = {tree, x, y}, !.idem = (k :> 3),
     !.head = (Blank!Main :> 3) @@ (b :> None), !.log = (Blank!Main :> <<Moved(2, 3)>>) @@ (b :> <<>>)]]

\* Then signed, protected, and swept down to what the reflog keeps.
Trimmed ==
  [Line(x) EXCEPT !.repo.commits = {2, 3}, !.repo.pruned = {1}, !.repo.att = {<<3, s1>>},
                  !.repo.prot[Blank!Main] = Quorate]

MCHistories == {Fresh, Diverged, Trimmed}
UnsweptHistory == {Line(z)}

ExchangeInit ==
  IF part = "sync" THEN Exchange!SyncInit
  ELSE /\ made = None /\ copy = None /\ transfer = None
       /\ packs = None /\ bundles = None /\ done = None

ControlInit ==
  /\ part \in Parts /\ Init /\ FleetInit /\ ExchangeInit
  /\ History!Init /\ (part # "history" => body = <<>>)
ControlNext ==
  \/ part = "history" /\ History!Next /\ UNCHANGED <<part, vars, fleetvars, svars>>
  \/ part = "volumes" /\ Next /\ UNCHANGED <<part, hvars, fleetvars, svars>>
  \/ part = "fleet" /\ FleetNext /\ UNCHANGED <<part, vars, hvars, svars>>
  \/ part = "sync" /\ Exchange!SyncNext /\ UNCHANGED <<part, vars, hvars, fleetvars>>
ControlSpec == ControlInit /\ [][ControlNext]_allvars

\* A replica or a serving pool at a time: they do not affect the rest.
FewReaders ==
  \A v \in Placed : place[v] # Unset =>
    Cardinality(place[v].replicas) + Cardinality(DOMAIN place[v].pools) <= 1

MCSymmetry == Permutations(Clients) \cup Permutations(Admins) \cup Permutations(Volumes)
-------------------------------------------------------------------------------
(***************************************************************************)
(* What verify() checks holds at every moment, the reflog of a branch tells *)
(* where its head is, and a retry key answers with one commit (VersionRefs).*)
(* Copies that exchange packs and bundles stay readable (RepositorySync).   *)
(***************************************************************************)
RepositorySound ==
  /\ part = "sync" => Exchange!CopiesReadable
  /\ part = "history" => /\ History!TypeOK /\ History!RepositoryVerifies
                         /\ History!ReflogTracksHead /\ History!RetriesResolve

(***************************************************************************)
(* A protected head only moves to its descendants, by local calls           *)
(* (VersionRefs) and by packs from another copy, which also never change    *)
(* the identity of a repository (RepositorySync).                           *)
(***************************************************************************)
HeadsAdvance ==
  History!ProtectedHeadsAdvance /\ [][part = "sync" => Exchange!CopyStep]_allvars

(***************************************************************************)
(* "Tags and branch heads pin their commit and Prolly tree through both     *)
(* automatic and explicit GC" (README.md; VersionRefs).                     *)
(***************************************************************************)
RefsPinTrees == History!RefsPinTrees
===============================================================================
