------------------------------ MODULE AdminApi ------------------------------
(***************************************************************************)
(* The daemon's admin API (slatefs-daemon/src/main.rs) as concurrent        *)
(* requests over the state they share: the control database, whose every    *)
(* opening as a writer fences the writer before it; per volume, the version *)
(* lock, the cached read repository and the maintenance lease; and the      *)
(* maintenance loops, which take the lease but not the lock.                *)
(*                                                                          *)
(* A handler is the sequence of the steps it awaits, and the record it      *)
(* edits or reads.  A step that fails ends the handler with an error, after *)
(* it has closed the repository it holds.  What a handler computes for its  *)
(* answer is left out; a record is the set of the requests whose edits it   *)
(* holds.                                                                   *)
(***************************************************************************)
EXTENDS Integers, Sequences, FiniteSets, TLC

CONSTANTS MaxReqs,    \* requests, made in the order of their numbers
          MaxRunning, \* requests in progress at once
          Volumes,    \* 1 .. n, first used in that order
          Menus,      \* choices of handlers (calls), commands, how many run (most) on how many volumes (vols)
          None

VARIABLES menu,      \* the handlers the requests call
          made,      \* requests made so far
          req,       \* per request: its progress, None before and after
          writer,    \* who opened the control database last
          handle,    \* per volume, who opened it last as a writer
          records,   \* per record of the control database, the edits in it
          lock,      \* per volume, the request that holds the version lock
          lease,     \* per volume, who holds the maintenance lease
          cached,    \* per volume, the cached read repository: None, fresh, stale
          refresh,   \* version_read_writer_refresh
          lagging,   \* volumes whose policy the control reader has not polled yet
          unread,    \* volumes no read was served for since their policy changed
          acked,     \* per record, the edits answered with success
          loop,      \* the version retention loop
          sweep      \* the snapshot retention loop

vars == <<menu, made, req, writer, handle, records, lock, lease, cached, refresh, lagging, unread, acked, loop, sweep>>

Reqs == 1 .. MaxReqs
Kinds == {"enabled", "retention", "quota", "rate", "export", "snapshots"}
Keys == Kinds \X Volumes

\* Holders of a lease and writers of the control database that are no request.
Cache == 0   \* the cached read repository
Loop == -1   \* the version retention loop
Sweep == -5  \* the snapshot retention loop
Dropped == -2 \* a repository dropped without being closed
Departed == -3 \* a process that died; its lease has expired
Elsewhere == -4 \* another process, or a frontend that records a rejection
Daemon == 0  \* the daemon that serves a volume, as the opener of its handle
-------------------------------------------------------------------------------
\* open_version_repository, what is done with it, and its closing.
OneShot(steps) ==
  [on |-> None, steps |-> <<"lock", "evict", "control", "open">> \o steps \o <<"close">>]

Reading == OneShot(<<"read">>)
Audited(step) == OneShot(<<step, "audit">>)
Shared == [on |-> None, steps |-> <<"lock", "cached", "use">>]
Live(program) == [program EXCEPT !.steps = <<"lease">> \o @]
Edit(kind, steps) == [on |-> kind, steps |-> <<"control", "get">> \o steps]
Plain(step) == [on |-> None, steps |-> <<step>>]

commit_live_version ==
  [on |-> None,
   steps |-> <<"lock", "lease", "evict", "control", "open", "lease", "view", "lease", "publish", "audit", "close">>]
restore_live_version == Live(Audited("write"))
get_versioning == Plain("read")
\* Mutant: the handle is validated before the volume is read only.
get_working_tree_status_Once == Live(OneShot(<<"view">>))

get_working_tree_status == Live(OneShot(<<"view", "lease">>))
get_version_overview == [on |-> None, steps |-> <<"lease", "lock", "cached", "view", "use", "lease">>]
get_restore_preview == Live(OneShot(<<"view", "lease">>))
patch_versioning == [on |-> "enabled", steps |-> <<"lock", "evict", "control", "put", "audit", "refresh">>]
patch_consumer_root == Live(Plain("write"))
export_version_repository_bundle == OneShot(<<"read", "audit">>)
import_version_repository_bundle == [on |-> None, steps |-> <<"lock", "evict", "control", "ingest", "audit">>]
get_version_sync_state == [on |-> None, steps |-> <<"lock", "evict", "control", "existing", "read", "close">>]
export_version_sync == OneShot(<<"read", "audit">>)
apply_version_sync == [on |-> None, steps |-> <<"lock", "evict", "control", "sync", "audit">>]
list_version_commits == Reading
get_version_commit == Reading
add_version_commit_attestation == Audited("attest")
list_version_commit_attestations == Reading
diff_version_commits == Reading
list_version_tags == Reading
create_version_tag == Audited("apply")
delete_version_tag == Audited("apply")
list_version_branches == Shared
get_version_branch_overview == Shared
get_version_attestation_quorum == Shared
list_version_reflog == Shared
create_version_branch == Audited("apply")
set_version_branch_protection == OneShot(<<"policy", "publish", "audit">>)
delete_version_branch == Audited("publish")
reset_version_branch == Audited("publish")
recover_version_branch == Audited("publish")
merge_version_branch == Audited("publish")
preview_version_branch_merge == Shared
cherry_pick_version == Audited("publish")
preview_version_cherry_pick == Shared
get_version_content == Reading
get_version_stats == Shared
verify_version_history == Shared
get_version_retention == Plain("read")
patch_version_retention ==
  [on |-> "retention",
   steps |-> <<"lock", "evict", "control", "get", "set", "existing", "apply", "close", "audit", "refresh">>]
run_version_gc == Audited("apply")
purge_version_history == [on |-> None, steps |-> <<"lock", "evict", "control", "purge", "audit">>]
break_version_lease == [on |-> None, steps |-> <<"lock", "control", "break", "audit">>]

patch_volume_quota == Edit("quota", <<"set", "audit">>)
patch_tenant_rate == Edit("rate", <<"set", "audit">>)
patch_snapshot_retention == Edit("snapshots", <<"set">>)
create_export == [on |-> "export", steps |-> <<"control", "resolve", "free", "set", "audit">>]
patch_export == [on |-> "export", steps |-> <<"control", "get", "resolve", "set", "audit">>]
delete_export == [on |-> "export", steps |-> <<"control", "remove", "audit">>]
delete_snapshot == [on |-> None, steps |-> <<"control", "apply">>]
create_clone == [on |-> None, steps |-> <<"control", "apply">>]
create_live_snapshot == Plain("apply")
list_records == Plain("read")

\* route_admin_request, the last of its arms first.
UpkeepRoutes(h) ==
  CASE h = "content" -> get_version_content [] h = "restore" -> restore_live_version
    [] h = "stats" -> get_version_stats [] h = "verify" -> verify_version_history
    [] h = "retention" -> get_version_retention
    [] h = "patch_retention" -> patch_version_retention [] h = "gc" -> run_version_gc
    [] h = "unlock" -> break_version_lease [] h = "purge" -> purge_version_history

MergeRoutes(h) ==
  CASE h = "recover" -> recover_version_branch
    [] h = "quorum" -> get_version_attestation_quorum
    [] h = "merge_preview" -> preview_version_branch_merge
    [] h = "merge" -> merge_version_branch
    [] h = "cherry_pick_preview" -> preview_version_cherry_pick
    [] h = "cherry_pick" -> cherry_pick_version [] h = "commit" -> commit_live_version
    [] h = "attest" -> add_version_commit_attestation
    [] h = "attestations" -> list_version_commit_attestations
    [] h = "inspect" -> get_version_commit [] OTHER -> UpkeepRoutes(h)

ReferenceRoutes(h) ==
  CASE h = "tags" -> list_version_tags [] h = "tag" -> create_version_tag
    [] h = "untag" -> delete_version_tag [] h = "branches" -> list_version_branches
    [] h = "reflog" -> list_version_reflog [] h = "branch" -> create_version_branch
    [] h = "protect" -> set_version_branch_protection
    [] h = "delete_branch" -> delete_version_branch [] h = "reset" -> reset_version_branch
    [] OTHER -> MergeRoutes(h)

HistoryRoutes(h) ==
  CASE h = "versioning" -> get_versioning [] h = "patch_versioning" -> patch_versioning
    [] h = "export_bundle" -> export_version_repository_bundle
    [] h = "import_bundle" -> import_version_repository_bundle
    [] h = "sync_state" -> get_version_sync_state
    [] h = "sync_export" -> export_version_sync [] h = "sync_apply" -> apply_version_sync
    [] h = "status" -> get_working_tree_status
    [] h = "restore_preview" -> get_restore_preview
    [] h = "commits" -> list_version_commits [] h = "diff" -> diff_version_commits
    [] OTHER -> ReferenceRoutes(h)

RecordRoutes(h) ==
  CASE h = "records" -> list_records [] h = "create_export" -> create_export
    [] h = "patch_export" -> patch_export [] h = "delete_export" -> delete_export
    [] h = "rate" -> patch_tenant_rate [] h = "quota" -> patch_volume_quota
    [] h = "consumer_root" -> patch_consumer_root [] h = "clone" -> create_clone
    [] h = "branch_overview" -> get_version_branch_overview
    [] h = "overview" -> get_version_overview [] h = "delete_snapshot" -> delete_snapshot
    [] h = "snapshot_retention" -> patch_snapshot_retention
    [] h = "snapshot" -> create_live_snapshot [] OTHER -> HistoryRoutes(h)

Route(h) == RecordRoutes(h)

Tasks == {"version retention", "snapshot retention"}
-------------------------------------------------------------------------------
Running(r) == req[r] # None
At(r, s) == Running(r) /\ req[r].todo # <<>> /\ Head(req[r].todo) = s
Vol(r) == req[r].vol
Key(r) == <<req[r].on, req[r].vol>>
Holders == Reqs \cup {Cache, Loop, Dropped, Departed}

(***************************************************************************)
(* Type invariant.                                                          *)
(***************************************************************************)
TypeOK ==
  /\ menu \in Menus /\ made \in 0 .. MaxReqs
  /\ writer \in Reqs \cup {Loop, Sweep, Elsewhere} /\ handle \in [Volumes -> Reqs \cup {Daemon}]
  /\ records \in [Keys -> SUBSET Reqs] /\ acked \in [Keys -> SUBSET Reqs]
  /\ lock \in [Volumes -> Reqs \cup {None}] /\ lease \in [Volumes -> Holders \cup {None}]
  /\ cached \in [Volumes -> {"fresh", "stale", None}]
  /\ refresh \subseteq Volumes /\ lagging \subseteq Volumes /\ unread \subseteq Volumes
  /\ \A r \in Reqs :
       Running(r) =>
         /\ req[r].vol \in Volumes /\ req[r].on \in Kinds \cup {None}
         /\ req[r].base \subseteq Reqs /\ req[r].note \in {"success", "denied", None}
         /\ {req[r].ok, req[r].repo, req[r].did, req[r].edited, req[r].denied, req[r].audits,
             req[r].current} \subseteq BOOLEAN
  /\ loop.todo \subseteq Volumes /\ loop.hold \in Volumes \cup {None} /\ loop.did \subseteq Volumes
  /\ sweep.todo \subseteq Volumes /\ sweep.did \subseteq Volumes
  /\ {loop.at, sweep.at} \subseteq {"work", "append", "end"}

Init ==
  /\ menu \in Menus /\ made = 0 /\ req = [r \in Reqs |-> None] /\ writer = Elsewhere
  /\ handle = [v \in Volumes |-> Daemon]
  /\ records = [k \in Keys |-> {}] /\ acked = [k \in Keys |-> {}]
  /\ lock = [v \in Volumes |-> None]
  /\ lease \in [Volumes -> IF "unlock" \in menu.calls THEN {None, Departed} ELSE {None}]
  /\ cached = [v \in Volumes |-> None]
  /\ refresh = {} /\ lagging = {} /\ unread = {}
  /\ loop = [at |-> "work", hold |-> None, did |-> {},
             todo |-> IF "version retention" \in menu.calls THEN Volumes ELSE {}]
  /\ sweep = [at |-> "work", did |-> {},
              todo |-> IF "snapshot retention" \in menu.calls THEN Volumes ELSE {}]
-------------------------------------------------------------------------------
Progress(r, new) == req' = [req EXCEPT ![r] = [new EXCEPT !.todo = Tail(@)]]
Proceed(r) == Progress(r, req[r])

\* An error ends the handler, once it has closed its repository.
Failed(new) == [new EXCEPT !.ok = FALSE, !.todo = IF new.repo THEN <<"close">> ELSE <<>>]
Fail(r) == req' = [req EXCEPT ![r] = Failed(@)]

Free(v) == lease[v] \in {None, Departed}
Shares == <<writer, records, lock, lease, cached, refresh, lagging, unread, acked>>
Others == <<menu, made, handle, loop, sweep>>

\* A program begins; the volume is the one the daemon serves, if it uses it.
Begin(r, p, v) ==
  /\ made < menu.most /\ r = made + 1 /\ made' = r
  /\ Cardinality({q \in Reqs : Running(q)}) < MaxRunning
  /\ v <= IF made = 0 THEN 1 ELSE menu.vols
  /\ req' = [req EXCEPT ![r] =
       [todo |-> p.steps, on |-> p.on, vol |-> v, base |-> {}, ok |-> TRUE, repo |-> FALSE,
        did |-> FALSE, edited |-> FALSE, denied |-> FALSE, note |-> None,
        audits |-> \E i \in DOMAIN p.steps : p.steps[i] = "audit",
        target |-> Daemon, current |-> TRUE]]
  /\ UNCHANGED <<menu, handle, loop, sweep, Shares>>

\* handle_admin_connection, route_admin_request: a task of its own for each.
Arrive(r, h, v) == Begin(r, Route(h), v)

\* Awaited calls that fail and leave nothing behind.
StepFails(r) ==
  /\ \E s \in {"lease", "control", "open", "existing", "read", "view", "apply", "write", "publish",
              "ingest", "purge", "break", "get", "free", "remove", "resolve"} : At(r, s)
  /\ Fail(r) /\ UNCHANGED <<Others, Shares>>

\* No other process has opened the volume as a writer since this one did.
Owned(r) == handle[Vol(r)] = req[r].target

\* validate_writer_lease, and what only reads; a handle that was fenced still
\* reads what it knows of the volume.
ReadOnly(r) ==
  /\ \/ ((At(r, "lease") /\ Owned(r)) \/ At(r, "read")) /\ Proceed(r)
     \/ At(r, "view") /\ Progress(r, [req[r] EXCEPT !.current = Owned(r)])
  /\ UNCHANGED <<Others, Shares>>

Lock(r) ==
  /\ At(r, "lock") /\ lock[Vol(r)] = None
  /\ lock' = [lock EXCEPT ![Vol(r)] = r] /\ Proceed(r)
  /\ UNCHANGED <<Others, writer, records, lease, cached, refresh, lagging, unread, acked>>

\* Mutant: the shared repository is left to its users.
Evict_Kept(r) == At(r, "evict") /\ Proceed(r) /\ UNCHANGED <<Others, Shares>>

\* close_cached_read_version_repository: out of the map before it is closed.
Evict(r) ==
  /\ At(r, "evict")
  /\ cached' = [cached EXCEPT ![Vol(r)] = None]
  /\ lease' = [lease EXCEPT ![Vol(r)] = IF @ = Cache THEN None ELSE @]
  /\ Proceed(r) \/ (cached[Vol(r)] # None /\ Fail(r))
  /\ UNCHANGED <<Others, writer, records, lock, refresh, lagging, unread, acked>>

\* control_writer: the writer before it is fenced.
OpenControl(r) ==
  /\ At(r, "control") /\ writer' = r /\ Proceed(r)
  /\ UNCHANGED <<Others, records, lock, lease, cached, refresh, lagging, unread, acked>>

\* VersionRepository::open and open_existing, under the maintenance lease.
OpenRepository(r) ==
  /\ At(r, "open") \/ At(r, "existing")
  /\ IF Free(Vol(r))
     THEN Progress(r, [req[r] EXCEPT !.repo = TRUE]) /\ lease' = [lease EXCEPT ![Vol(r)] = r]
     ELSE Fail(r) /\ UNCHANGED lease
  /\ UNCHANGED <<Others, writer, records, lock, cached, refresh, lagging, unread, acked>>

AfterClose(todo) ==
  SubSeq(todo, 1 + CHOOSE i \in DOMAIN todo : todo[i] = "close", Len(todo))

\* open_existing finds no history.
NoHistory(r) ==
  /\ At(r, "existing") /\ Free(Vol(r))
  /\ req' = [req EXCEPT ![r].todo = AfterClose(@)]
  /\ UNCHANGED <<Others, Shares>>

\* VersionBranchProtectionPolicy::new, and the command line's sync_state: an
\* error drops the repository unclosed.
CheckPolicy(r) ==
  /\ At(r, "policy") \/ At(r, "state")
  /\ \/ Proceed(r) /\ UNCHANGED lease
     \/ /\ req' = [req EXCEPT ![r] = Failed([@ EXCEPT !.repo = FALSE])]
        /\ lease' = [lease EXCEPT ![Vol(r)] = Dropped]
  /\ UNCHANGED <<Others, writer, records, lock, cached, refresh, lagging, unread, acked>>

\* The heartbeat of a dropped repository notices and gives the lease back.
DropReleased(v) ==
  /\ lease[v] = Dropped /\ lease' = [lease EXCEPT ![v] = None]
  /\ UNCHANGED <<Others, req, writer, records, lock, cached, refresh, lagging, unread, acked>>

Did(r) == [req[r] EXCEPT !.did = TRUE]
Refused(r) == [req[r] EXCEPT !.ok = FALSE, !.denied = TRUE]

\* Changes outside the control database.  Those that open the repository
\* themselves need the lease; some record that they were denied.
Apply(r) ==
  /\ \/ (At(r, "apply") \/ At(r, "publish") \/ At(r, "attest")) /\ Progress(r, Did(r))
     \/ At(r, "write") /\ Owned(r) /\ Progress(r, Did(r))
     \/ (At(r, "publish") \/ At(r, "attest") \/ At(r, "sync") \/ At(r, "purge"))
        /\ Progress(r, Refused(r))
     \/ /\ At(r, "ingest") \/ At(r, "sync") \/ At(r, "purge")
        /\ Free(Vol(r)) /\ Progress(r, Did(r))
  /\ UNCHANGED <<Others, Shares>>

\* resolve_managed_export_version, when the export names a version.
Resolve(r) ==
  /\ At(r, "resolve") /\ Proceed(r)
  /\ UNCHANGED <<Others, Shares>>

\* force_break_expired_version_maintenance_lease; audited when it broke one.
Break(r) ==
  /\ At(r, "break")
  /\ IF lease[Vol(r)] = Departed
     THEN Progress(r, Did(r)) /\ lease' = [lease EXCEPT ![Vol(r)] = None]
     ELSE req' = [req EXCEPT ![r].todo = Tail(Tail(@)), ![r].audits = FALSE] /\ UNCHANGED lease
  /\ UNCHANGED <<Others, writer, records, lock, cached, refresh, lagging, unread, acked>>
-------------------------------------------------------------------------------
\* The record as the handler finds it; create_export wants none, and no
\* other export at the address.
Get(r) ==
  /\ At(r, "get") \/ (At(r, "free") /\ records[Key(r)] = {})
  /\ Progress(r, [req[r] EXCEPT !.base = records[Key(r)]])
  /\ UNCHANGED <<Others, Shares>>

Taken(r) ==
  /\ At(r, "free") /\ records[Key(r)] # {}
  /\ Fail(r) /\ UNCHANGED <<Others, Shares>>

\* Mutant: the record is put whoever has opened the database since.
MayWrite_Unfenced(r) == TRUE

MayWrite(r) == writer = r

Policies == {"enabled", "retention"}
Lags(k) == lagging' = IF k[1] \in Policies THEN lagging \cup {k[2]} ELSE lagging

\* An edit in place of all edits before it.
Replaced(r, by) ==
  /\ records' = [records EXCEPT ![Key(r)] = by]
  /\ acked' = [acked EXCEPT ![Key(r)] = {}]
  /\ req' = [q \in Reqs |->
       IF q = r THEN [req[r] EXCEPT !.todo = Tail(@), !.did = TRUE, !.edited = r \in by]
       ELSE IF Running(q) /\ Key(q) = Key(r) THEN [req[q] EXCEPT !.edited = FALSE]
       ELSE req[q]]

\* set_volume_quota, set_tenant_rate_limits, put_export, the retention policies;
\* the last can be cleared instead.  A fenced writer's put fails.
Set(r) ==
  /\ At(r, "set")
  /\ \/ /\ MayWrite(r)
        /\ records' = [records EXCEPT ![Key(r)] = req[r].base \cup {r}]
        /\ Progress(r, [req[r] EXCEPT !.did = TRUE, !.edited = TRUE])
        /\ Lags(Key(r)) /\ UNCHANGED acked
     \/ /\ MayWrite(r) /\ req[r].on \in {"retention", "snapshots"}
        /\ Replaced(r, {}) /\ Lags(Key(r))
     \/ ~MayWrite(r) /\ Fail(r) /\ UNCHANGED <<records, lagging, acked>>
  /\ UNCHANGED <<Others, writer, lock, lease, cached, refresh, unread>>

\* set_versioning_enabled puts without reading, remove_export deletes, and the
\* command line clears a retention policy.
Put(r) ==
  /\ At(r, "put") \/ At(r, "clear") \/ (At(r, "remove") /\ records[Key(r)] # {})
  /\ IF MayWrite(r)
     THEN Replaced(r, IF At(r, "put") THEN {r} ELSE {}) /\ Lags(Key(r))
     ELSE Fail(r) /\ UNCHANGED <<records, lagging, acked>>
  /\ UNCHANGED <<Others, writer, lock, lease, cached, refresh, unread>>

\* Mutant: a record that could not be written is only a warning.
Audit_Warns(r) ==
  /\ At(r, "audit")
  /\ IF MayWrite(r)
     THEN Progress(r, [req[r] EXCEPT !.note = IF req[r].denied THEN "denied" ELSE "success"])
     ELSE Proceed(r)
  /\ UNCHANGED <<Others, Shares>>

\* append_version_audit and its like.
Audit(r) ==
  /\ At(r, "audit")
  /\ IF MayWrite(r)
     THEN Progress(r, [req[r] EXCEPT !.note = IF req[r].denied THEN "denied" ELSE "success"])
     ELSE Fail(r)
  /\ UNCHANGED <<Others, Shares>>

\* The policy changed: the next read opens through a writer.
Refresh(r) ==
  /\ At(r, "refresh")
  /\ \/ Proceed(r) /\ refresh' = refresh \cup {Vol(r)}
     \/ Fail(r) /\ UNCHANGED refresh     \* control.close failed
  /\ UNCHANGED <<Others, writer, records, lock, lease, cached, lagging, unread, acked>>

\* finish_version_repository: closed whatever came before.
Close(r) ==
  /\ At(r, "close")
  /\ lease' = [lease EXCEPT ![Vol(r)] = IF @ = r THEN None ELSE @]
  /\ LET closed == [req[r] EXCEPT !.repo = FALSE] IN
       Progress(r, closed) \/ req' = [req EXCEPT ![r] = Failed(closed)]
  /\ UNCHANGED <<Others, writer, records, lock, cached, refresh, lagging, unread, acked>>

\* What the client may rely on once it has the answer.
Answered(r) ==
  /\ lock' = [lock EXCEPT ![Vol(r)] = IF @ = r THEN None ELSE @]
  /\ acked' = IF req[r].ok /\ req[r].edited THEN [acked EXCEPT ![Key(r)] = @ \cup {r}] ELSE acked
  /\ unread' = IF req[r].ok /\ req[r].on \in Policies THEN unread \cup {Vol(r)} ELSE unread
  /\ UNCHANGED <<Others, writer, records, lease, cached, refresh, lagging>>

\* The handler returns; its guard is dropped.
Answer(r) == Running(r) /\ req[r].todo = <<>> /\ req' = [req EXCEPT ![r] = None] /\ Answered(r)
-------------------------------------------------------------------------------
Caches(v, as) == cached' = [cached EXCEPT ![v] = as] /\ lease' = [lease EXCEPT ![v] = Cache]

\* Mutant: a refresh that failed is forgotten.
CachedFails_Spent(r) ==
  /\ At(r, "cached") /\ cached[Vol(r)] = None /\ Fail(r)
  /\ writer' \in {writer, r} /\ refresh' = refresh \ {Vol(r)}
  /\ UNCHANGED <<Others, records, lock, lease, cached, lagging, unread, acked>>

\* A refresh that failed is put back for the next read.
CachedFails(r) ==
  /\ At(r, "cached") /\ cached[Vol(r)] = None /\ Fail(r)
  /\ writer' \in {writer, r}
  /\ UNCHANGED <<Others, records, lock, lease, cached, refresh, lagging, unread, acked>>

\* cached_read_version_repository: shared if open, else opened with the
\* policy the control reader has polled, or through a writer when the policy
\* has changed or there is no history yet.
Cached(r) ==
  LET v == Vol(r) IN
  /\ At(r, "cached") /\ Proceed(r)
  /\ \/ cached[v] # None /\ UNCHANGED <<writer, lease, cached, refresh>>
     \/ /\ cached[v] = None /\ Free(v) /\ v \notin refresh
        /\ Caches(v, IF v \in lagging THEN "stale" ELSE "fresh") /\ UNCHANGED <<writer, refresh>>
     \/ /\ cached[v] = None /\ Free(v)
        /\ writer' = r /\ refresh' = refresh \ {v} /\ Caches(v, "fresh")
  /\ UNCHANGED <<Others, records, lock, lagging, unread, acked>>

Use(r) ==
  /\ At(r, "use") /\ (Proceed(r) \/ Fail(r))
  /\ unread' = unread \ {Vol(r)}
  /\ UNCHANGED <<Others, writer, records, lock, lease, cached, refresh, lagging, acked>>

\* Mutant: the task closes what has been idle without taking the lock.
EvictIdle_Unlocked(v) ==
  /\ cached[v] # None
  /\ cached' = [cached EXCEPT ![v] = None] /\ lease' = [lease EXCEPT ![v] = None]
  /\ UNCHANGED <<Others, req, writer, records, lock, refresh, lagging, unread, acked>>

\* The task cache_read_version_repository spawns, under the version lock.
EvictIdle(v) ==
  /\ cached[v] # None /\ lock[v] = None
  /\ cached' = [cached EXCEPT ![v] = None] /\ lease' = [lease EXCEPT ![v] = None]
  /\ UNCHANGED <<Others, req, writer, records, lock, refresh, lagging, unread, acked>>

\* The control reader polls the manifest.
Poll(v) ==
  /\ v \in lagging /\ lagging' = lagging \ {v}
  /\ UNCHANGED <<Others, req, writer, records, lock, lease, cached, refresh, unread, acked>>

\* quota_rejection_audit, and any other process that administers the volumes.
OtherWriter ==
  /\ writer \in Reqs /\ writer' = Elsewhere
  /\ UNCHANGED <<Others, req, records, lock, lease, cached, refresh, lagging, unread, acked>>
-------------------------------------------------------------------------------
\* enforce_version_retention: each served volume under its lease, put off when
\* that is taken; no version lock.
LoopOpen(v) ==
  /\ loop.at = "work" /\ loop.hold = None /\ v \in loop.todo
  /\ \/ Free(v) /\ lease' = [lease EXCEPT ![v] = Loop]
        /\ loop' = [loop EXCEPT !.todo = @ \ {v}, !.hold = v]
     \/ loop' = [loop EXCEPT !.todo = @ \ {v}] /\ UNCHANGED lease
  /\ UNCHANGED <<menu, made, handle, req, sweep, writer, records, lock, cached, refresh, lagging, unread, acked>>

LoopCollect ==
  /\ loop.hold # None /\ lease' = [lease EXCEPT ![loop.hold] = None]
  /\ loop' = [loop EXCEPT !.hold = None, !.did = @ \cup {loop.hold}]
  /\ UNCHANGED <<menu, made, handle, req, sweep, writer, records, lock, cached, refresh, lagging, unread, acked>>

\* One batch of audit records once all volumes are done.
LoopAppend ==
  /\ loop.hold = None /\ loop.did # {}
  /\ \/ loop.at = "work" /\ loop.todo = {} /\ writer' = Loop /\ loop' = [loop EXCEPT !.at = "append"]
     \/ /\ loop.at = "append" /\ UNCHANGED writer
        /\ loop' = [loop EXCEPT !.at = "end", !.did = IF writer = Loop THEN {} ELSE @]
  /\ UNCHANGED <<menu, made, handle, req, sweep, records, lock, lease, cached, refresh, lagging, unread, acked>>

\* enforce_snapshot_retention: an error ends it, and what it would have recorded.
SweepVolume(v) ==
  /\ sweep.at = "work" /\ v \in sweep.todo
  /\ \/ sweep' = [sweep EXCEPT !.todo = @ \ {v}, !.did = @ \cup {v}]
     \/ sweep' = [sweep EXCEPT !.at = "end"]
  /\ UNCHANGED <<menu, made, handle, req, loop, Shares>>

SweepAppend ==
  /\ sweep.did # {}
  /\ \/ sweep.at = "work" /\ sweep.todo = {} /\ writer' = Sweep /\ sweep' = [sweep EXCEPT !.at = "append"]
     \/ /\ sweep.at = "append" /\ UNCHANGED writer
        /\ sweep' = [sweep EXCEPT !.at = "end", !.did = IF writer = Sweep THEN {} ELSE @]
  /\ UNCHANGED <<menu, made, handle, req, loop, records, lock, lease, cached, refresh, lagging, unread, acked>>
-------------------------------------------------------------------------------
Handle(r) ==
  \/ StepFails(r) \/ ReadOnly(r) \/ Lock(r) \/ Evict(r) \/ OpenControl(r) \/ OpenRepository(r)
  \/ NoHistory(r) \/ CheckPolicy(r) \/ Apply(r) \/ Resolve(r) \/ Break(r) \/ Get(r) \/ Taken(r)
  \/ Set(r) \/ Put(r) \/ Audit(r) \/ Refresh(r) \/ Close(r) \/ Cached(r) \/ CachedFails(r)
  \/ Use(r) \/ Answer(r)

Next ==
  \/ \E r \in Reqs, h \in menu.calls \ Tasks, v \in Volumes : Arrive(r, h, v)
  \/ \E r \in Reqs : Handle(r)
  \/ \E v \in Volumes : DropReleased(v) \/ EvictIdle(v) \/ Poll(v) \/ LoopOpen(v) \/ SweepVolume(v)
  \/ LoopCollect \/ LoopAppend \/ SweepAppend \/ OtherWriter

Spec == Init /\ [][Next]_vars
-------------------------------------------------------------------------------
Ended(r) == Running(r) /\ req[r].todo = <<>>

(***************************************************************************)
(* An answer of success to an audited request has its record; a record of   *)
(* denial is of a request that changed nothing, and is never answered with  *)
(* success.                                                                 *)
(***************************************************************************)
AnswersAudited ==
  \A r \in Reqs :
    Running(r) =>
      /\ Ended(r) /\ req[r].ok /\ req[r].audits => req[r].note = "success"
      /\ req[r].note = "denied" => ~req[r].did /\ ~req[r].ok

(***************************************************************************)
(* No edit answered with success is lost to a concurrent one: handlers read *)
(* a record, merge the fields given and put it back, with no lock for       *)
(* quotas, rates and exports; the fencing of the older writer is what keeps *)
(* the two apart, and two creations of one export.                          *)
(***************************************************************************)
EditsKept == \A k \in Keys : acked[k] \subseteq records[k]

(***************************************************************************)
(* The first read after an acknowledged change of the versioning policy     *)
(* uses the new policy, however far the control reader lags and however     *)
(* many attempts to open the repository fail before.                        *)
(***************************************************************************)
PolicyReachesReads == \A v \in unread : cached[v] # "stale"

(***************************************************************************)
(* No request reads through a repository that was closed under it, and no   *)
(* lease is left with a handle nobody has: the cached repository, a         *)
(* request's own and the loop's never share a volume.                       *)
(***************************************************************************)
HandlesAccounted ==
  /\ \A r \in Reqs : At(r, "use") => cached[Vol(r)] # None
  /\ \A v \in Volumes :
       /\ lease[v] = Cache <=> cached[v] # None
       /\ lease[v] = Loop <=> loop.hold = v
       /\ \A r \in Reqs : lease[v] = r <=> Running(r) /\ req[r].repo /\ Vol(r) = v

(***************************************************************************)
(* A commit is of what was read, and an answer about the working tree says  *)
(* what was read, while its handle was the volume's writer: an offline      *)
(* command that opens the volume, and may change it, at any moment          *)
(* in between makes the request fail instead.                               *)
(***************************************************************************)
ViewsCurrent ==
  \A r \in Reqs :
    Running(r) /\ ~req[r].current =>
      ~At(r, "publish") /\ ~At(r, "apply") /\ ~At(r, "reply") /\ ~(req[r].todo = <<>> /\ req[r].ok)

(***************************************************************************)
(* What an audited operation did is in the audit log once it has ended.     *)
(***************************************************************************)
AuditCovers ==
  /\ \A r \in Reqs : Ended(r) /\ req[r].did /\ req[r].audits => req[r].note # None
  /\ loop.at = "end" => loop.did = {}
  /\ sweep.at = "end" => sweep.did = {}
===============================================================================
