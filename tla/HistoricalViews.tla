--------------------------- MODULE HistoricalViews ---------------------------
(***************************************************************************)
(* The daemon's cache of historical views (DaemonHistoricalViews in         *)
(* slatefs-daemon/src/main.rs) with the readers it opens                    *)
(* (slatefs-core/src/snapshot.rs and version_snapshot.rs): one async mutex  *)
(* over the cached, least recently used and retired readers; leases that    *)
(* responses hold after the mutex is released; the version lock and the     *)
(* cached read repository shared with the admin API; a client that goes     *)
(* away, which drops the request wherever it waits; and shutdown, which     *)
(* waits a bounded time for the leases.                                     *)
(*                                                                          *)
(* A reader of a commit owns a checkpoint of the version store, deleted     *)
(* only by closing the reader.                                              *)
(***************************************************************************)
EXTENDS Integers, Sequences, FiniteSets, SequencesExt

CONSTANTS MaxReqs,    \* requests
          MaxRunning, \* requests in progress at once
          Snapshots,  \* ids of the volume's snapshots
          Commits,    \* the commits the branch moves through, in order
          Capacity,   \* consumer.historical_view_cache_entries
          MaxViews,   \* readers opened
          Refs,       \* the references the requests use
          MaxOther,   \* changes of the volume, clients gone, and lock and lease taken by others
          None

VARIABLES req,       \* per request, its progress
          mutex,     \* the request that holds the cache mutex
          entries,   \* the cached readers
          lru,       \* their keys, least recently used first
          retired,   \* evicted readers some response may still hold
          view,      \* the readers opened so far: their key, and whether open
          vlock,     \* holder of the version lock: a request, Admin or None
          repo,      \* an admin read left its repository open
          lease,     \* holder of the maintenance lease
          mountable, snapshots, head, \* the volume, as the control reader sees it
          stopping,  \* daemon shutdown: no, drain, done
          draining,  \* the readers shutdown waits for
          late,      \* whether shutdown gave up on a lease
          dropped,   \* readers whose owner was cancelled
          other      \* how many of these are left

vars == <<req, mutex, entries, lru, retired, view, vlock, repo, lease, mountable, snapshots,
          head, stopping, draining, late, dropped, other>>

Requests == 1 .. MaxReqs
Admin == 0 \* an admin handler, or its cached read repository
Other == -1 \* another process, or a maintenance loop
Branch == "branch"
Key(kind, id) == [kind |-> kind, id |-> id]

Idle == [pc |-> "idle"]
Leases(v) == {r \in Requests : req[r].pc = "stream" /\ req[r].view = v}
Held(r) == IF "ready" \in DOMAIN req[r] THEN req[r].ready \cup req[r].opened ELSE {}
IsOpen(v) == view[v].open
Closed(vs) == [v \in DOMAIN view |-> [view[v] EXCEPT !.open = @ /\ v \notin vs]]
Cached(key) == {v \in entries : view[v].key = key}
-------------------------------------------------------------------------------
Init ==
  /\ req = [r \in Requests |-> Idle]
  /\ mutex = None
  /\ entries = {}
  /\ lru = <<>>
  /\ retired = {}
  /\ view = <<>>
  /\ vlock = None
  /\ repo \in BOOLEAN
  /\ lease = IF repo THEN Admin ELSE None
  /\ mountable = TRUE
  /\ snapshots = Snapshots
  /\ head = 1
  /\ stopping = "no"
  /\ draining = {}
  /\ late = FALSE
  /\ dropped = {}
  /\ other = MaxOther

volume == <<mountable, snapshots, head>>
cache == <<entries, lru, retired>>
shut == <<stopping, draining, late>>
rest == <<dropped, other>>

At(r, pc) == req[r].pc = pc
Goto(r, pc) == req' = [req EXCEPT ![r].pc = pc]

\* read_view: the request's selector, and what was true when it was made.
Arrive(r) ==
  /\ At(r, "idle")
  /\ \A s \in 1 .. r - 1 : ~At(s, "idle")
  /\ Cardinality({s \in Requests : ~(req[s].pc \in {"idle", "done"})}) < MaxRunning
  /\ \E ref \in Refs :
       req' = [req EXCEPT ![r] =
                 [pc |-> "wait", ref |-> ref, ready |-> {}, opened |-> {}, shared |-> FALSE,
                  since |-> [mountable |-> mountable, snapshots |-> snapshots, head |-> head]]]
  /\ UNCHANGED <<mutex, cache, view, vlock, repo, lease, volume, shut, rest>>

\* Arc::strong_count(&entry) == 1
Unleased(vs) == {v \in vs : Leases(v) = {}}

\* The cache mutex, and reap: the retired readers nobody holds are taken out, ...
Reap(r) ==
  /\ At(r, "wait")
  /\ mutex = None
  /\ mutex' = r
  /\ req' = [req EXCEPT ![r].pc = "reap", ![r].ready = Unleased(retired)]
  /\ retired' = retired \ Unleased(retired)
  /\ UNCHANGED <<entries, lru, view, vlock, repo, lease, volume, shut, rest>>

\* ... and closed one after the other.
CloseReady(r) ==
  /\ At(r, "reap")
  /\ req[r].ready # {}
  /\ LET v == CHOOSE x \in req[r].ready : TRUE
     IN /\ view' = Closed({v})
        /\ req' = [req EXCEPT ![r].ready = @ \ {v}]
  /\ UNCHANGED <<mutex, cache, vlock, repo, lease, volume, shut, rest>>

\* The guards of open give up whatever it holds, in the order they were taken.
LetGo(r) ==
  /\ mutex' = IF mutex = r THEN None ELSE mutex
  /\ vlock' = IF vlock = r THEN None ELSE vlock
  /\ lease' = IF lease = r THEN None ELSE lease

Refuse(r) ==
  /\ req' = [req EXCEPT ![r] = [pc |-> "done"]]
  /\ LetGo(r)

\* touch
Touch(key) == Append(SelectSeq(lru, LAMBDA k : k # key), key)

\* The answer leases the reader; the mutex is released.
Answer(r, v) ==
  /\ req' = [req EXCEPT ![r] = [pc |-> "stream", ref |-> @.ref, since |-> @.since, view |-> v]]
  /\ LetGo(r)

\* Mutant: the volume was looked up when the daemon mounted it, not again here.
Authorized_Once(r) == TRUE

\* get_mountable_volume, on every request
Authorized(r) == mountable

Authorize(r) ==
  /\ At(r, "reap")
  /\ req[r].ready = {}
  /\ \/ ~Authorized(r) /\ Refuse(r)
     \/ Authorized(r) /\ Goto(r, "find") /\ UNCHANGED <<mutex, vlock, lease>>
  /\ UNCHANGED <<cache, view, repo, volume, shut, rest>>

Hit(r, key) ==
  \E v \in Cached(key) :
    /\ lru' = Touch(key)
    /\ Answer(r, v)
    /\ UNCHANGED <<entries, retired>>

\* A snapshot must still be listed, cached or not.
FindSnapshot(r) ==
  /\ At(r, "find")
  /\ req[r].ref.kind = "snapshot"
  /\ \/ req[r].ref.id \notin snapshots /\ Refuse(r) /\ UNCHANGED cache
     \/ req[r].ref.id \in snapshots /\ Hit(r, req[r].ref)
     \/ /\ req[r].ref.id \in snapshots
        /\ Cached(req[r].ref) = {}
        /\ Goto(r, "snapshot")
        /\ UNCHANGED <<cache, mutex, vlock, lease>>
  /\ UNCHANGED <<view, repo, volume, shut, rest>>

\* Only a full commit id names a cached reader by itself.
Exact(ref) == Cached(ref)

FindVersion(r) ==
  /\ At(r, "find")
  /\ req[r].ref.kind = "version"
  /\ \/ \E v \in Exact(req[r].ref) : Hit(r, view[v].key)
     \/ /\ Exact(req[r].ref) = {}
        /\ Goto(r, "lock")
        /\ UNCHANGED <<cache, mutex, vlock, lease>>
  /\ UNCHANGED <<view, repo, volume, shut, rest>>

NewView == Len(view) + 1
Opened(r, key, pc) ==
  /\ Len(view) < MaxViews
  /\ view' = Append(view, [key |-> key, open |-> TRUE])
  /\ req' = [req EXCEPT ![r].pc = pc, ![r].opened = {NewView}]

\* SnapshotVolume::open; the snapshot may be gone by now.
OpenSnapshot(r) ==
  /\ At(r, "snapshot")
  /\ \/ req[r].ref.id \in snapshots /\ Opened(r, req[r].ref, "insert") /\ UNCHANGED <<mutex, vlock, lease>>
     \/ req[r].ref.id \notin snapshots /\ Refuse(r) /\ UNCHANGED view
  /\ UNCHANGED <<cache, repo, volume, shut, rest>>

\* version_lock, taken while the cache mutex is held.
Lock(r) == vlock = None /\ vlock' = r

\* Whose repository to use is decided once the lock is held.
FindRepository(r) ==
  /\ At(r, "lock")
  /\ Lock(r)
  /\ req' = [req EXCEPT ![r].pc = "repository", ![r].shared = repo]
  /\ UNCHANGED <<mutex, cache, view, repo, lease, volume, shut, rest>>

\* open_readonly_with_repository and open_readonly: the volume is looked up
\* once more, and without a cached repository the maintenance lease is needed.
OpenRepository(r) ==
  /\ At(r, "repository")
  /\ LET may == mountable /\ (req[r].shared \/ lease = None)
     IN \/ ~may /\ Refuse(r)
        \/ may /\ Goto(r, "prepare") /\ lease' = (IF req[r].shared THEN lease ELSE r) /\ UNCHANGED <<mutex, vlock>>
  /\ UNCHANGED <<cache, view, repo, volume, shut, rest>>

\* resolve_commit
Resolved(ref) == IF ref.id = Branch THEN Commits[head] ELSE ref.id

\* prepare_historical_export: resolve the reference, make the checkpoint.
Prepare(r) ==
  /\ At(r, "prepare")
  /\ \/ /\ Resolved(req[r].ref) \in {Commits[i] : i \in 1 .. head}
        /\ Opened(r, Key("version", Resolved(req[r].ref)), "close")
        /\ UNCHANGED <<mutex, vlock, lease>>
     \/ Resolved(req[r].ref) \notin {Commits[i] : i \in 1 .. head} /\ Refuse(r) /\ UNCHANGED view
  /\ UNCHANGED <<cache, repo, volume, shut, rest>>

\* Mutant: an opening that fails after its checkpoint was made leaves it.
Discard_Left(r) == view' = view

\* delete_checkpoint, when a later part of opening fails.
Discard(r) == view' = Closed(req[r].opened)

\* open_repository and open_plan: close the repository that was opened for
\* this, build the index, open the reader.
OpenPlan(r) ==
  /\ At(r, "close")
  /\ \/ /\ Goto(r, "insert")
        /\ lease' = IF lease = r THEN None ELSE lease
        /\ vlock' = IF vlock = r THEN None ELSE vlock
        /\ UNCHANGED <<view, mutex>>
     \/ Discard(r) /\ Refuse(r)
  /\ UNCHANGED <<cache, repo, volume, shut, rest>>

\* The readers beyond the capacity, least recently used first.
Evicted(keys, vs, all) ==
  LET over == Cardinality(vs) - Capacity
  IN {v \in vs : over > 0 /\ \E i \in 1 .. over : all[v].key = keys[i]}

\* insert: the reader cached meanwhile, or this one, and what it displaces.
Insert(r) ==
  /\ At(r, "insert")
  /\ LET v == CHOOSE x \in req[r].opened : TRUE
         key == view[v].key
         out == Evicted(Touch(key), entries \cup {v}, view)
     IN \/ \E old \in Cached(key) :
             /\ view' = Closed({v})
             /\ lru' = Touch(key)
             /\ Answer(r, old)
             /\ UNCHANGED <<entries, retired>>
        \/ /\ Cached(key) = {}
           /\ entries' = (entries \cup {v}) \ out
           /\ retired' = retired \cup out
           /\ lru' = SubSeq(Touch(key), Cardinality(out) + 1, Len(Touch(key)))
           /\ Answer(r, v)
           /\ UNCHANGED view
  /\ UNCHANGED <<repo, volume, shut, rest>>

\* The response ends and drops its lease.
Finish(r) ==
  /\ At(r, "stream")
  /\ req' = [req EXCEPT ![r] = [pc |-> "done"]]
  /\ UNCHANGED <<mutex, cache, view, vlock, repo, lease, volume, shut, rest>>

\* The client goes away: the request is dropped where it waits, with what it
\* had taken out of the cache or opened and not yet put in.
Cancel(r) ==
  /\ req[r].pc \notin {"idle", "stream", "done"}
  /\ other > 0
  /\ other' = other - 1
  /\ dropped' = dropped \cup {v \in Held(r) : IsOpen(v)}
  /\ req' = [req EXCEPT ![r] = [pc |-> "done"]]
  /\ LetGo(r)
  /\ UNCHANGED <<cache, view, repo, volume, shut>>
-------------------------------------------------------------------------------
\* Suspension, deletion, a commit and the deletion of a snapshot.
Suspend == mountable' = FALSE /\ mountable /\ UNCHANGED <<snapshots, head>>
Commit == head < Len(Commits) /\ head' = head + 1 /\ UNCHANGED <<mountable, snapshots>>
DeleteSnapshot == \E s \in snapshots : snapshots' = snapshots \ {s} /\ UNCHANGED <<mountable, head>>

VolumeChanges ==
  /\ other > 0
  /\ other' = other - 1
  /\ Suspend \/ Commit \/ DeleteSnapshot
  /\ UNCHANGED <<req, mutex, cache, view, vlock, repo, lease, shut, dropped>>

\* An admin handler takes the version lock; holding it, it leaves a read
\* repository open or closes the one that is.
AdminLocks == vlock = None /\ vlock' = Admin /\ UNCHANGED <<repo, lease>>
AdminCaches == vlock = Admin /\ ~repo /\ lease = None /\ repo' = TRUE /\ lease' = Admin /\ vlock' = None
AdminEvicts == vlock = Admin /\ repo /\ repo' = FALSE /\ lease' = None /\ vlock' = None
AdminUnlocks == vlock = Admin /\ vlock' = None /\ UNCHANGED <<repo, lease>>
OtherTakes == lease = None /\ lease' = Other /\ UNCHANGED <<vlock, repo>>
OtherReleases == lease = Other /\ lease' = None /\ UNCHANGED <<vlock, repo>>

Others ==
  /\ \/ /\ other > 0
        /\ other' = other - 1
        /\ AdminLocks \/ OtherTakes
     \/ /\ UNCHANGED other
        /\ AdminCaches \/ AdminEvicts \/ AdminUnlocks \/ OtherReleases
  /\ UNCHANGED <<req, mutex, cache, view, volume, shut, dropped>>

\* shutdown: everything is taken out of the cache under the mutex ...
Drain ==
  /\ stopping = "no"
  /\ mutex = None
  /\ stopping' = "drain"
  /\ draining' = entries \cup retired
  /\ entries' = {}
  /\ lru' = <<>>
  /\ retired' = {}
  /\ UNCHANGED <<req, mutex, view, vlock, repo, lease, volume, late, rest>>

\* ... and closed without the mutex as its leases end, ...
CloseDrained ==
  /\ stopping = "drain"
  /\ Unleased(draining) # {} \/ draining = {}
  /\ view' = Closed(Unleased(draining))
  /\ draining' = draining \ Unleased(draining)
  /\ stopping' = IF draining' = {} THEN "done" ELSE stopping
  /\ UNCHANGED <<req, mutex, cache, vlock, repo, lease, volume, late, rest>>

\* ... or, past the deadline, handed back.
GiveUp ==
  /\ stopping = "drain"
  /\ draining # {}
  /\ Unleased(draining) = {}
  /\ mutex = None
  /\ stopping' = "done"
  /\ late' = TRUE
  /\ retired' = draining
  /\ draining' = {}
  /\ UNCHANGED <<req, mutex, entries, lru, view, vlock, repo, lease, volume, rest>>

Open(r) ==
  \/ Arrive(r) \/ Reap(r) \/ CloseReady(r) \/ Authorize(r) \/ FindSnapshot(r) \/ FindVersion(r)
  \/ OpenSnapshot(r) \/ FindRepository(r) \/ OpenRepository(r) \/ Prepare(r) \/ OpenPlan(r)
  \/ Insert(r) \/ Finish(r) \/ Cancel(r)

Shutdown == Drain \/ CloseDrained \/ GiveUp

Next == (\E r \in Requests : Open(r)) \/ VolumeChanges \/ Others \/ Shutdown

Spec == Init /\ [][Next]_vars
-------------------------------------------------------------------------------
(***************************************************************************)
(* The fields hold what they are declared to hold; the mutex is held by a   *)
(* request between taking it and answering.                                 *)
(***************************************************************************)
TypeOK ==
  /\ mutex \in Requests \cup {None}
  /\ entries \cup retired \cup draining \cup dropped \subseteq DOMAIN view
  /\ vlock \in Requests \cup {Admin, None}
  /\ lease \in Requests \cup {Admin, Other, None}
  /\ repo => lease = Admin
  /\ \A r \in Requests : mutex = r <=> req[r].pc \in {"reap", "find", "snapshot", "lock", "repository", "prepare", "close", "insert"}

(***************************************************************************)
(* A reader is never closed under a response that still reads from it, by   *)
(* eviction, by a second opening of the same commit or by shutdown, and a   *)
(* cached reader is open, so that HistoricalCacheEntry::vfs cannot panic.   *)
(***************************************************************************)
LeasedStaysOpen ==
  /\ \A r \in Requests : At(r, "stream") => IsOpen(req[r].view)
  /\ \A v \in entries : IsOpen(v)

(***************************************************************************)
(* Until shutdown, every reader that is open, and with it every checkpoint  *)
(* that pins the version store, belongs to the cache, to the retired list   *)
(* or to a request that is about to close or insert it, or to a request     *)
(* that was dropped; at most one reader of a snapshot or commit is cached,  *)
(* no more than the capacity, and the recency list names exactly those.     *)
(***************************************************************************)
ReadersAccounted ==
  stopping = "no" =>
    /\ \A v \in DOMAIN view :
         IsOpen(v) => v \in entries \cup retired \cup dropped \cup UNION {Held(r) : r \in Requests}
    /\ \A v, w \in entries : view[v].key = view[w].key => v = w
    /\ Cardinality(entries) <= Capacity
    /\ Len(lru) = Cardinality(entries) /\ Range(lru) = {view[v].key : v \in entries}

(***************************************************************************)
(* What is served was current at some time during the request, cached or    *)
(* not: a request made after a suspension or after the deletion of its      *)
(* snapshot is not served, and a branch never reads as a commit older than  *)
(* its head when the request was made.                                      *)
(***************************************************************************)
AnswersCurrent ==
  \A r \in Requests :
    At(r, "stream") =>
      LET key == view[req[r].view].key
          then == req[r].since
      IN /\ then.mountable
         /\ key.kind = "snapshot" => key.id \in then.snapshots
         /\ req[r].ref.id = Branch => \E i \in then.head .. Len(Commits) : Commits[i] = key.id
         /\ req[r].ref.id # Branch => key = req[r].ref

(***************************************************************************)
(* The admin API's read repository is not closed while a view is being      *)
(* prepared from it, and a view that opens its own holds the lease.         *)
(***************************************************************************)
RepositoryHeld ==
  \A r \in Requests :
    At(r, "prepare") => IF req[r].shared THEN repo ELSE lease = r

(***************************************************************************)
(* "bounded by `consumer.historical_view_cache_entries`, and closed on      *)
(* eviction or daemon shutdown": once shutdown is over without having given *)
(* up on a lease, no request having been cancelled, no reader is open.      *)
(***************************************************************************)
ShutdownCloses ==
  stopping = "done" /\ ~late /\ dropped = {} =>
    \A v \in DOMAIN view : IsOpen(v) => Leases(v) # {} \/ \E r \in Requests : v \in Held(r)
===============================================================================
