------------------------------ MODULE MC_Inodes ------------------------------
(***************************************************************************)
(* InodeAllocator, OrphanLifecycle, AttrCache, DirListing, NfsProcs and     *)
(* NfsRpc for TLC: an inode's number, its end, its cached attributes, its   *)
(* place in a listing, the NFS calls on it and how they are carried.  They  *)
(* share no state: a behaviour is one of them, part says which, and the     *)
(* others have no state.                                                    *)
(*                                                                          *)
(* Leases of two numbers, so that every second create renews, and enough    *)
(* mounts for a number to come round again; two calls over two names, three *)
(* handles and two crashes; three calls over two successive inodes of three *)
(* versions each.  Listings read pages of two of at most three entries,     *)
(* with two changes meanwhile.  Three NFS calls of two clients on two       *)
(* files, and a crash.  A connection has one call in flight and the         *)
(* transaction tracker one active client and two transactions, so that both *)
(* limits are met; three xids, four sends and a tick let a retransmission   *)
(* arrive before, while and long after its call runs.                       *)
(***************************************************************************)
EXTENDS InodeAllocator, TLC

CONSTANTS Parts,   \* a subset of {"numbers", "orphans", "cache", "listing", "nfs", "rpc"}
          Names, NoThread, MaxHandles, MaxCrashes,
          CacheThreads, MaxInos, MaxVersion,
          Trio, Page, MaxChanges,
          Pair, FirstName, MaxNodes, MaxCalls, MaxStops,
          Conns, Addrs, MaxXid, MaxInFlight, MaxActive, TrimLimit, Retention, PipeSize,
          MaxSends, MaxTicks, None

VARIABLES part,
          db, saved, tracked, handles, opened, lock, opc, mount, crashes,
          ver, name, commits, attrs, negative, dirLock, inoLock, cpc,
          ents, cookie, changes, list, page, steady,
          fs, stable, fresh, server, proc, calls, written, acked, promised, won,
          sends, ticks, socket, pipe, replies, worker, clients, ended

ovars == <<db, saved, tracked, handles, opened, lock, opc, mount, crashes>>
cvars == <<ver, name, commits, attrs, negative, dirLock, inoLock, cpc>>
lvars == <<ents, cookie, changes, list, page, steady>>
nvars == <<fs, stable, fresh, server, proc, calls, written, acked, promised, won>>
rvars == <<sends, ticks, socket, pipe, replies, worker, clients, ended>>
allvars == <<part, vars, ovars, cvars, lvars, nvars, rvars>>

Orphan == INSTANCE OrphanLifecycle WITH pc <- opc
Cache == INSTANCE AttrCache WITH pc <- cpc, Threads <- CacheThreads
Listing == INSTANCE DirListing
             WITH Names <- Trio, Inos <- Trio, next <- cookie, call <- page
Procs == INSTANCE NfsProcs
           WITH Threads <- Pair, Names <- {"a", "b"}, MaxCrashes <- MaxStops,
                Verfs <- Pair, Writes <- Pair, Inos <- 1 .. MaxNodes,
                sent <- written, call <- proc, saved <- stable
Rpc == INSTANCE NfsRpc

OrphanInit ==
    IF part = "orphans" THEN Orphan!Init
    ELSE /\ db = None /\ saved = None /\ tracked = None /\ handles = None /\ opened = None
         /\ lock = None /\ opc = None /\ mount = None /\ crashes = None

CacheInit ==
    IF part = "cache" THEN Cache!Init
    ELSE /\ ver = None /\ name = None /\ commits = None /\ attrs = None /\ negative = None
         /\ dirLock = None /\ inoLock = None /\ cpc = None

\* Of directories that differ by a renaming of entries only one is taken.
ListingInit ==
    IF part = "listing"
    THEN Listing!Init /\ \A e \in ents : e.name = e.ino /\ e.id = e.ino + Listing!FirstId - 1
    ELSE /\ ents = None /\ cookie = None /\ changes = None
         /\ list = None /\ page = None /\ steady = None

ProcsInit ==
    IF part = "nfs" THEN Procs!Init
    ELSE /\ fs = None /\ stable = None /\ fresh = None /\ server = None /\ proc = None /\ calls = None
         /\ written = None /\ acked = None /\ promised = None /\ won = None

RpcInit ==
    IF part = "rpc" THEN Rpc!Init
    ELSE /\ sends = None /\ ticks = None /\ socket = None /\ pipe = None /\ replies = None
         /\ worker = None /\ clients = None /\ ended = None

InodesInit == part \in Parts /\ Init /\ OrphanInit /\ CacheInit /\ ListingInit /\ ProcsInit /\ RpcInit

InodesNext ==
    \/ part = "numbers" /\ Next /\ UNCHANGED <<part, ovars, cvars, lvars, nvars, rvars>>
    \/ part = "orphans" /\ Orphan!Next /\ UNCHANGED <<part, vars, cvars, lvars, nvars, rvars>>
    \/ part = "cache" /\ Cache!Next /\ UNCHANGED <<part, vars, ovars, lvars, nvars, rvars>>
    \/ part = "listing" /\ Listing!Next /\ UNCHANGED <<part, vars, ovars, cvars, nvars, rvars>>
    \/ part = "nfs" /\ Procs!Next /\ UNCHANGED <<part, vars, ovars, cvars, lvars, rvars>>
    \/ part = "rpc" /\ Rpc!Next /\ UNCHANGED <<part, vars, ovars, cvars, lvars, nvars>>

InodesSpec == InodesInit /\ [][InodesNext]_allvars

Symmetry == Permutations(Threads) \union Permutations(CacheThreads)
-------------------------------------------------------------------------------
(***************************************************************************)
(* unlink, close and the mount-time reaper keep the inode counters and the  *)
(* link count exact, and chunks never outlive both inode and orphan marker  *)
(* (see OrphanLifecycle).                                                   *)
(***************************************************************************)
OrphansAccounted ==
    part = "orphans" => Orphan!TypeOK /\ Orphan!QuotaExact /\ Orphan!ChunksOwned /\ Orphan!LinkCountExact

(***************************************************************************)
(* A name refers to an inode that is there (OrphanLifecycle).               *)
(***************************************************************************)
NoDanglingName == part = "orphans" => Orphan!NoDanglingName

(***************************************************************************)
(* No setattr is lost through a stale cached inode (AttrCache).             *)
(***************************************************************************)
NoLostUpdate == part = "cache" => Cache!TypeOK /\ Cache!NoLostUpdate

(***************************************************************************)
(* A finished listing has each steady entry exactly once (DirListing).      *)
(***************************************************************************)
ListingFaithful == part = "listing" => Listing!TypeOK /\ Listing!ListingFaithful

(***************************************************************************)
(* What WRITE and COMMIT promised survives a crash, and an EXCLUSIVE create *)
(* succeeds for one verifier per file (NfsProcs).                           *)
(***************************************************************************)
NfsPromisesKept == part = "nfs" => Procs!TypeOK /\ Procs!CommittedSurvives /\ Procs!ExclusiveOnce

(***************************************************************************)
(* The transaction tracker counts exactly the calls that run, and a         *)
(* connection with a call waiting can always serve it (NfsRpc).             *)
(***************************************************************************)
TrackerSound == part = "rpc" => Rpc!TypeOK /\ Rpc!TrackerExact /\ Rpc!NoStall

(***************************************************************************)
(* A retransmitted call is not executed again while the tracker is to       *)
(* remember it (NfsRpc).                                                    *)
(***************************************************************************)
AtMostOnce == [][part = "rpc" => Rpc!OnceStep]_allvars
===============================================================================
