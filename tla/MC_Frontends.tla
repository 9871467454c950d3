---------------------------- MODULE MC_Frontends ----------------------------
(***************************************************************************)
(* HttpConsumer, NinePServer and HistoricalViews for TLC.  They share no    *)
(* state: a behaviour is one of them, part says which, and the others stay  *)
(* as they begin or have no state.                                          *)
(*                                                                          *)
(* A 9P client makes three requests on two fids of two connections.  Two    *)
(* HTTP requests of every kind, operations with one source, meet one fault. *)
(* Three reads of a snapshot, a commit or a branch share a cache of one     *)
(* view with an admin request, a change of the volume or a client going     *)
(* away, and a shutdown.                                                    *)
(*                                                                          *)
(* Names and files are interchangeable in their modules: of initial states  *)
(* that differ by a renaming only one is taken.                             *)
(***************************************************************************)
EXTENDS HttpConsumer, TLC

CONSTANTS Parts,   \* a subset of {"9p", "http", "views"}
          Conns, Fids, Ops, MaxRequests, MaxFiles, MaxHandles,
          MaxReqs, MaxRunning, Snapshots, Commits, Capacity, MaxViews, Refs, MaxOther

VARIABLES part,
          conn, authed, fids, tasks, sent, names, files, handles, opened, locks, made, shown, opener, clunked,
          vreq, mutex, entries, lru, retired, view, vlock, repo, lease, mountable, snapshots, head,
          stopping, draining, late, dropped, other

svars == <<conn, authed, fids, tasks, sent, names, files, handles, opened, locks, made, shown, opener, clunked>>
cvars == <<vreq, mutex, entries, lru, retired, view, vlock, repo, lease, mountable, snapshots, head,
           stopping, draining, late, dropped, other>>
allvars == <<part, vars, svars, cvars>>

Server == INSTANCE NinePServer WITH MaxInos <- MaxFiles, inos <- files
Views == INSTANCE HistoricalViews WITH req <- vreq

Ref(kind, id) == [kind |-> kind, id |-> id]
MCCommits == <<"c1", "c2">>
MCRefs == {Ref("snapshot", "s1"), Ref("version", "c1"), Ref("version", "branch")}

ServerInit ==
  IF part = "9p"
  THEN Server!Init /\ names[FirstName] # None
  ELSE /\ conn = None /\ authed = None /\ fids = None /\ tasks = None /\ sent = None /\ names = None
       /\ files = None /\ handles = None /\ opened = None /\ locks = None /\ made = None
       /\ shown = None /\ opener = None /\ clunked = None

HttpInit ==
  /\ Init /\ (slots[<<2, FirstName>>] # None => slots[<<1, FirstName>>] # None)
  /\ part # "http" => slots[<<1, FirstName>>] = None

ViewsInit ==
  IF part = "views" THEN Views!Init
  ELSE /\ vreq = None /\ mutex = None /\ entries = None /\ lru = None /\ retired = None /\ view = None
       /\ vlock = None /\ repo = None /\ lease = None /\ mountable = None /\ snapshots = None
       /\ head = None /\ stopping = None /\ draining = None /\ late = None /\ dropped = None
       /\ other = None

FrontendsInit == part \in Parts /\ ServerInit /\ HttpInit /\ ViewsInit

FrontendsNext ==
  \/ part = "9p" /\ Server!Next /\ UNCHANGED <<part, vars, cvars>>
  \/ part = "http" /\ Next /\ UNCHANGED <<part, svars, cvars>>
  \/ part = "views" /\ Views!Next /\ UNCHANGED <<part, vars, svars>>

FrontendsSpec == FrontendsInit /\ [][FrontendsNext]_allvars

Symmetry == Permutations(Conns)
-----------------------------------------------------------------------------
(***************************************************************************)
(* A handle is reached and closed through its own fid only, there are fids  *)
(* only after the token was shown, and the requests of a connection never   *)
(* all wait on each other (NinePServer).                                    *)
(***************************************************************************)
FidsSound ==
  part = "9p" => Server!TypeOK /\ Server!OwnerCloses /\ Server!TokenFirst /\ Server!NoTaskStalls

(***************************************************************************)
(* Cached, retired and leased readers are open, the open ones are accounted *)
(* for, and the repository a view is prepared from stays (HistoricalViews). *)
(***************************************************************************)
ReadersSound ==
  part = "views" => Views!TypeOK /\ Views!LeasedStaysOpen /\ Views!ReadersAccounted /\ Views!RepositoryHeld

(***************************************************************************)
(* What a view serves was current during the request (HistoricalViews).     *)
(***************************************************************************)
AnswersCurrent == part = "views" => Views!AnswersCurrent
=============================================================================
