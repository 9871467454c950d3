----------------------------- MODULE NinePServer -----------------------------
(***************************************************************************)
(* The 9P2000.L frontend: connections, the table of fids of each, and the   *)
(* requests in flight on them (rs9p/src/srv.rs dispatch, dispatch_once;     *)
(* slatefs-9p/src/filesystem.rs; slatefs-9p/src/lib.rs).                    *)
(*                                                                          *)
(* Every message of a connection is served by a task of its own.  The task  *)
(* holds the fid table's lock for reading while the handler runs, and only  *)
(* then takes it for writing, to drop the fid of a Tclunk or to insert the  *)
(* one a Tattach, Twalk or Txattrwalk made.  A handler works on the copy of *)
(* the fid's state it took when it began.                                   *)
(*                                                                          *)
(* The volume is one directory, its names, the table of open handles and    *)
(* the handles that hold the (whole-file, exclusive) lock of their file.    *)
(***************************************************************************)
EXTENDS Integers, FiniteSets

CONSTANTS Conns, Fids, Names,
          Ops,          \* the messages clients send
          MaxRequests,  \* bound: requests in one behaviour
          MaxInos,      \* bound: files ever made
          MaxHandles,   \* bound: handles ever opened
          None

VARIABLES conn,    \* per connection: "open" or "gone"
          authed,  \* per connection: SlateFs9p.conn_authed
          fids,    \* per connection: the table, fid -> state or None
          tasks,   \* the requests being served
          sent,    \* requests sent so far
          names,   \* the directory: name -> inode number or None
          inos,    \* files made so far
          handles, \* HandleTable: open handles [h, ino]
          opened,  \* handles opened so far
          locks,   \* handles that hold their file's lock
          made,    \* history: fid states inserted so far
          shown,   \* history: connections whose client has sent the token
          opener,  \* history: handle -> the fid state it was opened for
          clunked  \* history: fid states whose Tclunk succeeded

volume == <<names, inos, handles, opened, locks>>
history == <<made, shown, opener, clunked>>
vars == <<conn, authed, fids, tasks, sent, volume, history>>

Root == 0
Inos == Root .. MaxInos
Handles == 1 .. MaxHandles

(***************************************************************************)
(* FidState.  inc tells apart the states the fids of a connection have had. *)
(***************************************************************************)
FidState(ino, prov) ==
    [inc |-> 0, ino |-> ino, handle |-> None, prov |-> prov, xattr |-> None]

NoState == FidState(Root, None)

(***************************************************************************)
(* What a client may send.  A Twalk names one entry, or none to clone the   *)
(* fid; flag is the token of a Tattach, O_TRUNC of a Tlopen.                *)
(***************************************************************************)
Req(op, f, g, n, b) == [op |-> op, fid |-> f, new |-> g, name |-> n, flag |-> b]

Requests ==
    {r \in
        {Req("attach", f, f, None, b) : f \in Fids, b \in BOOLEAN}
        \cup {Req("walk", f, g, n, FALSE) : f \in Fids, g \in Fids, n \in Names \cup {None}}
        \cup {Req("xattrwalk", f, g, None, FALSE) : f \in Fids, g \in Fids}
        \cup {Req("lopen", f, f, None, b) : f \in Fids, b \in BOOLEAN}
        \cup {Req(op, f, f, n, FALSE) :
                 op \in {"lcreate", "mknod", "unlinkat", "renameat", "rename", "link"}, f \in Fids, n \in Names}
        \cup {Req(op, f, f, None, FALSE) :
                 op \in {"lock", "unlock", "xattrcreate", "clunk", "remove"},
                 f \in Fids}
     : r.op \in Ops}

TypeOK ==
    /\ conn \in [Conns -> {"open", "gone"}] /\ authed \in [Conns -> BOOLEAN]
    /\ \A c \in Conns, f \in Fids :
          \/ fids[c][f] = None
          \/ /\ fids[c][f].ino \in Inos /\ fids[c][f].handle \in Handles \cup {None}
             /\ fids[c][f].prov \in Names \cup {None}
             /\ fids[c][f].xattr \in {None, "read", "write"}
    /\ \A t \in tasks :
          t.pc \in {"opened", "created", "holding", "moved", "close", "free",
                    "unlink", "drop", "insert"}
    /\ names \in [Names -> (Inos \ {Root}) \cup {None}]
    /\ \A x \in handles : x.h \in 1 .. opened /\ x.ino \in Inos
    /\ sent \in 0 .. MaxRequests /\ opened \in 0 .. MaxHandles /\ inos \in 0 .. MaxInos
    /\ locks \subseteq Handles

(***************************************************************************)
(* A volume with one file; each connection is new, or attached already.     *)
(***************************************************************************)
Init ==
    /\ conn = [c \in Conns |-> "open"]
    /\ \E attached \in SUBSET Conns :
          /\ authed = [c \in Conns |-> c \in attached]
          /\ shown = attached
          /\ fids = [c \in Conns |-> [f \in Fids |->
                        IF c \in attached /\ f = 0 THEN NoState ELSE None]]
    /\ tasks = {} /\ sent = 0
    /\ \E n \in Names : names = [m \in Names |-> IF m = n THEN 1 ELSE None]
    /\ inos = 1
    /\ handles = {} /\ opened = 0 /\ locks = {}
    /\ made = 0 /\ opener = [h \in Handles |-> None] /\ clunked = {}

(***************************************************************************)
(* dispatch: read a message, spawn a task.  Clients send what they like on  *)
(* the fids they have, name a new fid only if it is free, and clunk a fid   *)
(* only once nothing they still wait for uses it.  A request is no longer   *)
(* waited for when its Tflush has been answered; the server answers that at *)
(* once (rflush) and lets the old request run.                              *)
(***************************************************************************)
Waited(c, f) == {t \in tasks : t.conn = c /\ ~t.flushed /\ f \in {t.req.fid, t.req.new}}
Unused(c, f) == fids[c][f] = None /\ Waited(c, f) = {}

Sensible(c, r) ==
    /\ r.op = "attach" \/ fids[c][r.fid] # None
    /\ r.op \in {"attach", "walk", "xattrwalk"} => Unused(c, r.new)
    /\ r.op = "clunk" => Waited(c, r.fid) = {}

Flush(t) ==
    /\ sent < MaxRequests /\ conn[t.conn] = "open" /\ ~t.flushed
    /\ sent' = sent + 1
    /\ tasks' = (tasks \ {t}) \cup {[t EXCEPT !.flushed = TRUE]}
    /\ UNCHANGED <<conn, authed, fids, volume, history>>

\* The read loop ends.  Nothing clunks the fids: handles and locks stay.
Disconnect(c) ==
    /\ conn[c] = "open"
    /\ conn' = [conn EXCEPT ![c] = "gone"]
    /\ UNCHANGED <<authed, fids, tasks, sent, volume, history>>

(***************************************************************************)
(* The fid table's lock.  Tasks hold it for reading from their first step   *)
(* until they wait to write; a waiting writer keeps new readers out.        *)
(***************************************************************************)
Writers(c) == {t \in tasks : t.conn = c /\ t.pc \in {"drop", "insert"}}
Readers(c) == {t \in tasks : t.conn = c} \ Writers(c)

\* Mutant: the reader's guard lives until the end of dispatch_once.
Writing_Guarded(t) ==
    t.pc \in {"drop", "insert"} /\ Readers(t.conn) \cup Writers(t.conn) = {}

Writing(t) == t.pc \in {"drop", "insert"} /\ Readers(t.conn) = {}

(***************************************************************************)
(* How a step of a task ends.                                               *)
(***************************************************************************)
Fid(t) == fids[t.conn][t.req.fid]
Goto(t, pc, st, h) ==
    tasks' = (tasks \ {t}) \cup {[t EXCEPT !.pc = pc, !.st = st, !.handle = h]}
Reply(t) == tasks' = tasks \ {t}
SetState(t, st) == fids' = [fids EXCEPT ![t.conn][t.req.fid] = st]

\* A request that is served: its fid is known.
Runs(t, op) == t.req.op = op /\ Fid(t) # None

Alive(i) == i = Root \/ (\E n \in Names : names[n] = i) \/ (\E x \in handles : x.ino = i)

(***************************************************************************)
(* rattach.  The flag that a connection has shown the token is one per      *)
(* connection: Clone gives each accepted connection a new one.              *)
(***************************************************************************)
\* Mutant: the clones of SlateFs9p share one flag.
Authenticated_Shared(c) == \E d \in Conns : authed[d]

Authenticated(c) == authed[c]

Attach(t) ==
    /\ t.req.op = "attach"
    /\ t.req.flag \/ Authenticated(t.conn)
    /\ authed' = [authed EXCEPT ![t.conn] = @ \/ t.req.flag]
    /\ shown' = IF t.req.flag THEN shown \cup {t.conn} ELSE shown
    /\ Goto(t, "insert", NoState, None)
    /\ UNCHANGED <<conn, fids, volume, made, opener, clunked>>

(***************************************************************************)
(* rwalk, rxattrwalk: the new fid starts without a handle.                  *)
(***************************************************************************)
\* Mutant: a cloned fid keeps the handle of the one it was cloned from.
Walked_Shared(st, n) ==
    [FidState(IF n = None THEN st.ino ELSE names[n], IF n = None THEN st.prov ELSE n)
     EXCEPT !.handle = IF n = None THEN st.handle ELSE None]

Walked(st, n) == FidState(IF n = None THEN st.ino ELSE names[n], IF n = None THEN st.prov ELSE n)

Walk(t) ==
    /\ Runs(t, "walk")
    /\ t.req.name # None => Fid(t).ino = Root /\ names[t.req.name] # None
    /\ Goto(t, "insert", Walked(Fid(t), t.req.name), None)
    /\ UNCHANGED <<conn, authed, fids, volume, history>>

XattrWalk(t) ==
    /\ Runs(t, "xattrwalk") /\ Alive(Fid(t).ino)
    /\ Goto(t, "insert", [FidState(Fid(t).ino, None) EXCEPT !.xattr = "read"], None)
    /\ UNCHANGED <<conn, authed, fids, volume, history>>

Insert(t) ==
    /\ Writing(t) /\ t.pc = "insert"
    /\ fids' = [fids EXCEPT ![t.conn][t.req.new] = [t.st EXCEPT !.inc = made + 1]]
    /\ made' = made + 1
    /\ Reply(t)
    /\ UNCHANGED <<conn, authed, volume, shown, opener, clunked>>

(***************************************************************************)
(* rlopen: open, truncate if asked (which may fail, and the handle stays),  *)
(* remember the handle.  rlcreate: create, open, become the new file.       *)
(***************************************************************************)
OpenHandle(i, t, st) ==
    /\ opened < MaxHandles
    /\ opened' = opened + 1
    /\ handles' = handles \cup {[h |-> opened', ino |-> i]}
    /\ opener' = [opener EXCEPT ![opened'] = <<t.conn, st.inc>>]

LOpen(t) ==
    /\ Runs(t, "lopen") /\ Alive(Fid(t).ino)
    /\ OpenHandle(Fid(t).ino, t, Fid(t))
    /\ Goto(t, "opened", Fid(t), opened')
    /\ UNCHANGED <<conn, authed, fids, names, inos, locks, made, shown, clunked>>

LOpened(t) ==
    /\ t.pc = "opened"
    /\ \/ SetState(t, [t.st EXCEPT !.handle = t.handle])
       \/ t.req.flag /\ UNCHANGED fids
    /\ Reply(t)
    /\ UNCHANGED <<conn, authed, volume, history>>

Named(n) == IF names[n] # None THEN names[n] ELSE inos + 1

LCreate(t) ==
    /\ Runs(t, "lcreate") /\ Fid(t).ino = Root /\ Named(t.req.name) <= MaxInos
    /\ names' = [names EXCEPT ![t.req.name] = Named(t.req.name)]
    /\ inos' = IF names[t.req.name] = None THEN inos + 1 ELSE inos
    /\ Goto(t, "created", [Fid(t) EXCEPT !.ino = Named(t.req.name), !.prov = t.req.name,
                                         !.handle = None, !.xattr = None], None)
    /\ UNCHANGED <<conn, authed, fids, handles, opened, locks, history>>

LCreated(t) ==
    /\ t.pc = "created"
    /\ \/ /\ Alive(t.st.ino) /\ OpenHandle(t.st.ino, t, t.st)
          /\ SetState(t, [t.st EXCEPT !.handle = opened'])
       \/ ~Alive(t.st.ino) /\ UNCHANGED <<fids, handles, opened, opener>>
    /\ Reply(t)
    /\ UNCHANGED <<conn, authed, names, inos, locks, made, shown, clunked>>

(***************************************************************************)
(* rlock: Vfs::lock looks the handle up and then asks the lock table.       *)
(* runlock is harmless on a handle that is gone.                            *)
(***************************************************************************)
Lock(t) ==
    /\ Runs(t, "lock") /\ \E x \in handles : x.h = Fid(t).handle
    /\ Goto(t, "holding", Fid(t), Fid(t).handle)
    /\ UNCHANGED <<conn, authed, fids, volume, history>>

Locked(t) ==
    /\ t.pc = "holding"
    /\ locks' = IF locks \subseteq {t.handle} THEN {t.handle} ELSE locks
    /\ Reply(t)
    /\ UNCHANGED <<conn, authed, fids, names, inos, handles, opened, history>>

Unlock(t) ==
    /\ Runs(t, "unlock") /\ Fid(t).handle # None
    /\ locks' = locks \ {Fid(t).handle}
    /\ Reply(t)
    /\ UNCHANGED <<conn, authed, fids, names, inos, handles, opened, history>>

(***************************************************************************)
(* Handlers of one step: rmknod, rmkdir, rsymlink; rlink; runlinkat;        *)
(* rrenameat.                                                               *)
(***************************************************************************)
Mknod(t) ==
    /\ Runs(t, "mknod") /\ Fid(t).ino = Root /\ names[t.req.name] = None /\ inos < MaxInos
    /\ names' = [names EXCEPT ![t.req.name] = inos + 1]
    /\ inos' = inos + 1
    /\ Reply(t)
    /\ UNCHANGED <<conn, authed, fids, handles, opened, locks, history>>

Link(t) ==
    /\ Runs(t, "link") /\ Fid(t).ino # Root /\ Alive(Fid(t).ino) /\ names[t.req.name] = None
    /\ names' = [names EXCEPT ![t.req.name] = Fid(t).ino]
    /\ Reply(t)
    /\ UNCHANGED <<conn, authed, fids, inos, handles, opened, locks, history>>

UnlinkAt(t) ==
    /\ Runs(t, "unlinkat") /\ Fid(t).ino = Root /\ names[t.req.name] # None
    /\ names' = [names EXCEPT ![t.req.name] = None]
    /\ Reply(t)
    /\ UNCHANGED <<conn, authed, fids, inos, handles, opened, locks, history>>

Moved(n, m) == IF names[m] = names[n] THEN names
               ELSE [names EXCEPT ![m] = names[n], ![n] = None]

RenameAt(t) ==
    /\ Runs(t, "renameat") /\ Fid(t).ino = Root /\ names[t.req.name] # None
    /\ \E m \in Names : names' = Moved(t.req.name, m)
    /\ Reply(t)
    /\ UNCHANGED <<conn, authed, fids, inos, handles, opened, locks, history>>

XattrCreate(t) ==
    /\ Runs(t, "xattrcreate")
    /\ SetState(t, [Fid(t) EXCEPT !.xattr = "write"])
    /\ Reply(t)
    /\ UNCHANGED <<conn, authed, volume, history>>

(***************************************************************************)
(* rrename and rremove know their file by the name it was walked by.        *)
(***************************************************************************)
Rename(t) ==
    /\ Runs(t, "rename") /\ Fid(t).prov # None
    /\ names[Fid(t).prov] # None
    /\ names' = Moved(Fid(t).prov, t.req.name)
    /\ Goto(t, "moved", NoState, None)
    /\ UNCHANGED <<conn, authed, fids, inos, handles, opened, locks, history>>

Renamed(t) ==
    /\ t.pc = "moved"
    /\ SetState(t, [Fid(t) EXCEPT !.prov = t.req.name])
    /\ Reply(t)
    /\ UNCHANGED <<conn, authed, volume, history>>

Remove(t) ==
    /\ Runs(t, "remove") /\ Fid(t).prov # None /\ Alive(Fid(t).ino)
    /\ Goto(t, IF Fid(t).handle = None THEN "unlink" ELSE "close", Fid(t), Fid(t).handle)
    /\ UNCHANGED <<conn, authed, fids, volume, history>>

\* Answered whether or not the name was there; the fid stays in the table.
Unlink(t) ==
    /\ t.pc = "unlink"
    /\ names' = [names EXCEPT ![t.st.prov] = None]
    /\ Reply(t)
    /\ UNCHANGED <<conn, authed, fids, inos, handles, opened, locks, history>>

(***************************************************************************)
(* rclunk: a pending attribute is stored, which may fail and leave the fid  *)
(* as it was; the handle is closed, its locks are released; then the fid    *)
(* leaves the table.                                                        *)
(***************************************************************************)
Clunk(t) ==
    /\ Runs(t, "clunk")
    /\ Goto(t, IF Fid(t).handle = None THEN "drop" ELSE "close", Fid(t), Fid(t).handle)
    /\ UNCHANGED <<conn, authed, fids, volume, history>>

Close(t) ==
    /\ t.pc = "close"
    /\ handles' = {x \in handles : x.h # t.handle}
    /\ Goto(t, "free", t.st, t.handle)
    /\ UNCHANGED <<conn, authed, fids, names, inos, opened, locks, history>>

Free(t) ==
    /\ t.pc = "free"
    /\ locks' = locks \ {t.handle}
    /\ Goto(t, IF t.req.op = "clunk" THEN "drop" ELSE "unlink", t.st, t.handle)
    /\ UNCHANGED <<conn, authed, fids, names, inos, handles, opened, history>>

Drop(t) ==
    /\ Writing(t) /\ t.pc = "drop"
    /\ fids' = [fids EXCEPT ![t.conn][t.req.fid] = None]
    /\ clunked' = clunked \cup {<<t.conn, t.st.inc>>}
    /\ Reply(t)
    /\ UNCHANGED <<conn, authed, volume, made, shown, opener>>

(***************************************************************************)
(* The first step of a task comes when no writer waits for the table.  A    *)
(* request may be flushed before that.  Those refused (EBADF, the rate      *)
(* limiter, a dead volume, a missing name) and those that only read the     *)
(* volume or write file data change nothing here.                           *)
(***************************************************************************)
Begin(t) ==
    \/ Attach(t) \/ Walk(t) \/ XattrWalk(t) \/ LOpen(t) \/ LCreate(t)
    \/ Lock(t) \/ Unlock(t) \/ Mknod(t) \/ Link(t) \/ UnlinkAt(t) \/ RenameAt(t)
    \/ XattrCreate(t) \/ Rename(t) \/ Remove(t) \/ Clunk(t)

Receive(c) ==
    /\ conn[c] = "open" /\ Writers(c) = {} /\ sent < MaxRequests
    /\ \E r \in Requests, late \in BOOLEAN :
          /\ late \/ Sensible(c, r)
          /\ sent' = sent + (IF late THEN 2 ELSE 1) /\ sent' <= MaxRequests
          /\ Begin([id |-> sent', conn |-> c, req |-> r, pc |-> "begin", st |-> NoState,
                    handle |-> None, flushed |-> late])

Continue(t) ==
    /\ \/ Insert(t) \/ LOpened(t) \/ LCreated(t) \/ Locked(t) \/ Renamed(t)
       \/ Unlink(t) \/ Close(t) \/ Free(t) \/ Drop(t)
    /\ UNCHANGED sent

Next ==
    \/ \E c \in Conns : Disconnect(c) \/ Receive(c)
    \/ \E t \in tasks : Flush(t) \/ Continue(t)

Spec == Init /\ [][Next]_vars

(***************************************************************************)
(* A file opened through a fid stays open until that fid is clunked or      *)
(* removed (rclunk, rremove close only their own fid's handle): no walk,    *)
(* clone, flush or other connection's call closes it or reaches it.         *)
(***************************************************************************)
OwnerCloses ==
    /\ \A c \in Conns, f \in Fids :
          fids[c][f] # None /\ fids[c][f].handle # None =>
             opener[fids[c][f].handle] = <<c, fids[c][f].inc>>
    /\ \A t \in tasks : t.pc \in {"close", "free"} => opener[t.handle] = <<t.conn, t.st.inc>>

(***************************************************************************)
(* rattach: a connection has fids only if its own client has shown the      *)
(* export's token on it, whatever other connections have shown.             *)
(***************************************************************************)
TokenFirst ==
    \A c \in Conns : (\E f \in Fids : fids[c][f] # None) => c \in shown

(***************************************************************************)
(* dispatch_once: the tasks of a connection never wait on each other for    *)
(* ever over the fid table: while a request is unanswered one can step.     *)
(***************************************************************************)
NoTaskStalls ==
    \A t \in tasks : \E u \in tasks :
        u.conn = t.conn /\ (u.pc \in {"drop", "insert"} => Writing(u))

(***************************************************************************)
(* rclunk, as rs9p describes it: once a Tclunk is answered nothing that was *)
(* opened through the fid is open or locked any more.                       *)
(***************************************************************************)
ClunkReleases ==
    \A h \in {x.h : x \in handles} \cup locks : opener[h] \notin clunked

(***************************************************************************)
(* rremove, as rs9p describes it: Tremove removes the file its fid          *)
(* represents.                                                              *)
(***************************************************************************)
RemoveStep == \A t \in tasks : Unlink(t) /\ names' # names => names[t.st.prov] = t.st.ino
RemovesItsFile == [][RemoveStep]_vars
=============================================================================
