---------------------------- MODULE ExportManager ----------------------------
(***************************************************************************)
(* slatefsd's export manager (slatefs-daemon/src/main.rs): it brings the    *)
(* running listeners in line with the exports of the configuration and of   *)
(* the control plane, and opens and closes the volumes behind them.         *)
(*                                                                          *)
(* One reconcile pass runs at a time (the manager's lock).  It reads the    *)
(* exports once, stops, starts one by one, then visits the volumes kept     *)
(* open for HTTP consumers; exports, volumes, ports, certificates and       *)
(* listeners may change under it between any two of these steps.  Exports   *)
(* are numbered in the order they are started: the configuration's first.   *)
(* Reading the control database does not fail.                              *)
(***************************************************************************)
EXTENDS Integers, FiniteSets

CONSTANTS N, Static,        \* exports 1..N; those of the configuration
          Backends, Kind,   \* per backend key: "fs", "block" (live) or "view"
          Consumed,         \* live filesystems of the consumer tenants
          Configs,          \* [backend, listen, tls]: tls for 9P with a certificate
          MaxChanges,       \* bound: changes around the daemon
          None

VARIABLES want,       \* the export records: per export None or one of Configs
          active,     \* volumes whose record is Active
          suspended,  \* the tenant
          busy,       \* listen addresses some other process has
          badCerts,   \* certificate files cannot be loaded
          changes,
          running,    \* per export: None or [config, exited]
          open,       \* per backend: None or [refs, held, dead]
          admin,      \* backends the admin API reaches
          registry,   \* backends the consumer API reaches
          phase, at,  \* where the pass is
          desired,    \* the exports it read
          listed, todo  \* the consumer volumes it read, and has left

environment == <<want, active, suspended, busy, badCerts, changes>>
books == <<running, open, admin, registry>>
pass == <<phase, at, desired, listed, todo>>
vars == <<environment, books, pass>>

Exports == 1..N
Listens == {c.listen : c \in Configs}
On(b) == {k \in Exports : running[k] # None /\ running[k].config.backend = b}

(***************************************************************************)
(* Type invariant.                                                          *)
(***************************************************************************)
TypeOK ==
  /\ want \in [Exports -> Configs \cup {None}] /\ desired \in [Exports -> Configs \cup {None}]
  /\ active \subseteq Backends /\ suspended \in BOOLEAN
  /\ busy \subseteq Listens /\ badCerts \in BOOLEAN /\ changes \in 0..MaxChanges
  /\ \A k \in Exports : running[k] = None \/ running[k] \in [config : Configs, exited : BOOLEAN]
  /\ \A b \in Backends : open[b] = None \/ open[b] \in [refs : 0..N, held : BOOLEAN, dead : BOOLEAN]
  /\ admin \subseteq Backends /\ registry \subseteq Consumed
  /\ phase \in {"idle", "stop", "start", "bind", "consume", "down"} /\ at \in 1..N + 1
  /\ listed \subseteq Consumed /\ todo \subseteq listed

Init ==
  /\ want \in {w \in [Exports -> Configs \cup {None}] : \A k \in Exports : w[k] # None <=> k \in Static}
  /\ active = Backends /\ suspended = FALSE /\ busy = {} /\ badCerts = FALSE /\ changes = 0
  /\ running = [k \in Exports |-> None] /\ open = [b \in Backends |-> None]
  /\ admin = {} /\ registry = {}
  /\ phase = "idle" /\ at = 1 /\ desired = [k \in Exports |-> None] /\ listed = {} /\ todo = {}
-------------------------------------------------------------------------------
(***************************************************************************)
(* What happens around the daemon.                                          *)
(***************************************************************************)
Change == changes < MaxChanges /\ changes' = changes + 1

PutExport(k, c) ==
  /\ Change /\ k \notin Static /\ want[k] # c
  /\ want' = [want EXCEPT ![k] = c]
  /\ UNCHANGED <<active, suspended, busy, badCerts, books, pass>>

DeleteVolume(b) ==
  /\ Change /\ b \in active
  /\ active' = active \ {b}
  /\ UNCHANGED <<want, suspended, busy, badCerts, books, pass>>

SetTenantState ==
  /\ Change /\ suspended' = ~suspended
  /\ UNCHANGED <<want, active, busy, badCerts, books, pass>>

SomeoneElseListens(l) ==
  /\ Change /\ \A k \in Exports : running[k] # None /\ ~running[k].exited => running[k].config.listen # l
  /\ busy' = (busy \cup {l}) \ (busy \cap {l})
  /\ UNCHANGED <<want, active, suspended, badCerts, books, pass>>

ReplaceCerts ==
  /\ Change /\ badCerts' = ~badCerts
  /\ UNCHANGED <<want, active, suspended, busy, books, pass>>

ListenerExits(k) ==
  /\ Change /\ running[k] # None /\ ~running[k].exited
  /\ running' = [running EXCEPT ![k].exited = TRUE]
  /\ UNCHANGED <<want, active, suspended, busy, badCerts, open, admin, registry, pass>>

\* wait_dead: a fenced block volume ends the NBD listeners it has by then.
Fence(b) ==
  /\ Change /\ Kind[b] # "view" /\ open[b] # None /\ ~open[b].dead
  /\ open' = [open EXCEPT ![b].dead = TRUE]
  /\ running' = [k \in Exports |-> IF Kind[b] = "block" /\ k \in On(b)
                                   THEN [running[k] EXCEPT !.exited = TRUE] ELSE running[k]]
  /\ UNCHANGED <<want, active, suspended, busy, badCerts, admin, registry, pass>>
-------------------------------------------------------------------------------
(***************************************************************************)
(* Opening and closing backends.                                            *)
(***************************************************************************)
Live(b) == Kind[b] # "view"
Mountable(b) == b \in active /\ ~suspended
Opened(held) == [refs |-> 0, held |-> held, dead |-> FALSE]

\* Mutant: a backend with one listener left counts as unused.
Unused_OffByOne(backend) == backend.refs <= 1 /\ ~backend.held

Unused(backend) == backend.refs = 0 /\ ~backend.held

\* close_backend_if_unused, for each of some backends as they would be.
CloseUnused(some, backends) ==
  LET closed == {b \in some : backends[b] # None /\ Unused(backends[b])}
  IN  /\ open' = [b \in Backends |-> IF b \in closed THEN None ELSE backends[b]]
      /\ admin' = admin \ closed
      /\ registry' = {b \in registry : b \notin closed /\ backends[b].held}

\* stop_export, for each of some exports.
StopExports(some, backends) ==
  LET touched == {running[k].config.backend : k \in some}
  IN  /\ running' = [k \in Exports |-> IF k \in some THEN None ELSE running[k]]
      /\ CloseUnused(touched \cup {b \in Backends : backends[b] # open[b]},
           [b \in Backends |-> IF b \in touched
                               THEN [backends[b] EXCEPT !.refs = @ - Cardinality(On(b) \cap some)]
                               ELSE backends[b]])
-------------------------------------------------------------------------------
(***************************************************************************)
(* reconcile.                                                               *)
(***************************************************************************)
ReadDesired ==
  /\ phase = "idle"
  /\ phase' = "stop" /\ desired' = want
  /\ UNCHANGED <<environment, books, at, listed, todo>>

\* Mutant: listeners that exited are not collected.
Outdated_KeepsExited(k) == running[k] # None /\ running[k].config # desired[k]

Outdated(k) == running[k] # None /\ (running[k].exited \/ running[k].config # desired[k])

StopOutdated ==
  /\ phase = "stop"
  /\ StopExports({k \in Exports : Outdated(k)}, open)
  /\ phase' = "start" /\ at' = 1
  /\ UNCHANGED <<environment, desired, listed, todo>>

\* Mutant: one export too many is passed over.
NextExport_Skips == phase' = "start" /\ at' = at + 2

NextExport == phase' = "start" /\ at' = at + 1

\* backend_for: the backend is opened unless it is there already.
BackendFor(b) ==
  /\ open' = [open EXCEPT ![b] = IF @ = None THEN Opened(FALSE) ELSE @]
  /\ admin' = IF Live(b) THEN admin \cup {b} ELSE admin

\* start_export up to the bind: the address, the backend, the certificate.
StartExport ==
  LET c == desired[at]
      conflict == \E k \in Exports : running[k] # None /\ running[k].config.listen = c.listen
      found == open[c.backend] # None \/ Mountable(c.backend)
  IN  /\ phase = "start" /\ at <= N
      /\ IF c = None \/ running[at] # None
         THEN NextExport /\ UNCHANGED <<open, admin>>
         ELSE IF conflict \/ ~found
         THEN NextExport /\ UNCHANGED <<open, admin>>
         ELSE /\ BackendFor(c.backend)
              /\ IF c.tls /\ badCerts THEN NextExport ELSE phase' = "bind" /\ at' = at
      /\ UNCHANGED <<environment, running, registry, desired, listed, todo>>

Bind ==
  LET c == desired[at]
      b == c.backend
  IN  /\ phase = "bind"
      /\ NextExport
      /\ IF c.listen \in busy
         THEN CloseUnused({b}, open) /\ UNCHANGED running
         ELSE /\ open' = [open EXCEPT ![b].refs = @ + 1]
              /\ running' = [running EXCEPT ![at] = [config |-> c, exited |-> FALSE]]
              /\ UNCHANGED <<admin, registry>>
      /\ UNCHANGED <<environment, desired, listed, todo>>

(***************************************************************************)
(* reconcile_consumer_backends.                                             *)
(***************************************************************************)
ListConsumed ==
  /\ phase = "start" /\ at = N + 1
  /\ phase' = "consume" /\ listed' = Consumed \cap active /\ todo' = Consumed \cap active
  /\ UNCHANGED <<environment, books, at, desired>>

\* An open that fails ends the pass: the volumes left over are not visited
\* and none is released.
Consume(b) ==
  /\ phase = "consume" /\ b \in todo
  /\ IF open[b] = None /\ ~Mountable(b)
     THEN phase' = "idle" /\ UNCHANGED <<open, admin, registry, todo>>
     ELSE /\ open' = [open EXCEPT ![b] = IF @ = None THEN Opened(TRUE) ELSE [@ EXCEPT !.held = TRUE]]
          /\ admin' = admin \cup {b} /\ registry' = registry \cup {b}
          /\ todo' = todo \ {b} /\ UNCHANGED phase
  /\ UNCHANGED <<environment, running, at, desired, listed>>

Released(some) == [b \in Backends |-> IF b \in some /\ open[b] # None
                                      THEN [open[b] EXCEPT !.held = FALSE] ELSE open[b]]

ReleaseConsumed ==
  LET gone == {b \in registry : b \notin listed} IN
  /\ phase = "consume" /\ todo = {}
  /\ phase' = "idle"
  /\ CloseUnused(gone, Released(gone))
  /\ UNCHANGED <<environment, running, at, desired, listed, todo>>

\* shutdown, after the pass in progress is aborted wherever it is.
Shutdown ==
  /\ phase # "down" /\ phase' = "down"
  /\ StopExports({k \in Exports : running[k] # None}, Released(registry))
  /\ UNCHANGED <<environment, at, desired, listed, todo>>
-------------------------------------------------------------------------------
Pass ==
  \/ ReadDesired \/ StopOutdated \/ StartExport \/ Bind
  \/ ListConsumed \/ (\E b \in Consumed : Consume(b)) \/ ReleaseConsumed

Next ==
  \/ Pass \/ Shutdown
  \/ \E k \in Exports : ListenerExits(k) \/ \E c \in Configs \cup {None} : PutExport(k, c)
  \/ \E b \in Backends : DeleteVolume(b) \/ Fence(b)
  \/ \E l \in Listens : SomeoneElseListens(l)
  \/ SetTenantState \/ ReplaceCerts

\* The watcher polls for as long as the daemon runs.
Spec == Init /\ [][Next]_vars /\ WF_vars(Pass)
-------------------------------------------------------------------------------
(***************************************************************************)
(* The books agree whatever changes during a pass: a backend counts its     *)
(* listeners, a listener has its backend and its address to itself, and the *)
(* admin and consumer APIs reach the live volumes that are open for them.   *)
(***************************************************************************)
BooksAgree ==
  /\ \A b \in Backends : IF open[b] = None THEN On(b) = {} ELSE open[b].refs = Cardinality(On(b))
  /\ \A j, k \in Exports : j # k /\ running[j] # None /\ running[k] # None =>
       running[j].config.listen # running[k].config.listen
  /\ admin = {b \in Backends : Live(b) /\ open[b] # None}
  /\ registry = {b \in Backends : open[b] # None /\ open[b].held}

\* Why an export is not running: its address, its volume or its certificate.
Blocked(k) ==
  LET c == want[k] IN
  \/ c.listen \in busy \/ (c.tls /\ badCerts) \/ ~Mountable(c.backend)
  \/ \E j \in Exports : running[j] # None /\ running[j].config.listen = c.listen

(***************************************************************************)
(* Polling converges: again and again, what runs is what is wanted, listener*)
(* by listener, except where something still stands in an export's way;     *)
(* listeners that exit, or that a fenced block volume ends, are started     *)
(* anew.                                                                    *)
(***************************************************************************)
Converges ==
  []<>(\/ phase = "down"
       \/ \A k \in Exports :
            IF want[k] = None THEN running[k] = None
            ELSE \/ running[k] # None /\ running[k].config = want[k] /\ ~running[k].exited
                 \/ running[k] = None /\ Blocked(k))

(***************************************************************************)
(* "removed/disabled exports are stopped, and the last listener using a     *)
(* volume/snapshot closes that backend" (README.md): after a pass, a        *)
(* backend is open only if a consumer holds it or the pass read an export   *)
(* of it.                                                                   *)
(***************************************************************************)
BackendsReleased ==
  phase = "idle" => \A b \in Backends : open[b] # None =>
    open[b].held \/ \E k \in Exports : desired[k] # None /\ desired[k].backend = b
===============================================================================
