------------------------------- MODULE MC_Data -------------------------------
(***************************************************************************)
(* BlockVolume, FileData, NbdSession and Admission for TLC.  They share     *)
(* operators and no state: a behaviour is one of them, and part says which. *)
(*                                                                          *)
(* Device and file have one full and one short chunk, the device two        *)
(* requests in flight; with one inline delete, a truncate of the file to    *)
(* nothing needs a second batch.  Two NBD connections from one address with *)
(* two certificates and two requests in flight.  Admission has four         *)
(* workloads, each with limits that some of its requests meet.              *)
(***************************************************************************)
EXTENDS BlockVolume, FileData, TLC

CONSTANTS Parts,   \* a subset of {"device", "file", "sessions", "limits"}
          MaxDrift,
          Conns, Peer, Cert, MaxInflight, MaxWrites, MaxBusy, None,
          Callers, Scale, Workloads, MaxServed, MaxEdits, MaxWait

VARIABLES part,
          tls, read_only, listening, lease, conn, told, reader, req, replies,
          applied, durable, acked,
          load, clock, tenant, quota, edits, limiter, tracker, stored, manager, call,
          served, window, allowed

nvars == <<tls, read_only, listening, lease, conn, told, reader, req, replies,
           applied, durable, acked>>
lvars == <<load, clock, tenant, quota, edits, limiter, tracker, stored, manager, call,
           served, window, allowed>>
allvars == <<part, vars, fvars, nvars, lvars>>

Nbd == INSTANCE NbdSession
Limits == INSTANCE Admission WITH Null <- None

\* One address, and a certificate for each connection.
MCPeer == [c \in Conns |-> "host"]
MCCert == [c \in Conns |-> c]

Limit(hard, soft, grace) == [hard |-> hard, soft |-> soft, grace |-> grace]
NoLimit == Limit(None, None, None)
NoRate == [ops |-> None, bytes |-> None]
Workload(kinds, rates, quotas, ticks) ==
    [kinds |-> kinds, rates |-> rates, quotas |-> quotas, ticks |-> ticks]
MCWorkloads == {
    Workload({"read"}, {[ops |-> 1, bytes |-> None], [ops |-> 2, bytes |-> 1]},
             {[bytes |-> NoLimit, inodes |-> NoLimit]}, 3),
    Workload({"device"}, {NoRate, [ops |-> 1, bytes |-> 1]},
             {[bytes |-> Limit(2, None, None), inodes |-> NoLimit]}, 1),
    Workload({"write", "remove"}, {NoRate},
             {[bytes |-> Limit(2, None, None), inodes |-> NoLimit],
              [bytes |-> Limit(3, 1, 1), inodes |-> NoLimit]}, 1),
    Workload({"create", "xattr"}, {NoRate},
             {[bytes |-> Limit(1, 0, 1), inodes |-> Limit(2, None, None)]}, 1)}

\* A read-only export needs no certificate here, and a writable one does.
NbdInit ==
    IF part = "sessions" THEN Nbd!Init /\ (read_only <=> tls = "none")
    ELSE /\ tls = None /\ read_only = None /\ listening = None /\ lease = None /\ conn = None
         /\ told = None /\ reader = None /\ req = None /\ replies = None
         /\ applied = None /\ durable = None /\ acked = None

LimitsInit ==
    IF part = "limits" THEN Limits!AdmissionInit
    ELSE /\ load = None /\ clock = None /\ tenant = None /\ quota = None /\ edits = None
         /\ limiter = None /\ tracker = None /\ stored = None /\ manager = None /\ call = None
         /\ served = None /\ window = None /\ allowed = None

DataInit == part \in Parts /\ Init /\ FileInit /\ NbdInit /\ LimitsInit
DataNext ==
    \/ part = "device" /\ Next /\ UNCHANGED <<part, fvars, nvars, lvars>>
    \/ part = "file" /\ FileNext /\ UNCHANGED <<part, vars, nvars, lvars>>
    \/ part = "sessions" /\ Nbd!Next /\ UNCHANGED <<part, vars, fvars, lvars>>
    \/ part = "limits" /\ Limits!AdmissionNext /\ UNCHANGED <<part, vars, fvars, nvars>>
    \/ part = "sessions" /\ UNCHANGED allvars     \* the connections may all have ended
DataSpec == DataInit /\ [][DataNext]_allvars

Symmetry == Permutations(Threads) \union Permutations(Callers) \union Permutations(Conns)

\* Bound: torn truncates make the counter of the file drift further and further.
DriftBound ==
    part = "file" =>
        fdb.billed - BilledOf(fdb.size, fdb.chunks, FileChunks) \in -MaxDrift .. MaxDrift

-------------------------------------------------------------------------------
(***************************************************************************)
(* The counters of device and file are what a recount of their chunks would *)
(* bill, and a device with no request at work holds no reservation (see     *)
(* BlockVolume and FileData); under rate limits and quotas that are         *)
(* reloaded, reservations are settled and limits kept (Admission).          *)
(***************************************************************************)
CountersExact ==
    /\ part = "device" => TypeOK /\ BilledExact /\ TrackerExact
    /\ part = "file" => FileTypeOK /\ FileBilledExact
    /\ part = "limits" => Limits!LimitsKept

(***************************************************************************)
(* The lease counts the session's connections, of one identity, FLUSH        *)
(* covers writes answered on any of them, and a connection without a reader *)
(* has a step to take (NbdSession).                                         *)
(***************************************************************************)
SessionSound ==
    part = "sessions" => Nbd!TypeOK /\ Nbd!SessionCounted /\ Nbd!FlushCovers /\ Nbd!NoSessionHangs
===============================================================================
