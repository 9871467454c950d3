------------------------------ MODULE NbdSession ------------------------------
(***************************************************************************)
(* The NBD server of one block export (slatefs-nbd/src/lib.rs): accepting,  *)
(* negotiating, the lease of the one writable session, requests in flight   *)
(* on each connection, and the broadcast that hard-closes connections.      *)
(*                                                                          *)
(* A connection has a reader task, a worker task per request and a writer,  *)
(* joined by a channel of responses; a request is known by the permit it    *)
(* holds.  Offsets and lengths only decide whether a request is valid.  The *)
(* device (see BlockVolume) is how many writes it has applied, and how many *)
(* of those are durable.                                                    *)
(***************************************************************************)
EXTENDS Integers, Sequences, FiniteSets

CONSTANTS Conns,
          Peer, Cert,    \* per connection: its address and client certificate
          MaxInflight,   \* max_inflight
          MaxWrites,     \* bound: writes applied in one behaviour
          MaxBusy,       \* bound: requests in flight on all connections
          None

VARIABLES tls,        \* the export: "none", "tls" or "mtls" (clients have certificates)
          read_only,
          listening,  \* the accept loop: "up", "told", "down"
          lease,      \* SessionLeases.writable: None or [identity, connections]
          conn,       \* per connection: how far handle_connection is
          told,       \* open connections whose receiver has the broadcast
          reader,     \* connections whose reader task runs
          req,        \* per connection and permit: None or the request
          replies,    \* per connection: the channel of responses
          applied,    \* writes the device has applied
          durable,    \* how many of them are durable
          acked       \* the last of them that is answered

export == <<tls, read_only>>
device == <<applied, durable, acked>>
vars == <<export, listening, lease, conn, told, reader, req, replies, device>>

Permits == 1..MaxInflight
Commands == {"read", "write", "write_fua", "flush"}
InFlight(c) == {p \in Permits : req[c][p] # None}
Working(c) == {p \in InFlight(c) : req[c][p].at # "queued"}
Attached == {c \in Conns : conn[c] \in {"granted", "open"}}

(***************************************************************************)
(* Type invariant; the channel holds what is queued, each response once.    *)
(***************************************************************************)
Requests == [at : {"work", "flush"}, cmd : Commands, pos : 0..MaxWrites, due : 0..MaxWrites]
Responses == [at : {"queued"}, ack : 0..MaxWrites, due : 0..MaxWrites, fatal : BOOLEAN]

TypeOK ==
  /\ tls \in {"none", "tls", "mtls"} /\ read_only \in BOOLEAN /\ listening \in {"up", "told", "down"}
  /\ lease = None \/ lease.connections \in 1..Cardinality(Conns)
  /\ conn \in [Conns -> {"new", "options", "secure", "granted", "open", "closed"}]
  /\ told \subseteq Conns /\ reader \subseteq Conns
  /\ \A c \in Conns : /\ \A p \in InFlight(c) : req[c][p] \in Requests \cup Responses
                      /\ {replies[c][k] : k \in DOMAIN replies[c]} = InFlight(c) \ Working(c)
                      /\ Len(replies[c]) = Cardinality(InFlight(c) \ Working(c))
  /\ applied \in 0..MaxWrites /\ durable \in 0..applied /\ acked \in 0..applied

Init ==
  /\ tls \in {"none", "tls", "mtls"} /\ read_only \in BOOLEAN /\ listening = "up"
  /\ lease = None /\ conn = [c \in Conns |-> "new"] /\ told = {} /\ reader = {}
  /\ req = [c \in Conns |-> [p \in Permits |-> None]] /\ replies = [c \in Conns |-> <<>>]
  /\ applied = 0 /\ durable = 0 /\ acked = 0
-------------------------------------------------------------------------------
(***************************************************************************)
(* The writable session (SessionLeases).                                    *)
(***************************************************************************)
SessionIdentity(c) == IF tls = "mtls" THEN Cert[c] ELSE Peer[c]

CanAcquire(c) == ~read_only /\ lease # None => lease.identity = SessionIdentity(c)

\* Mutant: a further connection of the session is not counted.
Acquired_Once(c) ==
  IF read_only \/ lease # None THEN lease
  ELSE [identity |-> SessionIdentity(c), connections |-> 1]

Acquired(c) ==
  IF read_only THEN lease
  ELSE IF lease = None THEN [identity |-> SessionIdentity(c), connections |-> 1]
  ELSE [lease EXCEPT !.connections = @ + 1]

\* Drop for SessionLease
Dropped(c) ==
  IF read_only \/ lease = None \/ lease.identity # SessionIdentity(c) THEN lease
  ELSE IF lease.connections <= 1 THEN None ELSE [lease EXCEPT !.connections = @ - 1]

Goto(c, at) == conn' = [conn EXCEPT ![c] = at]
-------------------------------------------------------------------------------
(***************************************************************************)
(* The accept loop and negotiation.  The broadcast that ends a negotiation  *)
(* may come too early or too late, like anything else that ends it.         *)
(***************************************************************************)
Accept(c) ==
  /\ listening # "down" /\ conn[c] = "new" /\ Goto(c, "options")
  /\ UNCHANGED <<export, listening, lease, told, reader, req, replies, device>>

StartTls(c) ==
  /\ conn[c] = "options" /\ tls # "none" /\ Goto(c, "secure")
  /\ UNCHANGED <<export, listening, lease, told, reader, req, replies, device>>

\* NBD_OPT_GO, NBD_OPT_EXPORT_NAME; one that is refused changes nothing here.
Go(c) ==
  /\ conn[c] = IF tls = "none" THEN "options" ELSE "secure"
  /\ CanAcquire(c) /\ lease' = Acquired(c) /\ Goto(c, "granted")
  /\ UNCHANGED <<export, listening, told, reader, req, replies, device>>

\* The client aborts or goes, its bytes make no sense, a reply cannot be
\* written, or the broadcast is received: negotiate is left or dropped.
LeaveNegotiation(c) ==
  /\ conn[c] \in {"options", "secure", "granted"} /\ Goto(c, "closed")
  /\ lease' = IF conn[c] = "granted" THEN Dropped(c) ELSE lease
  /\ UNCHANGED <<export, listening, told, reader, req, replies, device>>

\* The negotiated stream goes to transmit, which subscribes anew.
Transmit(c) ==
  /\ conn[c] = "granted" /\ Goto(c, "open") /\ reader' = reader \cup {c}
  /\ UNCHANGED <<export, listening, lease, told, req, replies, device>>
-------------------------------------------------------------------------------
(***************************************************************************)
(* The reader (read_requests).  It holds a permit while it waits, so it     *)
(* reads no more than max_inflight requests that are not yet answered.      *)
(***************************************************************************)
Put(c, p, r) == req' = [req EXCEPT ![c][p] = r]

\* A request, with what must be durable once it is answered without error; a
\* response, with the write it answers.
Request(cmd) == [at |-> "work", cmd |-> cmd, pos |-> 0, due |-> IF cmd = "flush" THEN acked ELSE 0]
Response(ack, due, fatal) == [at |-> "queued", ack |-> ack, due |-> due, fatal |-> fatal]

\* A worker, or the reader, sends a response: dropped when nobody receives.
Respond(c, p, r) ==
  IF conn[c] = "open"
  THEN Put(c, p, r) /\ replies' = [replies EXCEPT ![c] = Append(@, p)]
  ELSE Put(c, p, None) /\ UNCHANGED replies

\* acquire_owned: which permit is free does not matter.
FreePermit(c, p) ==
  /\ p \notin InFlight(c) /\ \A q \in Permits : q < p => q \in InFlight(c)
  /\ Cardinality({<<d, q>> \in Conns \X Permits : req[d][q] # None}) < MaxBusy

\* validate_request refuses writes on a read-only export.
ReadRequest(c, p, cmd) ==
  /\ c \in reader /\ FreePermit(c, p)
  /\ read_only => cmd \in {"read", "flush"}
  /\ Put(c, p, Request(cmd))
  /\ UNCHANGED <<export, listening, lease, conn, told, reader, replies, device>>

ReadInvalid(c, p) ==
  /\ c \in reader /\ FreePermit(c, p) /\ Respond(c, p, Response(0, 0, FALSE))
  /\ UNCHANGED <<export, listening, lease, conn, told, reader, device>>

\* NBD_CMD_DISC, the end of the stream, an error, the broadcast or abort().
ReaderEnds(c) ==
  /\ c \in reader /\ reader' = reader \ {c}
  /\ UNCHANGED <<export, listening, lease, conn, told, req, replies, device>>
-------------------------------------------------------------------------------
(***************************************************************************)
(* A worker (execute_request).  A flush makes durable what was applied when *)
(* it began.                                                                *)
(***************************************************************************)
\* Mutant: FLUSH is answered when it has been issued.
Execute_Early(c, p) ==
  LET r == req[c][p]
      writes == r.cmd \in {"write", "write_fua"}
  IN  /\ r.at = "work" /\ (writes => applied < MaxWrites)
      /\ applied' = IF writes THEN applied + 1 ELSE applied
      /\ IF r.cmd = "write_fua"
         THEN Put(c, p, [r EXCEPT !.at = "flush", !.pos = applied', !.due = applied'])
              /\ UNCHANGED replies
         ELSE Respond(c, p, Response(IF writes THEN applied' ELSE 0, r.due, FALSE))
      /\ UNCHANGED <<export, listening, lease, conn, told, reader, durable, acked>>

Execute(c, p) ==
  LET r == req[c][p]
      writes == r.cmd \in {"write", "write_fua"}
  IN  /\ r.at = "work" /\ (writes => applied < MaxWrites)
      /\ applied' = IF writes THEN applied + 1 ELSE applied
      /\ CASE r.cmd = "write_fua" -> Put(c, p, [r EXCEPT !.at = "flush", !.pos = applied', !.due = applied'])
                                     /\ UNCHANGED replies
           [] r.cmd = "flush" -> Put(c, p, [r EXCEPT !.at = "flush", !.pos = applied]) /\ UNCHANGED replies
           [] OTHER -> Respond(c, p, Response(IF writes THEN applied' ELSE 0, 0, FALSE))
      /\ UNCHANGED <<export, listening, lease, conn, told, reader, durable, acked>>

Flushed(c, p) ==
  LET r == req[c][p]
  IN  /\ r.at = "flush" /\ durable' = IF r.pos > durable THEN r.pos ELSE durable
      /\ Respond(c, p, Response(IF r.cmd = "write_fua" THEN r.pos ELSE 0, r.due, FALSE))
      /\ UNCHANGED <<export, listening, lease, conn, told, reader, applied, acked>>

\* backend_failure: EINVAL, ENOSPC, EPERM or a rate limit, or a fatal EIO.
BackendFailure(c, p, fatal) ==
  /\ req[c][p].at \in {"work", "flush"} /\ Respond(c, p, Response(0, 0, fatal))
  /\ UNCHANGED <<export, listening, lease, conn, told, reader, device>>
-------------------------------------------------------------------------------
(***************************************************************************)
(* The writer (write_responses) and the end of a connection.                *)
(***************************************************************************)
Broadcast(end) ==
  /\ told' = (told \cup {c \in Conns : conn[c] = "open"}) \ end
  /\ listening' = IF listening = "up" THEN "told" ELSE listening

\* The lease, the channel and the responses in it are dropped.
Ended(c) ==
  /\ Goto(c, "closed") /\ lease' = Dropped(c) /\ replies' = [replies EXCEPT ![c] = <<>>]
  /\ req' = [req EXCEPT ![c] = [p \in Permits |-> IF p \in Working(c) THEN @[p] ELSE None]]

Answered(r) == acked' = IF r.ack > acked THEN r.ack ELSE acked

WriteReply(c) ==
  /\ conn[c] = "open" /\ replies[c] # <<>>
  /\ LET p == Head(replies[c])
     IN  /\ Answered(req[c][p])
         /\ IF req[c][p].fatal
            THEN Broadcast({c}) /\ Ended(c)
            ELSE /\ Put(c, p, None) /\ replies' = [replies EXCEPT ![c] = Tail(@)]
                 /\ UNCHANGED <<lease, conn, told, listening>>
  /\ UNCHANGED <<export, reader, applied, durable>>

\* The reader task is not aborted: it goes on reading.
WriteFails(c) ==
  /\ conn[c] = "open" /\ replies[c] # <<>> /\ Ended(c) /\ told' = told \ {c}
  /\ UNCHANGED <<export, listening, reader, device>>

ReceiveShutdown(c) ==
  /\ c \in told /\ Ended(c) /\ told' = told \ {c}
  /\ UNCHANGED <<export, listening, reader, device>>

\* Mutant: transmit keeps a sender too, so recv never returns None.
ChannelCloses_Leak(c) == c \in Conns /\ FALSE /\ UNCHANGED vars

\* recv returns None: no sender is left and every response is written.
ChannelCloses(c) ==
  /\ conn[c] = "open" /\ c \notin reader /\ Working(c) = {} /\ replies[c] = <<>>
  /\ Ended(c) /\ told' = told \ {c}
  /\ UNCHANGED <<export, listening, reader, device>>

\* NbdShutdownHandle
Kill ==
  /\ listening = "up" /\ Broadcast({})
  /\ UNCHANGED <<export, lease, conn, reader, req, replies, device>>

AcceptLoopEnds ==
  /\ listening = "told" /\ listening' = "down"
  /\ UNCHANGED <<export, lease, conn, told, reader, req, replies, device>>
-------------------------------------------------------------------------------
Work(c, p) ==
  /\ req[c][p] # None
  /\ Execute(c, p) \/ Flushed(c, p) \/ \E fatal \in BOOLEAN : BackendFailure(c, p, fatal)

Next ==
  \/ \E c \in Conns :
       \/ Accept(c) \/ StartTls(c) \/ Go(c) \/ LeaveNegotiation(c) \/ Transmit(c)
       \/ \E p \in Permits :
            \/ \E cmd \in Commands : ReadRequest(c, p, cmd)
            \/ ReadInvalid(c, p) \/ Work(c, p)
       \/ ReaderEnds(c) \/ WriteReply(c) \/ WriteFails(c) \/ ReceiveShutdown(c) \/ ChannelCloses(c)
  \/ Kill \/ AcceptLoopEnds

Spec == Init /\ [][Next]_vars

\* What a connection does without its client.
Steps(c) == WriteReply(c) \/ ChannelCloses(c) \/ \E p \in Permits : Work(c, p)
-------------------------------------------------------------------------------
(***************************************************************************)
(* A writable export has one session: its attached connections share one    *)
(* identity and the lease counts them, however connections of several       *)
(* clients come, fail to negotiate, are cut and go (SessionLeases).         *)
(***************************************************************************)
SessionCounted ==
  ~read_only =>
    IF lease = None THEN Attached = {}
    ELSE /\ lease.connections = Cardinality(Attached)
         /\ \A c \in Attached : SessionIdentity(c) = lease.identity

(***************************************************************************)
(* CAN_MULTI_CONN: "a FLUSH on any connection covers completed writes on    *)
(* all connections" (block-device-plan.md), and a write answered with FUA   *)
(* is durable itself.                                                       *)
(***************************************************************************)
FlushCovers ==
  \A c \in Conns : \A p \in InFlight(c) \ Working(c) : req[c][p].due <= durable

(***************************************************************************)
(* Once its reader has ended (DISC, end of stream, error, shutdown), a      *)
(* connection that holds the lease has a task with a step to take, and each *)
(* brings it nearer to its end: no one is left waiting on the channel or    *)
(* for a permit.  Writes to the socket are taken to return.                 *)
(***************************************************************************)
NoSessionHangs == \A c \in Conns : conn[c] = "open" /\ c \notin reader => ENABLED <<Steps(c)>>_vars
===============================================================================
