------------------------------- MODULE NfsRpc -------------------------------
(***************************************************************************)
(* The transport of the NFSv3 server (nfs3-server: tcp.rs, rpcwire.rs,      *)
(* transaction_tracker.rs).  A connection has a socket loop, which moves    *)
(* what arrives into a bounded pipe and writes the replies, a reader, which *)
(* takes one permit per call and starts a task for it, and those tasks.     *)
(* The reader and the tasks outlive the socket.  The tracker, shared by all *)
(* connections, keeps the transaction numbers (xids) of each client address *)
(* and answers no call it has seen before.                                  *)
(*                                                                          *)
(* The procedures are in NfsProcs: here a call is its xid.  The client      *)
(* sends any call at any time, again and on a new connection too.           *)
(***************************************************************************)
EXTENDS Integers, Sequences, FiniteSets, FiniteSetsExt, SequencesExt

CONSTANTS Addrs,
          Conns,        \* numbers, in the order of their first use
          MaxXid,       \* xids are 1..MaxXid
          MaxInFlight,  \* MAX_IN_FLIGHT_REQUESTS_PER_CONNECTION
          MaxActive, TrimLimit, Retention,  \* of the tracker
          PipeSize,     \* calls the pipe between socket loop and reader holds
          MaxSends, MaxTicks,  \* bounds: calls sent, passing of time
          None

VARIABLES sends, ticks,
          socket,   \* per connection: its address, "unused", "open" or "closed", and
                    \* the call the socket loop is writing into the pipe
          pipe, replies,  \* per connection: queues
          worker,   \* per task: None or [call, pc]; a task is its connection's permit
          clients,  \* the tracker, per address: None or [list, last, active]
          ended     \* history, per address and xid: since when it is completed, or Never

net == <<socket, pipe, replies>>
vars == <<sends, ticks, net, worker, clients, ended>>

Xids == 1..MaxXid
Malformed == 0    \* no call, or one of another RPC version
Calls == Xids \cup {Malformed}
NoCall == -1
Never == -1
Running == -1     \* a transaction in progress
\* Times are kept as ages; all that matters is whether one exceeds Retention.
Ages == 0..Retention + 1
Older(age) == IF age \in 0..Retention THEN age + 1 ELSE age

Closed(a, s) == [addr |-> a, state |-> s, held |-> NoCall]
Tasks == Conns \X (1..MaxInFlight)
Working(t) == worker[t] # None
Addr(t) == socket[t[1]].addr
\* The tasks that hold the transaction of address a and xid x.
Executing(a, x) == {t \in Tasks : Working(t) /\ worker[t].pc = "run" /\ Addr(t) = a /\ worker[t].call = x}
InFlight(c) == {t \in Tasks : Working(t) /\ t[1] = c}
Used(a) == {x \in Xids : ended[a][x] # Never \/ Executing(a, x) # {}}

(***************************************************************************)
(* Type invariant.                                                          *)
(***************************************************************************)
TypeOK ==
  /\ sends \in 0..MaxSends /\ ticks \in 0..MaxTicks
  /\ socket \in [Conns -> [addr : Addrs, state : {"unused", "open", "closed"}, held : Calls \cup {NoCall}]]
  /\ \A c \in Conns : pipe[c] \in Seq(Calls) /\ Len(pipe[c]) <= PipeSize
                      /\ replies[c] \in Seq({"reply", "broken"})
  /\ \A t \in Tasks : Working(t) => worker[t] \in [call : Calls, pc : {"start", "run"}]
  /\ \A a \in Addrs : clients[a] # None =>
        clients[a] \in [list : Seq([xid : Xids, done : {Running} \cup Ages]), last : Ages, active : Nat]
  /\ ended \in [Addrs -> [Xids -> {Never} \cup Ages]]

Init ==
  /\ sends = 0 /\ ticks = 0
  /\ socket \in [Conns -> {Closed(a, "unused") : a \in Addrs}]
  /\ pipe = [c \in Conns |-> <<>>] /\ replies = [c \in Conns |-> <<>>]
  /\ worker = [t \in Tasks |-> None] /\ clients = [a \in Addrs |-> None]
  /\ ended = [a \in Addrs |-> [x \in Xids |-> Never]]
-------------------------------------------------------------------------------
(***************************************************************************)
(* The tracker.                                                             *)
(***************************************************************************)
Stale(tx) == tx.done > Retention

\* Drops the longest prefix of which every transaction is out(_).
DropFront(list, out(_), most) ==
  LET n == Max({k \in 0..Len(list) : k <= most /\ \A i \in 1..k : out(list[i])})
  IN SubSeq(list, n + 1, Len(list))

RemoveOldTransactions(list) == DropFront(list, Stale, Len(list))

TrimIfNeeded(list) ==
  LET Completed(tx) == tx.done # Running
      excess == Len(list) - TrimLimit
  IN IF excess > 0 THEN DropFront(list, Completed, excess) ELSE list

\* find_transaction: the list is sorted by xid.
Found(list, x) == \E i \in DOMAIN list : list[i].xid = x
Position(list, x) == Cardinality({i \in DOMAIN list : list[i].xid < x}) + 1

NewClient == [list |-> <<>>, last |-> 0, active |-> 0]
Client(a) == IF clients[a] = None THEN NewClient ELSE clients[a]

\* Mutant: the transaction is appended, not inserted where the search ended.
Admit_Appended(client, x) ==
  [client EXCEPT !.active = @ + 1, !.list = TrimIfNeeded(Append(@, [xid |-> x, done |-> Running]))]

Admit(client, x) ==
  [client EXCEPT !.active = @ + 1,
                 !.list = TrimIfNeeded(InsertAt(@, Position(@, x), [xid |-> x, done |-> Running]))]

\* complete_transaction, remove_old_transactions: the lock is dropped.
\* Mutant: a completed transaction is forgotten at once.
Completed_Forgets(client, x) ==
  [client EXCEPT !.last = 0, !.active = @ - 1,
                 !.list = SelectSeq(@, LAMBDA tx : tx.xid # x)]

Completed(client, x) ==
  IF Found(client.list, x)
  THEN [client EXCEPT !.last = 0, !.active = @ - 1,
                      !.list = RemoveOldTransactions(
                        [i \in DOMAIN @ |-> IF @[i].xid = x THEN [@[i] EXCEPT !.done = 0] ELSE @[i]])]
  ELSE [client EXCEPT !.last = 0, !.list = RemoveOldTransactions(@)]

\* is_active
ClientActive(client) ==
  \/ client.last < Retention
  \/ \E i \in DOMAIN client.list : ~Stale(client.list[i])

\* The cleaner's pass over all clients.
Cleanup ==
  /\ clients' = [a \in Addrs |->
       IF clients[a] = None \/ ~ClientActive(clients[a]) THEN None
       ELSE [clients[a] EXCEPT !.list = RemoveOldTransactions(@)]]
  /\ clients' # clients
  /\ UNCHANGED <<sends, ticks, net, worker, ended>>
-------------------------------------------------------------------------------
(***************************************************************************)
(* Connections: what the client does, the socket loop, and the reader.      *)
(***************************************************************************)
\* An address, client_addr, is a host and a port: one connection at a time.
Connect(c) ==
  /\ socket[c].state = "unused" /\ \A d \in 1..c - 1 : socket[d].state # "unused"
  /\ \A d \in Conns : socket[d].addr = socket[c].addr => socket[d].state # "open"
  /\ socket' = [socket EXCEPT ![c].state = "open"]
  /\ UNCHANGED <<sends, ticks, pipe, replies, worker, clients, ended>>

\* The socket loop reads a call and writes it into the pipe; it does nothing
\* else until there is room.
Receive(c, m) ==
  /\ socket[c].state = "open" /\ socket[c].held = NoCall /\ sends < MaxSends
  /\ sends' = sends + 1 /\ UNCHANGED ticks
  /\ IF Len(pipe[c]) < PipeSize THEN pipe' = [pipe EXCEPT ![c] = Append(@, m)] /\ UNCHANGED socket
     ELSE socket' = [socket EXCEPT ![c].held = m] /\ UNCHANGED pipe
  /\ UNCHANGED <<replies, worker, clients, ended>>

Forward(c) ==
  /\ socket[c].held # NoCall /\ Len(pipe[c]) < PipeSize
  /\ pipe' = [pipe EXCEPT ![c] = Append(@, socket[c].held)]
  /\ socket' = [socket EXCEPT ![c].held = NoCall]
  /\ UNCHANGED <<sends, ticks, replies, worker, clients, ended>>

\* The client closes, or the socket fails.  What is in the pipe stays there.
Disconnect(c) ==
  /\ socket[c].state = "open" /\ socket[c].held = NoCall
  /\ socket' = [socket EXCEPT ![c].state = "closed"] /\ replies' = [replies EXCEPT ![c] = <<>>]
  /\ UNCHANGED <<sends, ticks, pipe, worker, clients, ended>>

\* The socket loop takes a reply: it writes it, or ends on an error.
WriteReply(c) ==
  /\ socket[c].state = "open" /\ socket[c].held = NoCall /\ replies[c] # <<>>
  /\ IF Head(replies[c]) = "broken"
     THEN socket' = [socket EXCEPT ![c].state = "closed"] /\ replies' = [replies EXCEPT ![c] = <<>>]
     ELSE replies' = [replies EXCEPT ![c] = Tail(@)] /\ UNCHANGED socket
  /\ UNCHANGED <<sends, ticks, pipe, worker, clients, ended>>

\* SocketMessageHandler::read: a permit, then a task.
ReadCall(c) ==
  /\ pipe[c] # <<>> /\ Cardinality(InFlight(c)) < MaxInFlight
  /\ LET permit == Min({k \in 1..MaxInFlight : ~Working(<<c, k>>)})
     IN worker' = [worker EXCEPT ![<<c, permit>>] = [call |-> Head(pipe[c]), pc |-> "start"]]
  /\ pipe' = [pipe EXCEPT ![c] = Tail(@)]
  /\ UNCHANGED <<sends, ticks, socket, replies, clients, ended>>
-------------------------------------------------------------------------------
(***************************************************************************)
(* A task: handle_rpc_message, then the reply, queued as the permit is      *)
(* given back.                                                              *)
(***************************************************************************)
\* Mutant: the queue of replies is as small as the pipe.
MayQueue_Bounded(c) == socket[c].state = "open" => Len(replies[c]) < PipeSize

\* An unbounded channel; after the socket loop ended the send fails.
MayQueue(c) == TRUE

Answer(t, reply) ==
  /\ MayQueue(t[1])
  /\ replies' = IF socket[t[1]].state = "open" THEN [replies EXCEPT ![t[1]] = Append(@, reply)] ELSE replies
  /\ worker' = [worker EXCEPT ![t] = None]

\* No transaction: a message that does not parse breaks the connection, a
\* call of another RPC version gets its answer.
Reject(t) ==
  /\ Working(t) /\ worker[t].pc = "start" /\ worker[t].call = Malformed
  /\ \E reply \in {"broken", "reply"} : Answer(t, reply)
  /\ UNCHANGED <<sends, ticks, socket, pipe, clients, ended>>

\* lock_transaction.  A call in the list gets no reply; one too many is
\* answered SYSTEM_ERR; else it is executed.
LockTransaction(t) ==
  /\ Working(t) /\ worker[t].pc = "start" /\ worker[t].call \in Xids
  /\ LET a == Addr(t)
         x == worker[t].call
         client == [Client(a) EXCEPT !.last = 0]
     IN \/ /\ Found(client.list, x)
           /\ clients' = [clients EXCEPT ![a] = client]
           /\ worker' = [worker EXCEPT ![t] = None] /\ UNCHANGED replies
        \/ /\ ~Found(client.list, x) /\ client.active >= MaxActive
           /\ clients' = [clients EXCEPT ![a] = client] /\ Answer(t, "reply")
        \/ /\ ~Found(client.list, x) /\ client.active < MaxActive
           /\ clients' = [clients EXCEPT ![a] = Admit(client, x)]
           /\ worker' = [worker EXCEPT ![t].pc = "run"] /\ UNCHANGED replies
  /\ UNCHANGED <<sends, ticks, socket, pipe, ended>>

\* The procedure is done; the lock is dropped as handle_rpc_message returns.
Execute(t) ==
  /\ Working(t) /\ worker[t].pc = "run"
  /\ clients' = [clients EXCEPT ![Addr(t)] = Completed(@, worker[t].call)]
  /\ ended' = [ended EXCEPT ![Addr(t)][worker[t].call] = 0]
  /\ Answer(t, "reply")
  /\ UNCHANGED <<sends, ticks, socket, pipe>>

Tick ==
  /\ clients' = [a \in Addrs |-> IF clients[a] = None THEN None ELSE
       [clients[a] EXCEPT !.last = Older(@),
                          !.list = [i \in DOMAIN @ |-> [@[i] EXCEPT !.done = Older(@)]]]]
  /\ ended' = [a \in Addrs |-> [x \in Xids |-> Older(ended[a][x])]]
  /\ <<clients, ended>>' # <<clients, ended>>
  /\ ticks < MaxTicks /\ ticks' = ticks + 1
  /\ UNCHANGED <<sends, net, worker>>

\* What the server does for connection c by itself.
Serve(c) ==
  \/ Forward(c) \/ ReadCall(c) \/ WriteReply(c)
  \/ \E t \in InFlight(c) : Reject(t) \/ LockTransaction(t) \/ Execute(t)

Waiting(c) ==
  \/ socket[c].held # NoCall \/ pipe[c] # <<>> \/ InFlight(c) # {}
  \/ socket[c].state = "open" /\ replies[c] # <<>>

Next ==
  \/ Tick \/ Cleanup
  \/ \E c \in Conns : Connect(c) \/ Disconnect(c) \/ Serve(c) \/ \E m \in Calls : Receive(c, m)

Spec == Init /\ [][Next]_vars
-------------------------------------------------------------------------------
(***************************************************************************)
(* The tracker's books: the list of an address is strictly sorted, which    *)
(* find_transaction relies on, and the transactions in progress, the        *)
(* counter and the tasks that execute a call of that address are the same.  *)
(* A transaction trimmed or cleaned up under its task, or a client dropped  *)
(* with a call in progress, would break it.                                 *)
(***************************************************************************)
TrackerExact ==
  \A a \in Addrs :
    LET list == Client(a).list
        open == {x \in Xids : \E i \in DOMAIN list : list[i] = [xid |-> x, done |-> Running]}
    IN /\ \A i, j \in DOMAIN list : i < j => list[i].xid < list[j].xid
       /\ open = {x \in Xids : Executing(a, x) # {}}
       /\ Client(a).active = Cardinality(open)
       /\ \A x \in Xids : Cardinality(Executing(a, x)) <= 1

(***************************************************************************)
(* A call that is sent again, on the same or on a new connection from the   *)
(* address, is executed again only when the first execution ended more than *)
(* the retention period ago.  (The tracker may forget sooner once a client  *)
(* has used more xids than the trim limit.)                                 *)
(***************************************************************************)
OnceStep ==
  \A a \in Addrs, x \in Xids :
     Executing(a, x) = {} /\ Executing(a, x)' # {} /\ Cardinality(Used(a)') <= TrimLimit
       => ended[a][x] = Never \/ ended[a][x] > Retention
AtMostOnce == [][OnceStep]_vars

(***************************************************************************)
(* A connection does not stall: while a call waits in its socket loop, its  *)
(* pipe or its tasks, or a reply waits on an open connection, one of its    *)
(* steps can be taken.  A socket loop that writes to a full pipe, a reader  *)
(* without a permit and tasks that wait to reply could wait in a circle.    *)
(***************************************************************************)
NoStall == \A c \in Conns : Waiting(c) => ENABLED Serve(c)
===============================================================================
