------------------------------ MODULE Placement ------------------------------
(***************************************************************************)
(* The fleet registry of the control plane: daemon nodes, and for each      *)
(* volume its primary, standbys, drain, stable endpoints, read replicas and *)
(* snapshot serving pools (slatefs-core/src/control.rs).                    *)
(*                                                                          *)
(* A call runs in one session of the control database and a second session  *)
(* fences the first, so a call that writes one record is one step.          *)
(* promote_standby_on_failure writes two and may stop after the first.      *)
(* Nodes are numbers: ids break ties between equal loads.                   *)
(***************************************************************************)
EXTENDS Integers, Sequences, FiniteSets, Functions

CONSTANTS Nodes,       \* a set of integers
          Placed,      \* the volumes
          Endpoints, Pools,
          Reported,    \* states a heartbeat may report
          Loads,       \* open_writable_volumes a heartbeat may report
          MaxGen,      \* bound: generations of a placement
          Unset

ASSUME FleetAssumption ==
  /\ IsFiniteSet(Nodes) /\ Nodes \subseteq Int
  /\ MaxGen \in Nat \ {0} /\ 0 \in Loads
  /\ Reported \subseteq {"healthy", "draining", "unhealthy", "offline"}
  /\ Unset \notin Nodes
  /\ Unset \notin [from : Nodes, to : Nodes, done : BOOLEAN]

VARIABLES node,     \* per node: Unset or [state, load]
          place     \* per volume: Unset or its placement record

fleetvars == <<node, place>>

Unassigned ==
  [state |-> "unassigned", primary |-> Unset, standbys |-> <<>>, drain |-> Unset, gen |-> 1,
   ends |-> [e \in {} |-> Unset], replicas |-> {}, pools |-> [p \in {} |-> {}]]

NodeStates == {"healthy", "draining", "unhealthy", "offline"}

(***************************************************************************)
(* Type invariant; a placement has a primary unless it is unassigned.       *)
(***************************************************************************)
FleetTypeOK ==
  /\ \A n \in Nodes : node[n] = Unset \/ node[n] \in [state : NodeStates, load : Loads]
  /\ \A v \in Placed : place[v] # Unset =>
       LET p == place[v] IN
       /\ p.state \in {"unassigned", "active", "draining"}
       /\ p.primary \in Nodes \cup {Unset} /\ p.gen \in 1..MaxGen
       /\ p.primary = Unset <=> p.state = "unassigned"
       /\ p.standbys \in Seq(Nodes) /\ IsInjective(p.standbys)
       /\ p.drain = Unset \/ p.drain \in [from : Nodes, to : Nodes, done : BOOLEAN]
       /\ p.replicas \subseteq Nodes
       /\ DOMAIN p.pools \subseteq Pools /\ DOMAIN p.ends \subseteq Endpoints
       /\ \A s \in DOMAIN p.pools : p.pools[s] \in (SUBSET Nodes) \ {{}}
       /\ \A e \in DOMAIN p.ends : p.ends[e] \in [target : Nodes \cup {Unset}, gen : Nat]

FleetInit == node = [n \in Nodes |-> Unset] /\ place = [v \in Placed |-> Unset]
-------------------------------------------------------------------------------
(***************************************************************************)
(* Choosing nodes.                                                          *)
(***************************************************************************)
Placeable(n) == node[n] # Unset /\ node[n].state = "healthy"

PrimaryAssignments(n) ==
  Cardinality({v \in Placed : place[v] # Unset /\ place[v].state # "unassigned"
                                 /\ place[v].primary = n})

NodeLoadScore(n) ==
  IF PrimaryAssignments(n) > node[n].load THEN PrimaryAssignments(n) ELSE node[n].load

Before(m, n) ==
  NodeLoadScore(m) < NodeLoadScore(n) \/ (NodeLoadScore(m) = NodeLoadScore(n) /\ m < n)

\* choose_low_load_node: none when no healthy node is left.
LowLoadNodes(excluded) ==
  LET candidates == {n \in Nodes \ excluded : Placeable(n)}
  IN  {n \in candidates : \A m \in candidates \ {n} : Before(n, m)}

\* standby_nodes_for: the healthy nodes in order of load.
StandbyNodesFor(excluded) ==
  LET healthy == {n \in Nodes \ excluded : Placeable(n)}
  IN  {s \in Bijection(1 .. Cardinality(healthy), healthy) :
         \A i, j \in DOMAIN s : i < j => Before(s[i], s[j])}

FirstHealthyStandby(p) ==
  LET healthy == {i \in DOMAIN p.standbys : Placeable(p.standbys[i])}
  IN  {p.standbys[i] : i \in {j \in healthy : \A k \in healthy : j <= k}}
-------------------------------------------------------------------------------
(***************************************************************************)
(* Nodes.                                                                   *)
(***************************************************************************)
RegisterDaemonNode(n) ==
  /\ node[n] = Unset
  /\ node' = [node EXCEPT ![n] = [state |-> "healthy", load |-> 0]]
  /\ UNCHANGED place

HeartbeatDaemonNode(n, state, load) ==
  /\ node' = [node EXCEPT ![n] = [state |-> state, load |-> load]]
  /\ UNCHANGED place

\* mark_stale_daemon_nodes, which writes one record after another.
MarkStaleDaemonNode(n) ==
  /\ node[n] # Unset /\ node[n].state \in {"healthy", "draining"}
  /\ node' = [node EXCEPT ![n].state = "unhealthy"]
  /\ UNCHANGED place

(***************************************************************************)
(* Placements.                                                              *)
(***************************************************************************)
PutPlacement(v, p) == place' = [place EXCEPT ![v] = p] /\ UNCHANGED node

PlacementOr(v) == IF place[v] = Unset THEN Unassigned ELSE place[v]

\* Mutant: endpoints stay where they are.
MoveStableEndpoints_Not(p, n) == p.ends

MoveStableEndpoints(p, n) == [e \in DOMAIN p.ends |-> [target |-> n, gen |-> p.ends[e].gen + 1]]

\* A new primary under the next generation, its standbys and the endpoints.
MovedTo(p, n, standbys, drain) ==
  [p EXCEPT !.primary = n, !.state = "active", !.drain = drain, !.gen = @ + 1,
            !.standbys = standbys, !.ends = MoveStableEndpoints(p, n)]

AssignVolumeToNode(v, n) ==
  /\ Placeable(n) /\ PlacementOr(v).gen < MaxGen
  /\ \E standbys \in StandbyNodesFor({n}) :
       PutPlacement(v, MovedTo(PlacementOr(v), n, standbys, Unset))

AssignVolumeToLowLoadNode(v) == \E n \in LowLoadNodes({}) : AssignVolumeToNode(v, n)

EnsureVolumePlacement(v) == place[v] = Unset /\ AssignVolumeToLowLoadNode(v)

SetVolumeStableEndpoint(v, e) ==
  LET p == PlacementOr(v)
      gen == IF e \in DOMAIN p.ends THEN p.ends[e].gen + 1 ELSE 1
  IN  /\ gen < MaxGen
      /\ PutPlacement(v, [p EXCEPT !.ends = [d \in DOMAIN @ \cup {e} |->
                            IF d = e THEN [target |-> p.primary, gen |-> gen] ELSE @[d]]])

\* The failed node is marked first: promoted = Unset when nothing follows.
PromoteStandbyOnFailure(v, failed, promoted) ==
  LET p == place[v]
      marked == [node EXCEPT ![failed] = IF @ = Unset THEN Unset ELSE [@ EXCEPT !.state = "unhealthy"]]
  IN  /\ p # Unset /\ p.primary = failed
      /\ node' = marked
      /\ IF promoted = Unset THEN UNCHANGED place
         ELSE /\ p.gen < MaxGen
              /\ promoted # failed /\ Placeable(promoted)
              /\ LET live == FirstHealthyStandby(p) \ {failed}
                 IN  promoted \in IF live = {} THEN LowLoadNodes({failed}) ELSE live
              /\ \E standbys \in StandbyNodesFor({promoted, failed}) :
                   place' = [place EXCEPT ![v] = MovedTo(p, promoted, standbys, Unset)]

StartVolumeDrain(v, target) ==
  LET p == place[v] IN
  /\ p # Unset /\ p.primary # Unset
  /\ \E to \in IF target = Unset THEN LowLoadNodes({p.primary})
               ELSE {n \in {target} \ {p.primary} : Placeable(n)} :
       PutPlacement(v, [p EXCEPT !.state = "draining",
                                 !.drain = [from |-> p.primary, to |-> to, done |-> FALSE]])

\* Mutant: the target's health is what it was when the drain started.
DrainTargetReady_Assumed(n) == TRUE

DrainTargetReady(n) == Placeable(n)

PlusFormer(standbys, from) == IF from \in Range(standbys) THEN standbys ELSE Append(standbys, from)

CompleteVolumeDrain(v) ==
  LET p == place[v]
      d == p.drain
  IN  /\ p # Unset /\ d # Unset
      /\ DrainTargetReady(d.to) /\ p.gen < MaxGen
      /\ \E standbys \in StandbyNodesFor({d.to}) :
           PutPlacement(v, MovedTo(p, d.to, PlusFormer(standbys, d.from), [d EXCEPT !.done = TRUE]))

AddReadReplica(v, n) ==
  /\ Placeable(n)
  /\ PutPlacement(v, [PlacementOr(v) EXCEPT !.replicas = @ \cup {n}])

RemoveReadReplica(v, n) ==
  /\ place[v] # Unset
  /\ PutPlacement(v, [place[v] EXCEPT !.replicas = @ \ {n}])

SetSnapshotServingPool(v, name, nodes) ==
  /\ nodes # {} /\ \A n \in nodes : Placeable(n)
  /\ PutPlacement(v, [PlacementOr(v) EXCEPT !.pools = [p \in DOMAIN @ \cup {name} |->
                        IF p = name THEN nodes ELSE @[p]]])

RemoveSnapshotServingPool(v, name) ==
  /\ place[v] # Unset
  /\ PutPlacement(v, [place[v] EXCEPT !.pools = [p \in DOMAIN @ \ {name} |-> @[p]]])

DeleteVolumePlacement(v) == place[v] # Unset /\ PutPlacement(v, Unset)
-------------------------------------------------------------------------------
FleetNext ==
  \/ \E n \in Nodes :
       \/ RegisterDaemonNode(n) \/ MarkStaleDaemonNode(n)
       \/ \E s \in Reported, l \in Loads : HeartbeatDaemonNode(n, s, l)
  \/ \E v \in Placed :
       \/ EnsureVolumePlacement(v) \/ AssignVolumeToLowLoadNode(v)
       \/ CompleteVolumeDrain(v) \/ DeleteVolumePlacement(v)
       \/ \E n \in Nodes : AssignVolumeToNode(v, n) \/ AddReadReplica(v, n) \/ RemoveReadReplica(v, n)
       \/ \E n \in Nodes, m \in Nodes \cup {Unset} : PromoteStandbyOnFailure(v, n, m)
       \/ \E n \in Nodes \cup {Unset} : StartVolumeDrain(v, n)
       \/ \E e \in Endpoints : SetVolumeStableEndpoint(v, e)
       \/ \E p \in Pools : \/ RemoveSnapshotServingPool(v, p)
                           \/ \E s \in SUBSET Nodes : SetSnapshotServingPool(v, p, s)

FleetSpec == FleetInit /\ [][FleetNext]_fleetvars
-------------------------------------------------------------------------------
(***************************************************************************)
(* Clients reach the primary: every stable endpoint points at it, it is not *)
(* its own standby, and a drain leads from it to another node, or to it     *)
(* once the drain is completed; after any order of assignments, promotions  *)
(* and repeated drains.                                                     *)
(***************************************************************************)
Coherent ==
  \A v \in Placed : place[v] # Unset =>
    LET p == place[v] IN
    /\ \A e \in DOMAIN p.ends : p.ends[e].target = p.primary
    /\ p.primary \notin Range(p.standbys)
    /\ p.state = "draining" => p.drain # Unset /\ p.drain.from = p.primary /\ p.drain.to # p.primary
    /\ (p.state = "active" /\ p.drain # Unset) => p.drain.done /\ p.drain.to = p.primary
PlacementCoherent == FleetTypeOK /\ Coherent

(***************************************************************************)
(* A volume moves only to a node that is healthy at that moment, and every  *)
(* move has a new generation, for the placement and for each endpoint.      *)
(***************************************************************************)
MoveStep ==
  \A v \in Placed :
    LET p == place[v]
        q == place'[v]
    IN  p # Unset /\ q # Unset /\ p.primary # q.primary =>
          /\ q.primary # Unset /\ node'[q.primary].state = "healthy"
          /\ q.gen > p.gen
          /\ \A e \in DOMAIN p.ends : q.ends[e].gen > p.ends[e].gen
MovesAreToHealthy == [][MoveStep]_fleetvars
===============================================================================
