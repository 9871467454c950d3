-------------------------- MODULE Coordination_proofs -------------------------
(***************************************************************************)
(* What daemons agree on through records that all of them write: the        *)
(* version maintenance lease excludes, and an owner whose lease expired can *)
(* do no harm to its successor, for any set of processes and on both kinds  *)
(* of object store (VersionLease); and the placements of the fleet name one *)
(* reachable primary, for any sets of nodes and placements (Placement).     *)
(***************************************************************************)
EXTENDS VersionLease, Placement, FiniteSetTheorems, TLAPS
-------------------------------------------------------------------------------

Lease == [owner : Procs \cup {Gone}, live : BOOLEAN]

(***************************************************************************)
(* The inductive invariant.  A holder under whom the lease did not expire   *)
(* has the live object; whoever may yet take it over or break it remembers  *)
(* the revision of an expired one; a holder that may renew it, and on a     *)
(* store without conditional updates every holder, has its object there.    *)
(***************************************************************************)
HolderOwns == \A p \in Procs : Holds(p) /\ p \notin lapsed => rec # None /\ rec.owner = p /\ rec.live
ReaderSawExpired == \A p \in Procs : pc[p] = "reading" /\ p \in current => rec # None /\ ~rec.live
RenewerOwns == \A p \in Procs : Holds(p) /\ p \in current => rec # None /\ rec.owner = p
PlainOwns == ~conditional => \A p \in Procs : Holds(p) => rec # None /\ rec.owner = p
OperatorSawExpired == Operator \in current => rec # None /\ ~rec.live
PlainBreak == ~conditional /\ breaking => rec # None /\ rec.owner = Gone /\ ~rec.live

IInv ==
  /\ TypeOK /\ HolderOwns /\ ReaderSawExpired /\ RenewerOwns
  /\ PlainOwns /\ OperatorSawExpired /\ PlainBreak

(***************************************************************************)
(* A lease that is there is a record.                                       *)
(***************************************************************************)
LEMMA RecordOrNone ==
  ASSUME TypeOK
  PROVE  /\ rec # None => rec \in Lease
         /\ \A r \in Lease : r # None
  BY LeaseAssumption DEF TypeOK, Lease

(***************************************************************************)
(* No lease, and nobody holds it.                                           *)
(***************************************************************************)
LEMMA InitInv == Init => IInv
  BY LeaseAssumption, Zenon DEF Init, IInv, TypeOK, HolderOwns, ReaderSawExpired, RenewerOwns,
     PlainOwns, OperatorSawExpired, PlainBreak, Holds

(***************************************************************************)
(* Whoever acquires the lease has written the object and knows its revision.*)
(***************************************************************************)
LEMMA OwnedFacts ==
  ASSUME NEW p \in Procs, Owned(p)
  PROVE  /\ rec' \in Lease /\ rec' # None /\ rec'.owner = p /\ rec'.live
         /\ current' = {p} /\ pc' = [pc EXCEPT ![p] = "held"] /\ lapsed' = lapsed \ {p}
  <1>1. rec' = [owner |-> p, live |-> TRUE]
    BY DEF Owned, Written
  <1>2. rec' \in Lease
    BY <1>1 DEF Lease
  <1>3. rec' # None
    BY <1>2, LeaseAssumption DEF Lease
  <1>4. rec'.owner = p /\ rec'.live
    BY <1>1
  <1> QED  BY <1>2, <1>3, <1>4 DEF Owned, Written, Goto

(***************************************************************************)
(* Every step keeps the invariant.                                          *)
(***************************************************************************)
LEMMA Inductive == IInv /\ [Next]_vars => IInv'
  <1> SUFFICES ASSUME IInv, [Next]_vars PROVE IInv'
    OBVIOUS
  <1> USE LeaseAssumption DEF Goto, Holds, Lease, IInv, TypeOK
  <1>0. ASSUME NEW p \in Procs, Owned(p), UNCHANGED <<conditional, breaking>>,
               rec = None \/ (conditional /\ ~rec.live)
        PROVE  IInv'
    <2>1. TypeOK'
      BY <1>0, OwnedFacts
    <2>2. HolderOwns' /\ RenewerOwns'
      BY <1>0, OwnedFacts DEF HolderOwns, RenewerOwns
    <2>3. ReaderSawExpired' /\ OperatorSawExpired'
      BY <1>0, OwnedFacts DEF ReaderSawExpired, OperatorSawExpired
    <2>4. PlainOwns' /\ PlainBreak'
      BY <1>0, OwnedFacts DEF PlainOwns, PlainBreak
    <2> QED  BY <2>1, <2>2, <2>3, <2>4
  <1>1. ASSUME NEW p \in Procs, Acquire(p) PROVE IInv'
    <2>1. CASE rec = None /\ Owned(p)
      BY <1>0, <1>1, <2>1 DEF Acquire
    <2>2. CASE ~ (rec = None /\ Owned(p))
      BY <1>1, <2>2 DEF Acquire, HolderOwns, ReaderSawExpired, RenewerOwns, PlainOwns,
                        OperatorSawExpired, PlainBreak
    <2> QED  BY <2>1, <2>2
  <1>2. ASSUME NEW p \in Procs, TakeOver(p) PROVE IInv'
    <2>1. CASE conditional /\ p \in current
      BY <1>0, <1>2, <2>1 DEF TakeOver, ReaderSawExpired
    <2>2. CASE ~ (conditional /\ p \in current)
      BY <1>2, <2>2 DEF TakeOver, Unwritten, HolderOwns, ReaderSawExpired, RenewerOwns,
                        PlainOwns, OperatorSawExpired, PlainBreak
    <2> QED  BY <2>1, <2>2
  <1>3. ASSUME NEW p \in Procs, NEW answered \in BOOLEAN, Renew(p, answered) PROVE IInv'
    <2>0. rec' = [owner |-> p, live |-> TRUE] /\ rec' \in Lease /\ rec' # None
      <3>1. rec' = [owner |-> p, live |-> TRUE]
        BY <1>3 DEF Renew
      <3>2. rec' \in Lease
        BY <3>1
      <3> QED  BY Zenon, <3>1, <3>2
    <2>1. TypeOK'
      BY <1>3, <2>0 DEF Renew
    <2>2. HolderOwns' /\ RenewerOwns'
      BY <1>3, <2>0, <2>1 DEF Renew, HolderOwns, ReaderSawExpired, RenewerOwns, PlainOwns,
                        OperatorSawExpired, PlainBreak
    <2>3. ReaderSawExpired' /\ OperatorSawExpired'
      BY <1>3, <2>0, <2>1 DEF Renew, ReaderSawExpired, RenewerOwns, OperatorSawExpired
    <2>4. PlainOwns' /\ PlainBreak'
      BY <1>3, <2>0, <2>1 DEF Renew, PlainOwns, PlainBreak
    <2> QED  BY <2>1, <2>2, <2>3, <2>4
  <1>4. ASSUME NEW p \in Procs, Close(p) PROVE IInv'
    <2>1. TypeOK'
      BY <1>4 DEF Close
    <2>2. HolderOwns' /\ RenewerOwns'
      BY <1>4, <2>1 DEF Close, HolderOwns, ReaderSawExpired, RenewerOwns, PlainOwns,
                        OperatorSawExpired, PlainBreak
    <2>3. ReaderSawExpired' /\ OperatorSawExpired'
      BY <1>4, <2>1 DEF Close, ReaderSawExpired, RenewerOwns, OperatorSawExpired
    <2>4. PlainOwns' /\ PlainBreak'
      BY <1>4, <2>1 DEF Close, PlainOwns, PlainBreak
    <2> QED  BY <2>1, <2>2, <2>3, <2>4
  <1>5. ASSUME NEW p \in Procs, Release(p) PROVE IInv'
    <2>1. TypeOK'
      BY <1>5 DEF Release, Left
    <2>2. HolderOwns' /\ RenewerOwns'
      BY <1>5, <2>1 DEF Release, Left, HolderOwns, ReaderSawExpired, RenewerOwns, PlainOwns,
                        OperatorSawExpired, PlainBreak
    <2>3. ReaderSawExpired' /\ OperatorSawExpired'
      BY <1>5, <2>1 DEF Release, Left, ReaderSawExpired, RenewerOwns, OperatorSawExpired
    <2>4. PlainOwns' /\ PlainBreak'
      BY <1>5, <2>1 DEF Release, Left, PlainOwns, PlainBreak
    <2> QED  BY <2>1, <2>2, <2>3, <2>4
  <1>6. ASSUME NEW p \in Procs, Crash(p) PROVE IInv'
    <2>1. TypeOK'
      BY <1>6 DEF Crash, Left
    <2>2. HolderOwns' /\ RenewerOwns'
      BY <1>6, <2>1 DEF Crash, Left, HolderOwns, ReaderSawExpired, RenewerOwns, PlainOwns,
                        OperatorSawExpired, PlainBreak
    <2>3. ReaderSawExpired' /\ OperatorSawExpired'
      BY <1>6, <2>1 DEF Crash, Left, ReaderSawExpired, RenewerOwns, OperatorSawExpired
    <2>4. PlainOwns' /\ PlainBreak'
      BY <1>6, <2>1 DEF Crash, Left, PlainOwns, PlainBreak
    <2> QED  BY <2>1, <2>2, <2>3, <2>4
  <1>7. ASSUME Expire PROVE IInv'
    <2>1. TypeOK'
      BY <1>7, Zenon DEF Expire
    <2>2. HolderOwns' /\ RenewerOwns'
      BY <1>7, <2>1, Zenon DEF Expire, HolderOwns, ReaderSawExpired, RenewerOwns, PlainOwns,
                        OperatorSawExpired, PlainBreak
    <2>3. ReaderSawExpired' /\ OperatorSawExpired'
      BY <1>7, <2>1 DEF Expire, ReaderSawExpired, RenewerOwns, OperatorSawExpired
    <2>4. PlainOwns' /\ PlainBreak'
      BY <1>7, <2>1, Zenon DEF Expire, PlainOwns, PlainBreak
    <2> QED  BY <2>1, <2>2, <2>3, <2>4
  <1>8. ASSUME ForceBreakRead PROVE IInv'
    <2>1. TypeOK'
      BY <1>8 DEF ForceBreakRead
    <2>2. HolderOwns' /\ RenewerOwns'
      BY <1>8, <2>1 DEF ForceBreakRead, HolderOwns, ReaderSawExpired, RenewerOwns, PlainOwns,
                        OperatorSawExpired, PlainBreak
    <2>3. ReaderSawExpired' /\ OperatorSawExpired'
      BY <1>8, <2>1 DEF ForceBreakRead, ReaderSawExpired, RenewerOwns, OperatorSawExpired
    <2>4. PlainOwns' /\ PlainBreak'
      BY <1>8, <2>1 DEF ForceBreakRead, PlainOwns, PlainBreak
    <2> QED  BY <2>1, <2>2, <2>3, <2>4
  <1>9. ASSUME ForceBreak PROVE IInv'
    <2>1. TypeOK'
      BY <1>9, Zenon DEF ForceBreak, Written, Unwritten, OperatorSawExpired
    <2>2. HolderOwns' /\ RenewerOwns'
      BY <1>9, <2>1 DEF ForceBreak, Written, Unwritten, HolderOwns, ReaderSawExpired,
                        RenewerOwns, PlainOwns, OperatorSawExpired, PlainBreak
    <2>3. ReaderSawExpired' /\ OperatorSawExpired'
      <3>1. CASE conditional /\ Operator \in current
        <4>1. rec # None /\ rec' = [rec EXCEPT !.live = FALSE] /\ current' = {Operator}
          BY <1>9, <3>1 DEF ForceBreak, Written, OperatorSawExpired
        <4>2. rec' # None /\ ~rec'.live
          BY Zenon, <4>1, RecordOrNone, <2>1
        <4> QED  BY <4>1, <4>2 DEF ReaderSawExpired, OperatorSawExpired
      <3>2. CASE ~ (conditional /\ Operator \in current)
        BY <1>9, <3>2 DEF ForceBreak, Unwritten, ReaderSawExpired, OperatorSawExpired
      <3> QED  BY <3>1, <3>2
    <2>4. PlainOwns' /\ PlainBreak'
      BY <1>9, <2>1 DEF ForceBreak, Written, Unwritten, PlainOwns, PlainBreak
    <2> QED  BY <2>1, <2>2, <2>3, <2>4
  <1>10. CASE UNCHANGED vars
    <2>1. TypeOK'
      BY <1>10 DEF vars
    <2>2. HolderOwns' /\ RenewerOwns'
      BY <1>10, <2>1 DEF vars, HolderOwns, ReaderSawExpired, RenewerOwns, PlainOwns,
                        OperatorSawExpired, PlainBreak
    <2>3. ReaderSawExpired' /\ OperatorSawExpired'
      BY <1>10, <2>1 DEF vars, ReaderSawExpired, RenewerOwns, OperatorSawExpired
    <2>4. PlainOwns' /\ PlainBreak'
      BY <1>10, <2>1 DEF vars, PlainOwns, PlainBreak
    <2> QED  BY <2>1, <2>2, <2>3, <2>4
  <1> QED  BY <1>1, <1>2, <1>3, <1>4, <1>5, <1>6, <1>7, <1>8, <1>9, <1>10 DEF Next
-----------------------------------------------------------------------------
(***************************************************************************)
(* The invariant holds in every behaviour.                                  *)
(***************************************************************************)
LEMMA Invariant == Spec => []IInv
  <1>1. Init => IInv
    BY InitInv
  <1>2. IInv /\ [Next]_vars => IInv'
    BY Inductive
  <1> QED  BY <1>1, <1>2, PTL DEF Spec

(***************************************************************************)
(* The object, the revisions remembered and the holders keep their types.   *)
(***************************************************************************)
THEOREM LeaseTypeCorrect == Spec => []TypeOK
  <1>1. IInv => TypeOK
    BY DEF IInv
  <1> QED  BY <1>1, Invariant, PTL

(***************************************************************************)
(* Acquiring, taking over, renewing, releasing and breaking the lease, in any*)
(* order and with crashes and lost answers, let two operations hold it only *)
(* if it expired under one of them.                                         *)
(***************************************************************************)
THEOREM LeaseExclusion == Spec => []LeaseExcludes
  <1>1. IInv => LeaseExcludes
    BY DEF IInv, HolderOwns, LeaseExcludes
  <1> QED  BY <1>1, Invariant, PTL

(***************************************************************************)
(* The same, with the shape of the lease object.                            *)
(***************************************************************************)
THEOREM LeaseStaysSound == Spec => []LeaseSound
  BY LeaseTypeCorrect, LeaseExclusion, PTL DEF LeaseSound

(***************************************************************************)
(* No late release, takeover or break takes a live lease from its owner.    *)
(***************************************************************************)
THEOREM StaleOwnersHarmless == Spec => StaleOwnerHarmless
  <1> DEFINE Kept == rec # None /\ rec.live =>
                       \/ rec' # None /\ rec'.owner = rec.owner
                       \/ /\ rec.owner \in Procs /\ pc'[rec.owner] # pc[rec.owner]
                          /\ rec' = None \/ rec'.owner = Gone
  <1>1. IInv /\ [Next]_vars => [Kept]_vars
    <2> SUFFICES ASSUME IInv, Next, IInv' PROVE Kept
      BY Inductive
    <2> USE LeaseAssumption DEF IInv, TypeOK, Holds, Goto, Lease
    <2>1. ASSUME NEW p \in Procs, Acquire(p) PROVE Kept
      BY <2>1 DEF Acquire
    <2>2. ASSUME NEW p \in Procs, TakeOver(p) PROVE Kept
      BY <2>2 DEF TakeOver, Unwritten, ReaderSawExpired
    <2>3. ASSUME NEW p \in Procs, NEW answered \in BOOLEAN, Renew(p, answered) PROVE Kept
      <3>1. rec' = [owner |-> p, live |-> TRUE] /\ rec.owner = p
        BY <2>3 DEF Renew, RenewerOwns
      <3>2. rec' \in Lease
        BY <3>1
      <3>3. rec' # None
        BY <3>2
      <3> QED  BY <3>1, <3>3
    <2>4. ASSUME NEW p \in Procs, Close(p) PROVE Kept
      BY <2>4 DEF Close
    <2>5. ASSUME NEW p \in Procs, Release(p) PROVE Kept
      BY <2>5 DEF Release, Left, RenewerOwns, PlainOwns
    <2>6. ASSUME NEW p \in Procs, Crash(p) PROVE Kept
      BY <2>6 DEF Crash, Left
    <2>7. ASSUME Expire PROVE Kept
      BY <2>7, Zenon DEF Expire
    <2>8. ASSUME ForceBreakRead PROVE Kept
      BY <2>8 DEF ForceBreakRead
    <2>9. ASSUME ForceBreak PROVE Kept
      BY <2>9 DEF ForceBreak, Written, Unwritten, OperatorSawExpired, PlainBreak
    <2> QED  BY <2>1, <2>2, <2>3, <2>4, <2>5, <2>6, <2>7, <2>8, <2>9 DEF Next
  <1> QED  BY <1>1, Invariant, PTL DEF Spec, StaleOwnerHarmless
-------------------------------------------------------------------------------
(***************************************************************************)
(* Placement.  The inductive invariant says of every placement what         *)
(* PlacementCoherent does, and that no drain leads back to where it began,  *)
(* which is what keeps a primary out of its standbys when a drain is        *)
(* completed and the former primary joins them.                             *)
(***************************************************************************)
Drains == [from : Nodes, to : Nodes, done : BOOLEAN]

PlaceShape(p) ==
  p = [state |-> p.state, primary |-> p.primary, standbys |-> p.standbys, drain |-> p.drain,
       gen |-> p.gen, ends |-> p.ends, replicas |-> p.replicas, pools |-> p.pools]

StandbysFit(n, s) == s \in Seq(Nodes) /\ IsInjective(s) /\ n \notin Range(s)

EndsFit(n, ends) ==
  /\ DOMAIN ends \subseteq Endpoints
  /\ \A e \in DOMAIN ends : ends[e] \in [target : Nodes \cup {Unset}, gen : Nat] /\ ends[e].target = n

PoolsFit(pools) ==
  /\ DOMAIN pools \subseteq Pools
  /\ \A s \in DOMAIN pools : pools[s] \in (SUBSET Nodes) \ {{}}

DrainFits(state, n, d) ==
  /\ d = Unset \/ (d \in Drains /\ d.from # d.to)
  /\ state = "draining" => d # Unset /\ d.from = n /\ d.to # n
  /\ (state = "active" /\ d # Unset) => d.done /\ d.to = n

PlaceOK(p) ==
  /\ PlaceShape(p)
  /\ p.state \in {"unassigned", "active", "draining"}
  /\ p.primary \in Nodes \cup {Unset} /\ p.gen \in 1..MaxGen
  /\ p.primary = Unset <=> p.state = "unassigned"
  /\ StandbysFit(p.primary, p.standbys)
  /\ DrainFits(p.state, p.primary, p.drain)
  /\ p.replicas \subseteq Nodes
  /\ PoolsFit(p.pools) /\ EndsFit(p.primary, p.ends)

NodeOK(r) == r = Unset \/ r \in [state : NodeStates, load : Loads]

FleetInv ==
  /\ node = [n \in Nodes |-> node[n]] /\ \A n \in Nodes : NodeOK(node[n])
  /\ place = [v \in Placed |-> place[v]] /\ \A v \in Placed : place[v] # Unset => PlaceOK(place[v])

LEMMA FleetInvSuffices ==
  FleetInv => PlacementCoherent
BY DEF FleetInv, NodeOK, PlaceOK, StandbysFit, EndsFit, PoolsFit, DrainFits, Drains,
       PlacementCoherent, FleetTypeOK, Coherent

LEMMA FleetBegins ==
  FleetInit => FleetInv
BY DEF FleetInit, FleetInv, NodeOK

LEMMA UnassignedOK ==
  PlaceOK(Unassigned)
<1>1. Unassigned.standbys = <<>> /\ Unassigned.primary = Unset /\ Unassigned.state = "unassigned"
      /\ Unassigned.drain = Unset /\ Unassigned.gen = 1 /\ Unassigned.replicas = {}
      /\ DOMAIN Unassigned.ends = {} /\ DOMAIN Unassigned.pools = {} /\ PlaceShape(Unassigned)
  BY Zenon DEF Unassigned, PlaceShape
<1>2. StandbysFit(Unset, <<>>)
  BY DEF StandbysFit, IsInjective, Range
<1>. QED
  BY <1>1, <1>2, FleetAssumption DEF PlaceOK, DrainFits, PoolsFit, EndsFit

\* The standbys chosen for a placement are other nodes, each once.
LEMMA StandbysChosen ==
  ASSUME NEW n \in Nodes, NEW X, n \in X, NEW s \in StandbyNodesFor(X)
  PROVE  StandbysFit(n, s)
<1>. DEFINE S == {m \in Nodes \ X : Placeable(m)}
<1>1. IsFiniteSet(S) /\ Cardinality(S) \in Nat
  BY FleetAssumption, FS_Subset, FS_CardinalityType
<1>2. s \in [1 .. Cardinality(S) -> S] /\ \A i, j \in 1 .. Cardinality(S) : i # j => s[i] # s[j]
  BY DEF StandbyNodesFor, Bijection, Injection, IsInjective
<1>3. s \in Seq(S) /\ \A i, j \in DOMAIN s : s[i] = s[j] => i = j
  BY <1>1, <1>2
<1>. QED
  BY <1>3 DEF StandbysFit, IsInjective, Range

LEMMA FormerJoins ==
  ASSUME NEW n \in Nodes, NEW s, StandbysFit(n, s), NEW from \in Nodes, from # n
  PROVE  StandbysFit(n, PlusFormer(s, from))
BY DEF StandbysFit, PlusFormer, IsInjective, Range

LEMMA EndsMoved ==
  ASSUME NEW p, PlaceOK(p), NEW n \in Nodes
  PROVE  /\ EndsFit(n, MoveStableEndpoints(p, n))
         /\ DOMAIN MoveStableEndpoints(p, n) = DOMAIN p.ends
         /\ \A e \in DOMAIN p.ends : MoveStableEndpoints(p, n)[e].gen > p.ends[e].gen
BY DEF PlaceOK, EndsFit, MoveStableEndpoints

\* A volume moved to n with standbys and a completed drain, or none.
LEMMA MovedOK ==
  ASSUME NEW p, PlaceOK(p), p.gen < MaxGen, NEW n \in Nodes, NEW s, StandbysFit(n, s),
         NEW d, d = Unset \/ (d \in Drains /\ d.from # d.to /\ d.done /\ d.to = n)
  PROVE  LET q == MovedTo(p, n, s, d) IN
         /\ PlaceOK(q) /\ q.primary = n /\ q.gen > p.gen
         /\ \A e \in DOMAIN p.ends : q.ends[e].gen > p.ends[e].gen
<1>. DEFINE q == MovedTo(p, n, s, d)
            ends == MoveStableEndpoints(p, n)
<1>1. /\ EndsFit(n, ends)
      /\ \A e \in DOMAIN p.ends : ends[e].gen > p.ends[e].gen
  BY EndsMoved
<1>. HIDE DEF ends
<1>2. q = [state |-> "active", primary |-> n, standbys |-> s, drain |-> d, gen |-> p.gen + 1,
           ends |-> ends, replicas |-> p.replicas, pools |-> p.pools]
  <2>1. PlaceShape(p)
    BY DEF PlaceOK
  <2>2. q = [p EXCEPT !.primary = n, !.state = "active", !.drain = d, !.gen = p.gen + 1,
                      !.standbys = s, !.ends = ends]
    BY <2>1 DEF MovedTo, PlaceShape, ends
  <2>3. DOMAIN q = {"state", "primary", "standbys", "drain", "gen", "ends", "replicas", "pools"}
    BY <2>1, <2>2 DEF PlaceShape
  <2>4. /\ q.state = "active" /\ q.primary = n /\ q.standbys = s /\ q.drain = d
        /\ q.gen = p.gen + 1 /\ q.ends = ends /\ q.replicas = p.replicas /\ q.pools = p.pools
    BY <2>1, <2>2 DEF PlaceShape
  <2>5. q = [f \in DOMAIN q |-> q[f]]
    BY Zenon, <2>2
  <2>. QED
    BY <2>3, <2>4, <2>5
<1>. HIDE DEF q
<1>3. PlaceShape(q)
  BY <1>2 DEF PlaceShape
<1>4. DrainFits("active", n, d)
  BY DEF DrainFits
<1>5. PlaceOK(q)
  BY <1>1, <1>2, <1>3, <1>4, FleetAssumption DEF PlaceOK
<1>. QED
  BY <1>1, <1>2, <1>5, FleetAssumption DEF q, PlaceOK

MoveOK(p, q) ==
  p.primary # q.primary =>
    /\ q.primary # Unset /\ node[q.primary].state = "healthy" /\ q.gen > p.gen
    /\ \A e \in DOMAIN p.ends : q.ends[e].gen > p.ends[e].gen

LEMMA PutKeeps ==
  ASSUME FleetInv, NEW v \in Placed, NEW q, PutPlacement(v, q), q # Unset => PlaceOK(q),
         place[v] # Unset /\ q # Unset => MoveOK(place[v], q)
  PROVE  FleetInv' /\ MoveStep
<1>1. \A w \in Placed : place'[w] = IF w = v THEN q ELSE place[w]
  BY DEF PutPlacement, FleetInv
<1>2. place' = [w \in Placed |-> place'[w]] /\ node' = node
  BY DEF PutPlacement, FleetInv
<1>3. FleetInv'
  BY <1>1, <1>2 DEF FleetInv
<1>4. MoveStep
  BY <1>1, <1>2 DEF MoveStep, MoveOK
<1>. QED BY <1>3, <1>4

LEMMA PlacementOrOK ==
  ASSUME FleetInv, NEW v \in Placed
  PROVE  PlaceOK(PlacementOr(v)) /\ (place[v] # Unset => PlacementOr(v) = place[v])
BY UnassignedOK DEF FleetInv, PlacementOr

LEMMA AssignKeeps ==
  ASSUME FleetInv, NEW v \in Placed, NEW n \in Nodes, AssignVolumeToNode(v, n)
  PROVE  FleetInv' /\ MoveStep
<1>. DEFINE p == PlacementOr(v)
<1>1. PlaceOK(p) /\ (place[v] # Unset => p = place[v])
  BY PlacementOrOK
<1>2. Placeable(n) /\ p.gen < MaxGen
  BY DEF AssignVolumeToNode
<1>3. PICK s \in StandbyNodesFor({n}) : PutPlacement(v, MovedTo(p, n, s, Unset))
  BY DEF AssignVolumeToNode
<1>4. StandbysFit(n, s)
  BY StandbysChosen
<1>. HIDE DEF p
<1>. DEFINE q == MovedTo(p, n, s, Unset)
<1>5. /\ PlaceOK(q) /\ q.primary = n /\ q.gen > p.gen
      /\ \A e \in DOMAIN p.ends : q.ends[e].gen > p.ends[e].gen
  BY <1>1, <1>2, <1>4, MovedOK
<1>. HIDE DEF q
<1>6. MoveOK(p, q)
  BY <1>2, <1>5, FleetAssumption DEF MoveOK, Placeable
<1>7. PutPlacement(v, q)
  BY <1>3 DEF q
<1>. QED
  BY <1>1, <1>5, <1>6, <1>7, PutKeeps

\* Calls that leave the primary where it is.
LEMMA FieldKeeps ==
  ASSUME FleetInv, NEW v \in Placed, NEW p, PlaceOK(p), place[v] # Unset => p = place[v],
         NEW q, PlaceOK(q), q.primary = p.primary, PutPlacement(v, q)
  PROVE  FleetInv' /\ MoveStep
<1>1. place[v] # Unset => MoveOK(place[v], q)
  BY DEF MoveOK
<1>. QED
  BY <1>1, PutKeeps

LEMMA SetEndpointKeeps ==
  ASSUME FleetInv, NEW v \in Placed, NEW e \in Endpoints, SetVolumeStableEndpoint(v, e)
  PROVE  FleetInv' /\ MoveStep
<1>. DEFINE p == PlacementOr(v)
            gen == IF e \in DOMAIN p.ends THEN p.ends[e].gen + 1 ELSE 1
            ends == [d \in DOMAIN p.ends \cup {e} |->
                       IF d = e THEN [target |-> p.primary, gen |-> gen] ELSE p.ends[d]]
            q == [p EXCEPT !.ends = ends]
<1>1. PlaceOK(p) /\ (place[v] # Unset => p = place[v])
  BY PlacementOrOK
<1>2. PutPlacement(v, q)
  BY Zenon DEF SetVolumeStableEndpoint
<1>. HIDE DEF p
<1>3. EndsFit(p.primary, ends)
  BY <1>1 DEF PlaceOK, EndsFit
<1>. HIDE DEF ends
<1>4. q = [state |-> p.state, primary |-> p.primary, standbys |-> p.standbys, drain |-> p.drain,
           gen |-> p.gen, ends |-> ends, replicas |-> p.replicas, pools |-> p.pools]
  BY <1>1 DEF PlaceOK, PlaceShape
<1>. HIDE DEF q
<1>5. PlaceOK(q) /\ q.primary = p.primary
  BY <1>1, <1>3, <1>4 DEF PlaceOK, PlaceShape
<1>. QED
  BY <1>1, <1>2, <1>5, FieldKeeps

LEMMA ReplicasKeep ==
  ASSUME FleetInv, NEW v \in Placed, NEW p, PlaceOK(p), place[v] # Unset => p = place[v],
         NEW R \in SUBSET Nodes, PutPlacement(v, [p EXCEPT !.replicas = R])
  PROVE  FleetInv' /\ MoveStep
<1>. DEFINE q == [p EXCEPT !.replicas = R]
<1>1. q = [state |-> p.state, primary |-> p.primary, standbys |-> p.standbys, drain |-> p.drain,
           gen |-> p.gen, ends |-> p.ends, replicas |-> R, pools |-> p.pools]
  BY DEF PlaceOK, PlaceShape
<1>. HIDE DEF q
<1>2. PlaceOK(q) /\ q.primary = p.primary
  BY <1>1 DEF PlaceOK, PlaceShape
<1>3. PutPlacement(v, q)
  BY DEF q
<1>. QED
  BY <1>2, <1>3, FieldKeeps

LEMMA PoolsKeep ==
  ASSUME FleetInv, NEW v \in Placed, NEW p, PlaceOK(p), place[v] # Unset => p = place[v],
         NEW P, PoolsFit(P), PutPlacement(v, [p EXCEPT !.pools = P])
  PROVE  FleetInv' /\ MoveStep
<1>. DEFINE q == [p EXCEPT !.pools = P]
<1>1. q = [state |-> p.state, primary |-> p.primary, standbys |-> p.standbys, drain |-> p.drain,
           gen |-> p.gen, ends |-> p.ends, replicas |-> p.replicas, pools |-> P]
  BY DEF PlaceOK, PlaceShape
<1>. HIDE DEF q
<1>2. PlaceOK(q) /\ q.primary = p.primary
  BY <1>1 DEF PlaceOK, PlaceShape
<1>3. PutPlacement(v, q)
  BY DEF q
<1>. QED
  BY <1>2, <1>3, FieldKeeps

LEMMA ReadersKeep ==
  ASSUME FleetInv, NEW v \in Placed, NEW n \in Nodes,
         AddReadReplica(v, n) \/ RemoveReadReplica(v, n)
  PROVE  FleetInv' /\ MoveStep
<1>1. CASE AddReadReplica(v, n)
  <2>. DEFINE p == PlacementOr(v)
  <2>1. PlaceOK(p) /\ (place[v] # Unset => p = place[v])
    BY PlacementOrOK
  <2>2. PutPlacement(v, [p EXCEPT !.replicas = p.replicas \cup {n}])
    BY <1>1 DEF AddReadReplica
  <2>3. p.replicas \cup {n} \in SUBSET Nodes
    BY <2>1 DEF PlaceOK
  <2>. QED
    BY <2>1, <2>2, <2>3, ReplicasKeep
<1>2. CASE RemoveReadReplica(v, n)
  <2>1. PlaceOK(place[v])
    BY <1>2 DEF FleetInv, RemoveReadReplica
  <2>2. PutPlacement(v, [place[v] EXCEPT !.replicas = place[v].replicas \ {n}])
    BY <1>2 DEF RemoveReadReplica
  <2>3. place[v].replicas \ {n} \in SUBSET Nodes
    BY <2>1 DEF PlaceOK
  <2>. QED
    BY <2>1, <2>2, <2>3, ReplicasKeep
<1>. QED
  BY <1>1, <1>2

LEMMA ServingKeeps ==
  ASSUME FleetInv, NEW v \in Placed, NEW name \in Pools,
         \/ RemoveSnapshotServingPool(v, name)
         \/ \E nodes \in SUBSET Nodes : SetSnapshotServingPool(v, name, nodes)
  PROVE  FleetInv' /\ MoveStep
<1>1. ASSUME NEW nodes \in SUBSET Nodes, SetSnapshotServingPool(v, name, nodes)
      PROVE  FleetInv' /\ MoveStep
  <2>. DEFINE p == PlacementOr(v)
              P == [s \in DOMAIN p.pools \cup {name} |-> IF s = name THEN nodes ELSE p.pools[s]]
  <2>1. PlaceOK(p) /\ (place[v] # Unset => p = place[v])
    BY PlacementOrOK
  <2>2. PutPlacement(v, [p EXCEPT !.pools = P])
    BY <1>1 DEF SetSnapshotServingPool
  <2>3. nodes # {} /\ PoolsFit(p.pools)
    BY <1>1, <2>1 DEF PlaceOK, SetSnapshotServingPool
  <2>4. PoolsFit(P)
    <3>. HIDE DEF p
    <3>1. DOMAIN P \subseteq Pools
      BY <2>3 DEF PoolsFit
    <3>2. ASSUME NEW s \in DOMAIN P
          PROVE  P[s] \in (SUBSET Nodes) \ {{}}
      <4>1. CASE s = name
        BY <1>1, <2>3, <4>1
      <4>2. CASE s # name
        BY <2>3, <4>2 DEF PoolsFit
      <4>. QED
        BY <4>1, <4>2
    <3>. QED
      BY <3>1, <3>2 DEF PoolsFit
  <2>. HIDE DEF P
  <2>. QED
    BY <2>1, <2>2, <2>4, PoolsKeep
<1>2. CASE RemoveSnapshotServingPool(v, name)
  <2>. DEFINE P == [s \in DOMAIN place[v].pools \ {name} |-> place[v].pools[s]]
  <2>1. PlaceOK(place[v])
    BY <1>2 DEF FleetInv, RemoveSnapshotServingPool
  <2>2. PutPlacement(v, [place[v] EXCEPT !.pools = P])
    BY <1>2, Zenon DEF RemoveSnapshotServingPool
  <2>3. PoolsFit(P)
    BY <2>1 DEF PlaceOK, PoolsFit
  <2>. HIDE DEF P
  <2>. QED
    BY <2>1, <2>2, <2>3, PoolsKeep
<1>. QED
  BY <1>1, <1>2

LEMMA StartDrainKeeps ==
  ASSUME FleetInv, NEW v \in Placed, NEW target \in Nodes \cup {Unset}, StartVolumeDrain(v, target)
  PROVE  FleetInv' /\ MoveStep
<1>. DEFINE p == place[v]
<1>1. PlaceOK(p) /\ p.primary # Unset
  BY DEF StartVolumeDrain, FleetInv
<1>2. PICK to \in IF target = Unset THEN LowLoadNodes({p.primary})
                  ELSE {n \in {target} \ {p.primary} : Placeable(n)} :
        PutPlacement(v, [p EXCEPT !.state = "draining",
                                  !.drain = [from |-> p.primary, to |-> to, done |-> FALSE]])
  BY Zenon DEF StartVolumeDrain
<1>3. to \in Nodes /\ to # p.primary
  BY <1>2 DEF LowLoadNodes
<1>. DEFINE d == [from |-> p.primary, to |-> to, done |-> FALSE]
            q == [p EXCEPT !.state = "draining", !.drain = d]
<1>4. d \in Drains /\ d.from = p.primary /\ d.to = to /\ d # Unset
  <2>1. p.primary \in Nodes
    BY <1>1 DEF PlaceOK
  <2>2. d \in Drains /\ d.from = p.primary /\ d.to = to
    BY <1>3, <2>1 DEF Drains
  <2>. QED
    BY <2>2, FleetAssumption, Zenon DEF Drains
<1>. HIDE DEF d
<1>5. q = [state |-> "draining", primary |-> p.primary, standbys |-> p.standbys, drain |-> d,
           gen |-> p.gen, ends |-> p.ends, replicas |-> p.replicas, pools |-> p.pools]
  <2>1. PlaceShape(p)
    BY <1>1 DEF PlaceOK
  <2>. HIDE DEF p
  <2>2. DOMAIN q = {"state", "primary", "standbys", "drain", "gen", "ends", "replicas", "pools"}
    BY <2>1 DEF PlaceShape
  <2>3. /\ q.state = "draining" /\ q.primary = p.primary /\ q.standbys = p.standbys /\ q.drain = d
        /\ q.gen = p.gen /\ q.ends = p.ends /\ q.replicas = p.replicas /\ q.pools = p.pools
    BY <2>1 DEF PlaceShape
  <2>4. q = [f \in DOMAIN q |-> q[f]]
    BY Zenon
  <2>. HIDE DEF q
  <2>. QED
    BY <2>2, <2>3, <2>4
<1>6. PutPlacement(v, q)
  BY <1>2 DEF d
<1>. HIDE DEF q
<1>7. DrainFits("draining", p.primary, d)
  BY <1>3, <1>4, Zenon DEF DrainFits
<1>8. PlaceOK(q) /\ q.primary = p.primary
  BY <1>1, <1>5, <1>7 DEF PlaceOK, PlaceShape
<1>. QED
  BY <1>1, <1>6, <1>8, FieldKeeps

LEMMA CompleteDrainKeeps ==
  ASSUME FleetInv, NEW v \in Placed, CompleteVolumeDrain(v)
  PROVE  FleetInv' /\ MoveStep
<1>. DEFINE p == place[v]
            d == p.drain
            e == [d EXCEPT !.done = TRUE]
<1>1. p # Unset /\ PlaceOK(p) /\ d # Unset /\ Placeable(d.to) /\ p.gen < MaxGen
  BY DEF CompleteVolumeDrain, DrainTargetReady, FleetInv
<1>2. PICK s \in StandbyNodesFor({d.to}) : PutPlacement(v, MovedTo(p, d.to, PlusFormer(s, d.from), e))
  BY Zenon DEF CompleteVolumeDrain
<1>3. d \in Drains /\ d.from # d.to
  BY <1>1 DEF PlaceOK, DrainFits
<1>4. d.from \in Nodes /\ d.to \in Nodes
  BY <1>3 DEF Drains
<1>5. e \in Drains /\ e.from # e.to /\ e.done /\ e.to = d.to
  BY <1>3, Zenon DEF Drains
<1>6. StandbysFit(d.to, PlusFormer(s, d.from))
  BY Zenon, <1>3, <1>4, StandbysChosen, FormerJoins
<1>. DEFINE n == d.to
            q == MovedTo(p, n, PlusFormer(s, d.from), e)
<1>. HIDE DEF e
<1>7. /\ PlaceOK(q) /\ q.primary = n /\ q.gen > p.gen
      /\ \A x \in DOMAIN p.ends : q.ends[x].gen > p.ends[x].gen
  BY Zenon, <1>1, <1>4, <1>5, <1>6, MovedOK
<1>8. PutPlacement(v, q)
  BY Zenon, <1>2
<1>. HIDE DEF q
<1>9. MoveOK(p, q)
  BY <1>1, <1>4, <1>7, FleetAssumption DEF MoveOK, Placeable
<1>. QED
  BY <1>7, <1>8, <1>9, PutKeeps

LEMMA PromoteKeeps ==
  ASSUME FleetInv, NEW v \in Placed, NEW failed \in Nodes, NEW promoted \in Nodes \cup {Unset},
         PromoteStandbyOnFailure(v, failed, promoted)
  PROVE  FleetInv' /\ MoveStep
<1>. DEFINE p == place[v]
<1>1. p # Unset /\ PlaceOK(p)
  BY DEF PromoteStandbyOnFailure, FleetInv
<1>2. /\ node' = [n \in Nodes |-> node'[n]] /\ (\A n \in Nodes : NodeOK(node'[n]))
      /\ \A n \in Nodes \ {failed} : node'[n] = node[n]
  BY DEF PromoteStandbyOnFailure, FleetInv, NodeOK, NodeStates
<1>3. CASE promoted = Unset
  <2>1. UNCHANGED place
    BY <1>3 DEF PromoteStandbyOnFailure
  <2>2. FleetInv'
    BY <1>2, <2>1 DEF FleetInv
  <2>. QED
    BY <2>1, <2>2 DEF MoveStep
<1>4. CASE promoted # Unset
  <2>1. p.gen < MaxGen /\ promoted # failed /\ Placeable(promoted) /\ promoted \in Nodes
    BY <1>4 DEF PromoteStandbyOnFailure
  <2>2. PICK s \in StandbyNodesFor({promoted, failed}) :
          place' = [place EXCEPT ![v] = MovedTo(p, promoted, s, Unset)]
    BY <1>4 DEF PromoteStandbyOnFailure
  <2>3. StandbysFit(promoted, s)
    BY Zenon, <2>1, StandbysChosen
  <2>. DEFINE q == MovedTo(p, promoted, s, Unset)
  <2>4. /\ PlaceOK(q) /\ q.primary = promoted /\ q.gen > p.gen
        /\ \A e \in DOMAIN p.ends : q.ends[e].gen > p.ends[e].gen
    BY <1>1, <2>1, <2>3, MovedOK
  <2>. HIDE DEF q
  <2>5. \A w \in Placed : place'[w] = IF w = v THEN q ELSE place[w]
    BY <2>2 DEF FleetInv, q
  <2>6. place' = [w \in Placed |-> place'[w]]
    BY <2>2 DEF FleetInv
  <2>7. FleetInv'
    BY <1>2, <2>4, <2>5, <2>6 DEF FleetInv
  <2>8. node'[promoted].state = "healthy"
    BY <1>2, <2>1 DEF Placeable
  <2>9. MoveStep
    BY <1>1, <2>1, <2>4, <2>5, <2>8, FleetAssumption DEF MoveStep
  <2>. QED
    BY <2>7, <2>9
<1>. QED
  BY <1>3, <1>4

LEMMA NodesKeep ==
  ASSUME FleetInv, UNCHANGED place, NEW n \in Nodes, NEW r \in [state : NodeStates, load : Loads],
         node' = [node EXCEPT ![n] = r]
  PROVE  FleetInv' /\ MoveStep
<1>1. FleetInv'
  BY DEF FleetInv, NodeOK
<1>. QED
  BY <1>1 DEF MoveStep

LEMMA FleetKeeps ==
  ASSUME FleetInv, [FleetNext]_fleetvars
  PROVE  FleetInv' /\ MoveStep
<1>1. CASE UNCHANGED fleetvars
  <2>1. FleetInv'
    BY <1>1 DEF FleetInv, fleetvars
  <2>. QED
    BY <1>1, <2>1 DEF MoveStep, fleetvars
<1>2. ASSUME NEW n \in Nodes, RegisterDaemonNode(n)
      PROVE  FleetInv' /\ MoveStep
  <2>1. [state |-> "healthy", load |-> 0] \in [state : NodeStates, load : Loads]
    BY FleetAssumption DEF NodeStates
  <2>. QED
    BY <1>2, <2>1, NodesKeep, Zenon DEF RegisterDaemonNode
<1>3. ASSUME NEW n \in Nodes, MarkStaleDaemonNode(n)
      PROVE  FleetInv' /\ MoveStep
  <2>. DEFINE r == [node[n] EXCEPT !.state = "unhealthy"]
  <2>1. r \in [state : NodeStates, load : Loads]
    BY <1>3 DEF MarkStaleDaemonNode, FleetInv, NodeOK, NodeStates
  <2>2. node' = [node EXCEPT ![n] = r] /\ UNCHANGED place
    BY <1>3 DEF MarkStaleDaemonNode
  <2>. QED
    BY Zenon, <2>1, <2>2, NodesKeep
<1>4. ASSUME NEW n \in Nodes, NEW s \in Reported, NEW l \in Loads, HeartbeatDaemonNode(n, s, l)
      PROVE  FleetInv' /\ MoveStep
  <2>1. [state |-> s, load |-> l] \in [state : NodeStates, load : Loads]
    BY FleetAssumption DEF NodeStates
  <2>. QED
    BY <1>4, <2>1, NodesKeep, Zenon DEF HeartbeatDaemonNode
<1>5. ASSUME NEW v \in Placed, EnsureVolumePlacement(v) \/ AssignVolumeToLowLoadNode(v)
      PROVE  FleetInv' /\ MoveStep
  <2>1. PICK n \in LowLoadNodes({}) : AssignVolumeToNode(v, n)
    BY <1>5 DEF EnsureVolumePlacement, AssignVolumeToLowLoadNode
  <2>2. n \in Nodes
    BY DEF LowLoadNodes
  <2>. QED
    BY <2>1, <2>2, AssignKeeps
<1>6. ASSUME NEW v \in Placed, DeleteVolumePlacement(v)
      PROVE  FleetInv' /\ MoveStep
  BY <1>6, PutKeeps DEF DeleteVolumePlacement
<1>. QED
  BY <1>1, <1>2, <1>3, <1>4, <1>5, <1>6, AssignKeeps, ReadersKeep, PromoteKeeps, StartDrainKeeps,
     CompleteDrainKeeps, SetEndpointKeeps, ServingKeeps DEF FleetNext

(***************************************************************************)
(* Every stable endpoint leads to the primary, which is not its own         *)
(* standby, and a drain leads from it to another node, or to it once        *)
(* completed: for any number of nodes, volumes, endpoints and pools, and    *)
(* after any order of assignments, promotions, failures and drains          *)
(* (control.rs).                                                            *)
(***************************************************************************)
THEOREM ClientsReachPrimary == FleetSpec => []PlacementCoherent
<1>1. FleetInv /\ [FleetNext]_fleetvars => FleetInv'
  BY FleetKeeps
<1>. QED
  BY <1>1, FleetBegins, FleetInvSuffices, PTL DEF FleetSpec

(***************************************************************************)
(* A volume moves only to a node that is healthy at that moment, and under  *)
(* a new generation of the placement and of each of its endpoints, whoever  *)
(* failed, was drained or reported since (control.rs).                      *)
(***************************************************************************)
THEOREM MovesToHealthy == FleetSpec => MovesAreToHealthy
<1>1. FleetInv /\ [FleetNext]_fleetvars => FleetInv' /\ MoveStep
  BY FleetKeeps
<1>. QED
  BY <1>1, FleetBegins, PTL DEF FleetSpec, MovesAreToHealthy
===============================================================================
