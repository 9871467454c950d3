------------------------ MODULE VolumeLifecycle_proofs ------------------------
(***************************************************************************)
(* The life of a tenant's volumes, for any sets of volumes, snapshots and  *)
(* administrators: an active volume can be opened, and a deleted one never  *)
(* comes back.                                                              *)
(***************************************************************************)
EXTENDS VolumeLifecycle, FiniteSetTheorems, TLAPS
-------------------------------------------------------------------------------
(***************************************************************************)
(* The inductive invariant: a clone's parent is active or                   *)
(* shredded, and a database that shares another's data is that of its       *)
(* child; while the tenant lives, keys are current, active volumes are      *)
(* built and nothing in use has lost what it shares; and every session has  *)
(* the rest of a script left whose steps are safe: those that write the     *)
(* control database as long as the session may still write it, those that   *)
(* delete objects always.                                                   *)
(***************************************************************************)
Tenants == [state : {"active", "suspended", "deleting"}, kek : 0..MaxKek]
Dropped == [state |-> "deleting", kek |-> 0]
Living == tenant.state # "deleting"
InUse(v) == State(v) \in {"creating", "active"}

LifeTypes ==
  /\ TypeOK
  /\ vol = [v \in Volumes |-> vol[v]] /\ obj = [v \in Volumes |-> obj[v]]
  /\ session = [a \in Admins |-> session[a]]
  /\ tenant.state = "deleting" <=> tenant.kek = 0

Family ==
  /\ \A c \in Volumes : vol[c] # None /\ vol[c].parent # None =>
       vol[c].parent # c /\ State(vol[c].parent) \in {"active", "deleting"}
  /\ \A v \in Volumes : obj[v] # None /\ obj[v].from # None =>
       vol[v] # None /\ vol[v].parent = obj[v].from

Built(v) == obj[v] # None /\ obj[v].fsid = v

Sound(v) ==
  /\ InUse(v) => vol[v].kek = tenant.kek
  /\ State(v) = "active" => Built(v)
  /\ InUse(v) /\ obj[v] # None /\ obj[v].from # None => obj[obj[v].from] # None

Core == LifeTypes /\ Family /\ (Living => \A v \in Volumes : Sound(v))

MayAdd(v, rec) ==
  /\ State(v) = "none" /\ tenant.state = "active"
  /\ rec.state = "creating" /\ rec.kek = tenant.kek
  /\ rec.parent # None => rec.parent # v /\ State(rec.parent) = "active"
MayFinish(v) == tenant.state = "active" /\ State(v) = "creating"
ChildOf(v, source) == vol[v] # None /\ vol[v].parent = source
Doomed(v) == State(v) = "deleting" /\ ActiveClones(v) = {}

\* What is left of a script.
Adding(a, v, rec) ==
  session[a] = <<Put(v, rec), Mkfs(v), Activate(v)>> /\ (writer = a => MayAdd(v, rec))
Making(a, v) ==
  session[a] = <<Mkfs(v), Activate(v)>> /\ (writer = a => MayFinish(v))
Finishing(a, v) ==
  session[a] = <<Activate(v)>> /\ (writer = a => MayFinish(v) /\ Built(v))
Cloning(a, v, source, snap, rec) ==
  /\ session[a] = <<Put(v, rec), Build(v, source, snap), Pins(v), Rewrite(v, source), Activate(v)>>
  /\ rec.parent = source /\ (writer = a => MayAdd(v, rec))
Restarting(a, v, source, snap) ==
  /\ session[a] = <<Wipe(v), Build(v, source, snap), Pins(v), Rewrite(v, source), Activate(v)>>
  /\ writer = a /\ ChildOf(v, source) /\ MayFinish(v)
Building(a, v, source, snap) ==
  /\ session[a] = <<Build(v, source, snap), Pins(v), Rewrite(v, source), Activate(v)>>
  /\ ChildOf(v, source) /\ (writer = a => MayFinish(v))
Pinning(a, v, source) ==
  session[a] = <<Pins(v), Rewrite(v, source), Activate(v)>> /\ (writer = a => MayFinish(v))
Rewriting(a, v, source) ==
  session[a] = <<Rewrite(v, source), Activate(v)>> /\ (writer = a => MayFinish(v))
Shredding(a, v, rec) ==
  /\ session[a] = <<Put(v, rec), Clear(v), Wipe(v)>> /\ vol[v] # None
  /\ writer = a => rec = Shredded(v) /\ ActiveClones(v) = {}
Clearing(a, v) == session[a] = <<Clear(v), Wipe(v)>> /\ Doomed(v)
Wiping(a, v) == session[a] = <<Wipe(v)>> /\ Doomed(v)
Setting(a, new) ==
  /\ session[a] = <<Tenant(new)>>
  /\ writer = a => Living /\ new.state # "deleting" /\ new.kek = tenant.kek
Rotated ==
  [v \in Volumes |-> IF InUse(v) THEN [vol[v] EXCEPT !.kek = tenant.kek + 1] ELSE vol[v]]
Rotating(a, recs, new) ==
  /\ session[a] = <<Rewrap(recs, new)>>
  /\ writer = a => /\ Living /\ tenant.kek < MaxKek
                   /\ new = [tenant EXCEPT !.kek = tenant.kek + 1] /\ recs = Rotated

\* Of the steps that delete a tenant, wiping comes after its key is dropped.
Condemned(a, step) ==
  \E v \in Volumes, rec \in Records :
    step = Put(v, rec) /\ vol[v] # None /\ (writer = a => rec = Shredded(v))
DeletionStep(a, i) ==
  \/ Condemned(a, session[a][i])
  \/ \E v \in Volumes : session[a][i] = Clear(v)
  \/ session[a][i] = Tenant(Dropped)
  \/ \E v \in Volumes :
       session[a][i] = Wipe(v) /\ (Living => \E j \in 1 .. i - 1 : session[a][j] = Tenant(Dropped))
Deleting(a, n) ==
  /\ session[a] = [i \in 1 .. n |-> session[a][i]]
  /\ \A i \in 1 .. n : DeletionStep(a, i)

Script(a) ==
  \/ session[a] = <<>>
  \/ \E v \in Volumes, rec \in Records : Adding(a, v, rec)
  \/ \E v \in Volumes : Making(a, v)
  \/ \E v \in Volumes : Finishing(a, v)
  \/ \E v, s \in Volumes, c \in Checkpoints \cup {None}, rec \in Records :
       s # v /\ Cloning(a, v, s, c, rec)
  \/ \E v, s \in Volumes, c \in Checkpoints \cup {None} : s # v /\ Restarting(a, v, s, c)
  \/ \E v, s \in Volumes, c \in Checkpoints \cup {None} : s # v /\ Building(a, v, s, c)
  \/ \E v, s \in Volumes : s # v /\ Pinning(a, v, s)
  \/ \E v, s \in Volumes : s # v /\ Rewriting(a, v, s)
  \/ \E v \in Volumes, rec \in Records : Shredding(a, v, rec)
  \/ \E v \in Volumes : Clearing(a, v)
  \/ \E v \in Volumes : Wiping(a, v)
  \/ \E new \in Tenants : Setting(a, new)
  \/ \E recs, new : Rotating(a, recs, new)
  \/ \E n \in Nat : Deleting(a, n)

LifeInv == Core /\ \A a \in Admins : Script(a)

LEMMA LifeInvSuffices ==
  LifeInv => ActiveMountable
BY DEF LifeInv, Core, LifeTypes, Living, Sound, InUse, Built, ActiveMountable, Mountable

LEMMA LifeBegins ==
  Init => LifeInv
<1>. SUFFICES ASSUME Init PROVE LifeInv
  OBVIOUS
<1>1. \A v \in Volumes : vol[v] = None /\ obj[v] = None /\ State(v) = "none"
  BY DEF Init, State
<1>2. tenant.state = "active" /\ tenant.kek = 1
  BY DEF Init
<1>3. TypeOK
  BY <1>1, LifecycleAssumption DEF Init, TypeOK
<1>4. LifeTypes
  BY <1>2, <1>3 DEF LifeTypes, Init
<1>5. Core
  BY <1>1, <1>4 DEF Core, Family, Sound, InUse
<1>6. \A a \in Admins : Script(a)
  BY DEF Init, Script
<1>. QED
  BY <1>5, <1>6 DEF LifeInv
-------------------------------------------------------------------------------
(***************************************************************************)
(* What the steps do to the records and the objects.                        *)
(***************************************************************************)
LEMMA RecordFields ==
  ASSUME NEW r, r \in Records
  PROVE  /\ r # None /\ r.state \in {"creating", "active", "deleting"}
         /\ r.parent \in Volumes \cup {None} /\ r.pins \in {None} \cup SUBSET Checkpoints
         /\ r.kek \in 0 .. MaxKek
BY LifecycleAssumption DEF Records

LEMMA Known ==
  ASSUME LifeTypes, NEW v \in Volumes
  PROVE  /\ vol[v] = None \/ vol[v] \in Records
         /\ State(v) \in {"none", "creating", "active", "deleting"}
         /\ State(v) = "none" <=> vol[v] = None
         /\ vol[v] # None => State(v) = vol[v].state
         /\ vol[v] # None => vol[v].parent \in Volumes \cup {None}
         /\ vol[v] # None => (vol[v].kek = 0 <=> vol[v].state = "deleting")
BY RecordFields DEF LifeTypes, TypeOK, State

\* What no write of the control database may do.
Onward ==
  /\ \A v \in Volumes : vol[v] # None =>
       /\ vol'[v] # None /\ vol'[v].parent = vol[v].parent
       /\ State(v) = "deleting" => vol'[v] = vol[v]
  /\ \A v \in Volumes : Doomed(v) => Doomed(v)'
  /\ tenant.state = "deleting" => tenant' = tenant

\* One record written.
Written(v, rec) ==
  /\ vol' = [vol EXCEPT ![v] = rec]
  /\ UNCHANGED <<tenant, obj, writer, swept, snaps, calls>>
  /\ session' = [a \in Admins |-> session'[a]]

LEMMA WrittenStates ==
  ASSUME LifeTypes, NEW v \in Volumes, NEW rec \in Records, Written(v, rec)
  PROVE  /\ vol'[v] = rec /\ \A w \in Volumes \ {v} : vol'[w] = vol[w]
         /\ State(v)' = rec.state /\ \A w \in Volumes \ {v} : State(w)' = State(w)
         /\ vol' = [w \in Volumes |-> vol'[w]]
BY RecordFields DEF LifeTypes, Written, State

LEMMA WrittenTypes ==
  ASSUME LifeTypes, NEW v \in Volumes, NEW rec \in Records, Written(v, rec),
         rec.kek = 0 <=> rec.state = "deleting"
  PROVE  LifeTypes'
<1>1. /\ vol'[v] = rec /\ (\A w \in Volumes \ {v} : vol'[w] = vol[w])
      /\ vol' = [w \in Volumes |-> vol'[w]]
  BY WrittenStates
<1>2. TypeOK'
  BY <1>1 DEF TypeOK, LifeTypes, Written
<1>. QED
  BY <1>1, <1>2 DEF LifeTypes, Written

LEMMA AddedCore ==
  ASSUME Core, NEW v \in Volumes, NEW rec \in Records, Written(v, rec), MayAdd(v, rec)
  PROVE  Core' /\ Onward
<1>1. LifeTypes /\ Family /\ Living /\ \A w \in Volumes : Sound(w)
  BY DEF Core, Living, MayAdd
<1>2. /\ vol'[v] = rec /\ (\A w \in Volumes \ {v} : vol'[w] = vol[w])
      /\ State(v)' = rec.state /\ \A w \in Volumes \ {v} : State(w)' = State(w)
  BY <1>1, WrittenStates
<1>3. rec.kek # 0 /\ rec.state = "creating" /\ State(v) = "none" /\ vol[v] = None
  BY <1>1, Known DEF MayAdd, LifeTypes, Living
<1>4. LifeTypes'
  BY <1>1, <1>3, WrittenTypes
<1>5. obj' = obj /\ tenant' = tenant
  BY DEF Written
<1>6. Family'
  <2>1. ASSUME NEW c \in Volumes, vol'[c] # None, vol'[c].parent # None
        PROVE  vol'[c].parent # c /\ State(vol[c].parent)' \in {"active", "deleting"}
    <3>1. CASE c = v
      BY <1>2, <1>3, <2>1, <3>1, RecordFields DEF MayAdd
    <3>2. CASE c # v
      BY <1>1, <1>2, <1>3, <2>1, <3>2, Known DEF Family
    <3>. QED
      BY <3>1, <3>2
  <2>2. ASSUME NEW w \in Volumes, obj'[w] # None, obj'[w].from # None
        PROVE  vol'[w] # None /\ vol'[w].parent = obj'[w].from
    BY <1>1, <1>2, <1>3, <1>5, <2>2 DEF Family
  <2>. QED
    BY <2>1, <2>2 DEF Family
<1>7. \A w \in Volumes : Sound(w)'
  BY <1>1, <1>2, <1>3, <1>5 DEF Sound, InUse, Built, MayAdd, Family
<1>8. Onward
  <2>1. ASSUME NEW w \in Volumes, Doomed(w) PROVE Doomed(w)'
    <3>1. w # v /\ State(w) = "deleting" /\ State(w)' = "deleting"
      BY <1>2, <1>3, <2>1 DEF Doomed
    <3>2. ASSUME NEW c \in Volumes, State(c)' \notin {"none", "deleting"} PROVE vol'[c].parent # w
      <4>1. CASE c = v
        BY <1>2, <3>1, <4>1, LifecycleAssumption DEF MayAdd
      <4>2. CASE c # v
        BY <1>2, <2>1, <3>2, <4>2 DEF Doomed, ActiveClones
      <4>. QED
        BY <4>1, <4>2
    <3>. QED
      BY <3>1, <3>2 DEF Doomed, ActiveClones
  <2>. QED
    BY <1>1, <1>2, <1>3, <1>5, <2>1 DEF Onward, Living
<1>. QED
  BY <1>4, <1>6, <1>7, <1>8 DEF Core

\* A record in use changes, and keeps its key and its parent.
LEMMA ChangedCore ==
  ASSUME Core, NEW v \in Volumes, NEW rec \in Records, Written(v, rec), MayFinish(v),
         rec.state \in {"creating", "active"}, rec.parent = vol[v].parent, rec.kek = vol[v].kek,
         rec.state = "active" => Built(v)
  PROVE  Core' /\ Onward
<1>1. LifeTypes /\ Family /\ Living /\ \A w \in Volumes : Sound(w)
  BY DEF Core, Living, MayFinish
<1>2. /\ vol'[v] = rec /\ (\A w \in Volumes \ {v} : vol'[w] = vol[w])
      /\ State(v)' = rec.state /\ \A w \in Volumes \ {v} : State(w)' = State(w)
  BY <1>1, WrittenStates
<1>3. vol[v] # None /\ State(v) = "creating" /\ rec.kek # 0 /\ rec # None
  BY <1>1, Known, RecordFields DEF MayFinish
<1>4. LifeTypes'
  BY <1>1, <1>3, WrittenTypes
<1>5. obj' = obj /\ tenant' = tenant
  BY DEF Written
<1>6. Family'
  <2>1. ASSUME NEW c \in Volumes, vol'[c] # None, vol'[c].parent # None
        PROVE  vol'[c].parent # c /\ State(vol[c].parent)' \in {"active", "deleting"}
    <3>1. vol[c] # None /\ vol[c].parent = vol'[c].parent /\ vol[c].parent \in Volumes
      BY <1>1, <1>2, <1>3, <2>1, Known
    <3>2. vol[c].parent # c /\ State(vol[c].parent) \in {"active", "deleting"}
      BY <1>1, <2>1, <3>1 DEF Family
    <3>. QED
      BY <1>2, <1>3, <3>1, <3>2
  <2>2. ASSUME NEW w \in Volumes, obj'[w] # None, obj'[w].from # None
        PROVE  vol'[w] # None /\ vol'[w].parent = obj'[w].from
    BY <1>1, <1>2, <1>3, <1>5, <2>2 DEF Family
  <2>. QED
    BY <2>1, <2>2 DEF Family
<1>7. \A w \in Volumes : Sound(w)'
  BY <1>1, <1>2, <1>3, <1>5 DEF Sound, InUse, Built
<1>8. Onward
  <2>1. ASSUME NEW w \in Volumes, Doomed(w) PROVE Doomed(w)'
    <3>1. w # v /\ State(w)' = "deleting"
      BY <1>2, <1>3, <2>1 DEF Doomed
    <3>2. ASSUME NEW c \in Volumes, State(c)' \notin {"none", "deleting"} PROVE vol'[c].parent # w
      BY <1>2, <1>3, <2>1, <3>2 DEF Doomed, ActiveClones
    <3>. QED
      BY <3>1, <3>2 DEF Doomed, ActiveClones
  <2>. QED
    BY <1>1, <1>2, <1>3, <1>5, <2>1 DEF Onward, Living
<1>. QED
  BY <1>4, <1>6, <1>7, <1>8 DEF Core

LEMMA ShreddedFields ==
  ASSUME LifeTypes, NEW v \in Volumes, vol[v] # None
  PROVE  /\ Shredded(v) \in Records /\ Shredded(v).state = "deleting" /\ Shredded(v).kek = 0
         /\ Shredded(v).parent = vol[v].parent
         /\ State(v) = "deleting" => Shredded(v) = vol[v]
<1>1. vol[v] \in Records /\ (State(v) = "deleting" => vol[v].state = "deleting" /\ vol[v].kek = 0)
  BY Known
<1>2. 0 \in 0 .. MaxKek
  BY LifecycleAssumption
<1>. QED
  BY <1>1, <1>2, Zenon DEF Shredded, Records

LEMMA ShreddedCore ==
  ASSUME Core, NEW v \in Volumes, vol[v] # None, Written(v, Shredded(v))
  PROVE  Core' /\ Onward
<1>. DEFINE rec == Shredded(v)
<1>1. LifeTypes /\ Family
  BY DEF Core
<1>0. /\ rec \in Records /\ rec.state = "deleting" /\ rec.kek = 0 /\ rec.parent = vol[v].parent
      /\ State(v) = "deleting" => rec = vol[v]
  BY <1>1, ShreddedFields
<1>. HIDE DEF rec
<1>00. Written(v, rec)
  BY DEF rec
<1>2. /\ vol'[v] = rec /\ (\A w \in Volumes \ {v} : vol'[w] = vol[w])
      /\ State(v)' = "deleting" /\ \A w \in Volumes \ {v} : State(w)' = State(w)
  BY <1>0, <1>00, <1>1, WrittenStates
<1>3. rec # None
  BY <1>0, RecordFields
<1>4. LifeTypes'
  BY <1>0, <1>00, <1>1, WrittenTypes
<1>5. obj' = obj /\ tenant' = tenant
  BY DEF Written
<1>6. Family'
  <2>1. ASSUME NEW c \in Volumes, vol'[c] # None, vol'[c].parent # None
        PROVE  vol'[c].parent # c /\ State(vol[c].parent)' \in {"active", "deleting"}
    <3>1. vol[c] # None /\ vol[c].parent = vol'[c].parent /\ vol[c].parent \in Volumes
      BY <1>0, <1>1, <1>2, <2>1, Known
    <3>2. vol[c].parent # c /\ State(vol[c].parent) \in {"active", "deleting"}
      BY <1>1, <2>1, <3>1 DEF Family
    <3>. QED
      BY <1>2, <3>1, <3>2
  <2>2. ASSUME NEW w \in Volumes, obj'[w] # None, obj'[w].from # None
        PROVE  vol'[w] # None /\ vol'[w].parent = obj'[w].from
    BY <1>0, <1>1, <1>2, <1>3, <1>5, <2>2 DEF Family
  <2>. QED
    BY <2>1, <2>2 DEF Family
<1>7. Living' => \A w \in Volumes : Sound(w)'
  BY <1>2, <1>5 DEF Core, Living, Sound, InUse, Built
<1>8. Onward
  <2>1. ASSUME NEW w \in Volumes, Doomed(w) PROVE Doomed(w)'
    <3>1. State(w)' = "deleting"
      BY <1>2, <2>1 DEF Doomed
    <3>2. ASSUME NEW c \in Volumes, State(c)' \notin {"none", "deleting"} PROVE vol'[c].parent # w
      BY <1>2, <2>1, <3>2 DEF Doomed, ActiveClones
    <3>. QED
      BY <3>1, <3>2 DEF Doomed, ActiveClones
  <2>. QED
    BY <1>0, <1>2, <1>3, <1>5, <2>1 DEF Onward
<1>. QED
  BY <1>4, <1>6, <1>7, <1>8 DEF Core

\* The tenant's record written, the volumes' records as they are or all wrapped again.
TenantWritten(new) ==
  /\ tenant' = new
  /\ UNCHANGED <<obj, writer, swept, snaps, calls>>
  /\ session' = [a \in Admins |-> session'[a]]

LEMMA TenantCore ==
  ASSUME Core, NEW new \in Tenants, TenantWritten(new), vol' = vol,
         \/ new = Dropped
         \/ Living /\ new.state # "deleting" /\ new.kek = tenant.kek
  PROVE  Core' /\ Onward
<1>1. LifeTypes /\ Family
  BY DEF Core
<1>2. TypeOK'
  BY <1>1 DEF LifeTypes, TypeOK, TenantWritten, Tenants
<1>3. tenant'.state = "deleting" <=> tenant'.kek = 0
  BY <1>1 DEF TenantWritten, Dropped, LifeTypes, Living
<1>4. LifeTypes'
  BY <1>1, <1>2, <1>3 DEF LifeTypes, TenantWritten
<1>5. Family'
  BY <1>1 DEF Family, State, TenantWritten
<1>6. Living' => \A w \in Volumes : Sound(w)'
  BY DEF Core, Living, Sound, InUse, Built, State, TenantWritten, Dropped
<1>7. tenant.state = "deleting" => tenant' = tenant
  <2>1. ASSUME tenant.state = "deleting" PROVE new = Dropped /\ tenant.kek = 0
    BY <1>1, <2>1 DEF Living, LifeTypes
  <2>2. tenant.state = "deleting" => tenant = Dropped
    BY <1>1, <2>1 DEF LifeTypes, TypeOK, Dropped
  <2>. QED
    BY <2>1, <2>2 DEF TenantWritten
<1>8. Onward
  BY <1>7 DEF Onward, Doomed, ActiveClones, State
<1>. QED
  BY <1>4, <1>5, <1>6, <1>8 DEF Core

LEMMA RotatedCore ==
  ASSUME Core, NEW new, TenantWritten(new), vol' = Rotated, Living, tenant.kek < MaxKek,
         new = [tenant EXCEPT !.kek = tenant.kek + 1]
  PROVE  Core' /\ Onward
<1>1. LifeTypes /\ Family /\ \A w \in Volumes : Sound(w)
  BY DEF Core
<1>2. tenant.kek \in 1 .. MaxKek - 1 /\ tenant \in Tenants
  BY <1>1, LifecycleAssumption DEF LifeTypes, TypeOK, Living, Tenants
<1>3. /\ tenant'.kek = tenant.kek + 1 /\ tenant'.state = tenant.state /\ tenant' \in Tenants
  BY <1>2, LifecycleAssumption DEF TenantWritten, Tenants
<1>4. ASSUME NEW w \in Volumes
      PROVE  /\ vol'[w] = None <=> vol[w] = None
             /\ vol'[w] # None => /\ vol'[w] \in Records /\ vol'[w].parent = vol[w].parent
                                  /\ vol'[w].state = vol[w].state
                                  /\ vol'[w].kek = 0 <=> vol'[w].state = "deleting"
             /\ InUse(w) => vol'[w].kek = tenant'.kek
             /\ ~InUse(w) => vol'[w] = vol[w]
  <2>1. CASE InUse(w)
    <3>1. vol[w] \in Records /\ vol[w].state \in {"creating", "active"} /\ vol[w] # None
      BY <1>1, <2>1, Known DEF InUse
    <3>2. vol'[w] = [vol[w] EXCEPT !.kek = tenant.kek + 1]
      BY <2>1 DEF Rotated
    <3>3. tenant.kek + 1 \in 0 .. MaxKek /\ tenant.kek + 1 # 0
      BY <1>2, LifecycleAssumption
    <3>4. /\ vol'[w] \in Records /\ vol'[w].parent = vol[w].parent
          /\ vol'[w].state = vol[w].state /\ vol'[w].kek = tenant.kek + 1
      BY <3>1, <3>2, <3>3 DEF Records
    <3>. QED
      BY <1>3, <2>1, <3>1, <3>3, <3>4, RecordFields
  <2>2. CASE ~InUse(w)
    BY <1>1, <2>2, Known DEF Rotated
  <2>. QED
    BY <2>1, <2>2
<1>5. \A w \in Volumes : State(w)' = State(w)
  BY <1>4 DEF State
<1>6. vol' = [w \in Volumes |-> vol'[w]]
  BY DEF Rotated
<1>7. TypeOK'
  BY <1>1, <1>3, <1>4 DEF LifeTypes, TypeOK, TenantWritten, Tenants
<1>8. LifeTypes'
  BY <1>1, <1>2, <1>3, <1>6, <1>7 DEF LifeTypes, TenantWritten, Living
<1>9. Family'
  <2>1. ASSUME NEW c \in Volumes, vol'[c] # None, vol'[c].parent # None
        PROVE  vol'[c].parent # c /\ State(vol[c].parent)' \in {"active", "deleting"}
    <3>1. vol[c] # None /\ vol[c].parent = vol'[c].parent /\ vol[c].parent \in Volumes
      BY <1>1, <1>4, <2>1, Known
    <3>2. vol[c].parent # c /\ State(vol[c].parent) \in {"active", "deleting"}
      BY <1>1, <2>1, <3>1 DEF Family
    <3>. QED
      BY <1>5, <3>1, <3>2
  <2>2. obj' = obj
    BY DEF TenantWritten
  <2>3. ASSUME NEW w \in Volumes, obj'[w] # None, obj'[w].from # None
        PROVE  vol'[w] # None /\ vol'[w].parent = obj'[w].from
    BY <1>1, <1>4, <2>2, <2>3 DEF Family
  <2>. QED
    BY <2>1, <2>3 DEF Family
<1>10. \A w \in Volumes : Sound(w)'
  BY <1>1, <1>4, <1>5 DEF Sound, InUse, Built, TenantWritten
<1>11. \A w \in Volumes : Doomed(w) => Doomed(w)'
  BY <1>1, <1>4, <1>5, Known DEF Doomed, ActiveClones
<1>12. Onward
  BY <1>4, <1>11 DEF Onward, Living, InUse
<1>. QED
  BY <1>8, <1>9, <1>10, <1>12 DEF Core

Kept == \A v \in Volumes : MayFinish(v) /\ Built(v) => Built(v)'

\* Objects change, the control database does not.
Reshaped ==
  /\ UNCHANGED <<tenant, vol, writer, calls>>
  /\ session' = [a \in Admins |-> session'[a]]
  /\ obj' = [w \in Volumes |-> obj'[w]]
  /\ \A w \in Volumes : obj'[w] = None \/ obj'[w] \in Databases
  /\ swept' \subseteq Checkpoints /\ snaps' \in 0 .. MaxSnaps

\* Databases stay and stay built; a new one is nobody's clone, or its parent's.
GentleOn(w) ==
  /\ obj[w] # None => /\ obj'[w] # None /\ obj'[w].from = obj[w].from
                      /\ obj[w].fsid = w => obj'[w].fsid = w
  /\ obj[w] = None /\ obj'[w] # None /\ obj'[w].from # None =>
       obj'[w].from \in Volumes /\ ChildOf(w, obj'[w].from) /\ obj[obj'[w].from] # None
Gentle == \A w \in Volumes : GentleOn(w)

LEMMA ReshapedTypes ==
  ASSUME Core, Reshaped
  PROVE  LifeTypes'
<1>1. TypeOK'
  BY DEF Core, LifeTypes, TypeOK, Reshaped
<1>. QED
  BY <1>1 DEF Core, LifeTypes, Reshaped

LEMMA GentleCore ==
  ASSUME Core, Reshaped, Gentle
  PROVE  Core' /\ Kept
<1>1. LifeTypes /\ Family
  BY DEF Core
<1>2. \A w \in Volumes : State(w)' = State(w)
  BY DEF State, Reshaped
<1>3. \A w \in Volumes : Built(w) => Built(w)'
  BY DEF Built, Gentle, GentleOn
<1>4. \A w \in Volumes : obj[w] # None => obj[w].from \in Volumes \cup {None}
  BY <1>1 DEF LifeTypes, TypeOK, Databases
<1>5. Family'
  <2>1. ASSUME NEW c \in Volumes, vol'[c] # None, vol'[c].parent # None
        PROVE  vol'[c].parent # c /\ State(vol[c].parent)' \in {"active", "deleting"}
    <3>1. vol[c] # None /\ vol[c].parent = vol'[c].parent /\ vol[c].parent \in Volumes
      BY <1>1, <2>1, Known DEF Reshaped
    <3>. QED
      BY <1>1, <1>2, <2>1, <3>1 DEF Family
  <2>2. ASSUME NEW w \in Volumes, obj'[w] # None, obj'[w].from # None
        PROVE  vol'[w] # None /\ vol'[w].parent = obj'[w].from
    BY <1>1, <2>2 DEF Family, Gentle, GentleOn, Reshaped, ChildOf
  <2>. QED
    BY <2>1, <2>2 DEF Family
<1>6. ASSUME Living', NEW w \in Volumes PROVE Sound(w)'
  <2>1. Living /\ Sound(w)
    BY <1>6 DEF Core, Living, Reshaped
  <2>2. InUse(w)' <=> InUse(w)
    BY <1>2 DEF InUse
  <2>3. ASSUME InUse(w), obj'[w] # None, obj'[w].from # None PROVE obj'[obj'[w].from] # None
    <3>1. CASE obj[w] = None
      BY <2>3, <3>1 DEF Gentle, GentleOn
    <3>2. CASE obj[w] # None
      <4>1. obj'[w].from = obj[w].from /\ obj[w].from \in Volumes
        BY <1>4, <2>3, <3>2 DEF Gentle, GentleOn
      <4>. QED
        BY <2>1, <2>3, <3>2, <4>1 DEF Gentle, GentleOn, Sound
    <3>. QED
      BY <3>1, <3>2
  <2>. QED
    BY <1>2, <1>3, <2>1, <2>2, <2>3 DEF Sound, Reshaped
<1>. QED
  BY <1>3, <1>5, <1>6, ReshapedTypes DEF Core, Kept

LEMMA WipedCore ==
  ASSUME Core, Reshaped, NEW v \in Volumes, obj' = [obj EXCEPT ![v] = None],
         ~Living \/ Doomed(v) \/ State(v) = "creating"
  PROVE  /\ Core'
         /\ ~Living \/ Doomed(v) => Kept
<1>1. LifeTypes /\ Family
  BY DEF Core
<1>2. \A w \in Volumes : State(w)' = State(w)
  BY DEF State, Reshaped
<1>3. obj'[v] = None /\ \A w \in Volumes \ {v} : obj'[w] = obj[w]
  BY <1>1 DEF LifeTypes
<1>4. \A w \in Volumes : obj[w] # None => obj[w].from \in Volumes \cup {None}
  BY <1>1 DEF LifeTypes, TypeOK, Databases
<1>5. Family'
  <2>1. ASSUME NEW c \in Volumes, vol'[c] # None, vol'[c].parent # None
        PROVE  vol'[c].parent # c /\ State(vol[c].parent)' \in {"active", "deleting"}
    <3>1. vol[c] # None /\ vol[c].parent = vol'[c].parent /\ vol[c].parent \in Volumes
      BY <1>1, <2>1, Known DEF Reshaped
    <3>. QED
      BY <1>1, <1>2, <2>1, <3>1 DEF Family
  <2>2. ASSUME NEW w \in Volumes, obj'[w] # None, obj'[w].from # None
        PROVE  vol'[w] # None /\ vol'[w].parent = obj'[w].from
    BY <1>1, <1>3, <2>2 DEF Family, Reshaped
  <2>. QED
    BY <2>1, <2>2 DEF Family
<1>6. ASSUME Living', NEW w \in Volumes PROVE Sound(w)'
  <2>1. Living /\ Sound(w)
    BY <1>6 DEF Core, Living, Reshaped
  <2>2. InUse(w)' <=> InUse(w)
    BY <1>2 DEF InUse
  <2>3. State(v) # "active"
    BY <2>1 DEF Doomed
  <2>4. State(w)' = "active" => Built(w)'
    BY <1>2, <1>3, <2>1, <2>3 DEF Sound, Built
  <2>5. ASSUME InUse(w), obj'[w] # None, obj'[w].from # None PROVE obj'[obj'[w].from] # None
    <3>1. w # v /\ obj'[w] = obj[w] /\ obj[w].from \in Volumes
      BY <1>3, <1>4, <2>5
    <3>2. vol[w] # None /\ vol[w].parent = obj[w].from
      BY <1>1, <2>5, <3>1 DEF Family
    <3>3. obj[w].from # v
      <4>1. CASE Doomed(v)
        BY <2>5, <3>2, <4>1 DEF Doomed, ActiveClones, InUse
      <4>2. CASE State(v) = "creating"
        BY <1>1, <2>5, <3>1, <3>2, <4>2 DEF Family
      <4>. QED
        BY <2>1, <4>1, <4>2
    <3>. QED
      BY <1>3, <2>1, <2>5, <3>1, <3>3 DEF Sound
  <2>. QED
    BY <2>1, <2>2, <2>4, <2>5 DEF Sound, Reshaped
<1>7. ~Living \/ Doomed(v) => Kept
  BY <1>3 DEF Kept, Built, MayFinish, Living, Doomed
<1>. QED
  BY <1>5, <1>6, <1>7, ReshapedTypes DEF Core
-------------------------------------------------------------------------------
(***************************************************************************)
(* The steps of others leave a script as safe as it was.                    *)
(***************************************************************************)
LEMMA DeletingStays ==
  ASSUME NEW a \in Admins, NEW n \in Nat, Deleting(a, n), session'[a] = session[a],
         \A v \in Volumes : vol[v] # None => vol'[v] # None, Living' => Living,
         \/ writer' # a
         \/ writer' = writer /\ vol' = vol
  PROVE  Deleting(a, n)'
<1>1. ASSUME NEW i \in 1 .. n PROVE DeletionStep(a, i)'
  <2>1. DeletionStep(a, i)
    BY Zenon DEF Deleting
  <2>2. Condemned(a, session[a][i]) => Condemned(a, session[a][i])'
    BY Zenon DEF Condemned, Shredded
  <2>. QED
    BY <2>1, <2>2 DEF DeletionStep
<1>. QED
  BY <1>1 DEF Deleting

\* The control database is not written.
LEMMA StaysUnwritten ==
  ASSUME NEW a \in Admins, Script(a), session'[a] = session[a],
         UNCHANGED <<tenant, vol, writer>>, Kept
  PROVE  Script(a)'
<1>1. CASE session[a] = <<>>
  BY <1>1, Zenon DEF Script
<1>2. ASSUME NEW v \in Volumes, NEW rec \in Records, Adding(a, v, rec)
      PROVE  Script(a)'
  <2>1. Adding(a, v, rec)'
    BY <1>2 DEF Adding, MayAdd, State
  <2>. QED
    BY <1>2, <2>1, Zenon DEF Script
<1>3. ASSUME NEW v \in Volumes, Making(a, v)
      PROVE  Script(a)'
  <2>1. Making(a, v)'
    BY <1>3 DEF Making, MayFinish, State
  <2>. QED
    BY <1>3, <2>1, Zenon DEF Script
<1>4. ASSUME NEW v \in Volumes, Finishing(a, v)
      PROVE  Script(a)'
  <2>1. Finishing(a, v)'
    BY <1>4 DEF Finishing, MayFinish, State, Kept
  <2>. QED
    BY <1>4, <2>1, Zenon DEF Script
<1>5. ASSUME NEW v \in Volumes, NEW s \in Volumes, NEW c \in Checkpoints \cup {None}, NEW rec \in Records, s # v, Cloning(a, v, s, c, rec)
      PROVE  Script(a)'
  <2>1. Cloning(a, v, s, c, rec)'
    BY <1>5 DEF Cloning, MayAdd, State
  <2>. QED
    BY <1>5, <2>1, Zenon DEF Script
<1>6. ASSUME NEW v \in Volumes, NEW s \in Volumes, NEW c \in Checkpoints \cup {None}, s # v, Restarting(a, v, s, c)
      PROVE  Script(a)'
  <2>1. Restarting(a, v, s, c)'
    BY <1>6 DEF Restarting, ChildOf, MayFinish, State
  <2>. QED
    BY <1>6, <2>1, Zenon DEF Script
<1>7. ASSUME NEW v \in Volumes, NEW s \in Volumes, NEW c \in Checkpoints \cup {None}, s # v, Building(a, v, s, c)
      PROVE  Script(a)'
  <2>1. Building(a, v, s, c)'
    BY <1>7 DEF Building, ChildOf, MayFinish, State
  <2>. QED
    BY <1>7, <2>1, Zenon DEF Script
<1>8. ASSUME NEW v \in Volumes, NEW s \in Volumes, s # v, Pinning(a, v, s)
      PROVE  Script(a)'
  <2>1. Pinning(a, v, s)'
    BY <1>8 DEF Pinning, MayFinish, State
  <2>. QED
    BY <1>8, <2>1, Zenon DEF Script
<1>9. ASSUME NEW v \in Volumes, NEW s \in Volumes, s # v, Rewriting(a, v, s)
      PROVE  Script(a)'
  <2>1. Rewriting(a, v, s)'
    BY <1>9 DEF Rewriting, MayFinish, State
  <2>. QED
    BY <1>9, <2>1, Zenon DEF Script
<1>10. ASSUME NEW v \in Volumes, NEW rec \in Records, Shredding(a, v, rec)
      PROVE  Script(a)'
  <2>1. Shredding(a, v, rec)'
    BY <1>10 DEF Shredding, Shredded, ActiveClones, State
  <2>. QED
    BY <1>10, <2>1, Zenon DEF Script
<1>11. ASSUME NEW v \in Volumes, Clearing(a, v)
      PROVE  Script(a)'
  <2>1. Clearing(a, v)'
    BY <1>11 DEF Clearing, Doomed, ActiveClones, State
  <2>. QED
    BY <1>11, <2>1, Zenon DEF Script
<1>12. ASSUME NEW v \in Volumes, Wiping(a, v)
      PROVE  Script(a)'
  <2>1. Wiping(a, v)'
    BY <1>12 DEF Wiping, Doomed, ActiveClones, State
  <2>. QED
    BY <1>12, <2>1, Zenon DEF Script
<1>13. ASSUME NEW new \in Tenants, Setting(a, new)
      PROVE  Script(a)'
  <2>1. Setting(a, new)'
    BY <1>13 DEF Setting, Living
  <2>. QED
    BY <1>13, <2>1, Zenon DEF Script
<1>14. ASSUME NEW recs, NEW new, Rotating(a, recs, new)
      PROVE  Script(a)'
  <2>1. Rotating(a, recs, new)'
    BY <1>14 DEF Rotating, Living, Rotated, InUse, State
  <2>. QED
    BY <1>14, <2>1, Zenon DEF Script
<1>15. ASSUME NEW n \in Nat, Deleting(a, n)
      PROVE  Script(a)'
  <2>1. Deleting(a, n)'
    BY <1>15, DeletingStays, Zenon DEF Living
  <2>. QED
    BY <1>15, <2>1, Zenon DEF Script
<1>. QED
  BY Zenon, <1>1, <1>2, <1>3, <1>4, <1>5, <1>6, <1>7, <1>8, <1>9,
     <1>10, <1>11, <1>12, <1>13, <1>14, <1>15 DEF Script

\* Another session writes the control database.
LEMMA StaysBehind ==
  ASSUME NEW a \in Admins, Script(a), session'[a] = session[a],
         writer # a, UNCHANGED writer, Onward
  PROVE  Script(a)'
<1>1. CASE session[a] = <<>>
  BY <1>1, Zenon DEF Script
<1>2. ASSUME NEW v \in Volumes, NEW rec \in Records, Adding(a, v, rec)
      PROVE  Script(a)'
  <2>1. Adding(a, v, rec)'
    BY <1>2 DEF Adding
  <2>. QED
    BY <1>2, <2>1, Zenon DEF Script
<1>3. ASSUME NEW v \in Volumes, Making(a, v)
      PROVE  Script(a)'
  <2>1. Making(a, v)'
    BY <1>3 DEF Making
  <2>. QED
    BY <1>3, <2>1, Zenon DEF Script
<1>4. ASSUME NEW v \in Volumes, Finishing(a, v)
      PROVE  Script(a)'
  <2>1. Finishing(a, v)'
    BY <1>4 DEF Finishing
  <2>. QED
    BY <1>4, <2>1, Zenon DEF Script
<1>5. ASSUME NEW v \in Volumes, NEW s \in Volumes, NEW c \in Checkpoints \cup {None}, NEW rec \in Records, s # v, Cloning(a, v, s, c, rec)
      PROVE  Script(a)'
  <2>1. Cloning(a, v, s, c, rec)'
    BY <1>5 DEF Cloning
  <2>. QED
    BY <1>5, <2>1, Zenon DEF Script
<1>6. ASSUME NEW v \in Volumes, NEW s \in Volumes, NEW c \in Checkpoints \cup {None}, s # v, Restarting(a, v, s, c)
      PROVE  Script(a)'
  BY <1>6 DEF Restarting
<1>7. ASSUME NEW v \in Volumes, NEW s \in Volumes, NEW c \in Checkpoints \cup {None}, s # v, Building(a, v, s, c)
      PROVE  Script(a)'
  <2>1. Building(a, v, s, c)'
    BY <1>7 DEF Building, ChildOf, Onward
  <2>. QED
    BY <1>7, <2>1, Zenon DEF Script
<1>8. ASSUME NEW v \in Volumes, NEW s \in Volumes, s # v, Pinning(a, v, s)
      PROVE  Script(a)'
  <2>1. Pinning(a, v, s)'
    BY <1>8 DEF Pinning
  <2>. QED
    BY <1>8, <2>1, Zenon DEF Script
<1>9. ASSUME NEW v \in Volumes, NEW s \in Volumes, s # v, Rewriting(a, v, s)
      PROVE  Script(a)'
  <2>1. Rewriting(a, v, s)'
    BY <1>9 DEF Rewriting
  <2>. QED
    BY <1>9, <2>1, Zenon DEF Script
<1>10. ASSUME NEW v \in Volumes, NEW rec \in Records, Shredding(a, v, rec)
      PROVE  Script(a)'
  <2>1. Shredding(a, v, rec)'
    BY <1>10 DEF Shredding, Onward
  <2>. QED
    BY <1>10, <2>1, Zenon DEF Script
<1>11. ASSUME NEW v \in Volumes, Clearing(a, v)
      PROVE  Script(a)'
  <2>1. Clearing(a, v)'
    BY <1>11 DEF Clearing, Onward
  <2>. QED
    BY <1>11, <2>1, Zenon DEF Script
<1>12. ASSUME NEW v \in Volumes, Wiping(a, v)
      PROVE  Script(a)'
  <2>1. Wiping(a, v)'
    BY <1>12 DEF Wiping, Onward
  <2>. QED
    BY <1>12, <2>1, Zenon DEF Script
<1>13. ASSUME NEW new \in Tenants, Setting(a, new)
      PROVE  Script(a)'
  <2>1. Setting(a, new)'
    BY <1>13 DEF Setting
  <2>. QED
    BY <1>13, <2>1, Zenon DEF Script
<1>14. ASSUME NEW recs, NEW new, Rotating(a, recs, new)
      PROVE  Script(a)'
  <2>1. Rotating(a, recs, new)'
    BY <1>14 DEF Rotating
  <2>. QED
    BY <1>14, <2>1, Zenon DEF Script
<1>15. ASSUME NEW n \in Nat, Deleting(a, n)
      PROVE  Script(a)'
  <2>1. Deleting(a, n)'
    BY <1>15, DeletingStays, Zenon DEF Onward, Living
  <2>. QED
    BY <1>15, <2>1, Zenon DEF Script
<1>. QED
  BY Zenon, <1>1, <1>2, <1>3, <1>4, <1>5, <1>6, <1>7, <1>8, <1>9,
     <1>10, <1>11, <1>12, <1>13, <1>14, <1>15 DEF Script

\* Another session opens the control database.
LEMMA StaysFenced ==
  ASSUME NEW a \in Admins, Script(a), session'[a] = session[a],
         writer' # a, UNCHANGED <<tenant, vol, obj>>, ~Resuming
  PROVE  Script(a)'
<1>1. CASE session[a] = <<>>
  BY <1>1, Zenon DEF Script
<1>2. ASSUME NEW v \in Volumes, NEW rec \in Records, Adding(a, v, rec)
      PROVE  Script(a)'
  <2>1. Adding(a, v, rec)'
    BY <1>2 DEF Adding
  <2>. QED
    BY <1>2, <2>1, Zenon DEF Script
<1>3. ASSUME NEW v \in Volumes, Making(a, v)
      PROVE  Script(a)'
  <2>1. Making(a, v)'
    BY <1>3 DEF Making
  <2>. QED
    BY <1>3, <2>1, Zenon DEF Script
<1>4. ASSUME NEW v \in Volumes, Finishing(a, v)
      PROVE  Script(a)'
  <2>1. Finishing(a, v)'
    BY <1>4 DEF Finishing
  <2>. QED
    BY <1>4, <2>1, Zenon DEF Script
<1>5. ASSUME NEW v \in Volumes, NEW s \in Volumes, NEW c \in Checkpoints \cup {None}, NEW rec \in Records, s # v, Cloning(a, v, s, c, rec)
      PROVE  Script(a)'
  <2>1. Cloning(a, v, s, c, rec)'
    BY <1>5 DEF Cloning
  <2>. QED
    BY <1>5, <2>1, Zenon DEF Script
<1>6. ASSUME NEW v \in Volumes, NEW s \in Volumes, NEW c \in Checkpoints \cup {None}, s # v, Restarting(a, v, s, c)
      PROVE  Script(a)'
  <2>1. Head(session[a]) = Wipe(v) /\ session[a] # <<>>
    BY <1>6 DEF Restarting
  <2>2. vol[v].state = "creating" /\ Wipe(v).do = "wipe" /\ Wipe(v).v = v
    BY <1>6 DEF Restarting, MayFinish, State, Wipe
  <2>. QED
    BY <2>1, <2>2, Zenon DEF Resuming
<1>7. ASSUME NEW v \in Volumes, NEW s \in Volumes, NEW c \in Checkpoints \cup {None}, s # v, Building(a, v, s, c)
      PROVE  Script(a)'
  <2>1. Building(a, v, s, c)'
    BY <1>7 DEF Building, ChildOf
  <2>. QED
    BY <1>7, <2>1, Zenon DEF Script
<1>8. ASSUME NEW v \in Volumes, NEW s \in Volumes, s # v, Pinning(a, v, s)
      PROVE  Script(a)'
  <2>1. Pinning(a, v, s)'
    BY <1>8 DEF Pinning
  <2>. QED
    BY <1>8, <2>1, Zenon DEF Script
<1>9. ASSUME NEW v \in Volumes, NEW s \in Volumes, s # v, Rewriting(a, v, s)
      PROVE  Script(a)'
  <2>1. Rewriting(a, v, s)'
    BY <1>9 DEF Rewriting
  <2>. QED
    BY <1>9, <2>1, Zenon DEF Script
<1>10. ASSUME NEW v \in Volumes, NEW rec \in Records, Shredding(a, v, rec)
      PROVE  Script(a)'
  <2>1. Shredding(a, v, rec)'
    BY <1>10 DEF Shredding
  <2>. QED
    BY <1>10, <2>1, Zenon DEF Script
<1>11. ASSUME NEW v \in Volumes, Clearing(a, v)
      PROVE  Script(a)'
  <2>1. Clearing(a, v)'
    BY <1>11 DEF Clearing, Doomed, ActiveClones, State
  <2>. QED
    BY <1>11, <2>1, Zenon DEF Script
<1>12. ASSUME NEW v \in Volumes, Wiping(a, v)
      PROVE  Script(a)'
  <2>1. Wiping(a, v)'
    BY <1>12 DEF Wiping, Doomed, ActiveClones, State
  <2>. QED
    BY <1>12, <2>1, Zenon DEF Script
<1>13. ASSUME NEW new \in Tenants, Setting(a, new)
      PROVE  Script(a)'
  <2>1. Setting(a, new)'
    BY <1>13 DEF Setting
  <2>. QED
    BY <1>13, <2>1, Zenon DEF Script
<1>14. ASSUME NEW recs, NEW new, Rotating(a, recs, new)
      PROVE  Script(a)'
  <2>1. Rotating(a, recs, new)'
    BY <1>14 DEF Rotating
  <2>. QED
    BY <1>14, <2>1, Zenon DEF Script
<1>15. ASSUME NEW n \in Nat, Deleting(a, n)
      PROVE  Script(a)'
  <2>1. Deleting(a, n)'
    BY <1>15, DeletingStays, Zenon DEF Living
  <2>. QED
    BY <1>15, <2>1, Zenon DEF Script
<1>. QED
  BY Zenon, <1>1, <1>2, <1>3, <1>4, <1>5, <1>6, <1>7, <1>8, <1>9,
     <1>10, <1>11, <1>12, <1>13, <1>14, <1>15 DEF Script

-------------------------------------------------------------------------------
(***************************************************************************)
(* The step a session takes, by the head of its script.                     *)
(***************************************************************************)
LEMMA Dispatch ==
  ASSUME NEW a, Step(a)
  PROVE  LET s == Head(session[a]) IN
         /\ UNCHANGED <<writer, seen, swept, calls>>
         /\ \/ s.do \in {"put", "clear", "activate", "tenant", "rewrap"} /\ PutStep(a, s)
            \/ s.do = "pins" /\ PinsStep(a, s)
            \/ s.do = "mkfs" /\ MkfsStep(a, s)
            \/ s.do = "wipe" /\ WipeStep(a, s)
            \/ s.do = "build" /\ BuildStep(a, s)
            \/ s.do = "rewrite" /\ RewriteStep(a, s)
BY Zenon DEF Step, PutStep, PinsStep, MkfsStep, WipeStep, BuildStep, RewriteStep

LEMMA PutHead ==
  ASSUME NEW a, NEW v, NEW rec, Step(a), Head(session[a]) = Put(v, rec)
  PROVE  /\ UNCHANGED <<obj, snaps, writer, swept, calls, tenant>>
         /\ \/ GiveUp(a) /\ UNCHANGED vol
            \/ writer = a /\ Done(a) /\ vol' = [vol EXCEPT ![v] = rec]
<1>. DEFINE s == Head(session[a])
<1>1. s.do = "put" /\ s.v = v /\ s.rec = rec
  BY DEF Put
<1>2. PutStep(a, s) /\ UNCHANGED <<writer, seen, swept, calls>>
  BY <1>1, Dispatch
<1>. HIDE DEF s
<1>. QED
  BY <1>1, <1>2 DEF PutStep, Fenced

LEMMA ClearHead ==
  ASSUME NEW a, NEW v, Step(a), Head(session[a]) = Clear(v)
  PROVE  /\ UNCHANGED <<obj, snaps, writer, swept, calls, tenant, vol>>
         /\ GiveUp(a) \/ Done(a)
<1>. DEFINE s == Head(session[a])
<1>1. s.do = "clear"
  BY DEF Clear
<1>2. PutStep(a, s) /\ UNCHANGED <<writer, seen, swept, calls>>
  BY <1>1, Dispatch
<1>. HIDE DEF s
<1>. QED
  BY <1>1, <1>2 DEF PutStep

LEMMA ActivateHead ==
  ASSUME NEW a, NEW v, Step(a), Head(session[a]) = Activate(v)
  PROVE  /\ UNCHANGED <<obj, snaps, writer, swept, calls, tenant>>
         /\ \/ GiveUp(a) /\ UNCHANGED vol
            \/ /\ writer = a /\ Done(a)
               /\ vol' = [vol EXCEPT ![v] = [vol[v] EXCEPT !.state = "active"]]
<1>. DEFINE s == Head(session[a])
<1>1. s.do = "activate" /\ s.v = v
  BY DEF Activate
<1>2. PutStep(a, s) /\ UNCHANGED <<writer, seen, swept, calls>>
  BY <1>1, Dispatch
<1>. HIDE DEF s
<1>. QED
  BY <1>1, <1>2 DEF PutStep, Fenced

LEMMA TenantHead ==
  ASSUME NEW a, NEW new, Step(a), Head(session[a]) = Tenant(new)
  PROVE  /\ UNCHANGED <<obj, snaps, writer, swept, calls, vol>>
         /\ \/ GiveUp(a) /\ UNCHANGED tenant
            \/ writer = a /\ Done(a) /\ tenant' = new
<1>. DEFINE s == Head(session[a])
<1>1. s.do = "tenant" /\ s.t = new
  BY DEF Tenant
<1>2. PutStep(a, s) /\ UNCHANGED <<writer, seen, swept, calls>>
  BY <1>1, Dispatch
<1>. HIDE DEF s
<1>. QED
  BY <1>1, <1>2 DEF PutStep, Fenced

LEMMA RewrapHead ==
  ASSUME NEW a, NEW recs, NEW new, Step(a), Head(session[a]) = Rewrap(recs, new)
  PROVE  /\ UNCHANGED <<obj, snaps, writer, swept, calls>>
         /\ \/ GiveUp(a) /\ UNCHANGED <<tenant, vol>>
            \/ writer = a /\ Done(a) /\ tenant' = new /\ vol' = recs
<1>. DEFINE s == Head(session[a])
<1>1. s.do = "rewrap" /\ s.t = new /\ s.recs = recs
  BY DEF Rewrap
<1>2. PutStep(a, s) /\ UNCHANGED <<writer, seen, swept, calls>>
  BY <1>1, Dispatch
<1>. HIDE DEF s
<1>. QED
  BY <1>1, <1>2 DEF PutStep, Fenced

LEMMA PinsHead ==
  ASSUME NEW a, NEW v, Step(a), Head(session[a]) = Pins(v)
  PROVE  /\ UNCHANGED <<obj, snaps, writer, swept, calls, tenant>>
         /\ \/ GiveUp(a) /\ UNCHANGED vol
            \/ /\ writer = a /\ Done(a) /\ obj[v] # None
               /\ vol' = [vol EXCEPT ![v] = [vol[v] EXCEPT !.pins = obj[v].ext]]
<1>. DEFINE s == Head(session[a])
<1>1. s.do = "pins" /\ s.v = v
  BY DEF Pins
<1>2. PinsStep(a, s) /\ UNCHANGED <<writer, seen, swept, calls>>
  BY <1>1, Dispatch
<1>. HIDE DEF s
<1>. QED
  BY <1>1, <1>2 DEF PinsStep, Fenced

LEMMA MkfsHead ==
  ASSUME NEW a, NEW v, Step(a), Head(session[a]) = Mkfs(v)
  PROVE  /\ UNCHANGED <<vol, snaps, writer, swept, calls, tenant>>
         /\ \/ obj[v] = None /\ obj' = [obj EXCEPT ![v] = Database(v, None, {})] /\ Done(a)
            \/ Built(v) /\ UNCHANGED obj /\ Done(a)
            \/ UNCHANGED obj /\ GiveUp(a)
<1>. DEFINE s == Head(session[a])
<1>1. s.do = "mkfs" /\ s.v = v
  BY DEF Mkfs
<1>2. MkfsStep(a, s) /\ UNCHANGED <<writer, seen, swept, calls>>
  BY <1>1, Dispatch
<1>. HIDE DEF s
<1>. QED
  BY <1>1, <1>2 DEF MkfsStep, Built

LEMMA WipeHead ==
  ASSUME NEW a, NEW v, Step(a), Head(session[a]) = Wipe(v)
  PROVE  /\ UNCHANGED <<vol, snaps, writer, swept, calls, tenant>>
         /\ obj' = [obj EXCEPT ![v] = None] /\ Done(a)
<1>. DEFINE s == Head(session[a])
<1>1. s.do = "wipe" /\ s.v = v
  BY DEF Wipe
<1>2. WipeStep(a, s) /\ UNCHANGED <<writer, seen, swept, calls>>
  BY <1>1, Dispatch
<1>. HIDE DEF s
<1>. QED
  BY <1>1, <1>2 DEF WipeStep

LEMMA BuildHead ==
  ASSUME NEW a, NEW v, NEW source, NEW snap, Step(a), Head(session[a]) = Build(v, source, snap)
  PROVE  /\ UNCHANGED <<vol, writer, swept, calls, tenant>>
         /\ \/ GiveUp(a) /\ UNCHANGED <<obj, snaps>>
            \/ Done(a) /\ UNCHANGED <<obj, snaps>>
            \/ /\ obj[source] # None /\ (snap # None => snap \in obj[source].snaps) /\ obj[v] = None
               /\ snaps < MaxSnaps /\ snaps' = snaps + 1
               /\ obj' = [obj EXCEPT ![v] = Database(obj[source].fsid, source,
                                                     {snaps'} \cup ({snap} \ {None})),
                                     ![source].snaps = @ \cup {snaps'}]
               /\ Done(a)
<1>. DEFINE s == Head(session[a])
<1>1. s.do = "build" /\ s.v = v /\ s.source = source /\ s.snap = snap
  BY DEF Build
<1>2. BuildStep(a, s) /\ UNCHANGED <<writer, seen, swept, calls>>
  BY <1>1, Dispatch
<1>. HIDE DEF s
<1>. QED
  BY <1>1, <1>2 DEF BuildStep

LEMMA RewriteHead ==
  ASSUME NEW a, NEW v, NEW source, Step(a), Head(session[a]) = Rewrite(v, source)
  PROVE  /\ UNCHANGED <<vol, snaps, writer, swept, calls, tenant>>
         /\ \/ GiveUp(a) /\ UNCHANGED obj
            \/ Done(a) /\ obj[v] # None /\ obj' = [obj EXCEPT ![v] = [obj[v] EXCEPT !.fsid = v]]
<1>. DEFINE s == Head(session[a])
<1>1. s.do = "rewrite" /\ s.v = v /\ s.source = source
  BY DEF Rewrite
<1>2. RewriteStep(a, s) /\ UNCHANGED <<writer, seen, swept, calls>>
  BY <1>1, Dispatch
<1>. HIDE DEF s
<1>. QED
  BY <1>1, <1>2 DEF RewriteStep

-------------------------------------------------------------------------------
(***************************************************************************)
(* A session's own step: it is safe, what is left of the script is again    *)
(* one, and the step is one the other sessions stand.                       *)
(***************************************************************************)
Turn(a) ==
  /\ UNCHANGED writer
  /\ session' = [session EXCEPT ![a] = session'[a]]
  /\ \/ UNCHANGED <<tenant, vol>> /\ Kept
     \/ writer = a /\ Onward

LEMMA Passed ==
  ASSUME LifeTypes, NEW a \in Admins, GiveUp(a) \/ Done(a)
  PROVE  /\ session' = [b \in Admins |-> session'[b]]
         /\ session' = [session EXCEPT ![a] = session'[a]]
         /\ GiveUp(a) => session'[a] = <<>>
         /\ Done(a) => session'[a] = Tail(session[a])
BY DEF LifeTypes, GiveUp, Done

LEMMA IdleCore ==
  ASSUME Core, session' = [b \in Admins |-> session'[b]],
         UNCHANGED <<tenant, vol, obj, writer, swept, snaps, calls>>
  PROVE  Core' /\ Kept
<1>1. Reshaped
  BY DEF Core, LifeTypes, TypeOK, Reshaped
<1>2. Gentle
  BY DEF Gentle, GentleOn
<1>. QED
  BY <1>1, <1>2, GentleCore

LEMMA Stopped ==
  ASSUME Core, NEW a \in Admins, GiveUp(a),
         UNCHANGED <<tenant, vol, obj, writer, swept, snaps, calls>>
  PROVE  Core' /\ Turn(a) /\ Script(a)'
<1>1. /\ session' = [b \in Admins |-> session'[b]]
      /\ session' = [session EXCEPT ![a] = session'[a]] /\ session'[a] = <<>>
  BY Passed DEF Core
<1>2. Core' /\ Kept
  BY <1>1, IdleCore
<1>. QED
  BY <1>1, <1>2 DEF Turn, Script

LEMMA FirstOfOne ==
  ASSUME NEW p
  PROVE  Head(<<p>>) = p /\ Tail(<<p>>) = <<>>
OBVIOUS

LEMMA FirstOfTwo ==
  ASSUME NEW p, NEW q
  PROVE  Head(<<p, q>>) = p /\ Tail(<<p, q>>) = <<q>>
OBVIOUS

LEMMA FirstOfThree ==
  ASSUME NEW p, NEW q, NEW r
  PROVE  Head(<<p, q, r>>) = p /\ Tail(<<p, q, r>>) = <<q, r>>
OBVIOUS

LEMMA FirstOfFour ==
  ASSUME NEW p, NEW q, NEW r, NEW s
  PROVE  Head(<<p, q, r, s>>) = p /\ Tail(<<p, q, r, s>>) = <<q, r, s>>
OBVIOUS

LEMMA FirstOfFive ==
  ASSUME NEW p, NEW q, NEW r, NEW s, NEW t
  PROVE  Head(<<p, q, r, s, t>>) = p /\ Tail(<<p, q, r, s, t>>) = <<q, r, s, t>>
OBVIOUS

LEMMA AddingStep ==
  ASSUME Core, NEW a \in Admins, NEW v \in Volumes, NEW rec \in Records, Adding(a, v, rec), Step(a)
  PROVE  Core' /\ Turn(a) /\ Script(a)'
<1>1. Head(session[a]) = Put(v, rec) /\ Tail(session[a]) = <<Mkfs(v), Activate(v)>>
  <2>1. session[a] = <<Put(v, rec), Mkfs(v), Activate(v)>>
    BY Zenon DEF Adding
  <2>. QED
    BY <2>1, FirstOfThree
<1>2. /\ UNCHANGED <<obj, snaps, writer, swept, calls, tenant>>
      /\ \/ GiveUp(a) /\ UNCHANGED vol
         \/ writer = a /\ Done(a) /\ vol' = [vol EXCEPT ![v] = rec]
  BY <1>1, PutHead
<1>3. CASE GiveUp(a) /\ UNCHANGED vol
  BY <1>2, <1>3, Stopped
<1>4. CASE writer = a /\ Done(a) /\ vol' = [vol EXCEPT ![v] = rec]
  <2>1. /\ session' = [b \in Admins |-> session'[b]]
        /\ session' = [session EXCEPT ![a] = session'[a]] /\ session'[a] = <<Mkfs(v), Activate(v)>>
    BY <1>1, <1>4, Passed, Zenon DEF Core
  <2>2. Written(v, rec) /\ MayAdd(v, rec)
    BY <1>2, <1>4, <2>1 DEF Written, Adding
  <2>3. Core' /\ Onward
    BY <2>2, AddedCore
  <2>4. State(v)' = rec.state
    BY <2>2, WrittenStates DEF Core
  <2>5. Making(a, v)'
    BY <1>2, <2>1, <2>2, <2>4 DEF Making, MayFinish, MayAdd
  <2>. QED
    BY <1>2, <1>4, <2>1, <2>3, <2>5, Zenon DEF Turn, Script
<1>. QED
  BY <1>2, <1>3, <1>4

LEMMA CloningStep ==
  ASSUME Core, NEW a \in Admins, NEW v \in Volumes, NEW s \in Volumes, s # v,
         NEW c \in Checkpoints \cup {None}, NEW rec \in Records, Cloning(a, v, s, c, rec), Step(a)
  PROVE  Core' /\ Turn(a) /\ Script(a)'
<1>1. /\ Head(session[a]) = Put(v, rec)
      /\ Tail(session[a]) = <<Build(v, s, c), Pins(v), Rewrite(v, s), Activate(v)>>
  <2>1. session[a] = <<Put(v, rec), Build(v, s, c), Pins(v), Rewrite(v, s), Activate(v)>>
    BY Zenon DEF Cloning
  <2>. QED
    BY <2>1, FirstOfFive
<1>2. /\ UNCHANGED <<obj, snaps, writer, swept, calls, tenant>>
      /\ \/ GiveUp(a) /\ UNCHANGED vol
         \/ writer = a /\ Done(a) /\ vol' = [vol EXCEPT ![v] = rec]
  BY <1>1, PutHead
<1>3. CASE GiveUp(a) /\ UNCHANGED vol
  BY <1>2, <1>3, Stopped
<1>4. CASE writer = a /\ Done(a) /\ vol' = [vol EXCEPT ![v] = rec]
  <2>1. /\ session' = [b \in Admins |-> session'[b]]
        /\ session' = [session EXCEPT ![a] = session'[a]]
        /\ session'[a] = <<Build(v, s, c), Pins(v), Rewrite(v, s), Activate(v)>>
    BY <1>1, <1>4, Passed, Zenon DEF Core
  <2>2. Written(v, rec) /\ MayAdd(v, rec)
    BY <1>2, <1>4, <2>1 DEF Written, Cloning
  <2>3. Core' /\ Onward
    BY <2>2, AddedCore
  <2>4. State(v)' = rec.state /\ vol'[v] = rec /\ rec # None
    BY <2>2, WrittenStates, RecordFields DEF Core
  <2>5. Building(a, v, s, c)'
    BY <1>2, <2>1, <2>2, <2>4 DEF Building, MayFinish, MayAdd, ChildOf, Cloning
  <2>. QED
    BY <1>2, <1>4, <2>1, <2>3, <2>5, Zenon DEF Turn, Script
<1>. QED
  BY Zenon, <1>2, <1>3, <1>4

LEMMA MakingStep ==
  ASSUME Core, NEW a \in Admins, NEW v \in Volumes, Making(a, v), Step(a)
  PROVE  Core' /\ Turn(a) /\ Script(a)'
<1>1. Head(session[a]) = Mkfs(v) /\ Tail(session[a]) = <<Activate(v)>>
  <2>1. session[a] = <<Mkfs(v), Activate(v)>>
    BY Zenon DEF Making
  <2>. QED
    BY <2>1, FirstOfTwo
<1>2. /\ UNCHANGED <<vol, snaps, writer, swept, calls, tenant>>
      /\ \/ obj[v] = None /\ obj' = [obj EXCEPT ![v] = Database(v, None, {})] /\ Done(a)
         \/ Built(v) /\ UNCHANGED obj /\ Done(a)
         \/ UNCHANGED obj /\ GiveUp(a)
  BY <1>1, MkfsHead
<1>3. CASE UNCHANGED obj /\ GiveUp(a)
  BY <1>2, <1>3, Stopped
<1>4. ASSUME Done(a), Core', Kept, Built(v)' PROVE Core' /\ Turn(a) /\ Script(a)'
  <2>1. session' = [session EXCEPT ![a] = session'[a]] /\ session'[a] = <<Activate(v)>>
    BY <1>1, <1>4, Passed, Zenon DEF Core
  <2>2. Finishing(a, v)'
    BY <1>2, <1>4, <2>1, Zenon DEF Finishing, Making, MayFinish, State
  <2>. QED
    BY <1>2, <1>4, <2>1, <2>2, Zenon DEF Turn, Script
<1>5. CASE Built(v) /\ UNCHANGED obj /\ Done(a)
  <2>1. session' = [b \in Admins |-> session'[b]]
    BY <1>5, Passed DEF Core
  <2>2. Core' /\ Kept
    BY <1>2, <1>5, <2>1, IdleCore
  <2>. QED
    BY <1>4, <1>5, <2>2 DEF Built
<1>6. CASE obj[v] = None /\ obj' = [obj EXCEPT ![v] = Database(v, None, {})] /\ Done(a)
  <2>. DEFINE d == Database(v, None, {})
  <2>1. session' = [b \in Admins |-> session'[b]]
    BY <1>6, Passed DEF Core
  <2>2. d \in Databases /\ d.from = None /\ d.fsid = v /\ d # None
    BY LifecycleAssumption DEF Database, Databases
  <2>. HIDE DEF d
  <2>3. obj'[v] = d /\ (\A w \in Volumes \ {v} : obj'[w] = obj[w]) /\ obj' = [w \in Volumes |-> obj'[w]]
    BY <1>6 DEF Core, LifeTypes, d
  <2>4. Reshaped
    BY <1>2, <2>1, <2>2, <2>3, Zenon DEF Reshaped, Core, LifeTypes, TypeOK
  <2>5. Gentle
    BY <1>6, <2>2, <2>3 DEF Gentle, GentleOn
  <2>6. Core' /\ Kept
    BY <2>4, <2>5, GentleCore
  <2>. QED
    BY <1>4, <1>6, <2>2, <2>3, <2>6, Zenon DEF Built
<1>. QED
  BY Zenon, <1>2, <1>3, <1>5, <1>6

LEMMA FinishingStep ==
  ASSUME Core, NEW a \in Admins, NEW v \in Volumes, Finishing(a, v), Step(a)
  PROVE  Core' /\ Turn(a) /\ Script(a)'
<1>. DEFINE rec == [vol[v] EXCEPT !.state = "active"]
<1>1. Head(session[a]) = Activate(v) /\ Tail(session[a]) = <<>>
  <2>1. session[a] = <<Activate(v)>>
    BY Zenon DEF Finishing
  <2>. QED
    BY <2>1, FirstOfOne
<1>2. /\ UNCHANGED <<obj, snaps, writer, swept, calls, tenant>>
      /\ \/ GiveUp(a) /\ UNCHANGED vol
         \/ writer = a /\ Done(a) /\ vol' = [vol EXCEPT ![v] = rec]
  BY <1>1, ActivateHead
<1>3. CASE GiveUp(a) /\ UNCHANGED vol
  BY <1>2, <1>3, Stopped
<1>4. CASE writer = a /\ Done(a) /\ vol' = [vol EXCEPT ![v] = rec]
  <2>1. /\ session' = [b \in Admins |-> session'[b]]
        /\ session' = [session EXCEPT ![a] = session'[a]] /\ session'[a] = <<>>
    BY <1>1, <1>4, Passed, Zenon DEF Core
  <2>2. MayFinish(v) /\ Built(v)
    BY <1>4, Zenon DEF Finishing
  <2>3. vol[v] \in Records
    BY <2>2, Known DEF Core, MayFinish
  <2>4. rec \in Records /\ rec.state = "active" /\ rec.parent = vol[v].parent /\ rec.kek = vol[v].kek
    BY <2>3 DEF Records
  <2>. HIDE DEF rec
  <2>5. Written(v, rec)
    BY <1>2, <1>4, <2>1, Zenon DEF Written
  <2>6. Core' /\ Onward
    BY <2>2, <2>4, <2>5, ChangedCore
  <2>. QED
    BY <1>2, <1>4, <2>1, <2>6 DEF Turn, Script
<1>. QED
  BY <1>2, <1>3, <1>4

LEMMA PinningStep ==
  ASSUME Core, NEW a \in Admins, NEW v \in Volumes, NEW s \in Volumes, s # v,
         Pinning(a, v, s), Step(a)
  PROVE  Core' /\ Turn(a) /\ Script(a)'
<1>. DEFINE rec == [vol[v] EXCEPT !.pins = obj[v].ext]
<1>1. Head(session[a]) = Pins(v) /\ Tail(session[a]) = <<Rewrite(v, s), Activate(v)>>
  <2>1. session[a] = <<Pins(v), Rewrite(v, s), Activate(v)>>
    BY Zenon DEF Pinning
  <2>. QED
    BY <2>1, FirstOfThree
<1>2. /\ UNCHANGED <<obj, snaps, writer, swept, calls, tenant>>
      /\ \/ GiveUp(a) /\ UNCHANGED vol
         \/ writer = a /\ Done(a) /\ obj[v] # None /\ vol' = [vol EXCEPT ![v] = rec]
  BY <1>1, PinsHead
<1>3. CASE GiveUp(a) /\ UNCHANGED vol
  BY <1>2, <1>3, Stopped
<1>4. CASE writer = a /\ Done(a) /\ obj[v] # None /\ vol' = [vol EXCEPT ![v] = rec]
  <2>1. /\ session' = [b \in Admins |-> session'[b]]
        /\ session' = [session EXCEPT ![a] = session'[a]]
        /\ session'[a] = <<Rewrite(v, s), Activate(v)>>
    BY <1>1, <1>4, Passed, Zenon DEF Core
  <2>2. MayFinish(v)
    BY <1>4 DEF Pinning
  <2>3. vol[v] \in Records /\ vol[v].state = "creating"
    BY <2>2, Known DEF Core, MayFinish
  <2>4. obj[v].ext \in SUBSET Checkpoints
    BY <1>4 DEF Core, LifeTypes, TypeOK, Databases
  <2>5. rec \in Records /\ rec.state = "creating" /\ rec.parent = vol[v].parent /\ rec.kek = vol[v].kek
    BY <2>3, <2>4 DEF Records
  <2>. HIDE DEF rec
  <2>6. Written(v, rec)
    BY <1>2, <1>4, <2>1, Zenon DEF Written
  <2>7. Core' /\ Onward
    BY <2>2, <2>5, <2>6, ChangedCore
  <2>8. State(v)' = "creating"
    BY <2>5, <2>6, WrittenStates DEF Core
  <2>9. Rewriting(a, v, s)'
    BY <1>2, <2>1, <2>2, <2>8, Zenon DEF Rewriting, MayFinish
  <2>. QED
    BY <1>2, <1>4, <2>1, <2>7, <2>9, Zenon DEF Turn, Script
<1>. QED
  BY ZenonT(30), <1>2, <1>3, <1>4

LEMMA Unwritten ==
  ASSUME UNCHANGED <<tenant, vol>>
  PROVE  Onward
BY DEF Onward, Doomed, ActiveClones, State

\* Objects wiped: nothing else of the state changes.
LEMMA WipedReshapes ==
  ASSUME Core, NEW v \in Volumes, obj' = [obj EXCEPT ![v] = None],
         UNCHANGED <<vol, snaps, writer, swept, calls, tenant>>,
         session' = [b \in Admins |-> session'[b]]
  PROVE  Reshaped
BY DEF Reshaped, Core, LifeTypes, TypeOK

LEMMA RestartingStep ==
  ASSUME Core, NEW a \in Admins, NEW v \in Volumes, NEW s \in Volumes, s # v,
         NEW c \in Checkpoints \cup {None}, Restarting(a, v, s, c), Step(a)
  PROVE  Core' /\ Turn(a) /\ Script(a)'
<1>1. /\ Head(session[a]) = Wipe(v)
      /\ Tail(session[a]) = <<Build(v, s, c), Pins(v), Rewrite(v, s), Activate(v)>>
  <2>1. session[a] = <<Wipe(v), Build(v, s, c), Pins(v), Rewrite(v, s), Activate(v)>>
    BY Zenon DEF Restarting
  <2>. QED
    BY <2>1, FirstOfFive
<1>2. /\ UNCHANGED <<vol, snaps, writer, swept, calls, tenant>>
      /\ obj' = [obj EXCEPT ![v] = None] /\ Done(a)
  BY <1>1, WipeHead
<1>3. /\ session' = [b \in Admins |-> session'[b]]
      /\ session' = [session EXCEPT ![a] = session'[a]]
      /\ session'[a] = <<Build(v, s, c), Pins(v), Rewrite(v, s), Activate(v)>>
  BY <1>1, <1>2, Passed, Zenon DEF Core
<1>4. State(v) = "creating" /\ writer = a
  BY DEF Restarting, MayFinish
<1>5. Core'
  BY Zenon, <1>2, <1>3, <1>4, WipedReshapes, WipedCore
<1>6. Onward
  BY <1>2, Unwritten
<1>7. Building(a, v, s, c)'
  BY <1>2, <1>3 DEF Building, Restarting, ChildOf, MayFinish, State
<1>. QED
  BY <1>2, <1>3, <1>4, <1>5, <1>6, <1>7, Zenon DEF Turn, Script

LEMMA BuildingStep ==
  ASSUME Core, NEW a \in Admins, NEW v \in Volumes, NEW s \in Volumes, s # v,
         NEW c \in Checkpoints \cup {None}, Building(a, v, s, c), Step(a)
  PROVE  Core' /\ Turn(a) /\ Script(a)'
<1>. DEFINE d == Database(obj[s].fsid, s, {snaps'} \cup ({c} \ {None}))
            e == [obj[s] EXCEPT !.snaps = obj[s].snaps \cup {snaps'}]
<1>1. /\ Head(session[a]) = Build(v, s, c)
      /\ Tail(session[a]) = <<Pins(v), Rewrite(v, s), Activate(v)>>
  <2>1. session[a] = <<Build(v, s, c), Pins(v), Rewrite(v, s), Activate(v)>>
    BY Zenon DEF Building
  <2>. QED
    BY <2>1, FirstOfFour
<1>2. /\ UNCHANGED <<vol, writer, swept, calls, tenant>>
      /\ \/ GiveUp(a) /\ UNCHANGED <<obj, snaps>>
         \/ Done(a) /\ UNCHANGED <<obj, snaps>>
         \/ /\ obj[s] # None /\ (c # None => c \in obj[s].snaps) /\ obj[v] = None
            /\ snaps < MaxSnaps /\ snaps' = snaps + 1
            /\ obj' = [obj EXCEPT ![v] = d, ![s].snaps = @ \cup {snaps'}]
            /\ Done(a)
  BY Zenon, <1>1, BuildHead
<1>3. CASE GiveUp(a) /\ UNCHANGED <<obj, snaps>>
  BY <1>2, <1>3, Stopped
<1>4. ASSUME Done(a), Core', Kept PROVE Core' /\ Turn(a) /\ Script(a)'
  <2>1. /\ session' = [session EXCEPT ![a] = session'[a]]
        /\ session'[a] = <<Pins(v), Rewrite(v, s), Activate(v)>>
    BY <1>1, <1>4, Passed, Zenon DEF Core
  <2>2. Pinning(a, v, s)'
    BY <1>2, <2>1 DEF Pinning, Building, MayFinish, State
  <2>. QED
    BY <1>2, <1>4, <2>1, <2>2, Zenon DEF Turn, Script
<1>5. CASE Done(a) /\ UNCHANGED <<obj, snaps>>
  <2>1. session' = [b \in Admins |-> session'[b]]
    BY <1>5, Passed DEF Core
  <2>2. Core' /\ Kept
    BY <1>2, <1>5, <2>1, IdleCore
  <2>. QED
    BY <1>4, <1>5, <2>2
<1>6. CASE /\ obj[s] # None /\ (c # None => c \in obj[s].snaps) /\ obj[v] = None
           /\ snaps < MaxSnaps /\ snaps' = snaps + 1
           /\ obj' = [obj EXCEPT ![v] = d, ![s].snaps = @ \cup {snaps'}]
           /\ Done(a)
  <2>1. session' = [b \in Admins |-> session'[b]]
    BY <1>6, Passed DEF Core
  <2>2. obj[s] \in Databases /\ snaps \in 0 .. MaxSnaps /\ obj = [w \in Volumes |-> obj[w]]
    BY <1>6 DEF Core, LifeTypes, TypeOK
  <2>3. snaps' \in Checkpoints /\ snaps' \in 0 .. MaxSnaps
    BY <1>6, <2>2, LifecycleAssumption DEF Checkpoints
  <2>4. {snaps'} \cup ({c} \ {None}) \in SUBSET Checkpoints
    BY <2>3
  <2>5. d \in Databases /\ d.from = s /\ d # None
    BY <2>2, <2>4, LifecycleAssumption DEF Database, Databases
  <2>6. e \in Databases /\ e.from = obj[s].from /\ e.fsid = obj[s].fsid /\ e # None
    BY <2>2, <2>3, LifecycleAssumption DEF Databases
  <2>7. /\ obj'[v] = d /\ obj'[s] = e /\ (\A w \in Volumes \ {v, s} : obj'[w] = obj[w])
        /\ obj' = [w \in Volumes |-> obj'[w]]
    <3>. HIDE DEF d
    <3>. QED
      BY <1>6, <2>2, Zenon
  <2>. HIDE DEF d, e
  <2>8. Reshaped
    BY <1>2, <2>1, <2>3, <2>5, <2>6, <2>7, ZenonT(30) DEF Reshaped, Core, LifeTypes, TypeOK
  <2>9. Gentle
    <3>1. ChildOf(v, s)
      BY DEF Building
    <3>2. GentleOn(v)
      BY <1>6, <2>5, <2>7, <3>1, Zenon DEF GentleOn
    <3>3. GentleOn(s)
      BY <1>6, <2>6, <2>7, Zenon DEF GentleOn
    <3>4. ASSUME NEW w \in Volumes \ {v, s} PROVE GentleOn(w)
      BY <2>7, <3>4 DEF GentleOn
    <3>. QED
      BY <3>2, <3>3, <3>4, Zenon DEF Gentle
  <2>10. Core' /\ Kept
    BY <2>8, <2>9, GentleCore
  <2>. QED
    BY <1>4, <1>6, <2>10
<1>. QED
  BY Zenon, <1>2, <1>3, <1>5, <1>6

LEMMA RewritingStep ==
  ASSUME Core, NEW a \in Admins, NEW v \in Volumes, NEW s \in Volumes, s # v,
         Rewriting(a, v, s), Step(a)
  PROVE  Core' /\ Turn(a) /\ Script(a)'
<1>. DEFINE d == [obj[v] EXCEPT !.fsid = v]
<1>1. Head(session[a]) = Rewrite(v, s) /\ Tail(session[a]) = <<Activate(v)>>
  <2>1. session[a] = <<Rewrite(v, s), Activate(v)>>
    BY Zenon DEF Rewriting
  <2>. QED
    BY <2>1, FirstOfTwo
<1>2. /\ UNCHANGED <<vol, snaps, writer, swept, calls, tenant>>
      /\ \/ GiveUp(a) /\ UNCHANGED obj
         \/ Done(a) /\ obj[v] # None /\ obj' = [obj EXCEPT ![v] = d]
  BY <1>1, RewriteHead
<1>3. CASE GiveUp(a) /\ UNCHANGED obj
  BY <1>2, <1>3, Stopped
<1>4. CASE Done(a) /\ obj[v] # None /\ obj' = [obj EXCEPT ![v] = d]
  <2>1. /\ session' = [b \in Admins |-> session'[b]]
        /\ session' = [session EXCEPT ![a] = session'[a]] /\ session'[a] = <<Activate(v)>>
    BY <1>1, <1>4, Passed, Zenon DEF Core
  <2>2. obj[v] \in Databases
    BY <1>4 DEF Core, LifeTypes, TypeOK
  <2>3. d \in Databases /\ d.from = obj[v].from /\ d.fsid = v /\ d # None
    BY <2>2, LifecycleAssumption DEF Databases
  <2>. HIDE DEF d
  <2>4. obj'[v] = d /\ (\A w \in Volumes \ {v} : obj'[w] = obj[w]) /\ obj' = [w \in Volumes |-> obj'[w]]
    BY <1>4 DEF Core, LifeTypes
  <2>5. Reshaped
    BY <1>2, <2>1, <2>3, <2>4, Zenon DEF Reshaped, Core, LifeTypes, TypeOK
  <2>6. Gentle
    BY <1>4, <2>3, <2>4 DEF Gentle, GentleOn
  <2>7. Core' /\ Kept
    BY Zenon, <2>5, <2>6, GentleCore
  <2>8. Finishing(a, v)'
    BY <1>2, <2>1, <2>3, <2>4, Zenon DEF Finishing, Rewriting, MayFinish, State, Built
  <2>. QED
    BY <1>2, <2>1, <2>7, <2>8, Zenon DEF Turn, Script
<1>. QED
  BY <1>2, <1>3, <1>4

LEMMA ShreddingStep ==
  ASSUME Core, NEW a \in Admins, NEW v \in Volumes, NEW rec \in Records, Shredding(a, v, rec), Step(a)
  PROVE  Core' /\ Turn(a) /\ Script(a)'
<1>1. Head(session[a]) = Put(v, rec) /\ Tail(session[a]) = <<Clear(v), Wipe(v)>> /\ vol[v] # None
  <2>1. session[a] = <<Put(v, rec), Clear(v), Wipe(v)>> /\ vol[v] # None
    BY Zenon DEF Shredding
  <2>. QED
    BY <2>1, FirstOfThree
<1>2. /\ UNCHANGED <<obj, snaps, writer, swept, calls, tenant>>
      /\ \/ GiveUp(a) /\ UNCHANGED vol
         \/ writer = a /\ Done(a) /\ vol' = [vol EXCEPT ![v] = rec]
  BY <1>1, PutHead
<1>3. CASE GiveUp(a) /\ UNCHANGED vol
  BY <1>2, <1>3, Stopped
<1>4. CASE writer = a /\ Done(a) /\ vol' = [vol EXCEPT ![v] = rec]
  <2>1. /\ session' = [b \in Admins |-> session'[b]]
        /\ session' = [session EXCEPT ![a] = session'[a]] /\ session'[a] = <<Clear(v), Wipe(v)>>
    BY <1>1, <1>4, Passed, Zenon DEF Core
  <2>2. rec = Shredded(v) /\ ActiveClones(v) = {} /\ Written(v, rec)
    BY <1>2, <1>4, <2>1 DEF Written, Shredding
  <2>3. Core' /\ Onward
    BY <1>1, <2>2, ShreddedCore
  <2>4. /\ State(v)' = "deleting" /\ \A w \in Volumes \ {v} : State(w)' = State(w)
        /\ \A w \in Volumes \ {v} : vol'[w] = vol[w]
    BY <1>1, <2>2, WrittenStates, ShreddedFields, SMTT(30) DEF Core
  <2>5. Doomed(v)'
    BY <2>2, <2>4 DEF Doomed, ActiveClones
  <2>6. Clearing(a, v)'
    BY <2>1, <2>5 DEF Clearing
  <2>. QED
    BY <1>2, <1>4, <2>1, <2>3, <2>6, Zenon DEF Turn, Script
<1>. QED
  BY <1>2, <1>3, <1>4

LEMMA ClearingStep ==
  ASSUME Core, NEW a \in Admins, NEW v \in Volumes, Clearing(a, v), Step(a)
  PROVE  Core' /\ Turn(a) /\ Script(a)'
<1>1. Head(session[a]) = Clear(v) /\ Tail(session[a]) = <<Wipe(v)>>
  <2>1. session[a] = <<Clear(v), Wipe(v)>>
    BY Zenon DEF Clearing
  <2>. QED
    BY <2>1, FirstOfTwo
<1>2. /\ UNCHANGED <<obj, snaps, writer, swept, calls, tenant, vol>>
      /\ GiveUp(a) \/ Done(a)
  BY <1>1, ClearHead
<1>3. CASE GiveUp(a)
  BY <1>2, <1>3, Stopped
<1>4. CASE Done(a)
  <2>1. /\ session' = [b \in Admins |-> session'[b]]
        /\ session' = [session EXCEPT ![a] = session'[a]] /\ session'[a] = <<Wipe(v)>>
    BY <1>1, <1>4, Passed, Zenon DEF Core
  <2>2. Core' /\ Kept
    BY <1>2, <2>1, IdleCore
  <2>3. Wiping(a, v)'
    BY <1>2, <2>1 DEF Wiping, Clearing, Doomed, ActiveClones, State
  <2>. QED
    BY <1>2, <2>1, <2>2, <2>3, Zenon DEF Turn, Script
<1>. QED
  BY <1>2, <1>3, <1>4

LEMMA WipingStep ==
  ASSUME Core, NEW a \in Admins, NEW v \in Volumes, Wiping(a, v), Step(a)
  PROVE  Core' /\ Turn(a) /\ Script(a)'
<1>1. Head(session[a]) = Wipe(v) /\ Tail(session[a]) = <<>> /\ Doomed(v)
  <2>1. session[a] = <<Wipe(v)>> /\ Doomed(v)
    BY Zenon DEF Wiping
  <2>. QED
    BY <2>1, FirstOfOne
<1>2. /\ UNCHANGED <<vol, snaps, writer, swept, calls, tenant>>
      /\ obj' = [obj EXCEPT ![v] = None] /\ Done(a)
  BY <1>1, WipeHead
<1>3. /\ session' = [b \in Admins |-> session'[b]]
      /\ session' = [session EXCEPT ![a] = session'[a]] /\ session'[a] = <<>>
  BY <1>1, <1>2, Passed, Zenon DEF Core
<1>4. Core' /\ Kept
  BY Zenon, <1>1, <1>2, <1>3, WipedReshapes, WipedCore
<1>. QED
  BY <1>2, <1>3, <1>4 DEF Turn, Script

LEMMA SettingStep ==
  ASSUME Core, NEW a \in Admins, NEW new \in Tenants, Setting(a, new), Step(a)
  PROVE  Core' /\ Turn(a) /\ Script(a)'
<1>1. Head(session[a]) = Tenant(new) /\ Tail(session[a]) = <<>>
  <2>1. session[a] = <<Tenant(new)>>
    BY Zenon DEF Setting
  <2>. QED
    BY <2>1, FirstOfOne
<1>2. /\ UNCHANGED <<obj, snaps, writer, swept, calls, vol>>
      /\ \/ GiveUp(a) /\ UNCHANGED tenant
         \/ writer = a /\ Done(a) /\ tenant' = new
  BY <1>1, TenantHead
<1>3. CASE GiveUp(a) /\ UNCHANGED tenant
  BY <1>2, <1>3, Stopped
<1>4. CASE writer = a /\ Done(a) /\ tenant' = new
  <2>1. /\ session' = [b \in Admins |-> session'[b]]
        /\ session' = [session EXCEPT ![a] = session'[a]] /\ session'[a] = <<>>
    BY <1>1, <1>4, Passed, Zenon DEF Core
  <2>2. TenantWritten(new) /\ Living /\ new.state # "deleting" /\ new.kek = tenant.kek
    BY <1>2, <1>4, <2>1 DEF TenantWritten, Setting
  <2>3. Core' /\ Onward
    BY <1>2, <2>2, TenantCore
  <2>. QED
    BY <1>2, <1>4, <2>1, <2>3 DEF Turn, Script
<1>. QED
  BY <1>2, <1>3, <1>4

LEMMA RotatingStep ==
  ASSUME Core, NEW a \in Admins, NEW recs, NEW new, Rotating(a, recs, new), Step(a)
  PROVE  Core' /\ Turn(a) /\ Script(a)'
<1>1. Head(session[a]) = Rewrap(recs, new) /\ Tail(session[a]) = <<>>
  <2>1. session[a] = <<Rewrap(recs, new)>>
    BY Zenon DEF Rotating
  <2>. QED
    BY <2>1, FirstOfOne
<1>2. /\ UNCHANGED <<obj, snaps, writer, swept, calls>>
      /\ \/ GiveUp(a) /\ UNCHANGED <<tenant, vol>>
         \/ writer = a /\ Done(a) /\ tenant' = new /\ vol' = recs
  BY <1>1, RewrapHead
<1>3. CASE GiveUp(a) /\ UNCHANGED <<tenant, vol>>
  BY Zenon, <1>2, <1>3, Stopped
<1>4. CASE writer = a /\ Done(a) /\ tenant' = new /\ vol' = recs
  <2>1. /\ session' = [b \in Admins |-> session'[b]]
        /\ session' = [session EXCEPT ![a] = session'[a]] /\ session'[a] = <<>>
    BY <1>1, <1>4, Passed, Zenon DEF Core
  <2>2. /\ TenantWritten(new) /\ Living /\ tenant.kek < MaxKek
        /\ new = [tenant EXCEPT !.kek = tenant.kek + 1] /\ vol' = Rotated
    BY <1>2, <1>4, <2>1 DEF TenantWritten, Rotating
  <2>3. Core' /\ Onward
    BY <2>2, RotatedCore
  <2>. QED
    BY <1>2, <1>4, <2>1, <2>3, Zenon DEF Turn, Script
<1>. QED
  BY <1>2, <1>3, <1>4

LEMMA FirstOf ==
  ASSUME NEW t, NEW n \in Nat, t = [i \in 1 .. n |-> t[i]], t # <<>>
  PROVE  n >= 1 /\ Head(t) = t[1] /\ Tail(t) = [i \in 1 .. n - 1 |-> t[i + 1]]
<1>. DEFINE S == {t[i] : i \in 1 .. n}
<1>1. t \in [1 .. n -> S]
  OBVIOUS
<1>2. t \in Seq(S) /\ Len(t) = n
  BY <1>1
<1>3. n >= 1
  BY <1>2
<1>. QED
  BY <1>2, <1>3

LEMMA StepKinds ==
  ASSUME NEW v, NEW rec, NEW w, NEW new
  PROVE  Put(v, rec) # Tenant(new) /\ Clear(w) # Tenant(new) /\ Wipe(w) # Tenant(new)
<1>1. /\ Put(v, rec).do = "put" /\ Clear(w).do = "clear" /\ Wipe(w).do = "wipe"
      /\ Tenant(new).do = "tenant"
  BY DEF Put, Clear, Wipe, Tenant
<1>. QED
  BY <1>1

LEMMA DeletingGoesOn ==
  ASSUME NEW a \in Admins, NEW n \in Nat, n >= 1, Deleting(a, n),
         session'[a] = [i \in 1 .. n - 1 |-> session[a][i + 1]], UNCHANGED writer,
         \A v \in Volumes : vol[v] # None => vol'[v] # None /\ (writer = a => Shredded(v)' = Shredded(v)),
         Living' => Living /\ session[a][1] # Tenant(Dropped)
  PROVE  Deleting(a, n - 1)'
<1>1. ASSUME NEW i \in 1 .. n - 1 PROVE DeletionStep(a, i)'
  <2>1. PICK k \in 1 .. n : k = i + 1 /\ DeletionStep(a, k) /\ session'[a][i] = session[a][k]
    <3>1. i + 1 \in 1 .. n /\ session'[a][i] = session[a][i + 1]
      <4>1. i + 1 \in 1 .. n
        OBVIOUS
      <4>2. session'[a][i] = session[a][i + 1]
        BY Zenon
      <4>. QED
        BY <4>1, <4>2
    <3>2. \A k \in 1 .. n : DeletionStep(a, k)
      BY Zenon DEF Deleting
    <3>. QED
      BY <3>1, <3>2, Zenon
  <2>2. CASE Condemned(a, session[a][k])
    <3>1. PICK v \in Volumes, rec \in Records :
            session[a][k] = Put(v, rec) /\ vol[v] # None /\ (writer = a => rec = Shredded(v))
      BY <2>2, Zenon DEF Condemned
    <3>2. session'[a][i] = Put(v, rec) /\ vol'[v] # None /\ (writer' = a => rec = Shredded(v)')
      BY Zenon, <2>1, <3>1
    <3>. QED
      BY <3>2 DEF DeletionStep, Condemned
  <2>3. CASE \E v \in Volumes : session[a][k] = Clear(v)
    BY <2>1, <2>3, Zenon DEF DeletionStep
  <2>4. CASE session[a][k] = Tenant(Dropped)
    BY <2>1, <2>4, Zenon DEF DeletionStep
  <2>5. ASSUME NEW v \in Volumes, session[a][k] = Wipe(v),
               Living => \E j \in 1 .. k - 1 : session[a][j] = Tenant(Dropped)
        PROVE  DeletionStep(a, i)'
    <3>1. ASSUME Living' PROVE \E j \in 1 .. i - 1 : session'[a][j] = Tenant(Dropped)
      <4>1. PICK j \in 1 .. k - 1 : session[a][j] = Tenant(Dropped)
        BY Zenon, <2>5, <3>1
      <4>2. j # 1
        BY Zenon, <3>1, <4>1
      <4>3. j - 1 \in 1 .. i - 1 /\ session'[a][j - 1] = session[a][j]
        BY <2>1, <4>2
      <4>. QED
        BY Zenon, <4>1, <4>3
    <3>. QED
      BY <2>1, <2>5, <3>1, Zenon DEF DeletionStep
  <2>6. \/ Condemned(a, session[a][k])
        \/ \E v \in Volumes : session[a][k] = Clear(v)
        \/ session[a][k] = Tenant(Dropped)
        \/ \E v \in Volumes : /\ session[a][k] = Wipe(v)
                              /\ Living => \E j \in 1 .. k - 1 : session[a][j] = Tenant(Dropped)
    BY <2>1, Zenon DEF DeletionStep
  <2>. QED
    BY <2>2, <2>3, <2>4, <2>5, <2>6
<1>. QED
  BY <1>1, Zenon DEF Deleting

LEMMA DeletingStep ==
  ASSUME Core, NEW a \in Admins, NEW n \in Nat, Deleting(a, n), Step(a)
  PROVE  Core' /\ Turn(a) /\ Script(a)'
<1>. DEFINE t == session[a]
<1>1. t # <<>> /\ t = [i \in 1 .. n |-> t[i]]
  BY Zenon DEF Step, Deleting
<1>2. n >= 1 /\ Head(t) = t[1] /\ Tail(t) = [i \in 1 .. n - 1 |-> t[i + 1]]
  <2>. HIDE DEF t
  <2>. QED
    BY <1>1, FirstOf
<1>3. DeletionStep(a, 1)
  BY <1>2 DEF Deleting
<1>4. ASSUME Done(a) PROVE /\ session' = [b \in Admins |-> session'[b]]
                           /\ session' = [session EXCEPT ![a] = session'[a]]
                           /\ session'[a] = [i \in 1 .. n - 1 |-> session[a][i + 1]]
  BY <1>2, <1>4, Passed, Zenon DEF Core
<1>5. n - 1 \in Nat
  BY <1>2
<1>6. ASSUME Deleting(a, n - 1)' PROVE Script(a)'
  BY <1>5, <1>6, Zenon DEF Script
<1>7. ASSUME NEW v \in Volumes, NEW rec \in Records,
             t[1] = Put(v, rec), vol[v] # None, writer = a => rec = Shredded(v)
      PROVE  Core' /\ Turn(a) /\ Script(a)'
  <2>0. Head(session[a]) = Put(v, rec)
    BY <1>2, <1>7, Zenon
  <2>1. /\ UNCHANGED <<obj, snaps, writer, swept, calls, tenant>>
        /\ \/ GiveUp(a) /\ UNCHANGED vol
           \/ writer = a /\ Done(a) /\ vol' = [vol EXCEPT ![v] = rec]
    BY <2>0, PutHead, Zenon
  <2>2. CASE GiveUp(a) /\ UNCHANGED vol
    BY Zenon, <2>1, <2>2, Stopped
  <2>3. CASE writer = a /\ Done(a) /\ vol' = [vol EXCEPT ![v] = rec]
    <3>1. rec = Shredded(v) /\ Written(v, rec)
      BY <1>4, <1>7, <2>1, <2>3, Zenon DEF Written
    <3>2. Core' /\ Onward
      BY Zenon, <1>7, <3>1, ShreddedCore
    <3>3. vol'[v] = Shredded(v) /\ \A w \in Volumes \ {v} : vol'[w] = vol[w]
      BY <3>1, WrittenStates, Zenon DEF Core
    <3>4. vol[v] \in Records
      BY <1>7, Known DEF Core
    <3>5. Shredded(v)' = Shredded(v)
      BY <3>3, <3>4, Zenon DEF Shredded, Records
    <3>6. \A w \in Volumes : vol[w] # None => vol'[w] # None /\ Shredded(w)' = Shredded(w)
      BY <3>2, <3>3, <3>5, Zenon DEF Onward, Shredded
    <3>7. t[1] # Tenant(Dropped)
      BY <1>7, StepKinds
    <3>8. Deleting(a, n - 1)'
      BY <1>2, <1>4, <2>1, <2>3, <3>6, <3>7, DeletingGoesOn, Zenon DEF Living
    <3>. QED
      BY <1>4, <1>6, <2>1, <2>3, <3>2, <3>8, Zenon DEF Turn
  <2>. QED
    BY <2>1, <2>2, <2>3
<1>8. ASSUME NEW v \in Volumes, t[1] = Clear(v)
      PROVE  Core' /\ Turn(a) /\ Script(a)'
  <2>0. Head(session[a]) = Clear(v)
    BY <1>2, <1>8, Zenon
  <2>1. /\ UNCHANGED <<obj, snaps, writer, swept, calls, tenant, vol>>
        /\ GiveUp(a) \/ Done(a)
    BY <2>0, ClearHead, Zenon
  <2>2. CASE GiveUp(a)
    BY Zenon, <2>1, <2>2, Stopped
  <2>3. CASE Done(a)
    <3>1. Core' /\ Kept
      BY Zenon, <1>4, <2>1, <2>3, IdleCore
    <3>2. t[1] # Tenant(Dropped)
      BY <1>8, StepKinds
    <3>3. Deleting(a, n - 1)'
      BY <1>2, <1>4, <2>1, <2>3, <3>2, DeletingGoesOn, Zenon DEF Living, Shredded
    <3>. QED
      BY <1>4, <1>6, <2>1, <2>3, <3>1, <3>3, Zenon DEF Turn
  <2>. QED
    BY <2>1, <2>2, <2>3
<1>9. ASSUME t[1] = Tenant(Dropped)
      PROVE  Core' /\ Turn(a) /\ Script(a)'
  <2>0. Head(session[a]) = Tenant(Dropped)
    BY <1>2, <1>9, Zenon
  <2>1. /\ UNCHANGED <<obj, snaps, writer, swept, calls, vol>>
        /\ \/ GiveUp(a) /\ UNCHANGED tenant
           \/ writer = a /\ Done(a) /\ tenant' = Dropped
    BY <2>0, TenantHead, Zenon
  <2>2. CASE GiveUp(a) /\ UNCHANGED tenant
    BY Zenon, <2>1, <2>2, Stopped
  <2>3. CASE writer = a /\ Done(a) /\ tenant' = Dropped
    <3>1. TenantWritten(Dropped) /\ Dropped \in Tenants
      BY <1>4, <2>1, <2>3, LifecycleAssumption DEF TenantWritten, Dropped, Tenants
    <3>2. Core' /\ Onward
      BY Zenon, <2>1, <3>1, TenantCore
    <3>3. ~Living'
      BY <2>3 DEF Living, Dropped
    <3>4. Deleting(a, n - 1)'
      BY <1>2, <1>4, <2>1, <2>3, <3>3, DeletingGoesOn, Zenon DEF Shredded
    <3>. QED
      BY <1>4, <1>6, <2>1, <2>3, <3>2, <3>4, Zenon DEF Turn
  <2>. QED
    BY <2>1, <2>2, <2>3
<1>10. ASSUME NEW v \in Volumes, t[1] = Wipe(v), ~Living
       PROVE  Core' /\ Turn(a) /\ Script(a)'
  <2>0. Head(session[a]) = Wipe(v)
    BY <1>2, <1>10, Zenon
  <2>1. /\ UNCHANGED <<vol, snaps, writer, swept, calls, tenant>>
        /\ obj' = [obj EXCEPT ![v] = None] /\ Done(a)
    BY <2>0, WipeHead, Zenon
  <2>2. Core' /\ Kept
    BY Zenon, <1>4, <1>10, <2>1, WipedReshapes, WipedCore
  <2>3. ~Living'
    BY <1>10, <2>1 DEF Living
  <2>4. Deleting(a, n - 1)'
    BY <1>2, <1>4, <2>1, <2>3, DeletingGoesOn DEF Shredded
  <2>. QED
    BY <1>4, <1>6, <2>1, <2>2, <2>4, Zenon DEF Turn
<1>. QED
  <2>1. \/ Condemned(a, t[1]) \/ (\E v \in Volumes : t[1] = Clear(v)) \/ t[1] = Tenant(Dropped)
        \/ \E v \in Volumes : t[1] = Wipe(v) /\ ~Living
    BY <1>3 DEF DeletionStep
  <2>. QED
    BY <1>7, <1>8, <1>9, <1>10, <2>1, Zenon DEF Condemned

-------------------------------------------------------------------------------
(***************************************************************************)
(* Calls begin with a script that is safe.                                  *)
(***************************************************************************)
LEMMA BeginKeeps ==
  ASSUME LifeInv, NEW a \in Admins, NEW steps, Begin(a, steps),
         session'[a] = steps => Script(a)'
  PROVE  LifeInv' /\ DeletedStep
<1>1. Core /\ \A b \in Admins : Script(b)
  BY DEF LifeInv
<1>2. /\ session[a] = <<>> /\ calls < MaxCalls /\ ~Resuming /\ writer' = a /\ calls' = calls + 1
      /\ UNCHANGED <<tenant, vol, obj, swept, snaps>> /\ session'[a] = steps
      /\ session' = [b \in Admins |-> session'[b]]
      /\ \A b \in Admins \ {a} : session'[b] = session[b]
  BY <1>1, Zenon DEF Begin, Core, LifeTypes
<1>3. TypeOK'
  BY <1>1, <1>2, LifecycleAssumption DEF Core, LifeTypes, TypeOK
<1>4. LifeTypes'
  BY <1>1, <1>2, <1>3, Zenon DEF Core, LifeTypes
<1>5. Family' /\ (Living' => \A v \in Volumes : Sound(v)')
  BY <1>1, <1>2, Zenon DEF Core, Family, Living, Sound, Built, InUse, State
<1>6. ASSUME NEW b \in Admins PROVE Script(b)'
  <2>1. CASE b = a
    BY <1>2, <2>1
  <2>2. CASE b # a
    BY Zenon, <1>1, <1>2, <2>2, StaysFenced
  <2>. QED
    BY <2>1, <2>2
<1>. QED
  BY <1>2, <1>4, <1>5, <1>6, Zenon DEF LifeInv, Core, DeletedStep

LEMMA NewRecord ==
  ASSUME LifeTypes, tenant.state = "active", NEW parent \in Volumes \cup {None}
  PROVE  /\ Record("creating", parent, tenant.kek) \in Records
         /\ Record("creating", parent, tenant.kek).parent = parent
         /\ Record("creating", parent, tenant.kek).state = "creating"
         /\ Record("creating", parent, tenant.kek).kek = tenant.kek
BY DEF LifeTypes, TypeOK, Record, Records

LEMMA Joined ==
  ASSUME NEW a, NEW b, NEW c
  PROVE  <<a>> \o <<b, c>> = <<a, b, c>> /\ <<>> \o <<b, c>> = <<b, c>>
<1>. DEFINE S == {a, b, c}
            t == <<a>> \o <<b, c>>
<1>1. <<a>> \in Seq(S) /\ <<b, c>> \in Seq(S)
  OBVIOUS
<1>2. t \in Seq(S) /\ Len(t) = 3 /\ t[1] = a /\ t[2] = b /\ t[3] = c
  BY <1>1
<1>. HIDE DEF t
<1>4. t = <<a, b, c>>
  BY <1>2
<1>. QED
  BY <1>4 DEF t

LEMMA JoinedFive ==
  ASSUME NEW a, NEW b, NEW c, NEW d, NEW e
  PROVE  <<a>> \o <<b, c, d, e>> = <<a, b, c, d, e>>
<1>. DEFINE S == {a, b, c, d, e}
            t == <<a>> \o <<b, c, d, e>>
<1>1. <<a>> \in Seq(S) /\ <<b, c, d, e>> \in Seq(S)
  OBVIOUS
<1>2. t \in Seq(S) /\ Len(t) = 5 /\ t[1] = a /\ t[2] = b /\ t[3] = c /\ t[4] = d /\ t[5] = e
  BY <1>1
<1>. HIDE DEF t
<1>4. t = <<a, b, c, d, e>>
  BY <1>2
<1>. QED
  BY <1>4 DEF t

LEMMA CreateKeeps ==
  ASSUME LifeInv, NEW a \in Admins, NEW v \in Volumes, CreateVolume(a, v)
  PROVE  LifeInv' /\ DeletedStep
<1>1. tenant.state = "active" /\ State(v) \in {"none", "creating"} /\ LifeTypes
  BY DEF CreateVolume, LifeInv, Core
<1>2. PICK rec \in Records :
        /\ rec = Record("creating", None, tenant.kek)
        /\ rec.parent = None /\ rec.state = "creating" /\ rec.kek = tenant.kek
  BY <1>1, NewRecord
<1>3. UNCHANGED <<tenant, vol>> /\ writer' = a
  BY Zenon DEF CreateVolume, Begin
<1>4. CASE State(v) = "none"
  <2>1. Begin(a, <<Put(v, rec), Mkfs(v), Activate(v)>>)
    BY <1>2, <1>4, Joined, Zenon DEF CreateVolume
  <2>2. ASSUME session'[a] = <<Put(v, rec), Mkfs(v), Activate(v)>> PROVE Script(a)'
    <3>1. Adding(a, v, rec)'
      BY <1>1, <1>2, <1>3, <1>4, <2>2, Zenon DEF Adding, MayAdd, State
    <3>. QED
      BY <1>2, <3>1, Zenon DEF Script
  <2>. QED
    BY Zenon, <2>1, <2>2, BeginKeeps
<1>5. CASE State(v) = "creating"
  <2>1. Begin(a, <<Mkfs(v), Activate(v)>>)
    BY <1>5, Joined DEF CreateVolume
  <2>2. ASSUME session'[a] = <<Mkfs(v), Activate(v)>> PROVE Script(a)'
    <3>1. Making(a, v)'
      BY <1>1, <1>3, <1>5, <2>2, Zenon DEF Making, MayFinish, State
    <3>. QED
      BY <3>1, Zenon DEF Script
  <2>. QED
    BY Zenon, <2>1, <2>2, BeginKeeps
<1>. QED
  BY <1>1, <1>4, <1>5

LEMMA CloneKeeps ==
  ASSUME LifeInv, NEW a \in Admins, NEW s \in Volumes, NEW v \in Volumes,
         NEW c \in Checkpoints \cup {None}, CloneVolume(a, s, v, c)
  PROVE  LifeInv' /\ DeletedStep
<1>1. tenant.state = "active" /\ State(s) = "active" /\ s # v /\ LifeTypes
  BY DEF CloneVolume, LifeInv, Core
<1>2. PICK rec \in Records :
        /\ rec = Record("creating", s, tenant.kek)
        /\ rec.parent = s /\ rec.state = "creating" /\ rec.kek = tenant.kek
  BY Zenon, <1>1, NewRecord
<1>3. UNCHANGED <<tenant, vol>> /\ writer' = a
  BY Zenon DEF CloneVolume, Begin
<1>4. CASE State(v) = "none"
  <2>1. Begin(a, <<Put(v, rec), Build(v, s, c), Pins(v), Rewrite(v, s), Activate(v)>>)
    <3>1. <<Put(v, rec)>> \o <<Build(v, s, c), Pins(v), Rewrite(v, s), Activate(v)>>
            = <<Put(v, rec), Build(v, s, c), Pins(v), Rewrite(v, s), Activate(v)>>
      BY JoinedFive, Zenon
    <3>2. Begin(a, <<Put(v, rec)>> \o <<Build(v, s, c), Pins(v), Rewrite(v, s), Activate(v)>>)
      BY <1>2, <1>4 DEF CloneVolume
    <3>. QED
      BY <3>1, <3>2, Zenon
  <2>2. ASSUME session'[a] = <<Put(v, rec), Build(v, s, c), Pins(v), Rewrite(v, s), Activate(v)>>
        PROVE  Script(a)'
    <3>1. Cloning(a, v, s, c, rec)'
      BY <1>1, <1>2, <1>3, <1>4, <2>2, Zenon DEF Cloning, MayAdd, State
    <3>. QED
      BY <1>1, <1>2, <3>1, Zenon DEF Script
  <2>. QED
    BY <2>1, <2>2, BeginKeeps
<1>5. CASE State(v) = "creating" /\ vol[v].parent = s
  <2>1. Begin(a, <<Wipe(v), Build(v, s, c), Pins(v), Rewrite(v, s), Activate(v)>>)
    <3>1. <<Wipe(v)>> \o <<Build(v, s, c), Pins(v), Rewrite(v, s), Activate(v)>>
            = <<Wipe(v), Build(v, s, c), Pins(v), Rewrite(v, s), Activate(v)>>
      BY JoinedFive, Zenon
    <3>2. Begin(a, <<Wipe(v)>> \o <<Build(v, s, c), Pins(v), Rewrite(v, s), Activate(v)>>)
      BY <1>5 DEF CloneVolume
    <3>. QED
      BY <3>1, <3>2, Zenon
  <2>2. ASSUME session'[a] = <<Wipe(v), Build(v, s, c), Pins(v), Rewrite(v, s), Activate(v)>>
        PROVE  Script(a)'
    <3>1. Restarting(a, v, s, c)'
      BY <1>1, <1>3, <1>5, <2>2, Zenon DEF Restarting, ChildOf, MayFinish, State
    <3>. QED
      BY <1>1, <3>1, Zenon DEF Script
  <2>. QED
    BY Zenon, <2>1, <2>2, BeginKeeps
<1>. QED
  BY <1>4, <1>5, Zenon DEF CloneVolume

LEMMA DeleteKeeps ==
  ASSUME LifeInv, NEW a \in Admins, NEW v \in Volumes, DeleteVolume(a, v)
  PROVE  LifeInv' /\ DeletedStep
<1>1. LifeTypes /\ ActiveClones(v) = {} /\ vol[v] # None
  BY DEF DeleteVolume, LifeInv, Core, State
<1>2. PICK rec \in Records : rec = Shredded(v)
  BY <1>1, ShreddedFields
<1>3. UNCHANGED <<tenant, vol>> /\ Begin(a, <<Put(v, rec), Clear(v), Wipe(v)>>)
  BY <1>2 DEF DeleteVolume, Begin
<1>4. rec = Shredded(v)'
  BY <1>2, <1>3 DEF Shredded
<1>5. ASSUME session'[a] = <<Put(v, rec), Clear(v), Wipe(v)>> PROVE Script(a)'
  <2>1. Shredding(a, v, rec)'
    BY <1>1, <1>3, <1>4, <1>5 DEF Shredding, ActiveClones, State
  <2>. QED
    BY <1>2, <2>1, Zenon DEF Script
<1>. QED
  BY Zenon, <1>3, <1>5, BeginKeeps

LEMMA SetStateKeeps ==
  ASSUME LifeInv, NEW a \in Admins, NEW state \in {"active", "suspended"}, SetTenantState(a, state)
  PROVE  LifeInv' /\ DeletedStep
<1>1. /\ Living /\ LifeTypes /\ UNCHANGED tenant
      /\ Begin(a, <<Tenant([tenant EXCEPT !.state = state])>>)
  BY DEF SetTenantState, Begin, Living, LifeInv, Core
<1>2. PICK new \in Tenants :
        /\ new = [tenant EXCEPT !.state = state]
        /\ new.state # "deleting" /\ new.kek = tenant.kek
  BY <1>1 DEF LifeTypes, TypeOK, Tenants
<1>3. ASSUME session'[a] = <<Tenant(new)>> PROVE Script(a)'
  <2>1. Setting(a, new)'
    BY <1>1, <1>2, <1>3, Zenon DEF Setting, Living
  <2>. QED
    BY <1>2, <2>1, Zenon DEF Script
<1>. QED
  BY <1>1, <1>2, <1>3, BeginKeeps

LEMMA RotateKeeps ==
  ASSUME LifeInv, NEW a \in Admins, RotateTenantKek(a)
  PROVE  LifeInv' /\ DeletedStep
<1>1. PICK new, recs : new = [tenant EXCEPT !.kek = tenant.kek + 1] /\ recs = Rotated
  BY Zenon
<1>2. /\ Living /\ LifeTypes /\ tenant.kek + 1 <= MaxKek /\ UNCHANGED <<tenant, vol>>
      /\ Begin(a, <<Rewrap(recs, new)>>)
  BY <1>1 DEF RotateTenantKek, Rewrapped, Rotated, InUse, Begin, Living, LifeInv, Core
<1>3. tenant.kek < MaxKek
  BY <1>2, LifecycleAssumption DEF LifeTypes, TypeOK
<1>4. new = [tenant EXCEPT !.kek = tenant.kek + 1]' /\ recs = Rotated'
  BY <1>1, <1>2 DEF Rotated, InUse, State
<1>5. ASSUME session'[a] = <<Rewrap(recs, new)>> PROVE Script(a)'
  <2>1. Rotating(a, recs, new)'
    BY <1>2, <1>3, <1>4, <1>5, Zenon DEF Rotating, Living
  <2>. QED
    BY <2>1, Zenon DEF Script
<1>. QED
  BY <1>2, <1>5, BeginKeeps

\* Every record, then the tenant, then the objects.
LEMMA TenantScript ==
  ASSUME LifeTypes, NEW a \in Admins, NEW n \in Nat, NEW names \in [1 .. n -> Volumes],
         \A k \in 1 .. n : vol[names[k]] # None, UNCHANGED vol,
         session'[a] = TenantDeletion(names)
  PROVE  Deleting(a, 3 * n + 1)'
<1>1. Len(names) = n
  OBVIOUS
<1>2. session'[a] = [i \in 1 .. 3 * n + 1 |->
        IF i > 2 * n + 1 THEN Wipe(names[i - 2 * n - 1])
        ELSE IF i = 2 * n + 1 THEN Tenant(Dropped)
        ELSE IF i % 2 = 1 THEN Put(names[(i + 1) \div 2], Shredded(names[(i + 1) \div 2]))
        ELSE Clear(names[i \div 2])]
  BY <1>1, Zenon DEF TenantDeletion, Dropped
<1>3. session'[a] = [i \in 1 .. 3 * n + 1 |-> session'[a][i]]
  BY <1>2
<1>4. ASSUME NEW i \in 1 .. 3 * n + 1 PROVE DeletionStep(a, i)'
  <2>1. CASE i > 2 * n + 1
    <3>1. PICK k \in 1 .. n : k = i - 2 * n - 1
      BY <2>1
    <3>2. session'[a][i] = Wipe(names[k]) /\ names[k] \in Volumes
      BY Zenon, <1>2, <2>1, <3>1
    <3>3. 2 * n + 1 \in 1 .. i - 1 /\ session'[a][2 * n + 1] = Tenant(Dropped)
      BY <1>2, <2>1, SMTT(30)
    <3>. QED
      BY <3>2, <3>3 DEF DeletionStep
  <2>2. CASE i = 2 * n + 1
    BY <1>2, <2>2, SMTT(30) DEF DeletionStep
  <2>3. CASE i < 2 * n + 1 /\ i % 2 = 1
    <3>1. PICK k \in 1 .. n : k = (i + 1) \div 2
      BY <2>3
    <3>2. session'[a][i] = Put(names[k], Shredded(names[k]))
      BY <1>2, <2>3, <3>1, SMTT(30)
    <3>3. PICK v \in Volumes, rec \in Records : v = names[k] /\ rec = Shredded(v) /\ vol[v] # None
      BY ShreddedFields
    <3>4. session'[a][i] = Put(v, rec) /\ vol'[v] # None /\ rec = Shredded(v)'
      BY <3>2, <3>3, Zenon DEF Shredded
    <3>. QED
      BY <3>4 DEF DeletionStep, Condemned
  <2>4. CASE i < 2 * n + 1 /\ i % 2 # 1
    <3>1. PICK k \in 1 .. n : k = i \div 2
      BY <2>4, SMTT(30)
    <3>2. session'[a][i] = Clear(names[k]) /\ names[k] \in Volumes
      BY <1>2, <2>4, <3>1
    <3>. QED
      BY <3>2 DEF DeletionStep
  <2>. QED
    BY <2>1, <2>2, <2>3, <2>4, SMTT(30)
<1>. QED
  BY <1>3, <1>4 DEF Deleting

LEMMA DeleteTenantKeeps ==
  ASSUME LifeInv, NEW a \in Admins, DeleteTenant(a)
  PROVE  LifeInv' /\ DeletedStep
<1>. DEFINE volumes == {v \in Volumes : State(v) # "none"}
<1>1. PICK n : n = Cardinality(volumes)
  OBVIOUS
<1>2. n \in Nat
  <2>1. IsFiniteSet(volumes)
    BY LifecycleAssumption, FS_Subset
  <2>. QED
    BY Zenon, <1>1, <2>1, FS_CardinalityType
<1>3. PICK names \in [1 .. n -> Volumes] :
        (\A k \in 1 .. n : vol[names[k]] # None) /\ Begin(a, TenantDeletion(names))
  <2>1. PICK names \in Bijection(1 .. n, volumes) : Begin(a, TenantDeletion(names))
    BY <1>1, Zenon DEF DeleteTenant
  <2>2. names \in [1 .. n -> volumes]
    BY <2>1 DEF Bijection, Injection
  <2>3. names \in [1 .. n -> Volumes] /\ \A k \in 1 .. n : vol[names[k]] # None
    BY <2>2 DEF State
  <2>. QED
    BY Zenon, <2>1, <2>3
<1>4. LifeTypes /\ UNCHANGED vol
  BY <1>3 DEF Begin, LifeInv, Core
<1>5. ASSUME session'[a] = TenantDeletion(names) PROVE Script(a)'
  <2>1. Deleting(a, 3 * n + 1)'
    BY Zenon, <1>2, <1>3, <1>4, <1>5, TenantScript
  <2>2. 3 * n + 1 \in Nat
    BY <1>2
  <2>. QED
    BY <2>1, <2>2, Zenon DEF Script
<1>. QED
  BY <1>3, <1>5, BeginKeeps
-------------------------------------------------------------------------------
(***************************************************************************)
(* A step of a call, a crash, and what the daemon does.                     *)
(***************************************************************************)
LEMMA OwnStep ==
  ASSUME Core, NEW a \in Admins, Script(a), Step(a)
  PROVE  Core' /\ Turn(a) /\ Script(a)'
<1>1. session[a] # <<>>
  BY DEF Step
<1>2. ASSUME NEW v \in Volumes, NEW rec \in Records, Adding(a, v, rec)
      PROVE  Core' /\ Turn(a) /\ Script(a)'
  BY <1>2, AddingStep
<1>3. ASSUME NEW v \in Volumes, Making(a, v) PROVE Core' /\ Turn(a) /\ Script(a)'
  BY <1>3, MakingStep
<1>4. ASSUME NEW v \in Volumes, Finishing(a, v) PROVE Core' /\ Turn(a) /\ Script(a)'
  BY <1>4, FinishingStep
<1>5. ASSUME NEW v \in Volumes, NEW s \in Volumes, NEW c \in Checkpoints \cup {None},
             NEW rec \in Records, s # v, Cloning(a, v, s, c, rec)
      PROVE  Core' /\ Turn(a) /\ Script(a)'
  BY <1>5, CloningStep
<1>6. ASSUME NEW v \in Volumes, NEW s \in Volumes, NEW c \in Checkpoints \cup {None},
             s # v, Restarting(a, v, s, c)
      PROVE  Core' /\ Turn(a) /\ Script(a)'
  BY <1>6, RestartingStep
<1>7. ASSUME NEW v \in Volumes, NEW s \in Volumes, NEW c \in Checkpoints \cup {None},
             s # v, Building(a, v, s, c)
      PROVE  Core' /\ Turn(a) /\ Script(a)'
  BY <1>7, BuildingStep
<1>8. ASSUME NEW v \in Volumes, NEW s \in Volumes, s # v, Pinning(a, v, s)
      PROVE  Core' /\ Turn(a) /\ Script(a)'
  BY <1>8, PinningStep
<1>9. ASSUME NEW v \in Volumes, NEW s \in Volumes, s # v, Rewriting(a, v, s)
      PROVE  Core' /\ Turn(a) /\ Script(a)'
  BY Zenon, <1>9, RewritingStep
<1>10. ASSUME NEW v \in Volumes, NEW rec \in Records, Shredding(a, v, rec)
       PROVE  Core' /\ Turn(a) /\ Script(a)'
  BY <1>10, ShreddingStep
<1>11. ASSUME NEW v \in Volumes, Clearing(a, v) PROVE Core' /\ Turn(a) /\ Script(a)'
  BY <1>11, ClearingStep
<1>12. ASSUME NEW v \in Volumes, Wiping(a, v) PROVE Core' /\ Turn(a) /\ Script(a)'
  BY <1>12, WipingStep
<1>13. ASSUME NEW new \in Tenants, Setting(a, new) PROVE Core' /\ Turn(a) /\ Script(a)'
  BY <1>13, SettingStep
<1>14. ASSUME NEW recs, NEW new, Rotating(a, recs, new) PROVE Core' /\ Turn(a) /\ Script(a)'
  BY <1>14, RotatingStep
<1>15. ASSUME NEW n \in Nat, Deleting(a, n) PROVE Core' /\ Turn(a) /\ Script(a)'
  BY <1>15, DeletingStep
<1>. QED
  BY Zenon, <1>1, <1>2, <1>3, <1>4, <1>5, <1>6, <1>7, <1>8, <1>9,
     <1>10, <1>11, <1>12, <1>13, <1>14, <1>15 DEF Script

\* The other sessions after a session's own step.
LEMMA TurnKeeps ==
  ASSUME LifeInv, NEW a \in Admins, Core', Turn(a), Script(a)'
  PROVE  LifeInv' /\ DeletedStep
<1>1. LifeTypes /\ UNCHANGED writer /\ \A b \in Admins \ {a} : session'[b] = session[b]
  BY DEF LifeInv, Core, LifeTypes, Turn
<1>2. (UNCHANGED <<tenant, vol>> /\ Kept) \/ (writer = a /\ Onward)
  BY DEF Turn
<1>3. ASSUME NEW b \in Admins PROVE Script(b)'
  <2>1. CASE b = a
    BY <2>1
  <2>2. CASE b # a /\ UNCHANGED <<tenant, vol>> /\ Kept
    BY <1>1, <2>2, StaysUnwritten, Zenon DEF LifeInv
  <2>3. CASE b # a /\ writer = a /\ Onward
    BY <1>1, <2>3, StaysBehind DEF LifeInv
  <2>. QED
    BY <1>2, <2>1, <2>2, <2>3
<1>4. DeletedStep
  <2>1. CASE UNCHANGED <<tenant, vol>>
    BY <2>1, Zenon DEF DeletedStep
  <2>2. CASE Onward
    BY <2>2 DEF DeletedStep, Onward, State
  <2>. QED
    BY <1>2, <2>1, <2>2
<1>. QED
  BY <1>3, <1>4, Zenon DEF LifeInv

LEMMA StepKeeps ==
  ASSUME LifeInv, NEW a \in Admins, Step(a)
  PROVE  LifeInv' /\ DeletedStep
<1>1. Core /\ Script(a)
  BY DEF LifeInv
<1>2. Core' /\ Turn(a) /\ Script(a)'
  BY Zenon, <1>1, OwnStep
<1>. QED
  BY <1>2, TurnKeeps

LEMMA CrashKeeps ==
  ASSUME LifeInv, NEW a \in Admins, Crash(a)
  PROVE  LifeInv' /\ DeletedStep
<1>1. Core' /\ Turn(a) /\ Script(a)'
  BY Stopped DEF Crash, LifeInv
<1>. QED
  BY <1>1, TurnKeeps

\* No session moves and the control database stays as it is.
LEMMA QuietKeeps ==
  ASSUME LifeInv, UNCHANGED <<tenant, vol, writer, session>>, Core', Kept
  PROVE  LifeInv' /\ DeletedStep
<1>1. ASSUME NEW a \in Admins PROVE Script(a)'
  BY StaysUnwritten DEF LifeInv
<1>. QED
  BY <1>1 DEF LifeInv, DeletedStep

LEMMA CheckpointsKeep ==
  ASSUME LifeInv, NEW v \in Volumes, NEW S \in SUBSET Checkpoints, obj[v] # None,
         obj' = [obj EXCEPT ![v].snaps = S], swept' \subseteq Checkpoints,
         snaps' \in 0 .. MaxSnaps, UNCHANGED <<tenant, vol, writer, session, calls>>
  PROVE  LifeInv' /\ DeletedStep
<1>1. Core /\ LifeTypes /\ obj[v] \in Databases
  BY DEF LifeInv, Core, LifeTypes, TypeOK
<1>2. PICK d : d = [obj[v] EXCEPT !.snaps = S]
  BY Zenon
<1>3. d \in Databases /\ d.from = obj[v].from /\ d.fsid = obj[v].fsid
  BY <1>1, <1>2 DEF Databases
<1>4. obj' = [obj EXCEPT ![v] = d]
  BY <1>2
<1>5. /\ obj' = [w \in Volumes |-> obj'[w]] /\ obj'[v] = d
      /\ \A w \in Volumes \ {v} : obj'[w] = obj[w]
  BY <1>1, <1>4 DEF LifeTypes
<1>6. Reshaped
  BY <1>1, <1>3, <1>5, Zenon DEF Reshaped, LifeTypes, TypeOK
<1>7. Gentle
  BY <1>3, <1>5, LifecycleAssumption DEF Gentle, GentleOn
<1>8. Core' /\ Kept
  BY Zenon, <1>1, <1>6, <1>7, GentleCore
<1>. QED
  BY Zenon, <1>8, QuietKeeps

LEMMA SnapshotKeeps ==
  ASSUME LifeInv, NEW v \in Volumes, CreateSnapshot(v)
  PROVE  LifeInv' /\ DeletedStep
<1>1. /\ obj[v] # None /\ snaps < MaxSnaps /\ snaps' = snaps + 1
      /\ obj' = [obj EXCEPT ![v].snaps = obj[v].snaps \cup {snaps'}]
      /\ UNCHANGED <<tenant, vol, writer, session, swept, calls>>
  BY DEF CreateSnapshot
<1>2. obj[v] \in Databases /\ snaps \in 0 .. MaxSnaps /\ swept \subseteq Checkpoints
  BY <1>1 DEF LifeInv, Core, LifeTypes, TypeOK
<1>3. snaps' \in 1 .. MaxSnaps /\ snaps' \in 0 .. MaxSnaps
  BY <1>1, <1>2, LifecycleAssumption, SMTT(30)
<1>4. obj[v].snaps \cup {snaps'} \in SUBSET Checkpoints
  BY <1>2, <1>3 DEF Databases, Checkpoints
<1>. QED
  BY Zenon, <1>1, <1>2, <1>3, <1>4, CheckpointsKeep

LEMMA EnforceKeeps ==
  ASSUME LifeInv, NEW v \in Volumes, Enforce(v)
  PROVE  LifeInv' /\ DeletedStep
<1>1. Core /\ LifeTypes /\ snaps \in 0 .. MaxSnaps /\ swept \subseteq Checkpoints
  BY DEF LifeInv, Core, LifeTypes, TypeOK
<1>2. UNCHANGED <<tenant, vol, writer, session, snaps, calls>>
  BY DEF Enforce
<1>3. \/ UNCHANGED <<obj, swept>>
      \/ obj[v] # None /\ \E old \in SUBSET obj[v].snaps :
           obj' = [obj EXCEPT ![v].snaps = obj[v].snaps \ old] /\ swept' = swept \cup old
  BY Zenon DEF Enforce
<1>4. CASE UNCHANGED <<obj, swept>>
  <2>1. Core' /\ Kept
    BY <1>1, <1>2, <1>4, IdleCore, Zenon DEF LifeTypes
  <2>. QED
    BY Zenon, <1>2, <2>1, QuietKeeps
<1>5. ASSUME obj[v] # None, NEW old \in SUBSET obj[v].snaps,
             obj' = [obj EXCEPT ![v].snaps = obj[v].snaps \ old], swept' = swept \cup old
      PROVE  LifeInv' /\ DeletedStep
  <2>1. obj[v].snaps \in SUBSET Checkpoints
    BY <1>1, <1>5 DEF LifeTypes, TypeOK, Databases
  <2>2. obj[v].snaps \ old \in SUBSET Checkpoints /\ swept' \subseteq Checkpoints
    BY <1>1, <1>5, <2>1
  <2>. QED
    BY Zenon, <1>1, <1>2, <1>5, <2>2, CheckpointsKeep
<1>. QED
  BY Zenon, <1>3, <1>4, <1>5

LEMMA ReadPinsKeeps ==
  ASSUME LifeInv, ReadPins \/ UNCHANGED vars
  PROVE  LifeInv' /\ DeletedStep
<1>1. UNCHANGED <<tenant, vol, obj, writer, session, swept, snaps, calls>>
  BY DEF ReadPins, vars
<1>2. Core' /\ Kept
  BY <1>1, IdleCore, Zenon DEF LifeInv, Core, LifeTypes
<1>. QED
  BY Zenon, <1>1, <1>2, QuietKeeps

LEMMA LifeGoesOn ==
  ASSUME LifeInv, [Next]_vars
  PROVE  LifeInv' /\ DeletedStep
<1>1. ASSUME NEW a \in Admins, NEW v \in Volumes, CreateVolume(a, v) \/ DeleteVolume(a, v)
      PROVE  LifeInv' /\ DeletedStep
  BY Zenon, <1>1, CreateKeeps, DeleteKeeps
<1>2. ASSUME NEW a \in Admins, NEW s \in Volumes, NEW v \in Volumes,
             NEW c \in Checkpoints \cup {None}, CloneVolume(a, s, v, c)
      PROVE  LifeInv' /\ DeletedStep
  BY <1>2, CloneKeeps
<1>3. ASSUME NEW a \in Admins, DeleteTenant(a) \/ RotateTenantKek(a)
      PROVE  LifeInv' /\ DeletedStep
  BY <1>3, DeleteTenantKeeps, RotateKeeps
<1>4. ASSUME NEW a \in Admins, NEW state \in {"active", "suspended"}, SetTenantState(a, state)
      PROVE  LifeInv' /\ DeletedStep
  BY <1>4, SetStateKeeps
<1>5. ASSUME NEW a \in Admins, Step(a) \/ Crash(a) PROVE LifeInv' /\ DeletedStep
  BY Zenon, <1>5, StepKeeps, CrashKeeps
<1>6. ASSUME NEW v \in Volumes, CreateSnapshot(v) \/ Enforce(v) PROVE LifeInv' /\ DeletedStep
  BY <1>6, SnapshotKeeps, EnforceKeeps
<1>7. ASSUME ReadPins \/ UNCHANGED vars PROVE LifeInv' /\ DeletedStep
  BY <1>7, ReadPinsKeeps
<1>. QED
  BY <1>1, <1>2, <1>3, <1>4, <1>5, <1>6, <1>7, Zenon DEF Next

(***************************************************************************)
(* A volume whose record is Active can be opened (create_volume,            *)
(* clone_volume_with_options, delete_volume, delete_tenant and              *)
(* rotate_tenant_kek of volume.rs and control.rs): its key is wrapped under *)
(* the tenant's present key, its database carries its fsid, and what it     *)
(* shares with its parent is there, however many administrators' calls      *)
(* overlap, fence each other, crash and are resumed.                        *)
(***************************************************************************)
THEOREM ActiveOpens ==
  Spec => []ActiveMountable
<1>1. Init => LifeInv
  BY LifeBegins
<1>2. LifeInv /\ [Next]_vars => LifeInv'
  BY LifeGoesOn
<1>3. LifeInv => ActiveMountable
  BY LifeInvSuffices
<1>. QED
  BY <1>1, <1>2, <1>3, PTL DEF Spec

(***************************************************************************)
(* Deleting is final (delete_volume, delete_tenant and the fencing of       *)
(* ControlDb): no later or overlapping call, whether it was fenced or read  *)
(* the record before, changes the record of a shredded volume or tenant.    *)
(***************************************************************************)
THEOREM DeletionIsFinal ==
  Spec => DeletedForGood
<1>1. Init => LifeInv
  BY LifeBegins
<1>2. LifeInv /\ [Next]_vars => LifeInv' /\ [DeletedStep]_vars
  BY LifeGoesOn
<1>. QED
  BY <1>1, <1>2, PTL DEF Spec, DeletedForGood
===============================================================================
