--------------------------- MODULE VolumeLifecycle ---------------------------
(***************************************************************************)
(* The life of a tenant's volumes: creating, cloning, resuming what a crash *)
(* interrupted, deleting, rotating the tenant key, and the daemon's         *)
(* snapshot retention (slatefs-core/src/volume.rs and control.rs,           *)
(* slatefs-daemon/src/main.rs).                                             *)
(*                                                                          *)
(* A call opens the control database, which fences whichever session had it *)
(* open, reads the records it needs, and then takes one durable step after  *)
(* another: a write to the control database, which fails once the session   *)
(* is fenced, or a change to a volume's objects, which no control session   *)
(* guards.  A crash may fall between any two.                               *)
(*                                                                          *)
(* There is one tenant.  A name is never used again once its volume is      *)
(* deleted, so it stands for the fsid; a clone has its source's data key.   *)
(***************************************************************************)
EXTENDS Integers, Sequences, FiniteSets, Functions

CONSTANTS Admins, Volumes,
          KeepLast,     \* keep_last of every snapshot retention policy
          MaxKek,       \* bound: tenant keys, numbered from 1
          MaxSnaps,     \* bound: checkpoints, numbered from 1 as they are made
          MaxCalls,     \* bound: calls in one behaviour
          None

VARIABLES tenant,    \* [state, kek], kek 0 once it is dropped
          vol,       \* the volume records
          obj,       \* the volume databases in the object store
          writer,    \* the session that may write the control database
          session,   \* per admin: the steps its call has left
          seen,      \* what a retention pass read: per volume, None once it is done
          swept,     \* checkpoints retention deleted
          snaps,     \* checkpoints made
          calls

vars == <<tenant, vol, obj, writer, session, seen, swept, snaps, calls>>

Checkpoints == 1..MaxSnaps

Record(state, parent, kek) == [state |-> state, parent |-> parent, pins |-> None, kek |-> kek]
Database(fsid, from, ext) == [fsid |-> fsid, from |-> from, ext |-> ext, snaps |-> {}]

Records == [state : {"creating", "active", "deleting"}, parent : Volumes \cup {None},
            pins : {None} \cup SUBSET Checkpoints, kek : 0..MaxKek]
Databases == [fsid : Volumes, from : Volumes \cup {None}, ext : SUBSET Checkpoints,
              snaps : SUBSET Checkpoints]

ASSUME LifecycleAssumption ==
  /\ IsFiniteSet(Volumes)
  /\ MaxKek \in Nat \ {0} /\ MaxSnaps \in Nat /\ MaxCalls \in Nat
  /\ None \notin Volumes /\ None \notin Admins
  /\ None \notin 1..MaxSnaps /\ \A pins \in SUBSET (1..MaxSnaps) : pins # None
  /\ None \notin Records /\ None \notin Databases

(***************************************************************************)
(* Type invariant; a volume being deleted has no key.                       *)
(***************************************************************************)
TypeOK ==
  /\ tenant \in [state : {"active", "suspended", "deleting"}, kek : 0..MaxKek]
  /\ \A v \in Volumes : vol[v] = None \/ vol[v] \in Records
  /\ \A v \in Volumes : obj[v] = None \/ obj[v] \in Databases
  /\ writer \in Admins \cup {None}
  /\ \A v \in Volumes : vol[v] # None => (vol[v].kek = 0 <=> vol[v].state = "deleting")
  /\ swept \subseteq Checkpoints /\ snaps \in 0..MaxSnaps /\ calls \in 0..MaxCalls

Init ==
  /\ tenant = [state |-> "active", kek |-> 1]
  /\ vol = [v \in Volumes |-> None] /\ obj = [v \in Volumes |-> None]
  /\ writer = None
  /\ session = [a \in Admins |-> <<>>]
  /\ seen = [v \in Volumes |-> None]
  /\ swept = {} /\ snaps = 0 /\ calls = 0
-------------------------------------------------------------------------------
(***************************************************************************)
(* Steps of calls.  Next step done, or the call gives up.                   *)
(***************************************************************************)
Put(v, rec) == [do |-> "put", v |-> v, rec |-> rec]
Clear(v) == [do |-> "clear", v |-> v]
Mkfs(v) == [do |-> "mkfs", v |-> v]
Wipe(v) == [do |-> "wipe", v |-> v]
Build(v, source, snap) == [do |-> "build", v |-> v, source |-> source, snap |-> snap]
Pins(v) == [do |-> "pins", v |-> v]
Rewrite(v, source) == [do |-> "rewrite", v |-> v, source |-> source]
Activate(v) == [do |-> "activate", v |-> v]
Tenant(t) == [do |-> "tenant", t |-> t]
Rewrap(recs, t) == [do |-> "rewrap", recs |-> recs, t |-> t]

Done(a) == session' = [session EXCEPT ![a] = Tail(@)]
GiveUp(a) == session' = [session EXCEPT ![a] = <<>>]

(***************************************************************************)
(* A write to the control database.  Clear stands for the policies and the  *)
(* placement of a deleted volume, which no property here speaks of.         *)
(***************************************************************************)
\* Mutant: a session that another one fenced goes on writing.
Fenced_Never(a) == FALSE

Fenced(a) == writer # a

PutStep(a, s) ==
  LET written(rec) == vol' = [vol EXCEPT ![s.v] = rec] /\ UNCHANGED tenant IN
  /\ s.do \in {"put", "clear", "activate", "tenant", "rewrap"}
  /\ UNCHANGED <<obj, snaps>>
  /\ \/ Fenced(a) /\ GiveUp(a) /\ UNCHANGED <<tenant, vol>>
     \/ /\ ~Fenced(a) /\ Done(a)
        /\ CASE s.do = "put" -> written(s.rec)
             [] s.do = "clear" -> UNCHANGED <<tenant, vol>>
             [] s.do = "activate" -> written([vol[s.v] EXCEPT !.state = "active"])
             [] s.do = "tenant" -> tenant' = s.t /\ UNCHANGED vol
             [] s.do = "rewrap" -> tenant' = s.t /\ vol' = s.recs

\* The checkpoints the clone's manifest names, written to its record.
PinsStep(a, s) ==
  /\ s.do = "pins"
  /\ IF Fenced(a) \/ obj[s.v] = None \/ obj[s.v].ext = {}
     THEN GiveUp(a) /\ UNCHANGED vol
     ELSE Done(a) /\ vol' = [vol EXCEPT ![s.v].pins = obj[s.v].ext]
  /\ UNCHANGED <<tenant, obj, snaps>>

(***************************************************************************)
(* A change to a volume's objects.                                          *)
(***************************************************************************)
\* mkfs: a superblock that is there is verified, not rewritten.
MkfsStep(a, s) ==
  /\ s.do = "mkfs"
  /\ IF obj[s.v] = None
     THEN obj' = [obj EXCEPT ![s.v] = Database(s.v, None, {})] /\ Done(a)
     ELSE UNCHANGED obj /\ IF obj[s.v].fsid = s.v THEN Done(a) ELSE GiveUp(a)
  /\ UNCHANGED <<tenant, vol, snaps>>

WipeStep(a, s) ==
  /\ s.do = "wipe"
  /\ obj' = [obj EXCEPT ![s.v] = None]
  /\ Done(a)
  /\ UNCHANGED <<tenant, vol, snaps>>

\* create_clone_builder: the clone shares the source's data under a checkpoint
\* of its own; a clone that is already there is left as it is.
BuildStep(a, s) ==
  LET source == obj[s.source]
      found == source # None /\ (s.snap # None => s.snap \in source.snaps)
  IN  /\ s.do = "build"
      /\ IF ~found THEN GiveUp(a) /\ UNCHANGED <<obj, snaps>>
         ELSE IF obj[s.v] # None THEN Done(a) /\ UNCHANGED <<obj, snaps>>
         ELSE /\ snaps < MaxSnaps /\ snaps' = snaps + 1
              /\ obj' = [obj EXCEPT ![s.v] = Database(source.fsid, s.source,
                                                      {snaps'} \cup ({s.snap} \ {None})),
                                    ![s.source].snaps = @ \cup {snaps'}]
              /\ Done(a)
      /\ UNCHANGED <<tenant, vol>>

\* rewrite_cloned_superblock
RewriteStep(a, s) ==
  /\ s.do = "rewrite"
  /\ IF obj[s.v] = None \/ (obj[s.v] # None /\ obj[s.v].fsid # s.source)
     THEN GiveUp(a) /\ UNCHANGED obj
     ELSE Done(a) /\ obj' = [obj EXCEPT ![s.v].fsid = s.v]
  /\ UNCHANGED <<tenant, vol, snaps>>

Step(a) ==
  /\ session[a] # <<>>
  /\ LET s == Head(session[a]) IN
       \/ PutStep(a, s) \/ PinsStep(a, s) \/ MkfsStep(a, s) \/ WipeStep(a, s)
       \/ BuildStep(a, s) \/ RewriteStep(a, s)
  /\ UNCHANGED <<writer, seen, swept, calls>>

Crash(a) ==
  /\ session[a] # <<>>
  /\ GiveUp(a)
  /\ UNCHANGED <<tenant, vol, obj, writer, seen, swept, snaps, calls>>
-------------------------------------------------------------------------------
(***************************************************************************)
(* Calls.  Operators race everything but a clone that is being resumed:     *)
(* its first step deletes objects under a record it has already read.       *)
(***************************************************************************)
Resuming == \E a \in Admins : session[a] # <<>> /\ Head(session[a]).do = "wipe"
              /\ vol[Head(session[a]).v].state # "deleting"

Begin(a, steps) ==
  /\ session[a] = <<>> /\ calls < MaxCalls
  /\ ~Resuming
  /\ writer' = a
  /\ session' = [session EXCEPT ![a] = steps]
  /\ calls' = calls + 1
  /\ UNCHANGED <<tenant, vol, obj, seen, swept, snaps>>

State(v) == IF vol[v] = None THEN "none" ELSE vol[v].state

CreateVolume(a, v) ==
  /\ tenant.state = "active"
  /\ State(v) \in {"none", "creating"}
  /\ Begin(a, (IF State(v) = "none" THEN <<Put(v, Record("creating", None, tenant.kek))>> ELSE <<>>)
              \o <<Mkfs(v), Activate(v)>>)

CloneVolume(a, source, v, snap) ==
  /\ source # v /\ tenant.state = "active" /\ State(source) = "active"
  /\ \/ State(v) = "none"
     \/ State(v) = "creating" /\ vol[v].parent = source
  /\ Begin(a, (IF State(v) = "none" THEN <<Put(v, Record("creating", source, tenant.kek))>>
               ELSE <<Wipe(v)>>)
              \o <<Build(v, source, snap), Pins(v), Rewrite(v, source), Activate(v)>>)

Shredded(v) == [vol[v] EXCEPT !.state = "deleting", !.kek = 0]

ActiveClones(v) == {c \in Volumes : State(c) \notin {"none", "deleting"} /\ vol[c].parent = v}

DeleteVolume(a, v) ==
  /\ State(v) # "none"
  /\ ActiveClones(v) = {}
  /\ Begin(a, <<Put(v, Shredded(v)), Clear(v), Wipe(v)>>)

\* The records one by one, each followed by its policies; then the tenant;
\* then the objects.
TenantDeletion(names) ==
  LET n == Len(names) IN
  [i \in 1 .. 3 * n + 1 |->
     IF i > 2 * n + 1 THEN Wipe(names[i - 2 * n - 1])
     ELSE IF i = 2 * n + 1 THEN Tenant([state |-> "deleting", kek |-> 0])
     ELSE IF i % 2 = 1 THEN Put(names[(i + 1) \div 2], Shredded(names[(i + 1) \div 2]))
     ELSE Clear(names[i \div 2])]

DeleteTenant(a) ==
  LET volumes == {v \in Volumes : State(v) # "none"} IN
  \E names \in Bijection(1 .. Cardinality(volumes), volumes) : Begin(a, TenantDeletion(names))

SetTenantState(a, state) ==
  /\ tenant.state # "deleting"
  /\ Begin(a, <<Tenant([tenant EXCEPT !.state = state])>>)

\* Mutant: only volumes that are ready are wrapped again.
Rewrapped_ActiveOnly(v) == State(v) = "active"

Rewrapped(v) == State(v) \in {"creating", "active"}

\* rotate_tenant_kek: every key wrapped again, in one batch.
RotateTenantKek(a) ==
  LET kek == tenant.kek + 1 IN
  /\ tenant.state # "deleting" /\ kek <= MaxKek
  /\ Begin(a, <<Rewrap([v \in Volumes |-> IF Rewrapped(v) THEN [vol[v] EXCEPT !.kek = kek] ELSE vol[v]],
                       [tenant EXCEPT !.kek = kek])>>)
-------------------------------------------------------------------------------
(***************************************************************************)
(* The daemon: snapshots of served volumes, and the retention pass, which   *)
(* reads all clone pins first and deletes checkpoints one policy at a time. *)
(***************************************************************************)
CreateSnapshot(v) ==
  /\ State(v) = "active" /\ obj[v] # None
  /\ snaps < MaxSnaps /\ snaps' = snaps + 1
  /\ obj' = [obj EXCEPT ![v].snaps = @ \cup {snaps'}]
  /\ UNCHANGED <<tenant, vol, writer, session, seen, swept, calls>>

\* active_clone_parent_checkpoint_pins
ReadPins ==
  /\ seen' = [v \in Volumes |->
       [skip |-> \E c \in ActiveClones(v) : vol[c].state # "active" \/ vol[c].pins = None,
        pinned |-> UNION {vol[c].pins : c \in {d \in ActiveClones(v) : vol[d].pins # None}}]]
  /\ UNCHANGED <<tenant, vol, obj, writer, session, swept, snaps, calls>>

\* enforce_retention_for_policy
Enforce(v) ==
  /\ seen[v] # None
  /\ seen' = [seen EXCEPT ![v] = None]
  /\ IF ~seen[v].skip /\ State(v) = "active" /\ obj[v] # None
     THEN LET old == {c \in obj[v].snaps : Cardinality({d \in obj[v].snaps : d > c}) >= KeepLast}
                       \ seen[v].pinned
          IN  /\ obj' = [obj EXCEPT ![v].snaps = @ \ old]
              /\ swept' = swept \cup old
     ELSE UNCHANGED <<obj, swept>>
  /\ UNCHANGED <<tenant, vol, writer, session, snaps, calls>>
-------------------------------------------------------------------------------
Next ==
  \/ \E a \in Admins :
       \/ \E v \in Volumes : CreateVolume(a, v) \/ DeleteVolume(a, v)
       \/ \E s, v \in Volumes, c \in Checkpoints \cup {None} : CloneVolume(a, s, v, c)
       \/ DeleteTenant(a) \/ RotateTenantKek(a)
       \/ \E state \in {"active", "suspended"} : SetTenantState(a, state)
       \/ Step(a) \/ Crash(a)
  \/ \E v \in Volumes : CreateSnapshot(v) \/ Enforce(v)
  \/ ReadPins

Spec == Init /\ [][Next]_vars
-------------------------------------------------------------------------------
(***************************************************************************)
(* An Active record can be opened: its key is wrapped under the tenant's    *)
(* present key, its database carries its fsid, and what it shares with the  *)
(* volume it was cloned from is still there; whatever was interrupted,      *)
(* resumed, rotated or deleted meanwhile.                                   *)
(***************************************************************************)
Mountable ==
  \A v \in Volumes : State(v) = "active" /\ tenant.state # "deleting" =>
    /\ vol[v].kek = tenant.kek
    /\ obj[v] # None /\ obj[v].fsid = v
    /\ obj[v].from # None => obj[obj[v].from] # None
ActiveMountable == TypeOK /\ Mountable

(***************************************************************************)
(* Deleting is final: no session, late or fenced, brings a shredded volume  *)
(* or tenant back, or gives it a key again.                                 *)
(***************************************************************************)
DeletedStep ==
  /\ \A v \in Volumes : State(v) = "deleting" => vol'[v] = vol[v]
  /\ tenant.state = "deleting" => tenant' = tenant
DeletedForGood == [][DeletedStep]_vars

(***************************************************************************)
(* "If a volume is the parent of an active clone, retention preserves the   *)
(* source checkpoint IDs recorded on that clone, including SlateDB's clone  *)
(* pin checkpoint" (README.md).  The pins are read before the checkpoints   *)
(* are listed, and a clone may become active in between.                    *)
(***************************************************************************)
RetentionKeepsPins ==
  \A v \in Volumes : State(v) = "active" /\ vol[v].pins # None => vol[v].pins \cap swept = {}
===============================================================================
