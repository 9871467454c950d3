---------------------------- MODULE VersionLease ----------------------------
(***************************************************************************)
(* The lease under which a version repository is opened, collected or       *)
(* purged (slatefs-core/src/versioning.rs): one object, renewed by a        *)
(* heartbeat task, taken over once it has expired, and broken by an         *)
(* operator who knows its owner to be dead.                                 *)
(*                                                                          *)
(* Time is abstract: a lease may expire whenever it has not just been       *)
(* written.  A revision (e_tag) matters only as "the one I last saw", so    *)
(* current holds those for whom it still is.  A store without conditional   *)
(* updates answers NotImplemented to all of them.                           *)
(***************************************************************************)
EXTENDS FiniteSets

CONSTANTS Procs, Operator, Gone, None

ASSUME LeaseAssumption ==
  /\ Gone \notin Procs /\ Operator \notin Procs
  /\ None \notin [owner : Procs \cup {Gone}, live : BOOLEAN]

VARIABLES conditional,   \* whether the store has conditional updates
          rec,           \* the object: None or [owner, live]
          current,       \* whose remembered revision is the object's
          pc,            \* per process: idle, reading, held, stopping
          breaking,      \* the operator has read the lease it is to break
          lapsed         \* holders whose lease expired under them

vars == <<conditional, rec, current, pc, breaking, lapsed>>

(***************************************************************************)
(* Type invariant; Gone owns what an owner left behind.                     *)
(***************************************************************************)
TypeOK ==
  /\ conditional \in BOOLEAN /\ breaking \in BOOLEAN
  /\ rec = None \/ rec \in [owner : Procs \cup {Gone}, live : BOOLEAN]
  /\ current \subseteq Procs \cup {Operator} /\ lapsed \subseteq Procs
  /\ pc \in [Procs -> {"idle", "reading", "held", "stopping"}]

Init ==
  /\ conditional \in BOOLEAN
  /\ rec = None /\ current = {} /\ breaking = FALSE /\ lapsed = {}
  /\ pc = [p \in Procs |-> "idle"]

Holds(p) == pc[p] \in {"held", "stopping"}
-------------------------------------------------------------------------------
Goto(p, l) == pc' = [pc EXCEPT ![p] = l]
Written(who, r) == rec' = r /\ current' = {who}
Unwritten == UNCHANGED <<rec, current>>

\* The guard and its uuid are gone; the object it wrote may stay.
Left(p, r) == IF r # None /\ r.owner = p THEN [r EXCEPT !.owner = Gone] ELSE r

Owned(p) == Written(p, [owner |-> p, live |-> TRUE]) /\ Goto(p, "held") /\ lapsed' = lapsed \ {p}

\* acquire: created, refused, or read when expired.
Acquire(p) ==
  /\ pc[p] = "idle"
  /\ \/ rec = None /\ Owned(p)
     \/ /\ rec # None /\ ~rec.live
        /\ Goto(p, "reading") /\ current' = current \cup {p}
        /\ UNCHANGED <<rec, lapsed>>
  /\ UNCHANGED <<conditional, breaking>>

TakeOver(p) ==
  /\ pc[p] = "reading"
  /\ IF conditional /\ p \in current THEN Owned(p)
     ELSE Unwritten /\ Goto(p, "idle") /\ UNCHANGED lapsed
  /\ UNCHANGED <<conditional, breaking>>

\* renew: the answer may be lost after the update is made; failures only warn.
Renew(p, answered) ==
  /\ pc[p] = "held" /\ conditional /\ p \in current
  /\ rec' = [owner |-> p, live |-> TRUE]
  /\ current' = IF answered THEN {p} ELSE {}
  /\ UNCHANGED <<conditional, pc, breaking, lapsed>>

\* Mutant: the heartbeat task misses the signal.
Close_Missed(p) == pc[p] = "held" /\ UNCHANGED vars

\* Mutant: the lease is given up while the repository is still open.
Close_LeaseFirst(p) ==
  /\ pc[p] = "held" /\ Goto(p, "stopping")
  /\ IF conditional /\ p \in current
     THEN rec' = [owner |-> Gone, live |-> FALSE] /\ current' = {}
     ELSE Unwritten
  /\ UNCHANGED <<conditional, breaking, lapsed>>

\* close: the repository is closed, the heartbeat task is told to stop.
Close(p) ==
  /\ pc[p] = "held" /\ Goto(p, "stopping")
  /\ UNCHANGED <<conditional, rec, current, breaking, lapsed>>

\* Mutant: the object is removed whoever owns it now.
Release_Delete(p) ==
  /\ pc[p] = "stopping" /\ Goto(p, "idle")
  /\ rec' = None /\ current' = {} /\ lapsed' = lapsed \ {p}
  /\ UNCHANGED <<conditional, breaking>>

Release(p) ==
  /\ pc[p] = "stopping" /\ Goto(p, "idle")
  /\ rec' = IF ~conditional THEN None
            ELSE IF p \in current THEN [owner |-> Gone, live |-> FALSE]
            ELSE Left(p, rec)
  /\ current' = IF ~conditional \/ p \in current THEN {} ELSE current
  /\ lapsed' = lapsed \ {p}
  /\ UNCHANGED <<conditional, breaking>>

Crash(p) ==
  /\ pc[p] # "idle" /\ Goto(p, "idle")
  /\ rec' = Left(p, rec) /\ current' = current \ {p} /\ lapsed' = lapsed \ {p}
  /\ UNCHANGED <<conditional, breaking>>

\* is_expired_at
Expire ==
  /\ rec # None /\ rec.live
  /\ rec' = [rec EXCEPT !.live = FALSE]
  /\ lapsed' = lapsed \cup (Procs \cap {rec.owner})
  /\ UNCHANGED <<conditional, current, pc, breaking>>

\* force_break_expired_version_maintenance_lease, in two steps; one operator.
ForceBreakRead ==
  /\ ~breaking /\ rec # None /\ rec.owner = Gone /\ ~rec.live
  /\ breaking' = TRUE /\ current' = current \cup {Operator}
  /\ UNCHANGED <<conditional, rec, pc, lapsed>>

ForceBreak ==
  /\ breaking /\ breaking' = FALSE
  /\ \/ ~conditional /\ rec' = None /\ current' = {}
     \/ conditional /\ Operator \in current /\ Written(Operator, [rec EXCEPT !.live = FALSE])
     \/ conditional /\ Operator \notin current /\ Unwritten
  /\ UNCHANGED <<conditional, pc, lapsed>>
-------------------------------------------------------------------------------
Next ==
  \/ \E p \in Procs : \/ Acquire(p) \/ TakeOver(p) \/ Close(p) \/ Release(p) \/ Crash(p)
                      \/ \E answered \in BOOLEAN : Renew(p, answered)
  \/ Expire \/ ForceBreakRead \/ ForceBreak

\* Operations end, their tasks release, and a lease nobody can renew expires.
ExpireUnrenewed == Expire /\ \A p \in Procs : ~(pc[p] = "held" /\ conditional /\ p \in current)

Fairness ==
  /\ WF_vars(ExpireUnrenewed)
  /\ \A p \in Procs : WF_vars(Close(p)) /\ WF_vars(Release(p))

Spec == Init /\ [][Next]_vars /\ Fairness
-------------------------------------------------------------------------------
(***************************************************************************)
(* Two operations hold the lease at once only when it expired under one of  *)
(* them: creating it, racing takeovers, breaking it and releasing it never  *)
(* hand it to a second holder.                                              *)
(***************************************************************************)
LeaseExcludes ==
  \A p, q \in Procs : p # q /\ Holds(p) /\ Holds(q) => p \in lapsed \/ q \in lapsed

(***************************************************************************)
(* The lease object and its holders at every moment: well formed, and of    *)
(* two holders one has lapsed.                                              *)
(***************************************************************************)
LeaseSound == TypeOK /\ LeaseExcludes

(***************************************************************************)
(* "revision updates prevent an expired owner from releasing a successor's  *)
(* lease" (architecture.md): a live lease stays its owner's until the owner *)
(* itself gives it up or crashes, and then stays until it expires, on       *)
(* either kind of store.                                                    *)
(***************************************************************************)
StaleOwnerHarmless ==
  [][rec # None /\ rec.live =>
       \/ rec' # None /\ rec'.owner = rec.owner
       \/ /\ rec.owner \in Procs /\ pc'[rec.owner] # pc[rec.owner]
          /\ rec' = None \/ rec'.owner = Gone]_vars

(***************************************************************************)
(* On a store with conditional updates the lease always becomes available   *)
(* again, though holders crash and answers to renewals are lost.            *)
(***************************************************************************)
LeaseRecovers == conditional => []<>(rec = None \/ ~rec.live)
===============================================================================
