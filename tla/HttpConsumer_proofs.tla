------------------------- MODULE HttpConsumer_proofs -------------------------
(***************************************************************************)
(* For any number of requests, sources, keys, directories and faults: a key *)
(* the idempotency cache remembers ran once, no partial upload is visible,  *)
(* staged siblings are removed by their request or its guard, and If-Match  *)
(* names the version an upload or a delete acts on.                         *)
(***************************************************************************)
EXTENDS HttpConsumer, TLAPS

\* None is a value of its own.
NoneApart == None \notin Reqs /\ None \notin Slots /\ None # "copy"

Places ==
  Checked \cup {"idle", "lock", "cleanup", "drop", "apply", "idem", "conflict",
                "evict", "copying", "store", "done"}

\* A request at one of these has a staged sibling.
Holding == {"open", "cleanup", "drop"} \cup Guarded

Shape(q) ==
  q \in [at : Places, kind : {q.kind}, slot : {q.slot}, ino : {q.ino}, match : {q.match},
         todo : {q.todo}, dst : {q.dst}, policy : {q.policy}, key : {q.key}, dirty : BOOLEAN]

Shapes ==
  /\ req = [r \in Reqs |-> req[r]] /\ \A r \in Reqs : Shape(req[r])
  /\ slots = [s \in Slots |-> slots[s]] /\ lock = [s \in Slots |-> lock[s]]
  /\ idem = [k \in Keys |-> idem[k]] /\ cache = [k \in Keys |-> cache[k]] /\ ran \in [Keys -> Nat]

(***************************************************************************)
(* The inductive invariant, in six parts (types follow at the end).         *)
(*                                                                          *)
(* Keys: an operation past the cache holds the lock of its key, which has   *)
(* no stored result yet; a key under which one completed is stored or was   *)
(* forgotten.                                                               *)
(***************************************************************************)
Running(q) == q.at \in {"conflict", "evict", "copying", "store"} \/ (q.at = "apply" /\ q.kind \in Operations)

KeyOf(r, q, locks, stored) ==
  /\ q.at = "idem" => q.key \in Keys
  /\ Running(q) => q.key \in Keys /\ locks[q.key] = r /\ stored[q.key] = None

KeysInv ==
  /\ \A r \in Reqs : KeyOf(r, req[r], idem, cache)
  /\ \A k \in Keys : ran[k] > 0 => cache[k] # None \/ k \in lapsed
  /\ KeysRunOnce

(***************************************************************************)
(* Siblings: a request has one exactly from the create to the rename or the *)
(* cleanup, and it is complete once the body was received.                  *)
(***************************************************************************)
SiblingOf(x, q, complete) ==
  /\ q.at \in Holding \/ (q.at = "done" /\ x.stray /\ ~ x.open)
  /\ q.at = "open" => ~ x.open
  /\ q.at \in {"sync", "rename"} => x.ino \in complete

StagedInv ==
  /\ \A x \in staged : x \in [by : Reqs, ino : {x.ino}, open : BOOLEAN, stray : BOOLEAN]
  /\ \A x, y \in staged : x.by = y.by => x = y
  /\ \A r \in Reqs : req[r].at \in Holding => \E x \in staged : x.by = r
  /\ \A x \in staged : SiblingOf(x, req[x.by], whole)

(***************************************************************************)
(* Copies: between two sources, what a copy made is complete.               *)
(***************************************************************************)
CopyOf(q, complete) ==
  /\ q.at = "idle" => q.kind # "copy"
  /\ q.kind = "copy" /\ q.at \notin {"copying", "done"} => q.ino = None \/ q.ino \in complete

CopiesInv == EntriesWhole /\ \A r \in Reqs : CopyOf(req[r], whole)

(***************************************************************************)
(* Matches: a request past check_match holds the lock of its entry, and the *)
(* entry is what If-Match named unless the request was overtaken.           *)
(***************************************************************************)
MatchOf(r, q, locks, bound, etags) ==
  /\ q.at \in Checked \cup {"lock"} => q.slot \in Slots
  /\ q.at \in Checked => locks[q.slot] = r
  /\ q.at = "lock" /\ q.kind = "put" /\ q.ino = None => q.match = None
  /\ q.at \in Checked \ {"setx"} /\ q.match # None /\ ~ q.dirty =>
        bound[q.slot] # None /\ q.match = <<bound[q.slot], etags[bound[q.slot]]>>

MatchesInv == \A r \in Reqs : MatchOf(r, req[r], lock, slots, ver)

(***************************************************************************)
(* Sources: an operation that is not about to store its result has sources  *)
(* left, entries with the inode each one was resolved to.                   *)
(***************************************************************************)
TodoOf(q) ==
  q.at = "idem" \/ (Running(q) /\ q.at # "store") =>
     \E V : q.todo \in Seq(Slots \X V) /\ q.todo # <<>>

SourcesInv == \A r \in Reqs : TodoOf(req[r])

IInv == Shapes /\ KeysInv /\ StagedInv /\ CopiesInv /\ MatchesInv /\ SourcesInv

(***************************************************************************)
(* A step of request r, which becomes p; the others are overtaken at most.  *)
(***************************************************************************)
Alike(p, q) ==
  /\ p.at = q.at /\ p.kind = q.kind /\ p.slot = q.slot /\ p.ino = q.ino /\ p.match = q.match
  /\ p.key = q.key /\ p.todo = q.todo /\ (q.dirty => p.dirty) /\ Shape(p)

Steps(r, p) ==
  /\ req' = [q \in Reqs |-> req'[q]] /\ Shape(p) /\ req'[r] = p
  /\ \A q \in Reqs : q # r => Alike(req'[q], req[q])

LEMMA OneMoves ==
  ASSUME Shapes, NEW r \in Reqs, NEW p, Shape(p), req' = [req EXCEPT ![r] = p]
  PROVE  Steps(r, p) /\ \A q \in Reqs : q # r => req'[q] = req[q]
  BY DEF Shapes, Steps, Alike

LEMMA Goes ==
  ASSUME Shapes, NEW r \in Reqs, NEW at \in Places, Goto(r, at)
  PROVE  LET p == [req[r] EXCEPT !.at = at] IN
         /\ Steps(r, p) /\ \A q \in Reqs : q # r => req'[q] = req[q]
  <1> DEFINE p == [req[r] EXCEPT !.at = at]
  <1>1. Shape(p)
    BY DEF Shapes, Shape
  <1>2. req' = [req EXCEPT ![r] = p]
    BY DEF Goto
  <1> QED BY Zenon, <1>1, <1>2, OneMoves

\* An answered request has no place in any part of the invariant.
LEMMA Answered ==
  ASSUME Shapes, NEW r \in Reqs
  PROVE  /\ Shape(Done(r)) /\ Done(r).at = "done"
         /\ req[r].kind = "copy" => Done(r).kind = "copy" /\ Done(r).ino = req[r].ino
  <1>1. CASE req[r].kind = "copy"
    BY <1>1, Zenon DEF Done, Idle, Shape, Places, Shapes
  <1>2. CASE req[r].kind # "copy"
    BY <1>2, Zenon DEF Done, Idle, Shape, Places
  <1> QED BY <1>1, <1>2

LEMMA Answers ==
  ASSUME Shapes, NEW r \in Reqs, Answer(r)
  PROVE  Steps(r, Done(r)) /\ \A q \in Reqs : q # r => req'[q] = req[q]
  BY Answered, OneMoves, Zenon DEF Answer

\* Entry of request q: it is as it was, or q was overtaken.
Kept(q) ==
  ~ req'[q].dirty =>
     /\ slots'[req[q].slot] = slots[req[q].slot]
     /\ slots[req[q].slot] # None => ver'[slots[req[q].slot]] = ver[slots[req[q].slot]]

LEMMA Overtaken ==
  ASSUME Shapes, NEW r, NEW p, NEW own, Shape(p), Overtake(r, p, own)
  PROVE  /\ r \in Reqs => Steps(r, p)
         /\ req' = [q \in Reqs |-> req'[q]]
         /\ \A q \in Reqs : q # r => Alike(req'[q], req[q])
         /\ \A q \in Reqs : q # r /\ req[q].at \in Checked /\ req[q].slot # own => Kept(q)
  <1>1. req' = [q \in Reqs |-> req'[q]]
    BY DEF Overtake
  <1>2. r \in Reqs => req'[r] = p
    BY DEF Overtake
  <1>3. ASSUME NEW q \in Reqs, q # r
        PROVE  req'[q] = req[q] \/ req'[q] = [req[q] EXCEPT !.dirty = TRUE]
    BY <1>3 DEF Overtake
  <1>4. ASSUME NEW q \in Reqs, q # r
        PROVE  Alike(req'[q], req[q])
    <2>1. Shape(req[q])
      BY DEF Shapes
    <2> QED BY <1>3, <1>4, <2>1, Zenon DEF Alike, Shape
  <1>5. ASSUME NEW q \in Reqs, q # r, req[q].at \in Checked, req[q].slot # own
        PROVE  Kept(q)
    <2> DEFINE i == slots[req[q].slot]
               moved == slots'[req[q].slot] # i \/ (i # None /\ ver'[i] # ver[i])
    <2>1. moved => req'[q] = [req[q] EXCEPT !.dirty = TRUE]
      BY <1>5 DEF Overtake
    <2>2. moved => req'[q].dirty
      <3>1. Shape(req[q])
        BY DEF Shapes
      <3> HIDE DEF moved
      <3> QED BY <2>1, <3>1 DEF Shape
    <2> QED BY <2>2 DEF Kept
  <1> QED BY <1>1, <1>2, <1>4, <1>5 DEF Steps

(***************************************************************************)
(* What each part of the invariant asks of a step of one request.           *)
(***************************************************************************)
LEMMA ShapesFrame ==
  ASSUME Shapes, NEW r \in Reqs, NEW p, Steps(r, p),
         slots' = [s \in Slots |-> slots'[s]], lock' = [s \in Slots |-> lock'[s]],
         idem' = [k \in Keys |-> idem'[k]], cache' = [k \in Keys |-> cache'[k]], ran' \in [Keys -> Nat]
  PROVE  Shapes'
  BY DEF Shapes, Steps, Alike

LEMMA KeysFrame ==
  ASSUME KeysInv, NEW r \in Reqs, NEW p, Steps(r, p), UNCHANGED <<cache, ran, lapsed>>,
         KeyOf(r, p, idem', cache'),
         \A q \in Reqs, k \in Keys : q # r /\ idem[k] = q => idem'[k] = q
  PROVE  KeysInv'
  <1>1. \A q \in Reqs : KeyOf(q, req'[q], idem', cache')
    <2> SUFFICES ASSUME NEW q \in Reqs PROVE KeyOf(q, req'[q], idem', cache')
      OBVIOUS
    <2>1. CASE q = r
      BY <2>1 DEF Steps
    <2>2. CASE q # r
      <3>1. KeyOf(q, req[q], idem, cache) /\ Alike(req'[q], req[q])
        BY <2>2 DEF KeysInv, Steps
      <3> QED BY <2>2, <3>1 DEF KeyOf, Alike, Running
    <2> QED BY <2>1, <2>2
  <1> QED BY <1>1 DEF KeysInv, KeysRunOnce

LEMMA CopiesFrame ==
  ASSUME CopiesInv, NEW r \in Reqs, NEW p, Steps(r, p), whole \subseteq whole', CopyOf(p, whole'),
         req[r].kind = "copy" => p.kind = "copy" /\ p.ino = req[r].ino,
         \A s \in Slots : slots'[s] = None \/ slots'[s] \in whole' \/ \E e \in Slots : slots[e] = slots'[s]
  PROVE  CopiesInv'
  <1>1. \A q \in Reqs : q # r => Alike(req'[q], req[q])
    BY DEF Steps
  <1>2. \A q \in Reqs : req[q].kind = "copy" => req'[q].kind = "copy" /\ req'[q].ino = req[q].ino
    BY <1>1 DEF Steps, Alike
  <1>3. EntriesWhole'
    BY <1>2 DEF CopiesInv, EntriesWhole
  <1>4. ASSUME NEW q \in Reqs PROVE CopyOf(req'[q], whole')
    <2>1. CASE q = r
      BY <2>1 DEF Steps
    <2>2. CASE q # r
      BY <1>1, <2>2 DEF CopiesInv, CopyOf, Alike
    <2> QED BY <2>1, <2>2
  <1> QED BY <1>3, <1>4 DEF CopiesInv

LEMMA MatchesFrame ==
  ASSUME MatchesInv, NEW r \in Reqs, NEW p, Steps(r, p), MatchOf(r, p, lock', slots', ver'),
         \A q \in Reqs, s \in Slots : q # r /\ lock[s] = q => lock'[s] = q,
         \A q \in Reqs : q # r /\ req[q].at \in Checked => Kept(q)
  PROVE  MatchesInv'
  <1> SUFFICES ASSUME NEW q \in Reqs PROVE MatchOf(q, req'[q], lock', slots', ver')
    BY DEF MatchesInv
  <1>1. CASE q = r
    BY <1>1 DEF Steps
  <1>2. CASE q # r
    <2>1. MatchOf(q, req[q], lock, slots, ver) /\ Alike(req'[q], req[q])
      BY <1>2 DEF MatchesInv, Steps
    <2>2. req[q].at \in Checked => Kept(q)
      BY <1>2
    <2> QED BY <1>2, <2>1, <2>2 DEF MatchOf, Alike, Kept
  <1> QED BY <1>1, <1>2

LEMMA SourcesFrame ==
  ASSUME SourcesInv, NEW r \in Reqs, NEW p, Steps(r, p), TodoOf(p)
  PROVE  SourcesInv'
  <1> SUFFICES ASSUME NEW q \in Reqs PROVE TodoOf(req'[q])
    BY DEF SourcesInv
  <1>1. CASE q = r
    BY <1>1 DEF Steps
  <1>2. CASE q # r
    <2>1. TodoOf(req[q]) /\ Alike(req'[q], req[q])
      BY <1>2 DEF SourcesInv, Steps
    <2> QED BY <2>1, Zenon DEF TodoOf, Alike, Running
  <1> QED BY <1>1, <1>2

\* The sibling of a request that has one.
LEMMA OwnSibling ==
  ASSUME StagedInv, NEW r \in Reqs, req[r].at \in Holding
  PROVE  /\ Staged(r) \in staged /\ Staged(r).by = r
         /\ \A x \in staged : x.by = r => x = Staged(r)
  BY DEF StagedInv, Staged

\* A request without a sibling.
LEMMA StagedFrame ==
  ASSUME StagedInv, NEW r \in Reqs, NEW p, Steps(r, p), staged' = staged, whole \subseteq whole',
         req[r].at \notin Holding \cup {"done"}, p.at \notin Holding
  PROVE  StagedInv'
  <1>1. \A x \in staged : x.by # r
    BY DEF StagedInv, SiblingOf
  <1>2. \A x \in staged : x.by \in Reqs /\ Alike(req'[x.by], req[x.by])
    BY <1>1 DEF StagedInv, Steps
  <1>3. \A x \in staged : SiblingOf(x, req'[x.by], whole')
    BY <1>2 DEF StagedInv, SiblingOf, Alike
  <1>4. ASSUME NEW q \in Reqs, req'[q].at \in Holding PROVE \E x \in staged : x.by = q
    <2>1. q # r
      BY <1>4 DEF Steps
    <2>2. req[q].at \in Holding
      BY <1>4, <2>1 DEF Steps, Alike
    <2> QED BY <2>2 DEF StagedInv
  <1> QED BY <1>3, <1>4 DEF StagedInv

\* A request gets, changes or keeps its sibling, which becomes y.
LEMMA StagedChanges ==
  ASSUME StagedInv, NEW r \in Reqs, NEW p, Steps(r, p), whole \subseteq whole', NEW y,
         y \in [by : {r}, ino : {y.ino}, open : BOOLEAN, stray : BOOLEAN],
         staged' = {x \in staged : x.by # r} \cup {y}, SiblingOf(y, p, whole')
  PROVE  StagedInv'
  <1>1. \A x \in staged : x.by # r => x.by \in Reqs /\ Alike(req'[x.by], req[x.by])
    BY DEF StagedInv, Steps
  <1>2. \A x \in staged : x.by # r => SiblingOf(x, req'[x.by], whole')
    BY <1>1 DEF StagedInv, SiblingOf, Alike
  <1>3. y.by = r /\ req'[r] = p
    BY DEF Steps
  <1>4. \A x \in staged' : SiblingOf(x, req'[x.by], whole')
    BY <1>2, <1>3
  <1>5. ASSUME NEW q \in Reqs, req'[q].at \in Holding PROVE \E x \in staged' : x.by = q
    <2>1. CASE q = r
      BY <1>3, <2>1
    <2>2. CASE q # r
      <3>1. req[q].at \in Holding
        BY <1>5, <2>2 DEF Steps, Alike
      <3> QED BY <2>2, <3>1 DEF StagedInv
    <2> QED BY <2>1, <2>2
  <1>6. \A x \in staged' : x \in [by : Reqs, ino : {x.ino}, open : BOOLEAN, stray : BOOLEAN]
    BY DEF StagedInv
  <1>7. \A x, z \in staged' : x.by = z.by => x = z
    BY <1>3 DEF StagedInv
  <1> QED BY <1>4, <1>5, <1>6, <1>7 DEF StagedInv

\* The sibling is gone: renamed over the entry, or removed.
LEMMA StagedGoes ==
  ASSUME StagedInv, NEW r \in Reqs, NEW p, Steps(r, p), whole \subseteq whole', p.at = "done",
         staged' = {x \in staged : x.by # r}
  PROVE  StagedInv'
  <1>1. \A x \in staged : x.by # r => x.by \in Reqs /\ Alike(req'[x.by], req[x.by])
    BY DEF StagedInv, Steps
  <1>2. \A x \in staged' : SiblingOf(x, req'[x.by], whole')
    BY <1>1 DEF StagedInv, SiblingOf, Alike
  <1>3. ASSUME NEW q \in Reqs, req'[q].at \in Holding PROVE \E x \in staged' : x.by = q
    <2>1. q # r
      BY <1>3 DEF Steps, Holding, Guarded
    <2>2. req[q].at \in Holding
      BY <1>3, <2>1 DEF Steps, Alike
    <2> QED BY <2>1, <2>2 DEF StagedInv
  <1> QED BY <1>2, <1>3 DEF StagedInv

(***************************************************************************)
(* The parts together.  Locks: nobody else's is lost.  Bindings: an entry   *)
(* holds complete content, or what some entry held before.                  *)
(***************************************************************************)
Freed(r) ==
  /\ lock' = [s \in Slots |-> lock'[s]] /\ idem' = [k \in Keys |-> idem'[k]]
  /\ \A q \in Reqs, s \in Slots : q # r /\ lock[s] = q => lock'[s] = q
  /\ \A q \in Reqs, k \in Keys : q # r /\ idem[k] = q => idem'[k] = q

Bound ==
  /\ slots' = [s \in Slots |-> slots'[s]] /\ whole \subseteq whole'
  /\ \A s \in Slots : slots'[s] = None \/ slots'[s] \in whole' \/ \E e \in Slots : slots[e] = slots'[s]

RightOf(r, p) ==
  /\ KeyOf(r, p, idem', cache') /\ CopyOf(p, whole') /\ MatchOf(r, p, lock', slots', ver') /\ TodoOf(p)
  /\ req[r].kind = "copy" => p.kind = "copy" /\ p.ino = req[r].ino

LEMMA StepInv ==
  ASSUME IInv, NEW r \in Reqs, NEW p, Steps(r, p), UNCHANGED <<cache, ran, lapsed>>,
         Freed(r), Bound, RightOf(r, p), StagedInv',
         \A q \in Reqs : q # r /\ req[q].at \in Checked => Kept(q)
  PROVE  IInv'
  <1>1. Shapes'
    <2>1. cache' = [k \in Keys |-> cache'[k]] /\ ran' \in [Keys -> Nat]
      BY DEF IInv, Shapes
    <2> QED BY <2>1, ShapesFrame DEF IInv, Freed, Bound
  <1>2. KeysInv'
    BY KeysFrame DEF IInv, Freed, RightOf
  <1>3. CopiesInv'
    BY CopiesFrame DEF IInv, Bound, RightOf
  <1>4. MatchesInv'
    BY MatchesFrame DEF IInv, Freed, RightOf
  <1>5. SourcesInv'
    BY SourcesFrame DEF IInv, RightOf
  <1> QED BY <1>1, <1>2, <1>3, <1>4, <1>5 DEF IInv

\* The same when r is answered.
LEMMA EndInv ==
  ASSUME IInv, NEW r \in Reqs, Steps(r, Done(r)), UNCHANGED <<cache, ran, lapsed>>,
         Freed(r), Bound, StagedInv',
         \A q \in Reqs : q # r /\ req[q].at \in Checked => Kept(q)
  PROVE  IInv'
  <1>1. Shapes
    BY DEF IInv
  <1>2. /\ Done(r).at = "done"
        /\ req[r].kind = "copy" => Done(r).kind = "copy" /\ Done(r).ino = req[r].ino
    BY <1>1, Answered
  <1>3. RightOf(r, Done(r))
    BY <1>2 DEF RightOf, KeyOf, TodoOf, Running, CopyOf, MatchOf, Checked, Guarded
  <1> QED BY <1>3, StepInv

LEMMA LocksStay ==
  ASSUME IInv, NEW r, UNCHANGED <<lock, idem>>
  PROVE  Freed(r)
  BY DEF IInv, Shapes, Freed

LEMMA LocksFreed ==
  ASSUME IInv, NEW r, lock' = lock \/ Release(r), idem' = idem \/ ReleaseKey(r)
  PROVE  Freed(r)
  <1>1. lock' = [s \in Slots |-> lock'[s]] /\ \A q \in Reqs, s \in Slots : q # r /\ lock[s] = q => lock'[s] = q
    BY DEF IInv, Shapes, Release
  <1>2. idem' = [k \in Keys |-> idem'[k]] /\ \A q \in Reqs, k \in Keys : q # r /\ idem[k] = q => idem'[k] = q
    BY DEF IInv, Shapes, ReleaseKey
  <1> QED BY <1>1, <1>2 DEF Freed

LEMMA BindingsStay ==
  ASSUME IInv, slots' = slots, whole \subseteq whole'
  PROVE  Bound
  BY DEF IInv, Shapes, Bound

\* Nobody is overtaken where bindings and versions stay.
LEMMA NobodyOvertaken ==
  ASSUME UNCHANGED <<slots, ver>>
  PROVE  \A q \in Reqs : Kept(q)
  BY DEF Kept

(***************************************************************************)
(* Requests that arrive.                                                    *)
(***************************************************************************)
LEMMA ArriveStep ==
  ASSUME NoneApart, IInv, NEW r \in Reqs, Arrive(r)
  PROVE  IInv'
  <1>1. PICK s \in Slots, kind \in Kinds \ Operations, m \in BOOLEAN, d \in Slots :
          /\ IF slots[s] = None THEN kind \in {"put", "create"} /\ ~m
             ELSE kind # "create" /\ (kind = "put" => m)
          /\ (kind # "rename" => d = s) /\ (kind \in {"chmod", "rename"} => ~m)
          /\ req' = [req EXCEPT ![r] = Ask(kind, s, m, d)]
    BY Zenon DEF Arrive
  <1> DEFINE at == IF kind = "chmod" THEN "apply" ELSE "lock"
             match == IF m THEN Etag(slots[s]) ELSE None
             p == Ask(kind, s, m, d)
  <1>2. at \in {"apply", "lock"}
    OBVIOUS
  <1>3. slots[s] = None => match = None
    BY <1>1
  <1>4. p \in [at : {at}, kind : {kind}, slot : {s}, ino : {slots[s]}, match : {match},
               todo : {p.todo}, dst : {d}, policy : {p.policy}, key : {p.key}, dirty : {FALSE}]
    <2> DEFINE asked == [Idle EXCEPT !.kind = kind, !.at = at, !.slot = s, !.ino = slots[s], !.match = match,
                                     !.dst = d]
    <2>1. p = asked
      BY DEF Ask
    <2> HIDE DEF at, p, match
    <2>2. asked \in [at : {at}, kind : {kind}, slot : {s}, ino : {slots[s]}, match : {match},
                     todo : {asked.todo}, dst : {d}, policy : {asked.policy}, key : {asked.key}, dirty : {FALSE}]
      BY Zenon DEF Idle
    <2> HIDE DEF asked
    <2> QED BY <2>1, <2>2, Zenon
  <1> HIDE DEF at, p, match
  <1>5. Shape(p)
    BY <1>2, <1>4, Zenon DEF Shape, Places
  <1>6. Shapes /\ StagedInv /\ req[r].at = "idle" /\ req[r].kind # "copy"
    BY DEF IInv, CopiesInv, CopyOf, Arrive, First, At
  <1>7. Steps(r, p)
    BY <1>1, <1>5, <1>6, OneMoves, Zenon DEF p
  <1>8. UNCHANGED <<slots, ver, whole, staged, lock, idem, cache, ran, lapsed>>
    BY DEF Arrive, keyed
  <1>9. RightOf(r, p)
    <2>1. kind # "copy"
      BY DEF Operations
    <2> QED BY <1>2, <1>3, <1>4, <1>6, <2>1
            DEF RightOf, KeyOf, TodoOf, Running, CopyOf, MatchOf, Checked, Guarded
  <1>10. StagedInv'
    BY <1>2, <1>4, <1>6, <1>7, <1>8, StagedFrame DEF Holding, Guarded
  <1> QED BY <1>7, <1>8, <1>9, <1>10, StepInv, LocksStay, BindingsStay, NobodyOvertaken

LEMMA ArriveOperationStep ==
  ASSUME NoneApart, MaxSources \in Nat, IInv, NEW r \in Reqs, ArriveOperation(r)
  PROVE  IInv'
  <1>1. PICK kind \in Kinds \cap Operations, d \in Dirs, key \in Keys,
             pol \in {"fail", "skip", "overwrite", "keep_both"}, n \in 1 .. MaxSources :
          \E src \in [1 .. n -> {s \in Slots : slots[s] # None}] :
             /\ pol = "overwrite" => kind = "move"
             /\ \A i, j \in 1 .. n : src[i] = src[j] => i = j
             /\ req' = [req EXCEPT ![r] =
                          Operation(kind, d, key, pol, [i \in 1 .. n |-> <<src[i], slots[src[i]]>>])]
    BY Zenon DEF ArriveOperation
  <1>2. PICK src \in [1 .. n -> {s \in Slots : slots[s] # None}] :
          req' = [req EXCEPT ![r] = Operation(kind, d, key, pol, [i \in 1 .. n |-> <<src[i], slots[src[i]]>>])]
    BY <1>1, Zenon
  <1> DEFINE todo == [i \in 1 .. n |-> <<src[i], slots[src[i]]>>]
             p == Operation(kind, d, key, pol, todo)
  <1> HIDE DEF todo
  <1>3. p \in [at : {"idem"}, kind : {kind}, slot : {p.slot}, ino : {None}, match : {p.match},
               todo : {todo}, dst : {p.dst}, policy : {pol}, key : {key}, dirty : {FALSE}]
    BY Zenon DEF Operation, Idle
  <1> HIDE DEF p
  <1>4. Shape(p)
    BY <1>3, Zenon DEF Shape, Places
  <1>5. Shapes /\ StagedInv /\ req[r].at = "idle" /\ req[r].kind # "copy"
    BY DEF IInv, CopiesInv, CopyOf, ArriveOperation, First, At
  <1>6. Steps(r, p)
    BY <1>2, <1>4, <1>5, OneMoves DEF p, todo
  <1>7. UNCHANGED <<slots, ver, whole, staged, lock, idem, cache, ran, lapsed>>
    BY DEF ArriveOperation, keyed
  <1>8. RightOf(r, p)
    <2> DEFINE V == {slots[s] : s \in Slots}
    <2>1. n \in Nat /\ n # 0 /\ \A i \in 1 .. n : src[i] \in Slots
      OBVIOUS
    <2>2. \A i \in 1 .. n : <<src[i], slots[src[i]]>> \in Slots \X V
      BY <2>1
    <2> HIDE DEF V
    <2>3. todo \in [1 .. n -> Slots \X V]
      BY <2>2 DEF todo
    <2>4. todo \in Seq(Slots \X V) /\ todo # <<>>
      BY <2>1, <2>3
    <2> QED BY <1>3, <1>5, <2>4 DEF RightOf, KeyOf, TodoOf, Running, CopyOf, MatchOf, Checked, Guarded
  <1>9. StagedInv'
    BY <1>3, <1>5, <1>6, <1>7, StagedFrame DEF Holding, Guarded
  <1> QED BY <1>6, <1>7, <1>8, <1>9, StepInv, LocksStay, BindingsStay, NobodyOvertaken

(***************************************************************************)
(* A request moves on from one place to the next.                           *)
(***************************************************************************)
Moved(q, at) == [q EXCEPT !.at = at]

LEMMA MovedFields ==
  ASSUME NEW q, Shape(q), NEW at \in Places
  PROVE  /\ Shape(Moved(q, at)) /\ Moved(q, at).at = at /\ Moved(q, at).kind = q.kind
         /\ Moved(q, at).slot = q.slot /\ Moved(q, at).ino = q.ino /\ Moved(q, at).match = q.match
         /\ Moved(q, at).key = q.key /\ Moved(q, at).todo = q.todo /\ Moved(q, at).dirty = q.dirty
  BY DEF Moved, Shape

LEMMA Moves ==
  ASSUME Shapes, NEW r \in Reqs, NEW at \in Places, Goto(r, at)
  PROVE  Steps(r, Moved(req[r], at))
  BY Goes DEF Moved

\* write_content, delete_entry and update_xattrs take the lock and compare.
LEMMA BeginStep ==
  ASSUME NoneApart, IInv, NEW r \in Reqs, Begin(r)
  PROVE  IInv'
  <1> DEFINE q == req[r]
             new == q.kind = "put" /\ q.ino = None
             at == CASE q.kind = "put" -> "stage" [] q.kind = "delete" -> "unlink" [] OTHER -> "setx"
             p == Moved(q, at)
  <1>1. Shapes /\ StagedInv /\ Shape(q) /\ MatchOf(r, q, lock, slots, ver) /\ CopyOf(q, whole) /\ q.at = "lock"
    BY DEF IInv, Shapes, CopiesInv, MatchesInv, Begin, At
  <1>2. UNCHANGED <<slots, ver, whole, staged, idem, cache, ran, lapsed>> /\ q.kind \in {"put", "delete", "xattr"}
    BY DEF Begin, keyed
  <1>3. CASE new \/ CheckMatch(r)
    <2>1. lock[q.slot] = None /\ lock' = [lock EXCEPT ![q.slot] = r] /\ Goto(r, at)
      BY <1>3 DEF Begin
    <2>2. at \in {"stage", "unlink", "setx"} /\ at \in Places /\ (at # "setx" => q.kind # "xattr")
      BY <1>2 DEF Places, Checked
    <2>3. Steps(r, p)
      BY <1>1, <2>1, <2>2, Moves
    <2>4. p.at = at /\ p.kind = q.kind /\ p.slot = q.slot /\ p.ino = q.ino /\ p.match = q.match
      BY <1>1, <2>2, MovedFields
    <2>5. at # "setx" /\ q.match # None => slots[q.slot] # None /\ q.match = Etag(slots[q.slot])
      BY <1>1, <1>3, <2>2 DEF CheckMatch, MatchOf
    <2> HIDE DEF p, at
    <2>6. q.slot \in Slots /\ lock'[q.slot] = r
      BY <1>1, <2>1, Zenon DEF MatchOf, Shapes
    <2>7. RightOf(r, p)
      BY <1>1, <1>2, <2>2, <2>4, <2>5, <2>6
         DEF RightOf, KeyOf, TodoOf, Running, CopyOf, MatchOf, Checked, Guarded, Etag
    <2>8. Freed(r)
      BY <1>1, <1>2, <2>1, <2>6 DEF Freed, Shapes, NoneApart
    <2>9. StagedInv'
      BY <1>1, <1>2, <2>2, <2>3, <2>4, StagedFrame DEF Holding, Guarded
    <2> QED BY <1>2, <2>3, <2>7, <2>8, <2>9, StepInv, BindingsStay, NobodyOvertaken
  <1>4. CASE ~ (new \/ CheckMatch(r))
    <2>1. Answer(r) /\ lock' = lock
      BY <1>4 DEF Begin
    <2>2. Steps(r, Done(r)) /\ Done(r).at = "done"
      BY <1>1, <2>1, Answers, Answered
    <2>3. StagedInv'
      BY <1>1, <1>2, <2>2, StagedFrame DEF Holding, Guarded
    <2> QED BY <1>2, <2>1, <2>2, <2>3, EndInv, LocksStay, BindingsStay, NobodyOvertaken
  <1> QED BY <1>3, <1>4

LEMMA WithoutOwn ==
  ASSUME StagedInv, NEW r \in Reqs, req[r].at \in Holding
  PROVE  staged \ {Staged(r)} = {x \in staged : x.by # r}
  BY OwnSibling

\* No request but r has the lock of the entry r works on.
LEMMA OtherEntries ==
  ASSUME NoneApart, IInv, NEW r \in Reqs, NEW s, lock[s] \in {r, None},
         NEW q \in Reqs, q # r, req[q].at \in Checked
  PROVE  req[q].slot # s
  BY DEF NoneApart, IInv, MatchesInv, MatchOf

\* delete_entry, under the lock.
LEMMA DeleteEntryStep ==
  ASSUME NoneApart, IInv, NEW r \in Reqs, DeleteEntry(r)
  PROVE  IInv'
  <1> DEFINE s == req[r].slot
  <1>1. Shapes /\ StagedInv /\ req[r].at = "unlink"
    BY DEF IInv, DeleteEntry, At
  <1>2. s \in Slots /\ lock[s] = r
    BY <1>1 DEF IInv, MatchesInv, MatchOf, Checked
  <1>3. /\ slots' = [slots EXCEPT ![s] = None] /\ Overtake(r, Done(r), s) /\ Release(r)
        /\ UNCHANGED <<whole, staged, idem, cache, ran, lapsed>>
    BY DEF DeleteEntry, Rebind, keyed
  <1> HIDE DEF s
  <1>4. Shape(Done(r)) /\ Done(r).at = "done"
    BY <1>1, Answered
  <1>5. Steps(r, Done(r)) /\ \A q \in Reqs : q # r /\ req[q].at \in Checked /\ req[q].slot # s => Kept(q)
    BY <1>1, <1>3, <1>4, Overtaken
  <1>6. \A q \in Reqs : q # r /\ req[q].at \in Checked => Kept(q)
    BY <1>2, <1>5, OtherEntries
  <1>7. Bound
    BY <1>1, <1>3 DEF Bound, Shapes
  <1>8. Freed(r)
    BY <1>3, LocksFreed
  <1>9. StagedInv'
    BY <1>1, <1>3, <1>4, <1>5, StagedFrame DEF Holding, Guarded
  <1> QED BY <1>3, <1>5, <1>6, <1>7, <1>8, <1>9, EndInv

\* update_xattrs: no ETag shows extended attributes.
LEMMA UpdateXattrsStep ==
  ASSUME IInv, NEW r \in Reqs, UpdateXattrs(r)
  PROVE  IInv'
  <1>1. Shapes /\ StagedInv /\ req[r].at = "setx"
    BY DEF IInv, UpdateXattrs, At
  <1>2. Answer(r) /\ Release(r) /\ UNCHANGED <<slots, ver, whole, staged, idem, cache, ran, lapsed>>
    BY DEF UpdateXattrs, keyed
  <1>3. Steps(r, Done(r)) /\ Done(r).at = "done"
    BY <1>1, <1>2, Answers, Answered
  <1>4. StagedInv'
    BY <1>1, <1>2, <1>3, StagedFrame, Zenon DEF Holding, Guarded
  <1> QED BY <1>2, <1>3, <1>4, EndInv, LocksFreed, BindingsStay, NobodyOvertaken

(***************************************************************************)
(* write_content.  Until the rename the entry is untouched, and the request *)
(* keeps its lock.                                                          *)
(***************************************************************************)
LEMMA UploadRight ==
  ASSUME IInv, NEW r \in Reqs, req[r].at \in Checked \ {"setx"},
         NEW at \in (Checked \ {"setx"}) \cup {"cleanup", "drop"},
         UNCHANGED <<slots, ver>>, whole \subseteq whole', at \in Checked => lock' = lock
  PROVE  RightOf(r, Moved(req[r], at))
  <1> DEFINE q == req[r]
             p == Moved(q, at)
  <1>1. Shape(q) /\ MatchOf(r, q, lock, slots, ver) /\ CopyOf(q, whole)
    BY DEF IInv, Shapes, MatchesInv, CopiesInv
  <1>2. at \in Places
    BY DEF Places
  <1>3. /\ p.at = at /\ p.kind = q.kind /\ p.slot = q.slot /\ p.ino = q.ino /\ p.match = q.match
        /\ p.dirty = q.dirty
    BY <1>1, <1>2, MovedFields
  <1> HIDE DEF p
  <1>4. KeyOf(r, p, idem', cache') /\ CopyOf(p, whole') /\ TodoOf(p)
    BY <1>1, <1>3 DEF KeyOf, TodoOf, Running, CopyOf, Checked, Guarded
  <1>5. MatchOf(r, p, lock', slots', ver')
    BY <1>1, <1>3, Zenon DEF MatchOf, Checked, Guarded
  <1> QED BY <1>3, <1>4, <1>5 DEF RightOf, p

LEMMA UploadMoves ==
  ASSUME IInv, NEW r \in Reqs, req[r].at \in Checked \ {"setx"},
         NEW at \in (Checked \ {"setx"}) \cup {"cleanup", "drop"}, Goto(r, at),
         UNCHANGED <<slots, ver, cache, ran, lapsed>>, whole \subseteq whole',
         at \in Checked => lock' = lock, Freed(r), StagedInv'
  PROVE  IInv'
  <1>1. at \in Places
    BY DEF Places
  <1>2. Steps(r, Moved(req[r], at))
    BY <1>1, Moves DEF IInv
  <1> QED BY <1>2, UploadRight, StepInv, BindingsStay, NobodyOvertaken

LEMMA SiblingKept ==
  ASSUME IInv, NEW r \in Reqs, NEW at \in Places, Goto(r, at), whole \subseteq whole', NEW y,
         y \in [by : {r}, ino : {y.ino}, open : BOOLEAN, stray : BOOLEAN],
         staged' = {x \in staged : x.by # r} \cup {y}, at \in Holding, at = "open" => ~ y.open,
         at \in {"sync", "rename"} => y.ino \in whole'
  PROVE  StagedInv'
  <1> DEFINE p == Moved(req[r], at)
  <1>1. Steps(r, p)
    BY Moves DEF IInv
  <1>2. p.at = at
    BY MovedFields DEF IInv, Shapes
  <1> HIDE DEF p
  <1>3. SiblingOf(y, p, whole')
    BY <1>2 DEF SiblingOf
  <1> QED BY <1>1, <1>3, StagedChanges DEF IInv

\* The hidden sibling is created.
LEMMA StageStep ==
  ASSUME IInv, NEW r \in Reqs, Stage(r)
  PROVE  IInv'
  <1> DEFINE y == [by |-> r, ino |-> inos', open |-> FALSE, stray |-> FALSE]
  <1>1. /\ req[r].at = "stage" /\ Goto(r, "open") /\ staged' = staged \cup {y}
        /\ UNCHANGED <<slots, ver, whole, lock, idem, cache, ran, lapsed>>
    BY DEF Stage, At, keyed
  <1>2. \A x \in staged : x.by # r
    BY <1>1 DEF IInv, StagedInv, SiblingOf, Holding, Guarded
  <1>3. staged' = {x \in staged : x.by # r} \cup {y}
    BY <1>1, <1>2
  <1>4. y \in [by : {r}, ino : {y.ino}, open : BOOLEAN, stray : BOOLEAN] /\ ~ y.open
    OBVIOUS
  <1> HIDE DEF y
  <1>5. "open" \in Places /\ "open" \in Holding /\ "open" \in Checked \ {"setx"} /\ "stage" \in Checked \ {"setx"}
    BY DEF Places, Holding, Checked
  <1>6. StagedInv'
    BY <1>1, <1>3, <1>4, <1>5, SiblingKept
  <1> QED BY <1>1, <1>5, <1>6, UploadMoves, LocksStay

\* It is opened, filled and flushed.
LEMMA FillStep ==
  ASSUME IInv, NEW r \in Reqs, OpenStaged(r) \/ Body(r) \/ Sync(r)
  PROVE  IInv'
  <1> DEFINE x == Staged(r)
             from == req[r].at
             at == IF from = "open" THEN "body" ELSE IF from = "body" THEN "sync" ELSE "rename"
             y == IF from = "open" THEN [x EXCEPT !.open = TRUE]
                  ELSE IF from = "body" THEN x ELSE [x EXCEPT !.open = FALSE]
  <1>1. from \in {"open", "body", "sync"}
    BY DEF OpenStaged, Body, Sync, At
  <1>2. Goto(r, at) /\ UNCHANGED <<slots, ver, lock, idem, cache, ran, lapsed>>
    BY DEF OpenStaged, Body, Sync, At, keyed
  <1>3. whole' = IF from = "body" THEN whole \cup {x.ino} ELSE whole
    BY DEF OpenStaged, Body, Sync, At
  <1>4. from \in Holding /\ from \in Checked \ {"setx"} /\ at \in Checked \ {"setx"} /\ at \in Places
        /\ at \in Holding /\ at \in {"body", "sync", "rename"} /\ (at = "sync" <=> from = "body")
    BY <1>1 DEF Holding, Checked, Guarded, Places
  <1>5. StagedInv
    BY DEF IInv
  <1>6. /\ x \in staged /\ x.by = r /\ \A z \in staged : z.by = r => z = x
        /\ staged \ {x} = {z \in staged : z.by # r}
    BY <1>4, <1>5, OwnSibling, WithoutOwn
  <1>7. x \in [by : {r}, ino : {x.ino}, open : BOOLEAN, stray : BOOLEAN] /\ (from = "sync" => x.ino \in whole)
    BY <1>5, <1>6 DEF StagedInv, SiblingOf
  <1>8. staged' = {z \in staged : z.by # r} \cup {y}
    <2>1. CASE from = "open"
      BY <1>6, <2>1 DEF OpenStaged, Body, Sync, At
    <2>2. CASE from = "body"
      BY <1>6, <2>2 DEF OpenStaged, Body, Sync, At
    <2>3. CASE from = "sync"
      BY <1>6, <2>3 DEF OpenStaged, Body, Sync, At
    <2> QED BY <1>1, <2>1, <2>2, <2>3
  <1> HIDE DEF x
  <1>9. y \in [by : {r}, ino : {y.ino}, open : BOOLEAN, stray : BOOLEAN] /\ y.ino = x.ino
    BY Zenon, <1>7
  <1> HIDE DEF y, from, at
  <1>10. at \in {"sync", "rename"} => y.ino \in whole'
    BY <1>1, <1>3, <1>7, <1>9 DEF at
  <1>11. StagedInv'
    BY <1>2, <1>3, <1>4, <1>8, <1>9, <1>10, SiblingKept
  <1> QED BY <1>2, <1>3, <1>4, <1>11, UploadMoves, LocksStay DEF from

\* The rename over the entry, under the lock.
LEMMA PublishStep ==
  ASSUME NoneApart, IInv, NEW r \in Reqs, Publish(r)
  PROVE  IInv'
  <1> DEFINE s == req[r].slot
             x == Staged(r)
  <1>1. Shapes /\ StagedInv /\ req[r].at = "rename"
    BY DEF IInv, Publish, At
  <1>2. s \in Slots /\ lock[s] = r
    BY <1>1 DEF IInv, MatchesInv, MatchOf, Checked, Guarded
  <1>3. /\ slots' = [slots EXCEPT ![s] = x.ino] /\ Overtake(r, Done(r), s) /\ Release(r)
        /\ staged' = staged \ {x} /\ UNCHANGED <<whole, idem, cache, ran, lapsed>>
    BY DEF Publish, Rebind, keyed
  <1>4. req[r].at \in Holding
    BY <1>1 DEF Holding, Guarded
  <1>5. x \in staged /\ x.by = r /\ staged \ {x} = {z \in staged : z.by # r}
    BY <1>1, <1>4, OwnSibling, WithoutOwn
  <1>6. x.ino \in whole
    BY <1>1, <1>5 DEF StagedInv, SiblingOf
  <1> HIDE DEF s, x
  <1>7. Shape(Done(r)) /\ Done(r).at = "done"
    BY <1>1, Answered
  <1>8. Steps(r, Done(r)) /\ \A q \in Reqs : q # r /\ req[q].at \in Checked /\ req[q].slot # s => Kept(q)
    BY <1>1, <1>3, <1>7, Overtaken
  <1>9. \A q \in Reqs : q # r /\ req[q].at \in Checked => Kept(q)
    BY <1>2, <1>8, OtherEntries
  <1>10. Bound
    BY <1>1, <1>3, <1>6, Zenon DEF Bound, Shapes
  <1>11. Freed(r)
    BY <1>3, LocksFreed
  <1>12. StagedInv'
    BY <1>1, <1>3, <1>5, <1>7, <1>8, StagedGoes
  <1> QED BY <1>3, <1>8, <1>9, <1>10, <1>11, <1>12, EndInv

\* cleanup_now and the task that a dropped guard spawns.
LEMMA CleanupStep ==
  ASSUME IInv, NEW r \in Reqs, Cleanup(r)
  PROVE  IInv'
  <1>1. Shapes /\ StagedInv /\ req[r].at \in Holding
    BY DEF IInv, Cleanup, Holding
  <1>2. /\ Answer(r) /\ Release(r) /\ staged' = staged \ {Staged(r)}
        /\ UNCHANGED <<slots, ver, whole, idem, cache, ran, lapsed>>
    BY DEF Cleanup, keyed
  <1>3. Steps(r, Done(r)) /\ Done(r).at = "done"
    BY <1>1, <1>2, Answers, Answered
  <1>4. StagedInv'
    BY <1>1, <1>2, <1>3, WithoutOwn, StagedGoes
  <1> QED BY <1>2, <1>3, <1>4, EndInv, LocksFreed, BindingsStay, NobodyOvertaken

(***************************************************************************)
(* create_entry and update_entry.                                           *)
(***************************************************************************)
LEMMA CreateEntryStep ==
  ASSUME NoneApart, IInv, NEW r \in Reqs, CreateEntry(r)
  PROVE  IInv'
  <1> DEFINE s == req[r].slot
  <1>1. Shapes /\ StagedInv /\ req[r].at = "lock" /\ lock[s] = None
    BY DEF IInv, CreateEntry, At
  <1>2. Answer(r) /\ UNCHANGED <<ver, staged, lock, idem, cache, ran, lapsed>>
    BY DEF CreateEntry, keyed
  <1>3. \/ slots' = slots /\ whole' = whole
        \/ slots' = [slots EXCEPT ![s] = inos'] /\ whole' = whole \cup {inos'}
    BY DEF CreateEntry
  <1> HIDE DEF s
  <1>4. Steps(r, Done(r)) /\ Done(r).at = "done"
    BY <1>1, <1>2, Answers, Answered
  <1>5. Bound
    BY <1>1, <1>3 DEF Bound, Shapes
  <1>6. ASSUME NEW q \in Reqs, q # r, req[q].at \in Checked PROVE Kept(q)
    <2>1. req[q].slot # s /\ req[q].slot \in Slots
      BY <1>1, <1>6, OtherEntries DEF IInv, MatchesInv, MatchOf
    <2>2. slots'[req[q].slot] = slots[req[q].slot]
      BY <1>1, <1>3, <2>1 DEF Shapes
    <2> QED BY <1>2, <2>2, Zenon DEF Kept
  <1>7. StagedInv'
    BY <1>1, <1>2, <1>4, <1>5, StagedFrame DEF Holding, Guarded, Bound
  <1> QED BY Zenon, <1>2, <1>4, <1>5, <1>6, <1>7, EndInv, LocksStay

\* An overtaking under no lock reaches every request past its check.
LEMMA OvertakenAll ==
  ASSUME NoneApart, IInv, NEW r, NEW p, Shape(p), Overtake(r, p, None)
  PROVE  /\ r \in Reqs => Steps(r, p)
         /\ \A q \in Reqs : q # r /\ req[q].at \in Checked => Kept(q)
  <1>1. \A q \in Reqs : req[q].at \in Checked => req[q].slot # None
    BY DEF NoneApart, IInv, MatchesInv, MatchOf
  <1> QED BY <1>1, Overtaken DEF IInv

LEMMA SetModeStep ==
  ASSUME NoneApart, IInv, NEW r \in Reqs, SetMode(r)
  PROVE  IInv'
  <1>1. Shapes /\ StagedInv /\ req[r].at = "apply"
    BY DEF IInv, SetMode, At
  <1>2. Overtake(r, Done(r), None) /\ UNCHANGED <<slots, whole, staged, lock, idem, cache, ran, lapsed>>
    BY DEF SetMode, keyed
  <1>3. Shape(Done(r)) /\ Done(r).at = "done"
    BY <1>1, Answered
  <1>4. Steps(r, Done(r)) /\ \A q \in Reqs : q # r /\ req[q].at \in Checked => Kept(q)
    BY <1>2, <1>3, OvertakenAll
  <1>5. StagedInv'
    BY <1>1, <1>2, <1>3, <1>4, StagedFrame DEF Holding, Guarded
  <1> QED BY <1>2, <1>4, <1>5, EndInv, LocksStay, BindingsStay

\* What Volume::rename binds was bound before.
LEMMA RenameBinds ==
  ASSUME IInv, NEW s \in Slots, NEW d, Rename(s, d), whole' = whole
  PROVE  Bound
  <1>1. slots' = slots \/ slots' = [slots EXCEPT ![d] = slots[s], ![s] = None]
    BY DEF Rename, Rebind
  <1> QED BY <1>1 DEF IInv, Shapes, Bound

LEMMA RenameEntryStep ==
  ASSUME NoneApart, IInv, NEW r \in Reqs, RenameEntry(r)
  PROVE  IInv'
  <1> DEFINE s == req[r].slot
             d == req[r].dst
  <1>1. Shapes /\ StagedInv /\ req[r].at = "lock" /\ lock[d] = None
    BY DEF IInv, RenameEntry, At
  <1>2. s \in Slots
    BY <1>1 DEF IInv, MatchesInv, MatchOf
  <1>3. Overtake(r, Done(r), d) /\ UNCHANGED <<whole, staged, lock, idem, cache, ran, lapsed>>
    BY DEF RenameEntry, keyed
  <1>4. Bound
    <2>1. Rename(s, d) \/ UNCHANGED slots
      BY DEF RenameEntry
    <2> QED BY Zenon, <1>2, <1>3, <2>1, RenameBinds, BindingsStay
  <1> HIDE DEF s, d
  <1>5. Shape(Done(r)) /\ Done(r).at = "done"
    BY <1>1, Answered
  <1>6. Steps(r, Done(r)) /\ \A q \in Reqs : q # r /\ req[q].at \in Checked /\ req[q].slot # d => Kept(q)
    BY <1>1, <1>3, <1>5, Overtaken
  <1>7. \A q \in Reqs : q # r /\ req[q].at \in Checked => Kept(q)
    BY <1>1, <1>6, OtherEntries, SMTT(30)
  <1>8. StagedInv'
    BY <1>1, <1>3, <1>5, <1>6, StagedFrame, Zenon DEF Holding, Guarded
  <1> QED BY Zenon, <1>3, <1>4, <1>6, <1>7, <1>8, EndInv, LocksStay

(***************************************************************************)
(* operations.                                                              *)
(***************************************************************************)
Ops == {"conflict", "evict", "apply", "store"}

LEMMA OpRight ==
  ASSUME IInv, NEW r \in Reqs, Running(req[r]), NEW p, p.at \in Ops, TodoOf(p),
         p.kind = req[r].kind, p.ino = req[r].ino, p.key = req[r].key,
         UNCHANGED <<idem, cache>>, whole \subseteq whole', req[r].at = "copying" => req[r].ino \in whole'
  PROVE  RightOf(r, p)
  <1>1. KeyOf(r, req[r], idem, cache) /\ CopyOf(req[r], whole)
    BY DEF IInv, KeysInv, CopiesInv
  <1>2. KeyOf(r, p, idem', cache')
    BY <1>1 DEF KeyOf, Ops
  <1>3. CopyOf(p, whole')
    BY <1>1 DEF CopyOf, Running, Ops
  <1>4. MatchOf(r, p, lock', slots', ver')
    BY DEF MatchOf, Checked, Guarded, Ops
  <1> QED BY <1>2, <1>3, <1>4, Zenon DEF RightOf

LEMMA AimedFields ==
  ASSUME NEW q, Shape(q), NEW at \in Places, NEW d
  PROVE  /\ Shape(Aimed(q, at, d)) /\ Aimed(q, at, d).at = at /\ Aimed(q, at, d).kind = q.kind
         /\ Aimed(q, at, d).ino = q.ino /\ Aimed(q, at, d).key = q.key /\ Aimed(q, at, d).todo = q.todo
  BY Zenon DEF Aimed, Shape

\* A list of sources that is not empty has a first one, and a rest that is empty
\* only when that was the last.
LEMMA FirstAndRest ==
  ASSUME NEW S, NEW t \in Seq(S), t # <<>>
  PROVE  Head(t) \in S /\ Tail(t) \in Seq(S) /\ (Len(t) # 1 => Tail(t) # <<>>)
  <1>1. Head(t) \in S
    OBVIOUS
  <1>2. Tail(t) \in Seq(S)
    OBVIOUS
  <1>3. Len(Tail(t)) = Len(t) - 1 /\ Len(t) \in Nat
    OBVIOUS
  <1>4. Len(<<>>) = 0
    OBVIOUS
  <1> DEFINE n == Len(t)
             u == Tail(t)
  <1>5. n \in Nat /\ Len(u) = n - 1
    BY <1>3
  <1> HIDE DEF n, u
  <1>6. n # 1 => Len(u) # 0
    BY <1>5
  <1>7. n # 1 => u # <<>>
    BY <1>4, <1>6, Zenon
  <1> QED BY <1>1, <1>2, <1>7 DEF n, u

\* With its first source settled, an operation has sources left or stores.
LEMMA SettledFields ==
  ASSUME NEW q, Shape(q), Running(q), q.at # "store", TodoOf(q)
  PROVE  /\ Shape(Settled(q)) /\ Settled(q).at \in {"store", "conflict"} /\ Settled(q).kind = q.kind
         /\ Settled(q).ino = q.ino /\ Settled(q).key = q.key /\ TodoOf(Settled(q))
  <1> DEFINE at == IF Len(q.todo) = 1 THEN "store" ELSE "conflict"
             rest == Tail(q.todo)
             p == [q EXCEPT !.at = at, !.todo = rest]
  <1>1. PICK V : q.todo \in Seq(Slots \X V) /\ q.todo # <<>>
    BY Zenon DEF TodoOf
  <1>2. at # "store" => rest \in Seq(Slots \X V) /\ rest # <<>>
    <2> DEFINE S == Slots \X V
               t == q.todo
    <2>1. t \in Seq(S) /\ t # <<>>
      BY <1>1
    <2> HIDE DEF S, t
    <2>2. Len(t) # 1 => Tail(t) \in Seq(S) /\ Tail(t) # <<>>
      BY <2>1, FirstAndRest
    <2> QED BY <2>2 DEF S, t
  <1>3. at \in {"store", "conflict"}
    OBVIOUS
  <1>4. Settled(q) = p
    BY DEF Settled
  <1> HIDE DEF at, rest
  <1>5. /\ Shape(p) /\ p.at = at /\ p.kind = q.kind /\ p.ino = q.ino /\ p.key = q.key /\ p.todo = rest
    BY <1>3, Zenon DEF Shape, Places
  <1> HIDE DEF p
  <1>6. TodoOf(p)
    BY <1>2, <1>3, <1>5 DEF TodoOf
  <1> QED BY <1>3, <1>4, <1>5, <1>6

\* The lock of the key is taken and the cache has no result.
LEMMA OpBeginStep ==
  ASSUME NoneApart, IInv, NEW r \in Reqs, OpBegin(r)
  PROVE  IInv'
  <1> DEFINE q == req[r]
             k == q.key
             refused == cache[k] # None \/ (\E i \in DOMAIN q.todo : slots[q.todo[i][1]] # q.todo[i][2])
  <1>1. Shapes /\ StagedInv /\ Shape(q) /\ KeyOf(r, q, idem, cache) /\ CopyOf(q, whole) /\ TodoOf(q) /\ q.at = "idem"
    BY DEF IInv, Shapes, KeysInv, CopiesInv, SourcesInv, OpBegin, At
  <1>2. idem[k] = None /\ UNCHANGED <<slots, ver, whole, staged, lock, cache, ran, lapsed>>
    BY Zenon DEF OpBegin, KeyFree
  <1>3. CASE refused
    <2>1. Answer(r) /\ idem' = idem
      BY <1>3, Zenon DEF OpBegin
    <2>2. Steps(r, Done(r)) /\ Done(r).at = "done"
      BY Zenon, <1>1, <2>1, Answers, Answered
    <2>3. StagedInv'
      BY <1>1, <1>2, <2>2, StagedFrame DEF Holding, Guarded
    <2> QED BY <1>2, <2>1, <2>2, <2>3, EndInv, LocksStay, BindingsStay, NobodyOvertaken
  <1>4. CASE ~ refused
    <2> DEFINE p == Moved(q, "conflict")
    <2>1. Goto(r, "conflict") /\ idem' = [idem EXCEPT ![k] = r] /\ cache[k] = None
      BY <1>4 DEF OpBegin
    <2>2. "conflict" \in Places
      BY DEF Places
    <2>3. Steps(r, p) /\ p.at = "conflict" /\ p.kind = q.kind /\ p.ino = q.ino /\ p.key = k /\ p.todo = q.todo
      BY Zenon, <1>1, <2>1, <2>2, Moves, MovedFields
    <2> HIDE DEF p
    <2>4. k \in Keys /\ idem'[k] = r
      BY <1>1, <2>1, Zenon DEF KeyOf, Shapes
    <2>5. RightOf(r, p)
      <3>1. KeyOf(r, p, idem', cache')
        BY <1>2, <2>1, <2>3, <2>4, Zenon DEF KeyOf
      <3>2. TodoOf(p)
        BY <1>1, <2>3, Zenon DEF TodoOf
      <3>3. CopyOf(p, whole') /\ MatchOf(r, p, lock', slots', ver')
        BY <1>1, <1>2, <2>3 DEF CopyOf, MatchOf, Checked, Guarded
      <3> QED BY <2>3, <3>1, <3>2, <3>3, Zenon DEF RightOf
    <2>6. Freed(r)
      BY <1>1, <1>2, <2>1 DEF Freed, Shapes, NoneApart
    <2>7. StagedInv'
      BY <1>1, <1>2, <2>3, StagedFrame, Zenon DEF Holding, Guarded
    <2> QED BY Zenon, <1>2, <2>3, <2>5, <2>6, <2>7, StepInv, BindingsStay, NobodyOvertaken
  <1> QED BY <1>3, <1>4

\* An operation that fails gives its key back.
LEMMA OpEnds ==
  ASSUME IInv, NEW r \in Reqs, Running(req[r]), Answer(r), ReleaseKey(r),
         UNCHANGED <<slots, ver, whole, staged, lock, cache, ran, lapsed>>
  PROVE  IInv'
  <1>1. Shapes /\ StagedInv
    BY DEF IInv
  <1>2. Steps(r, Done(r)) /\ Done(r).at = "done"
    BY <1>1, Answers, Answered
  <1>3. req[r].at \notin Holding \cup {"done"}
    BY DEF Running, Holding, Guarded
  <1>4. StagedInv'
    BY <1>1, <1>2, <1>3, StagedFrame, Zenon DEF Holding, Guarded
  <1> QED BY <1>2, <1>4, EndInv, LocksFreed, BindingsStay, NobodyOvertaken

\* An operation goes on with its next source, or to the end.
LEMMA OpMoves ==
  ASSUME IInv, NEW r \in Reqs, Running(req[r]), NEW p, Steps(r, p), p.at \in Ops, TodoOf(p),
         p.kind = req[r].kind, p.ino = req[r].ino, p.key = req[r].key, Bound,
         req[r].at = "copying" => req[r].ino \in whole',
         UNCHANGED <<staged, lock, idem, cache, ran, lapsed>>,
         \A q \in Reqs : q # r /\ req[q].at \in Checked => Kept(q)
  PROVE  IInv'
  <1>1. RightOf(r, p)
    BY OpRight, Zenon DEF Bound
  <1>2. StagedInv /\ req[r].at \notin Holding \cup {"done"} /\ p.at \notin Holding
    BY DEF IInv, Running, Holding, Guarded, Ops
  <1>3. StagedInv'
    BY <1>2, StagedFrame DEF Bound
  <1> QED BY <1>1, <1>3, StepInv, LocksStay

LEMMA ConflictStep ==
  ASSUME IInv, NEW r \in Reqs, Conflict(r)
  PROVE  IInv'
  <1> DEFINE q == req[r]
  <1>1. Shapes /\ Shape(q) /\ TodoOf(q) /\ q.at = "conflict" /\ Running(q)
    BY DEF IInv, Shapes, SourcesInv, Conflict, At, Running
  <1>2. UNCHANGED <<slots, ver, whole, staged, lock, cache, ran, lapsed>>
    BY DEF Conflict
  <1>3. IF req'[r].at = "done" THEN ReleaseKey(r) ELSE UNCHANGED idem
    BY DEF Conflict
  <1>4. Bound /\ \A z \in Reqs : Kept(z)
    BY Zenon, <1>2, BindingsStay, NobodyOvertaken
  <1>5. ASSUME NEW at \in {"apply", "evict"}, NEW d, req' = [req EXCEPT ![r] = Aimed(q, at, d)] PROVE IInv'
    <2> DEFINE p == Aimed(q, at, d)
    <2>1. at \in Places
      BY Zenon DEF Places
    <2>2. Shape(p) /\ p.at = at /\ p.kind = q.kind /\ p.ino = q.ino /\ p.key = q.key /\ p.todo = q.todo
      BY <1>1, <2>1, AimedFields
    <2>3. Steps(r, p)
      BY Zenon, <1>1, <1>5, <2>2, OneMoves
    <2> HIDE DEF p
    <2>4. TodoOf(p)
      BY <1>1, <2>2 DEF TodoOf
    <2>5. UNCHANGED idem
      BY <1>3, <2>2, <2>3 DEF Steps
    <2>6. p.at \in Ops
      BY <2>2 DEF Ops
    <2> QED BY <1>1, <1>2, <1>4, <2>2, <2>3, <2>4, <2>5, <2>6, OpMoves
  <1>6. ASSUME req' = [req EXCEPT ![r] = Settled(q)] PROVE IInv'
    <2> DEFINE p == Settled(q)
    <2>1. /\ Shape(p) /\ p.at \in {"store", "conflict"} /\ p.kind = q.kind /\ p.ino = q.ino /\ p.key = q.key
          /\ TodoOf(p)
      BY <1>1, SettledFields
    <2>2. Steps(r, p)
      BY Zenon, <1>1, <1>6, <2>1, OneMoves
    <2> HIDE DEF p
    <2>3. UNCHANGED idem
      BY <1>3, <2>1, <2>2 DEF Steps
    <2>4. p.at \in Ops
      BY <2>1 DEF Ops
    <2> QED BY Zenon, <1>1, <1>2, <1>4, <2>1, <2>2, <2>3, <2>4, OpMoves
  <1>7. ASSUME Answer(r) PROVE IInv'
    <2>1. req'[r].at = "done"
      BY <1>1, <1>7, Answers, Answered, Zenon DEF Steps
    <2> QED BY <1>1, <1>2, <1>3, <1>7, <2>1, OpEnds
  <1> QED BY <1>5, <1>6, <1>7, Zenon DEF Conflict

\* ConflictPolicy::Overwrite unlinks the destination.
LEMMA EvictStep ==
  ASSUME NoneApart, IInv, NEW r \in Reqs, Evict(r)
  PROVE  IInv'
  <1> DEFINE q == req[r]
             p == Moved(q, "apply")
  <1>1. Shapes /\ Shape(q) /\ TodoOf(q) /\ q.at = "evict" /\ Running(q)
    BY DEF IInv, Shapes, SourcesInv, Evict, At, Running
  <1>2. /\ slots' = [slots EXCEPT ![q.dst] = None] /\ Overtake(r, p, None)
        /\ UNCHANGED <<whole, staged, lock, idem, cache, ran, lapsed>>
    BY DEF Evict, Rebind, Moved, keyed
  <1>3. "apply" \in Places /\ "apply" \in Ops
    BY DEF Places, Ops
  <1>4. Shape(p) /\ p.at = "apply" /\ p.kind = q.kind /\ p.ino = q.ino /\ p.key = q.key /\ p.todo = q.todo
    BY Zenon, <1>1, <1>3, MovedFields
  <1> HIDE DEF p
  <1>5. Steps(r, p) /\ \A z \in Reqs : z # r /\ req[z].at \in Checked => Kept(z)
    BY <1>2, <1>4, OvertakenAll
  <1>6. TodoOf(p)
    BY <1>1, <1>4 DEF TodoOf
  <1>7. Bound
    BY <1>1, <1>2 DEF Bound, Shapes
  <1> QED BY <1>1, <1>2, <1>3, <1>4, <1>5, <1>6, <1>7, OpMoves

\* rename and link: the next source, or an error and the key given back.
LEMMA MoveOrLinkStep ==
  ASSUME NoneApart, IInv, NEW r \in Reqs, Move(r) \/ Link(r)
  PROVE  IInv'
  <1> DEFINE q == req[r]
             p == Settled(q)
             s == Source(r)[1]
  <1>1. Shapes /\ Shape(q) /\ TodoOf(q) /\ q.at = "apply" /\ Running(q)
    BY DEF IInv, Shapes, SourcesInv, Move, Link, At, Running, Operations
  <1>2. UNCHANGED <<whole, staged, lock, cache, ran, lapsed>>
    BY Zenon DEF Move, Link
  <1>3. CASE OpFailed(r) /\ UNCHANGED <<slots, ver>>
    BY <1>1, <1>2, <1>3, OpEnds DEF OpFailed
  <1>4. ASSUME Overtake(r, p, None), UNCHANGED idem, Bound PROVE IInv'
    <2>1. /\ Shape(p) /\ p.at \in {"store", "conflict"} /\ p.kind = q.kind /\ p.ino = q.ino /\ p.key = q.key
          /\ TodoOf(p)
      BY Zenon, <1>1, SettledFields
    <2> HIDE DEF p
    <2>2. Steps(r, p) /\ \A z \in Reqs : z # r /\ req[z].at \in Checked => Kept(z)
      BY <1>4, <2>1, OvertakenAll
    <2>3. p.at \in Ops
      BY <2>1 DEF Ops
    <2> QED BY ZenonT(30), <1>1, <1>2, <1>4, <2>1, <2>2, <2>3, OpMoves
  <1>5. ASSUME Rename(s, q.dst) PROVE Bound
    <2>1. PICK V : q.todo \in Seq(Slots \X V) /\ q.todo # <<>>
      BY <1>1, Zenon DEF TodoOf
    <2>2. Head(q.todo) \in Slots \X V
      BY <2>1, FirstAndRest
    <2>3. s \in Slots
      BY <2>2 DEF Source
    <2> QED BY <1>2, <1>5, <2>3, RenameBinds
  <1>6. ASSUME Links(Source(r)[2]) # {}, Rebind([slots EXCEPT ![q.dst] = Source(r)[2]]) PROVE Bound
    <2>1. PICK e \in Slots : slots[e] = Source(r)[2]
      BY <1>6 DEF Links
    <2>2. slots' = [slots EXCEPT ![q.dst] = slots[e]]
      BY <1>6, <2>1 DEF Rebind
    <2> QED BY <1>1, <1>2, <2>2 DEF Bound, Shapes
  <1>7. CASE Move(r)
    BY <1>3, <1>4, <1>5, <1>7, Zenon DEF Move
  <1>8. CASE Link(r)
    BY <1>3, <1>4, <1>6, <1>8, Zenon DEF Link
  <1> QED BY <1>7, <1>8

\* copy_one: the file is there before its content; its request remembers it.
Copying(q, i) == [q EXCEPT !.at = "copying", !.ino = i]

LEMMA CopyingFields ==
  ASSUME NEW q, Shape(q), NEW i
  PROVE  /\ Shape(Copying(q, i)) /\ Copying(q, i).at = "copying" /\ Copying(q, i).kind = q.kind
         /\ Copying(q, i).ino = i /\ Copying(q, i).key = q.key /\ Copying(q, i).todo = q.todo
  BY Zenon DEF Copying, Shape, Places

LEMMA CopyCreateStep ==
  ASSUME NoneApart, IInv, NEW r \in Reqs, CopyCreate(r)
  PROVE  IInv'
  <1> DEFINE q == req[r]
             i == inos'
             p == Copying(q, i)
  <1>1. /\ Shapes /\ Shape(q) /\ TodoOf(q) /\ KeyOf(r, q, idem, cache) /\ CopyOf(q, whole) /\ StagedInv
        /\ q.at = "apply" /\ q.kind = "copy" /\ Running(q)
    BY DEF IInv, Shapes, SourcesInv, KeysInv, CopiesInv, CopyCreate, At, Running, Operations
  <1>2. UNCHANGED <<whole, staged, lock, cache, ran, lapsed>>
    BY DEF CopyCreate
  <1>3. CASE slots[q.dst] # None
    BY <1>1, <1>2, <1>3, OpEnds DEF CopyCreate, OpFailed
  <1>4. CASE slots[q.dst] = None
    <2>1. slots' = [slots EXCEPT ![q.dst] = i] /\ Overtake(r, p, None) /\ idem' = idem
      BY <1>4, Zenon DEF CopyCreate, Rebind, Copying
    <2>2. Shape(p) /\ p.at = "copying" /\ p.kind = "copy" /\ p.ino = i /\ p.key = q.key /\ p.todo = q.todo
      <3>1. Shape(q) /\ q.kind = "copy"
        BY Zenon, <1>1
      <3> HIDE DEF q, i
      <3> QED BY <3>1, CopyingFields
    <2> HIDE DEF p, i
    <2>3. Steps(r, p) /\ \A z \in Reqs : z # r /\ req[z].at \in Checked => Kept(z)
      BY <2>1, <2>2, OvertakenAll
    <2>4. Shapes'
      <3>1. slots' = [s \in Slots |-> slots'[s]]
        BY <1>1, <2>1 DEF Shapes
      <3>2. /\ lock' = [s \in Slots |-> lock'[s]] /\ idem' = [k \in Keys |-> idem'[k]]
            /\ cache' = [k \in Keys |-> cache'[k]] /\ ran' \in [Keys -> Nat]
        BY <1>1, <1>2, <2>1 DEF Shapes
      <3> QED BY <1>1, <2>3, <3>1, <3>2, ShapesFrame
    <2>5. KeysInv'
      <3>1. KeyOf(r, p, idem', cache')
        BY <1>1, <1>2, <2>1, <2>2 DEF KeyOf
      <3> QED BY <1>2, <2>1, <2>3, <3>1, KeysFrame, Zenon DEF IInv
    <2>6. CopiesInv'
      <3>1. \A z \in Reqs : z # r => Alike(req'[z], req[z])
        BY <2>3, Zenon DEF Steps
      <3>2. \A z \in Reqs : CopyOf(req'[z], whole')
        BY <1>2, <2>2, <2>3, <3>1 DEF IInv, CopiesInv, CopyOf, Alike, Steps
      <3>3. ASSUME NEW s \in Slots, slots'[s] # None, slots'[s] \notin whole'
            PROVE  \E z \in Reqs : req'[z].kind = "copy" /\ req'[z].ino = slots'[s]
        <4>1. CASE slots'[s] = i
          BY <2>2, <2>3, <4>1 DEF Steps
        <4>2. CASE slots'[s] # i
          <5>1. slots'[s] = slots[s]
            BY <1>1, <2>1, <4>2, Zenon DEF Shapes
          <5>2. PICK z \in Reqs : req[z].kind = "copy" /\ req[z].ino = slots[s]
            BY <1>2, <3>3, <5>1 DEF IInv, CopiesInv, EntriesWhole
          <5>3. z # r
            BY <1>1, <1>2, <3>3, <5>1, <5>2, Zenon DEF CopyOf
          <5> QED BY <3>1, <5>1, <5>2, <5>3 DEF Alike
        <4> QED BY <4>1, <4>2
      <3> QED BY <3>2, <3>3 DEF CopiesInv, EntriesWhole
    <2>7. MatchesInv'
      <3>1. MatchOf(r, p, lock', slots', ver')
        BY <2>2 DEF MatchOf, Checked, Guarded
      <3> QED BY <1>2, <2>3, <3>1, MatchesFrame, Zenon DEF IInv
    <2>8. SourcesInv'
      <3>1. TodoOf(p)
        BY <1>1, <2>2 DEF TodoOf
      <3> QED BY <2>3, <3>1, SourcesFrame, Zenon DEF IInv
    <2>9. StagedInv'
      BY <1>1, <1>2, <2>2, <2>3, StagedFrame, Zenon DEF Holding, Guarded
    <2> QED BY <2>4, <2>5, <2>6, <2>7, <2>8, <2>9, Zenon DEF IInv
  <1> QED BY <1>3, <1>4

LEMMA CopyFillStep ==
  ASSUME IInv, NEW r \in Reqs, CopyFill(r)
  PROVE  IInv'
  <1> DEFINE q == req[r]
             p == Settled(q)
  <1>1. Shapes /\ Shape(q) /\ TodoOf(q) /\ q.at = "copying" /\ Running(q)
    BY DEF IInv, Shapes, SourcesInv, CopyFill, At, Running
  <1>2. /\ req' = [req EXCEPT ![r] = p] /\ whole' = whole \cup {q.ino}
        /\ UNCHANGED <<slots, ver, staged, lock, idem, cache, ran, lapsed>>
    BY DEF CopyFill, keyed
  <1>3. /\ Shape(p) /\ p.at \in {"store", "conflict"} /\ p.kind = q.kind /\ p.ino = q.ino /\ p.key = q.key
        /\ TodoOf(p)
    BY Zenon, <1>1, SettledFields
  <1> HIDE DEF p
  <1>4. Steps(r, p)
    BY Zenon, <1>1, <1>2, <1>3, OneMoves
  <1>5. Bound /\ \A z \in Reqs : Kept(z)
    BY <1>2, BindingsStay, NobodyOvertaken
  <1>6. p.at \in Ops
    BY <1>3 DEF Ops
  <1> QED BY Zenon, <1>1, <1>2, <1>3, <1>4, <1>5, <1>6, OpMoves

\* The result is stored, a full cache cleared, and the key given back.
LEMMA OpStoreStep ==
  ASSUME NoneApart, IInv, NEW r \in Reqs, OpStore(r)
  PROVE  IInv'
  <1> DEFINE q == req[r]
             key == q.key
             stored == {k \in Keys : cache[k] # None}
             full == Cardinality(stored) >= CacheSize
  <1>1. /\ Shapes /\ KeysInv /\ StagedInv /\ q.at = "store" /\ Running(q)
        /\ key \in Keys /\ idem[key] = r /\ cache[key] = None
    BY Zenon DEF IInv, KeysInv, KeyOf, OpStore, At, Running
  <1>2. /\ cache' = [k \in Keys |-> IF k = key THEN r ELSE IF full THEN None ELSE cache[k]]
        /\ lapsed' = lapsed \cup (IF full THEN stored \ {key} ELSE {})
        /\ ran' = [ran EXCEPT ![key] = @ + 1]
        /\ Answer(r) /\ ReleaseKey(r) /\ UNCHANGED <<slots, ver, whole, staged, lock>>
    BY DEF OpStore
  <1>3. Steps(r, Done(r)) /\ Done(r).at = "done" /\ \A z \in Reqs : z # r => req'[z] = req[z]
    BY Zenon, <1>1, <1>2, Answers, Answered
  <1>4. Freed(r) /\ Bound /\ \A z \in Reqs : Kept(z)
    BY <1>2, LocksFreed, BindingsStay, NobodyOvertaken
  <1>5. RightOf(r, Done(r))
    BY <1>1, <1>3, Answered, Zenon DEF RightOf, KeyOf, TodoOf, Running, CopyOf, MatchOf, Checked, Guarded
  <1> HIDE DEF full, stored, key, q
  <1>6. ran' \in [Keys -> Nat] /\ ran'[key] = ran[key] + 1 /\ \A k \in Keys : k # key => ran'[k] = ran[k]
    BY <1>1, <1>2 DEF Shapes
  <1>7. /\ cache'[key] = r /\ \A k \in Keys : k # key => cache'[k] = cache[k] \/ (cache'[k] = None /\ full)
    BY <1>1, <1>2
  <1>8. lapsed \subseteq lapsed' /\ \A k \in Keys : full /\ k # key /\ cache[k] # None => k \in lapsed'
    BY <1>2 DEF stored
  <1>9. KeysInv'
    <2>1. ASSUME NEW z \in Reqs PROVE KeyOf(z, req'[z], idem', cache')
      <3>1. CASE z = r
        BY <1>3, <1>5, <3>1 DEF Steps, RightOf
      <3>2. CASE z # r
        <4>1. KeyOf(z, req[z], idem, cache) /\ req'[z] = req[z]
          BY <1>1, <1>3, <3>2 DEF KeysInv
        <4>2. ASSUME Running(req[z]) PROVE req[z].key \in Keys /\ idem'[req[z].key] = z /\ cache'[req[z].key] = None
          <5>1. req[z].key \in Keys /\ idem[req[z].key] = z /\ cache[req[z].key] = None
            BY <4>1, <4>2 DEF KeyOf
          <5>2. req[z].key # key
            BY <1>1, <3>2, <5>1
          <5> QED BY <1>4, <1>7, <3>2, <5>1, <5>2 DEF Freed
        <4> QED BY <4>1, <4>2 DEF KeyOf
      <3> QED BY <3>1, <3>2
    <2>2. ASSUME NEW k \in Keys, ran'[k] > 0 PROVE cache'[k] # None \/ k \in lapsed'
      <3>1. CASE k = key
        BY <1>7, <3>1 DEF NoneApart
      <3>2. CASE k # key
        BY <1>1, <1>6, <1>7, <1>8, <2>2, <3>2 DEF KeysInv
      <3> QED BY <3>1, <3>2
    <2>3. ASSUME NEW k \in Keys, ran'[k] > 1 PROVE k \in lapsed'
      <3>1. CASE k = key
        <4>1. ran[key] \in Nat /\ ran[key] > 0
          BY <1>1, <1>6, <2>3, <3>1, SMTT(30) DEF Shapes
        <4> QED BY <1>1, <1>8, <3>1, <4>1 DEF KeysInv
      <3>2. CASE k # key
        BY <1>1, <1>6, <1>8, <2>3, <3>2 DEF KeysInv, KeysRunOnce
      <3> QED BY <3>1, <3>2
    <2> QED BY <2>1, <2>2, <2>3 DEF KeysInv, KeysRunOnce
  <1>10. Shapes'
    <2>1. cache' = [k \in Keys |-> cache'[k]]
      BY <1>2
    <2> QED BY <1>1, <1>3, <1>4, <1>6, <2>1, ShapesFrame, Zenon DEF Freed, Bound
  <1>11. CopiesInv' /\ MatchesInv' /\ SourcesInv'
    BY <1>3, <1>4, <1>5, CopiesFrame, MatchesFrame, SourcesFrame DEF IInv, RightOf, Bound, Freed
  <1>12. StagedInv'
    BY <1>1, <1>2, <1>3, StagedFrame, Zenon DEF Holding, Guarded, q
  <1> QED BY <1>9, <1>10, <1>11, <1>12 DEF IInv

(***************************************************************************)
(* Failures and cancellations.                                              *)
(***************************************************************************)
LEMMA GuardedEnds ==
  ASSUME IInv, NEW r \in Reqs, req[r].at \in Guarded, NEW at \in {"cleanup", "drop"}, Goto(r, at),
         Freed(r), UNCHANGED <<slots, ver, whole, staged, cache, ran, lapsed>>
  PROVE  IInv'
  <1> DEFINE x == Staged(r)
  <1>1. /\ StagedInv /\ req[r].at \in Holding /\ req[r].at \in Checked \ {"setx"}
        /\ at \in Places /\ at \in Holding /\ at \notin Checked
    BY DEF IInv, Guarded, Holding, Checked, Places
  <1>2. x \in staged /\ x.by = r /\ staged \ {x} = {z \in staged : z.by # r}
    BY <1>1, OwnSibling, WithoutOwn
  <1>3. x \in [by : {r}, ino : {x.ino}, open : BOOLEAN, stray : BOOLEAN]
    BY <1>1, <1>2 DEF StagedInv
  <1> HIDE DEF x
  <1>4. staged' = {z \in staged : z.by # r} \cup {x}
    BY <1>2
  <1>5. StagedInv'
    BY Zenon, <1>1, <1>3, <1>4, SiblingKept
  <1> QED BY Zenon, <1>1, <1>5, UploadMoves

LEMMA UnguardedEnds ==
  ASSUME IInv, NEW r \in Reqs, req[r].at \notin Guarded \cup {"cleanup", "drop", "done"}, Answer(r), Abandon(r),
         Freed(r), UNCHANGED <<slots, ver, whole, cache, ran, lapsed>>
  PROVE  IInv'
  <1>1. Shapes /\ StagedInv
    BY DEF IInv
  <1>2. Steps(r, Done(r)) /\ Done(r).at = "done"
    BY <1>1, Answers, Answered
  <1>3. StagedInv'
    <2>1. CASE req[r].at = "open"
      <3> DEFINE x == Staged(r)
                 y == [x EXCEPT !.stray = TRUE]
      <3>1. req[r].at \in Holding
        BY <2>1 DEF Holding
      <3>2. x \in staged /\ x.by = r /\ staged \ {x} = {z \in staged : z.by # r}
        BY <1>1, <3>1, OwnSibling, WithoutOwn
      <3>3. x \in [by : {r}, ino : {x.ino}, open : BOOLEAN, stray : BOOLEAN] /\ ~ x.open
        BY <1>1, <2>1, <3>2 DEF StagedInv, SiblingOf
      <3>4. staged' = {z \in staged : z.by # r} \cup {y}
        BY <2>1, <3>2 DEF Abandon, At
      <3> HIDE DEF x
      <3>5. y \in [by : {r}, ino : {y.ino}, open : BOOLEAN, stray : BOOLEAN] /\ ~ y.open /\ y.stray
        BY Zenon, <3>3
      <3> HIDE DEF y
      <3>6. SiblingOf(y, Done(r), whole')
        BY <1>2, <3>5 DEF SiblingOf
      <3> QED BY <1>1, <1>2, <3>4, <3>5, <3>6, StagedChanges
    <2>2. CASE req[r].at # "open"
      <3>1. staged' = staged
        BY <2>2 DEF Abandon, At
      <3> QED BY <1>1, <1>2, <2>2, <3>1, StagedFrame DEF Holding, Guarded
    <2> QED BY <2>1, <2>2
  <1> QED BY <1>2, <1>3, EndInv, BindingsStay, NobodyOvertaken

LEMMA FailStep ==
  ASSUME IInv, NEW r \in Reqs, Fail(r)
  PROVE  IInv'
  <1>1. /\ ReleaseKey(r) /\ Abandon(r) /\ UNCHANGED <<slots, ver, whole, cache, ran, lapsed>>
        /\ req[r].at \in Checked \cup {"evict", "apply", "copying"}
    BY Zenon DEF Fail
  <1>2. CASE req[r].at \in Guarded
    <2>1. Goto(r, "cleanup") /\ lock' = lock /\ staged' = staged
      BY <1>1, <1>2 DEF Fail, Abandon, At, Guarded
    <2> QED BY <1>1, <1>2, <2>1, LocksFreed, GuardedEnds
  <1>3. CASE req[r].at \notin Guarded
    <2>1. Answer(r) /\ Release(r) /\ req[r].at \notin Guarded \cup {"cleanup", "drop", "done"}
      BY <1>1, <1>3, Zenon DEF Fail, Checked, Guarded
    <2> QED BY ZenonT(30), <1>1, <2>1, LocksFreed, UnguardedEnds
  <1> QED BY Zenon, <1>2, <1>3

LEMMA CancelStep ==
  ASSUME IInv, NEW r \in Reqs, Cancel(r)
  PROVE  IInv'
  <1>1. /\ Release(r) /\ ReleaseKey(r) /\ Abandon(r) /\ UNCHANGED <<slots, ver, whole, cache, ran, lapsed>>
        /\ req[r].at \notin {"cleanup", "drop", "done"}
    BY Zenon DEF Cancel
  <1>2. CASE req[r].at \in Guarded
    <2>1. Goto(r, "drop") /\ staged' = staged
      BY <1>1, <1>2 DEF Cancel, Dropped, Abandon, At, Guarded
    <2> QED BY <1>1, <1>2, <2>1, LocksFreed, GuardedEnds
  <1>3. CASE req[r].at \notin Guarded
    <2>1. Answer(r) /\ req[r].at \notin Guarded \cup {"cleanup", "drop", "done"}
      BY <1>1, <1>3, Zenon DEF Cancel, Dropped
    <2> QED BY Zenon, <1>1, <2>1, LocksFreed, UnguardedEnds
  <1> QED BY Zenon, <1>2, <1>3

(***************************************************************************)
(* A restart ends every request, forgets every lock and every result, and   *)
(* leaves the siblings behind.                                              *)
(***************************************************************************)
LEMMA RestartStep ==
  ASSUME IInv, Restart
  PROVE  IInv'
  <1>1. Shapes /\ KeysInv /\ StagedInv /\ CopiesInv
    BY DEF IInv
  <1>2. /\ req' = [r \in Reqs |-> IF At(r, "idle") THEN req[r] ELSE Done(r)]
        /\ staged' = {[x EXCEPT !.open = FALSE, !.stray = TRUE] : x \in staged}
        /\ lock' = [s \in Slots |-> None] /\ idem' = [k \in Keys |-> None]
        /\ cache' = [k \in Keys |-> None] /\ lapsed' = lapsed \cup {k \in Keys : cache[k] # None}
        /\ UNCHANGED <<slots, ver, whole, ran>>
    BY Zenon DEF Restart
  <1>3. ASSUME NEW r \in Reqs
        PROVE  /\ Shape(req'[r]) /\ req'[r].at = IF req[r].at = "idle" THEN "idle" ELSE "done"
               /\ req[r].kind = "copy" => req'[r].kind = "copy" /\ req'[r].ino = req[r].ino
               /\ req[r].at = "idle" => req'[r] = req[r]
    <2>1. CASE req[r].at = "idle"
      BY <1>1, <1>2, <2>1, Zenon DEF At, Shapes
    <2>2. CASE req[r].at # "idle"
      <3>1. req'[r] = Done(r)
        BY <1>2, <2>2, Zenon DEF At
      <3> QED BY <1>1, <2>2, <3>1, Answered
    <2> QED BY <2>1, <2>2
  <1>4. Shapes'
    <2>1. req' = [r \in Reqs |-> req'[r]]
      BY Zenon, <1>2
    <2> QED BY <1>1, <1>2, <1>3, <2>1, Zenon DEF Shapes
  <1>5. KeysInv'
    <2>1. \A r \in Reqs : KeyOf(r, req'[r], idem', cache')
      BY <1>3 DEF KeyOf, Running
    <2>2. \A k \in Keys : ran'[k] > 0 => k \in lapsed'
      BY <1>1, <1>2, Zenon DEF KeysInv
    <2>3. \A k \in Keys : ran'[k] > 1 => k \in lapsed'
      BY <1>1, <1>2, Zenon DEF KeysInv, KeysRunOnce
    <2> QED BY <2>1, <2>2, <2>3, Zenon DEF KeysInv, KeysRunOnce
  <1>6. StagedInv'
    <2>1. ASSUME NEW x \in staged, NEW y, y = [x EXCEPT !.open = FALSE, !.stray = TRUE]
          PROVE  y \in [by : {x.by}, ino : {x.ino}, open : {FALSE}, stray : {TRUE}]
      BY <1>1, <2>1, Zenon DEF StagedInv
    <2>2. ASSUME NEW y \in staged'
          PROVE  \E x \in staged : y = [x EXCEPT !.open = FALSE, !.stray = TRUE]
      BY Zenon, <1>2
    <2>3. ASSUME NEW y \in staged'
          PROVE  \E x \in staged : y \in [by : {x.by}, ino : {x.ino}, open : {FALSE}, stray : {TRUE}]
      BY Zenon, <2>1, <2>2
    <2>4. ASSUME NEW y \in staged'
          PROVE  /\ y \in [by : Reqs, ino : {y.ino}, open : BOOLEAN, stray : BOOLEAN]
                 /\ SiblingOf(y, req'[y.by], whole')
      <3>1. PICK x \in staged : y \in [by : {x.by}, ino : {x.ino}, open : {FALSE}, stray : {TRUE}]
        BY Zenon, <2>3
      <3>2. x.by \in Reqs /\ req[x.by].at # "idle"
        BY <1>1, Zenon DEF StagedInv, SiblingOf, Holding, Guarded
      <3>3. req'[y.by].at = "done"
        BY <1>3, <3>1, <3>2
      <3> QED BY <3>1, <3>2, <3>3, Zenon DEF SiblingOf
    <2>5. ASSUME NEW y \in staged', NEW z \in staged', y.by = z.by PROVE y = z
      <3>1. PICK x \in staged : y = [x EXCEPT !.open = FALSE, !.stray = TRUE]
        BY Zenon, <2>2
      <3>2. PICK w \in staged : z = [w EXCEPT !.open = FALSE, !.stray = TRUE]
        BY Zenon, <2>2
      <3>3. x.by = y.by /\ w.by = z.by
        <4>1. y \in [by : {x.by}, ino : {x.ino}, open : {FALSE}, stray : {TRUE}]
          BY Zenon, <2>1, <3>1
        <4>2. z \in [by : {w.by}, ino : {w.ino}, open : {FALSE}, stray : {TRUE}]
          BY Zenon, <2>1, <3>2
        <4> QED BY <4>1, <4>2
      <3>4. x = w
        BY <1>1, <2>5, <3>3 DEF StagedInv
      <3> QED BY <3>1, <3>2, <3>4
    <2>6. \A r \in Reqs : req'[r].at \notin Holding
      BY <1>3 DEF Holding, Guarded
    <2> QED BY <2>4, <2>5, <2>6 DEF StagedInv
  <1>7. CopiesInv'
    <2>1. EntriesWhole'
      <3> SUFFICES ASSUME NEW s \in Slots, slots[s] # None, slots[s] \notin whole
                   PROVE  \E r \in Reqs : req'[r].kind = "copy" /\ req'[r].ino = slots[s]
        BY <1>2, Zenon DEF EntriesWhole
      <3>1. PICK r \in Reqs : req[r].kind = "copy" /\ req[r].ino = slots[s]
        BY <1>1 DEF CopiesInv, EntriesWhole
      <3> QED BY <1>3, <3>1
    <2>2. \A r \in Reqs : CopyOf(req'[r], whole')
      BY <1>1, <1>2, <1>3, Zenon DEF CopiesInv, CopyOf
    <2> QED BY <2>1, <2>2 DEF CopiesInv
  <1>8. MatchesInv' /\ SourcesInv'
    BY <1>3 DEF MatchesInv, MatchOf, SourcesInv, TodoOf, Running, Checked, Guarded
  <1> QED BY <1>4, <1>5, <1>6, <1>7, <1>8 DEF IInv

\* A client of another protocol changes what an ETag shows.
LEMMA OtherWriterStep ==
  ASSUME NoneApart, IInv, NEW s \in Slots, OtherWriter(s)
  PROVE  IInv'
  <1>1. Shapes /\ KeysInv /\ StagedInv /\ CopiesInv /\ MatchesInv /\ SourcesInv
    BY DEF IInv
  <1>2. Overtake(None, Idle, None) /\ UNCHANGED <<slots, whole, staged, lock, idem, cache, ran, lapsed>>
    BY Zenon DEF OtherWriter, keyed
  <1>3. Shape(Idle)
    BY DEF Idle, Shape, Places
  <1>4. /\ req' = [q \in Reqs |-> req'[q]] /\ \A q \in Reqs : Alike(req'[q], req[q])
        /\ \A q \in Reqs : req[q].at \in Checked => Kept(q)
    BY <1>1, <1>2, <1>3, Overtaken, OvertakenAll, Zenon DEF NoneApart
  <1>5. Shapes'
    BY <1>1, <1>2, <1>4, Zenon DEF Shapes, Alike
  <1>6. KeysInv'
    BY <1>1, <1>2, <1>4, Zenon DEF KeysInv, KeysRunOnce, KeyOf, Running, Alike
  <1>7. StagedInv'
    BY <1>1, <1>2, <1>4, SMTT(30) DEF StagedInv, SiblingOf, Alike
  <1>8. CopiesInv'
    BY <1>1, <1>2, <1>4 DEF CopiesInv, EntriesWhole, CopyOf, Alike
  <1>9. MatchesInv'
    <2> SUFFICES ASSUME NEW q \in Reqs PROVE MatchOf(q, req'[q], lock', slots', ver')
      BY DEF MatchesInv
    <2>1. MatchOf(q, req[q], lock, slots, ver) /\ Alike(req'[q], req[q]) /\ (req[q].at \in Checked => Kept(q))
      BY <1>1, <1>4, Zenon DEF MatchesInv
    <2> QED BY <1>2, <2>1, Zenon DEF MatchOf, Alike, Kept
  <1>10. SourcesInv'
    BY <1>1, <1>4, Zenon DEF SourcesInv, TodoOf, Running, Alike
  <1> QED BY <1>5, <1>6, <1>7, <1>8, <1>9, <1>10 DEF IInv

LEMMA InitInv ==
  ASSUME NoneApart, Init
  PROVE  IInv
  <1>1. Shape(Idle) /\ Idle.at = "idle" /\ Idle.kind = None
    BY DEF Idle, Shape, Places
  <1>2. \A r \in Reqs : req[r] = Idle
    BY DEF Init
  <1>3. Shapes
    BY <1>1, Zenon DEF Init, Shapes
  <1>4. KeysInv
    <2>1. \A r \in Reqs : KeyOf(r, req[r], idem, cache)
      BY <1>1, <1>2, Zenon DEF KeyOf, Running
    <2>2. \A k \in Keys : ran[k] = 0
      BY DEF Init
    <2>3. KeysRunOnce /\ \A k \in Keys : ~ (ran[k] > 0)
      BY <2>2 DEF KeysRunOnce
    <2> QED BY <2>1, <2>3, Zenon DEF KeysInv
  <1>5. StagedInv
    BY <1>1, <1>2 DEF Init, StagedInv, Holding, Guarded
  <1>6. CopiesInv
    <2>1. EntriesWhole
      <3>1. ASSUME NEW s \in Slots PROVE slots[s] = None \/ slots[s] \in whole
        <4>1. s[1] \in Dirs
          BY DEF Slots
        <4> QED BY <4>1 DEF Init
      <3> QED BY <3>1 DEF EntriesWhole
    <2> QED BY <1>1, <1>2, <2>1, ZenonT(30) DEF CopiesInv, CopyOf, NoneApart
  <1>7. MatchesInv /\ SourcesInv
    BY <1>1, <1>2, Zenon DEF MatchesInv, MatchOf, SourcesInv, TodoOf, Running, Checked, Guarded
  <1> QED BY <1>3, <1>4, <1>5, <1>6, <1>7 DEF IInv

LEMMA NextStep ==
  ASSUME NoneApart, MaxSources \in Nat, IInv, [Next]_vars
  PROVE  IInv'
  <1>1. CASE UNCHANGED vars
    BY <1>1, Zenon DEF vars, IInv, Shapes, KeysInv, KeysRunOnce, StagedInv, CopiesInv, EntriesWhole, MatchesInv, SourcesInv
  <1>2. ASSUME NEW r \in Reqs,
               \/ Arrive(r) \/ ArriveOperation(r) \/ Begin(r) \/ DeleteEntry(r) \/ UpdateXattrs(r)
               \/ CreateEntry(r) \/ SetMode(r) \/ RenameEntry(r)
        PROVE  IInv'
    BY <1>2, ArriveStep, ArriveOperationStep, BeginStep, DeleteEntryStep, UpdateXattrsStep,
       CreateEntryStep, SetModeStep, RenameEntryStep
  <1>3. ASSUME NEW r \in Reqs,
               Stage(r) \/ OpenStaged(r) \/ Body(r) \/ Sync(r) \/ Publish(r) \/ Cleanup(r)
        PROVE  IInv'
    BY <1>3, StageStep, FillStep, PublishStep, CleanupStep
  <1>4. ASSUME NEW r \in Reqs,
               \/ OpBegin(r) \/ Conflict(r) \/ Evict(r) \/ Move(r) \/ Link(r)
               \/ CopyCreate(r) \/ CopyFill(r) \/ OpStore(r)
        PROVE  IInv'
    BY <1>4, OpBeginStep, ConflictStep, EvictStep, MoveOrLinkStep, CopyCreateStep, CopyFillStep, OpStoreStep
  <1>5. ASSUME NEW r \in Reqs, Fail(r) \/ Cancel(r) PROVE IInv'
    BY <1>5, FailStep, CancelStep
  <1>6. CASE Restart
    BY <1>6, RestartStep
  <1>7. ASSUME NEW s \in Slots, OtherWriter(s) PROVE IInv'
    BY Zenon, <1>7, OtherWriterStep
  <1> QED BY <1>1, <1>2, <1>3, <1>4, <1>5, <1>6, <1>7 DEF Next

(***************************************************************************)
(* Types.  Besides TypeOK: the file a copy is filling is a file, and so is  *)
(* what each source was resolved to.                                        *)
(***************************************************************************)
Bindings == [Slots -> Inos \cup {None}]

StoreOK ==
  /\ slots \in Bindings /\ ver \in [Inos -> Nat] /\ whole \subseteq Inos
  /\ xattrs \in [Inos -> Reqs \cup {None}] /\ inos \in 0 .. MaxInos

TablesOK ==
  /\ lock \in [Slots -> Reqs \cup {None}] /\ idem \in [Keys -> Reqs \cup {None}]
  /\ cache \in [Keys -> Reqs \cup {None}] /\ lapsed \subseteq Keys /\ faults \in 0 .. MaxFaults

FilesOf(q) ==
  /\ q.at = "copying" => q.ino \in Inos
  /\ q.at = "idem" \/ (Running(q) /\ q.at # "store") => \A i \in DOMAIN q.todo : q.todo[i][2] \in Inos

TInv ==
  /\ StoreOK /\ TablesOK /\ \A x \in staged : x.ino \in Inos
  /\ \A r \in Reqs : FilesOf(req[r])

LEMMA TypesHold ==
  ASSUME IInv, TInv
  PROVE  TypeOK
  <1>1. \A r \in Reqs : req[r].at \in Places
    BY DEF IInv, Shapes, Shape
  <1>2. \A x \in staged : x.by \in Reqs
    BY DEF IInv, StagedInv
  <1>3. ran \in [Keys -> Nat]
    BY DEF IInv, Shapes
  <1> QED BY <1>1, <1>2, <1>3 DEF TypeOK, TInv, StoreOK, TablesOK, Places, Bindings

\* Every step keeps the locks, the cache and the bound on faults what they are.
LEMMA TablesStep ==
  ASSUME TablesOK, Next
  PROVE  TablesOK'
  <1>1. ASSUME NEW r \in Reqs, lock' = lock \/ Release(r), idem' = idem \/ ReleaseKey(r),
               UNCHANGED <<cache, lapsed>>, faults' = faults \/ Fault
        PROVE  TablesOK'
    <2>1. lock' \in [Slots -> Reqs \cup {None}]
      BY <1>1 DEF TablesOK, Release
    <2>2. idem' \in [Keys -> Reqs \cup {None}]
      BY <1>1 DEF TablesOK, ReleaseKey
    <2>3. faults' \in 0 .. MaxFaults
      BY <1>1, ConsumerAssumption DEF TablesOK, Fault
    <2> QED BY <1>1, <2>1, <2>2, <2>3, Zenon DEF TablesOK
  <1>2. ASSUME NEW r \in Reqs,
               \/ Arrive(r) \/ ArriveOperation(r) \/ DeleteEntry(r) \/ UpdateXattrs(r)
               \/ Stage(r) \/ OpenStaged(r) \/ Body(r) \/ Sync(r) \/ Publish(r) \/ Cleanup(r)
               \/ CreateEntry(r) \/ SetMode(r) \/ RenameEntry(r)
        PROVE  TablesOK'
    BY <1>1, <1>2, Zenon
       DEF Arrive, ArriveOperation, DeleteEntry, UpdateXattrs, Stage, OpenStaged, Body, Sync, Publish,
           Cleanup, CreateEntry, SetMode, RenameEntry, keyed
  <1>3. ASSUME NEW r \in Reqs,
               Conflict(r) \/ Evict(r) \/ Move(r) \/ Link(r) \/ CopyCreate(r) \/ CopyFill(r) \/ Fail(r) \/ Cancel(r)
        PROVE  TablesOK'
    BY <1>1, <1>3, Zenon DEF Conflict, Evict, Move, Link, CopyCreate, CopyFill, OpFailed, Fail, Cancel, keyed
  <1>4. ASSUME NEW r \in Reqs, Begin(r) PROVE TablesOK'
    <2>1. lock' = lock \/ lock' = [lock EXCEPT ![req[r].slot] = r]
      BY <1>4, Zenon DEF Begin
    <2>2. UNCHANGED <<idem, cache, lapsed, faults>>
      BY <1>4 DEF Begin, keyed
    <2> QED BY <2>1, <2>2 DEF TablesOK
  <1>5. ASSUME NEW r \in Reqs, OpBegin(r) PROVE TablesOK'
    <2>1. idem' = idem \/ idem' = [idem EXCEPT ![req[r].key] = r]
      BY <1>5, Zenon DEF OpBegin
    <2>2. UNCHANGED <<lock, cache, lapsed, faults>>
      BY <1>5, Zenon DEF OpBegin
    <2> QED BY <2>1, <2>2 DEF TablesOK
  <1>6. ASSUME NEW r \in Reqs, OpStore(r) PROVE TablesOK'
    <2> DEFINE stored == {k \in Keys : cache[k] # None}
               full == Cardinality(stored) >= CacheSize
    <2>1. /\ cache' = [k \in Keys |-> IF k = req[r].key THEN r ELSE IF full THEN None ELSE cache[k]]
          /\ lapsed' = lapsed \cup (IF full THEN stored \ {req[r].key} ELSE {})
          /\ ReleaseKey(r) /\ UNCHANGED <<lock, faults>>
      BY <1>6, Zenon DEF OpStore
    <2>2. stored \subseteq Keys
      BY Zenon
    <2> HIDE DEF stored, full
    <2>3. cache' \in [Keys -> Reqs \cup {None}] /\ lapsed' \subseteq Keys
      BY <2>1, <2>2, Zenon DEF TablesOK
    <2>4. idem' \in [Keys -> Reqs \cup {None}]
      BY <2>1 DEF TablesOK, ReleaseKey
    <2> QED BY <2>1, <2>3, <2>4, Zenon DEF TablesOK
  <1>7. CASE Restart
    <2>1. /\ lock' = [s \in Slots |-> None] /\ idem' = [k \in Keys |-> None] /\ cache' = [k \in Keys |-> None]
          /\ lapsed' = lapsed \cup {k \in Keys : cache[k] # None} /\ Fault
      BY <1>7, Zenon DEF Restart
    <2>2. faults' \in 0 .. MaxFaults
      BY <2>1, ConsumerAssumption, SMTT(30) DEF TablesOK, Fault
    <2> QED BY <2>1, <2>2 DEF TablesOK
  <1>8. ASSUME NEW s \in Slots, OtherWriter(s) PROVE TablesOK'
    BY <1>8, ConsumerAssumption, SMTT(30) DEF OtherWriter, Fault, TablesOK, keyed
  <1> QED BY <1>2, <1>3, <1>4, <1>5, <1>6, <1>7, <1>8, Zenon DEF Next

\* A step that binds entries to files, or unbinds them, keeps the store what it is.
LEMMA Rebound ==
  ASSUME StoreOK, NEW new \in Bindings, Rebind(new)
  PROVE  slots' \in Bindings /\ ver' \in [Inos -> Nat]
  BY DEF StoreOK, Rebind

LEMMA Renamed ==
  ASSUME StoreOK, NEW s \in Slots, NEW d, Rename(s, d)
  PROVE  slots' \in Bindings /\ ver' \in [Inos -> Nat]
  <1> DEFINE new == IF slots[s] = slots[d] THEN slots ELSE [slots EXCEPT ![d] = slots[s], ![s] = None]
  <1>1. new \in Bindings
    BY DEF StoreOK, Bindings
  <1>2. Rebind(new)
    BY Zenon DEF Rename
  <1> QED BY <1>1, <1>2, Rebound

\* The first source of an operation under way.
LEMMA FirstSource ==
  ASSUME IInv, TInv, NEW r \in Reqs, Running(req[r]), req[r].at # "store"
  PROVE  Source(r)[1] \in Slots /\ Source(r)[2] \in Inos
  <1>1. PICK V : req[r].todo \in Seq(Slots \X V) /\ req[r].todo # <<>>
    BY Zenon DEF IInv, SourcesInv, TodoOf
  <1>2. Head(req[r].todo) \in Slots \X V
    BY <1>1, FirstAndRest
  <1>3. \A i \in DOMAIN req[r].todo : req[r].todo[i][2] \in Inos
    BY Zenon DEF TInv, FilesOf
  <1>4. 1 \in DOMAIN req[r].todo /\ Head(req[r].todo) = req[r].todo[1]
    BY <1>1
  <1> QED BY <1>2, <1>3, <1>4 DEF Source

LEMMA StoreStep ==
  ASSUME IInv, TInv, Next
  PROVE  StoreOK'
  <1>0. StoreOK
    BY DEF TInv
  <1>1. ASSUME UNCHANGED <<slots, ver, whole, xattrs, inos>> PROVE StoreOK'
    BY <1>0, <1>1 DEF StoreOK
  <1>2. ASSUME slots' \in Bindings, ver' \in [Inos -> Nat], UNCHANGED <<whole, xattrs, inos>> PROVE StoreOK'
    BY <1>0, <1>2 DEF StoreOK
  <1>3. ASSUME NEW r \in Reqs,
               \/ Arrive(r) \/ ArriveOperation(r) \/ Begin(r) \/ OpenStaged(r) \/ Sync(r) \/ Cleanup(r)
               \/ OpBegin(r) \/ Conflict(r) \/ OpStore(r) \/ Fail(r) \/ Cancel(r)
        PROVE  StoreOK'
    BY <1>1, <1>3, Zenon DEF Arrive, ArriveOperation, Begin, OpenStaged, Sync, Cleanup, OpBegin, Conflict,
       OpStore, Fail, Cancel
  <1>4. CASE Restart
    BY <1>1, <1>4, Zenon DEF Restart
  <1>5. ASSUME NEW r \in Reqs, NEW s, Rebind([slots EXCEPT ![s] = None]), UNCHANGED <<whole, xattrs, inos>>
        PROVE  StoreOK'
    <2>1. [slots EXCEPT ![s] = None] \in Bindings
      BY <1>0, Zenon DEF StoreOK, Bindings
    <2> QED BY <1>0, <1>2, <1>5, <2>1, Rebound
  <1>6. ASSUME NEW r \in Reqs, DeleteEntry(r) \/ Evict(r) PROVE StoreOK'
    BY <1>5, <1>6, Zenon DEF DeleteEntry, Evict
  <1>7. ASSUME NEW r \in Reqs, UpdateXattrs(r) PROVE StoreOK'
    <2>1. xattrs' = [xattrs EXCEPT ![req[r].ino] = r] /\ UNCHANGED <<slots, ver, whole, inos>>
      BY <1>7 DEF UpdateXattrs
    <2> QED BY <1>0, <2>1, Zenon DEF StoreOK
  <1>8. ASSUME NEW r \in Reqs, Stage(r) PROVE StoreOK'
    <2>1. inos < MaxInos /\ inos' = inos + 1 /\ UNCHANGED <<slots, ver, whole, xattrs>>
      BY <1>8 DEF Stage
    <2> QED BY <1>0, <2>1, ConsumerAssumption, SMTT(30) DEF StoreOK
  <1>9. ASSUME NEW r \in Reqs, Body(r) \/ Publish(r) PROVE StoreOK'
    <2>1. req[r].at \in Holding /\ StagedInv
      BY <1>9, Zenon DEF Body, Publish, At, Holding, Guarded, IInv
    <2>2. Staged(r).ino \in Inos
      BY <2>1, OwnSibling DEF TInv
    <2>3. CASE Body(r)
      BY <1>0, <2>2, <2>3 DEF Body, StoreOK
    <2>4. CASE Publish(r)
      <3> DEFINE new == [slots EXCEPT ![req[r].slot] = Staged(r).ino]
      <3>1. new \in Bindings
        BY <1>0, <2>2, Zenon DEF StoreOK, Bindings
      <3>2. Rebind(new) /\ UNCHANGED <<whole, xattrs, inos>>
        BY <2>4 DEF Publish
      <3> QED BY <1>0, <1>2, <3>1, <3>2, Rebound
    <2> QED BY Zenon, <1>9, <2>3, <2>4
  <1>10. ASSUME NEW r \in Reqs, CreateEntry(r) PROVE StoreOK'
    <2>0. UNCHANGED <<ver, xattrs>>
      BY <1>10, Zenon DEF CreateEntry
    <2>1. CASE UNCHANGED <<slots, whole, inos>>
      BY <1>1, <2>0, <2>1
    <2>2. CASE /\ inos < MaxInos /\ inos' = inos + 1 /\ whole' = whole \cup {inos'}
               /\ slots' = [slots EXCEPT ![req[r].slot] = inos']
      <3>1. inos' \in Inos /\ inos' \in 0 .. MaxInos
        BY <1>0, <2>2, ConsumerAssumption DEF StoreOK, Inos
      <3>2. slots' \in Bindings /\ whole' \subseteq Inos
        BY <1>0, <2>2, <3>1, Zenon DEF StoreOK, Bindings
      <3> QED BY <1>0, <2>0, <3>1, <3>2, Zenon DEF StoreOK
    <2> QED BY <1>10, <2>1, <2>2, Zenon DEF CreateEntry
  <1>11. ASSUME NEW i, ver' = [ver EXCEPT ![i] = @ + 1], UNCHANGED <<slots, whole, xattrs, inos>> PROVE StoreOK'
    <2>1. ver' \in [Inos -> Nat]
      <3>1. \A j \in Inos : ver'[j] = ver[j] \/ ver'[j] = ver[j] + 1
        BY <1>0, <1>11 DEF StoreOK
      <3>2. ver' = [j \in Inos |-> ver'[j]]
        BY <1>0, <1>11, Zenon DEF StoreOK
      <3> QED BY <1>0, <3>1, <3>2 DEF StoreOK
    <2> QED BY <1>0, <1>11, <2>1 DEF StoreOK
  <1>12. ASSUME NEW r \in Reqs, SetMode(r) PROVE StoreOK'
    BY <1>11, <1>12, Zenon DEF SetMode
  <1>13. ASSUME NEW s \in Slots, OtherWriter(s) PROVE StoreOK'
    BY <1>11, <1>13, Zenon DEF OtherWriter
  <1>14. ASSUME NEW r \in Reqs, RenameEntry(r) PROVE StoreOK'
    <2>1. req[r].slot \in Slots
      BY <1>14 DEF RenameEntry, At, IInv, MatchesInv, MatchOf
    <2>2. UNCHANGED <<whole, xattrs, inos>> /\ (Rename(req[r].slot, req[r].dst) \/ UNCHANGED <<slots, ver>>)
      BY <1>14, Zenon DEF RenameEntry
    <2> QED BY Zenon, <1>0, <1>1, <1>2, <2>1, <2>2, Renamed
  <1>15. ASSUME NEW r \in Reqs, Move(r) PROVE StoreOK'
    <2>1. Source(r)[1] \in Slots
      BY <1>15, FirstSource DEF Move, At, Running, Operations
    <2>2. UNCHANGED <<whole, xattrs, inos>> /\ (Rename(Source(r)[1], req[r].dst) \/ UNCHANGED <<slots, ver>>)
      BY <1>15, Zenon DEF Move
    <2> QED BY Zenon, <1>0, <1>1, <1>2, <2>1, <2>2, Renamed
  <1>16. ASSUME NEW r \in Reqs, Link(r) PROVE StoreOK'
    <2> DEFINE new == [slots EXCEPT ![req[r].dst] = Source(r)[2]]
    <2>1. Source(r)[2] \in Inos
      BY <1>16, FirstSource, Zenon DEF Link, At, Running, Operations
    <2>2. new \in Bindings
      BY <1>0, <2>1, Zenon DEF StoreOK, Bindings
    <2>3. UNCHANGED <<whole, xattrs, inos>> /\ (Rebind(new) \/ UNCHANGED <<slots, ver>>)
      BY <1>16, Zenon DEF Link
    <2> QED BY Zenon, <1>0, <1>1, <1>2, <2>2, <2>3, Rebound
  <1>17. ASSUME NEW r \in Reqs, CopyCreate(r) PROVE StoreOK'
    <2> DEFINE new == [slots EXCEPT ![req[r].dst] = inos']
    <2>1. CASE UNCHANGED <<slots, ver, inos>>
      BY <1>1, <1>17, <2>1 DEF CopyCreate
    <2>2. CASE inos < MaxInos /\ inos' = inos + 1 /\ Rebind(new)
      <3>1. inos' \in Inos /\ inos' \in 0 .. MaxInos
        BY <1>0, <2>2, ConsumerAssumption DEF StoreOK, Inos
      <3>2. new \in Bindings
        BY <1>0, <3>1, Zenon DEF StoreOK, Bindings
      <3>3. slots' \in Bindings /\ ver' \in [Inos -> Nat]
        BY Zenon, <1>0, <2>2, <3>2, Rebound
      <3> QED BY <1>0, <1>17, <3>1, <3>3, Zenon DEF CopyCreate, StoreOK
    <2> QED BY <1>17, <2>1, <2>2, Zenon DEF CopyCreate
  <1>18. ASSUME NEW r \in Reqs, CopyFill(r) PROVE StoreOK'
    <2>1. req[r].ino \in Inos
      BY <1>18 DEF CopyFill, At, TInv, FilesOf
    <2>2. Source(r)[2] \in Inos
      BY <1>18, FirstSource DEF CopyFill, At, Running
    <2>3. /\ whole' = whole \cup {req[r].ino} /\ xattrs' = [xattrs EXCEPT ![req[r].ino] = xattrs[Source(r)[2]]]
          /\ UNCHANGED <<slots, ver, inos>>
      BY <1>18 DEF CopyFill
    <2> QED BY <1>0, <2>1, <2>2, <2>3, Zenon DEF StoreOK
  <1> QED BY <1>3, <1>4, <1>6, <1>7, <1>8, <1>9, <1>10, <1>12, <1>13, <1>14, <1>15, <1>16, <1>17, <1>18, Zenon DEF Next

\* A hidden sibling keeps its file.
LEMMA SiblingFiles ==
  ASSUME IInv, TInv, Next
  PROVE  \A x \in staged' : x.ino \in Inos
  <1>1. CASE staged' \subseteq staged
    BY <1>1, Zenon DEF TInv
  <1>2. ASSUME NEW r \in Reqs, req[r].at \in Holding, NEW y, y.ino = Staged(r).ino,
               staged' = (staged \ {Staged(r)}) \cup {y}
        PROVE  \A x \in staged' : x.ino \in Inos
    BY <1>2, OwnSibling DEF TInv, IInv
  <1>3. ASSUME NEW r \in Reqs, req[r].at \in Holding, NEW y, staged' = (staged \ {Staged(r)}) \cup {y},
               \/ y = [Staged(r) EXCEPT !.open = TRUE] \/ y = [Staged(r) EXCEPT !.open = FALSE]
               \/ y = [Staged(r) EXCEPT !.stray = TRUE]
        PROVE  \A x \in staged' : x.ino \in Inos
    <2>1. Staged(r) \in [by : Reqs, ino : {Staged(r).ino}, open : BOOLEAN, stray : BOOLEAN]
      BY <1>3, OwnSibling DEF IInv, StagedInv
    <2>2. y.ino = Staged(r).ino
      <3> DEFINE x == Staged(r)
      <3>1. x \in [by : Reqs, ino : {x.ino}, open : BOOLEAN, stray : BOOLEAN]
        BY <2>1
      <3>2. y = [x EXCEPT !.open = TRUE] \/ y = [x EXCEPT !.open = FALSE] \/ y = [x EXCEPT !.stray = TRUE]
        BY <1>3
      <3> HIDE DEF x
      <3>3. y.ino = x.ino
        BY Zenon, <3>1, <3>2
      <3> QED BY <3>3 DEF x
    <2> QED BY <1>2, <1>3, <2>2
  <1>4. ASSUME NEW r \in Reqs, Stage(r) PROVE \A x \in staged' : x.ino \in Inos
    <2>1. inos' \in Inos
      BY <1>4, ConsumerAssumption DEF Stage, TInv, StoreOK, Inos
    <2> QED BY <1>4, <2>1, SMTT(30) DEF Stage, TInv
  <1>5. ASSUME NEW r \in Reqs, OpenStaged(r) \/ Sync(r) PROVE \A x \in staged' : x.ino \in Inos
    <2>1. req[r].at \in Holding
      BY <1>5 DEF OpenStaged, Sync, At, Holding, Guarded
    <2> QED BY <1>3, <1>5, <2>1, Zenon DEF OpenStaged, Sync
  <1>6. ASSUME NEW r \in Reqs, Fail(r) \/ Cancel(r) PROVE \A x \in staged' : x.ino \in Inos
    <2>1. Abandon(r)
      BY <1>6, Zenon DEF Fail, Cancel
    <2>2. CASE At(r, "open")
      <3>1. req[r].at \in Holding
        BY <2>2 DEF At, Holding
      <3> QED BY <1>3, <2>1, <2>2, <3>1, Zenon DEF Abandon
    <2>3. CASE ~ At(r, "open")
      BY <1>1, <2>1, <2>3 DEF Abandon
    <2> QED BY Zenon, <2>2, <2>3
  <1>7. CASE Restart
    <2>1. staged' = {[x EXCEPT !.open = FALSE, !.stray = TRUE] : x \in staged}
      BY <1>7, Zenon DEF Restart
    <2>2. ASSUME NEW x \in staged, NEW y, y = [x EXCEPT !.open = FALSE, !.stray = TRUE] PROVE y.ino \in Inos
      <3>1. x \in [by : Reqs, ino : {x.ino}, open : BOOLEAN, stray : BOOLEAN] /\ x.ino \in Inos
        BY DEF IInv, StagedInv, TInv
      <3> QED BY <2>2, <3>1
    <2> QED BY <2>1, <2>2, Zenon
  <1>8. ASSUME NEW r \in Reqs,
               \/ Arrive(r) \/ ArriveOperation(r) \/ Begin(r) \/ DeleteEntry(r) \/ UpdateXattrs(r)
               \/ Body(r) \/ Publish(r) \/ Cleanup(r) \/ CreateEntry(r) \/ SetMode(r) \/ RenameEntry(r)
        PROVE  staged' \subseteq staged
    BY <1>8, Zenon DEF Arrive, ArriveOperation, Begin, DeleteEntry, UpdateXattrs, Body, Publish, Cleanup,
       CreateEntry, SetMode, RenameEntry
  <1>9. ASSUME NEW r \in Reqs,
               \/ OpBegin(r) \/ Conflict(r) \/ Evict(r) \/ Move(r) \/ Link(r)
               \/ CopyCreate(r) \/ CopyFill(r) \/ OpStore(r)
        PROVE  staged' \subseteq staged
    BY <1>9, Zenon DEF OpBegin, Conflict, Evict, Move, Link, CopyCreate, CopyFill, OpStore
  <1>10. ASSUME NEW s \in Slots, OtherWriter(s) PROVE staged' \subseteq staged
    BY <1>10, Zenon DEF OtherWriter
  <1> QED BY <1>1, <1>4, <1>5, <1>6, <1>7, <1>8, <1>9, <1>10, Zenon DEF Next

\* Requests: r becomes p, and the others keep what they name.
LEMMA FilesFrame ==
  ASSUME TInv, NEW r \in Reqs, NEW p, Steps(r, p), FilesOf(p)
  PROVE  \A q \in Reqs : FilesOf(req'[q])
  <1> SUFFICES ASSUME NEW q \in Reqs PROVE FilesOf(req'[q])
    OBVIOUS
  <1>1. CASE q = r
    BY <1>1 DEF Steps
  <1>2. CASE q # r
    <2>1. FilesOf(req[q]) /\ Alike(req'[q], req[q])
      BY <1>2 DEF TInv, Steps
    <2> QED BY <2>1, Zenon DEF FilesOf, Alike, Running
  <1> QED BY <1>1, <1>2

LEMMA AskFields ==
  ASSUME NEW kind, NEW s, NEW m, NEW d
  PROVE  LET p == Ask(kind, s, m, d) IN Shape(p) /\ p.at \in {"apply", "lock"} /\ p.kind = kind
  <1> DEFINE at == IF kind = "chmod" THEN "apply" ELSE "lock"
             match == IF m THEN Etag(slots[s]) ELSE None
             p == [Idle EXCEPT !.kind = kind, !.at = at, !.slot = s, !.ino = slots[s], !.match = match, !.dst = d]
  <1>1. Ask(kind, s, m, d) = p
    BY DEF Ask
  <1>2. at \in {"apply", "lock"}
    OBVIOUS
  <1> HIDE DEF at, match
  <1>3. Shape(p) /\ p.at = at /\ p.kind = kind
    BY <1>2, Zenon DEF Idle, Shape, Places
  <1> HIDE DEF p
  <1> QED BY <1>1, <1>2, <1>3

LEMMA OperationFields ==
  ASSUME NEW kind, NEW d, NEW key, NEW pol, NEW todo
  PROVE  LET p == Operation(kind, d, key, pol, todo) IN Shape(p) /\ p.at = "idem" /\ p.todo = todo
  BY Zenon DEF Operation, Idle, Shape, Places

\* A request that is no operation under way names no source.
Away == Places \ {"idem", "conflict", "evict", "copying", "apply"}

LEMMA AwayFiles ==
  ASSUME TInv, NEW r \in Reqs, NEW p, Steps(r, p), p.at \in Away
  PROVE  \A q \in Reqs : FilesOf(req'[q])
  <1>1. FilesOf(p)
    BY DEF FilesOf, Running, Away
  <1> QED BY <1>1, FilesFrame

LEMMA AnswerFiles ==
  ASSUME IInv, TInv, NEW r \in Reqs, Answer(r) \/ \E own : Overtake(r, Done(r), own)
  PROVE  \A q \in Reqs : FilesOf(req'[q])
  <1>1. Shapes
    BY Zenon DEF IInv
  <1>2. Shape(Done(r)) /\ Done(r).at \in Away
    BY <1>1, Answered, Zenon DEF Away, Places
  <1>3. Answer(r) => Steps(r, Done(r))
    BY <1>1, Answers
  <1>4. ASSUME NEW own, Overtake(r, Done(r), own) PROVE Steps(r, Done(r))
    BY <1>1, <1>2, <1>4, Overtaken
  <1>5. Steps(r, Done(r))
    BY Zenon, <1>3, <1>4
  <1> QED BY <1>2, <1>5, AwayFiles

LEMMA GoneFiles ==
  ASSUME IInv, TInv, NEW r \in Reqs, NEW at \in Away, Goto(r, at)
  PROVE  \A q \in Reqs : FilesOf(req'[q])
  <1>1. Shapes /\ at \in Places /\ Shape(req[r])
    BY DEF IInv, Shapes, Away
  <1>2. Steps(r, Moved(req[r], at)) /\ Moved(req[r], at).at = at
    BY <1>1, Moves, MovedFields
  <1> QED BY <1>2, AwayFiles

\* The rest of the sources after the first.
LEMMA SettledFiles ==
  ASSUME NEW q, Shape(q), Running(q), q.at # "store", TodoOf(q), FilesOf(q)
  PROVE  FilesOf(Settled(q))
  <1> DEFINE t == q.todo
             p == Settled(q)
  <1>1. PICK V : t \in Seq(Slots \X V) /\ t # <<>>
    BY Zenon DEF TodoOf
  <1>2. \A i \in DOMAIN t : t[i][2] \in Inos
    BY Zenon DEF FilesOf
  <1>3. p.at \in {"store", "conflict"}
    BY SettledFields
  <1>4. p.todo = Tail(t)
    BY Zenon DEF Settled, Shape
  <1> HIDE DEF p, t
  <1>5. \A i \in DOMAIN Tail(t) : Tail(t)[i][2] \in Inos
    <2> SUFFICES ASSUME NEW i \in DOMAIN Tail(t) PROVE Tail(t)[i][2] \in Inos
      OBVIOUS
    <2>1. i + 1 \in DOMAIN t /\ Tail(t)[i] = t[i + 1]
      BY <1>1, SMTT(30)
    <2> QED BY <1>2, <2>1
  <1>6. FilesOf(p)
    BY <1>3, <1>4, <1>5 DEF FilesOf
  <1> QED BY <1>6 DEF p

LEMMA RequestFiles ==
  ASSUME NoneApart, IInv, TInv, Next
  PROVE  \A q \in Reqs : FilesOf(req'[q])
  <1>0. Shapes /\ \A r \in Reqs : Shape(req[r]) /\ FilesOf(req[r]) /\ TodoOf(req[r])
    BY DEF IInv, Shapes, SourcesInv, TInv
  <1>1. ASSUME NEW r \in Reqs, Arrive(r) PROVE \A q \in Reqs : FilesOf(req'[q])
    <2>1. PICK s \in Slots, kind \in Kinds \ Operations, m \in BOOLEAN, d \in Slots :
            /\ IF slots[s] = None THEN kind \in {"put", "create"} /\ ~m
               ELSE kind # "create" /\ (kind = "put" => m)
            /\ (kind # "rename" => d = s) /\ (kind \in {"chmod", "rename"} => ~m)
            /\ req' = [req EXCEPT ![r] = Ask(kind, s, m, d)]
      BY <1>1, Zenon DEF Arrive
    <2> DEFINE p == Ask(kind, s, m, d)
    <2>2. Shape(p) /\ p.at \in {"apply", "lock"} /\ p.kind = kind
      BY AskFields, SMTT(30)
    <2>3. FilesOf(p)
      BY <2>2 DEF FilesOf, Running
    <2> HIDE DEF p
    <2>4. req' = [req EXCEPT ![r] = p]
      BY <2>1, Zenon DEF p
    <2>5. Steps(r, p)
      BY Zenon, <1>0, <2>2, <2>4, OneMoves
    <2> QED BY <2>3, <2>5, FilesFrame
  <1>2. ASSUME NEW r \in Reqs, ArriveOperation(r) PROVE \A q \in Reqs : FilesOf(req'[q])
    <2>1. PICK kind \in Kinds \cap Operations, d \in Dirs, key \in Keys,
               pol \in {"fail", "skip", "overwrite", "keep_both"}, n \in 1 .. MaxSources :
            \E src \in [1 .. n -> {s \in Slots : slots[s] # None}] :
               /\ pol = "overwrite" => kind = "move"
               /\ \A i, j \in 1 .. n : src[i] = src[j] => i = j
               /\ req' = [req EXCEPT ![r] =
                            Operation(kind, d, key, pol, [i \in 1 .. n |-> <<src[i], slots[src[i]]>>])]
      BY <1>2, Zenon DEF ArriveOperation
    <2>2. PICK src \in [1 .. n -> {s \in Slots : slots[s] # None}] :
            req' = [req EXCEPT ![r] = Operation(kind, d, key, pol, [i \in 1 .. n |-> <<src[i], slots[src[i]]>>])]
      BY <2>1, Zenon
    <2> DEFINE todo == [i \in 1 .. n |-> <<src[i], slots[src[i]]>>]
               p == Operation(kind, d, key, pol, todo)
    <2>3. \A i \in DOMAIN todo : todo[i][2] \in Inos
      BY DEF TInv, StoreOK, Bindings
    <2> HIDE DEF todo
    <2>4. Shape(p) /\ p.at = "idem" /\ p.todo = todo
      BY OperationFields
    <2> HIDE DEF p
    <2>5. FilesOf(p)
      BY <2>3, <2>4 DEF FilesOf
    <2>6. Steps(r, p)
      BY <1>0, <2>2, <2>4, OneMoves, Zenon DEF p, todo
    <2> QED BY <2>5, <2>6, FilesFrame
  <1>3. ASSUME NEW r \in Reqs, Begin(r) PROVE \A q \in Reqs : FilesOf(req'[q])
    <2> DEFINE at == CASE req[r].kind = "put" -> "stage" [] req[r].kind = "delete" -> "unlink" [] OTHER -> "setx"
    <2>1. at \in Away
      BY DEF Away, Places, Checked
    <2>2. Answer(r) \/ Goto(r, at)
      BY <1>3, Zenon DEF Begin
    <2> HIDE DEF at
    <2> QED BY <2>1, <2>2, AnswerFiles, GoneFiles
  <1>4. ASSUME NEW r \in Reqs,
               \/ DeleteEntry(r) \/ UpdateXattrs(r) \/ Publish(r) \/ Cleanup(r)
               \/ CreateEntry(r) \/ SetMode(r) \/ RenameEntry(r) \/ OpStore(r)
        PROVE  \A q \in Reqs : FilesOf(req'[q])
    <2>1. UpdateXattrs(r) \/ Cleanup(r) \/ CreateEntry(r) \/ OpStore(r) => Answer(r)
      BY Zenon DEF UpdateXattrs, Cleanup, CreateEntry, OpStore
    <2>2. DeleteEntry(r) \/ Publish(r) \/ SetMode(r) \/ RenameEntry(r) => \E own : Overtake(r, Done(r), own)
      BY Zenon DEF DeleteEntry, Publish, SetMode, RenameEntry
    <2>3. Answer(r) \/ \E own : Overtake(r, Done(r), own)
      BY <1>4, <2>1, <2>2, Zenon
    <2> QED BY <2>3, AnswerFiles, Zenon
  <1>5. ASSUME NEW r \in Reqs, Stage(r) \/ OpenStaged(r) \/ Body(r) \/ Sync(r) \/ Fail(r) \/ Cancel(r)
        PROVE  \A q \in Reqs : FilesOf(req'[q])
    <2>1. {"open", "body", "sync", "rename", "cleanup", "drop"} \subseteq Away
      BY DEF Away, Places, Checked, Guarded
    <2>2. Answer(r) \/ \E at \in {"open", "body", "sync", "rename", "cleanup", "drop"} : Goto(r, at)
      BY <1>5, Zenon DEF Stage, OpenStaged, Body, Sync, Fail, Cancel
    <2> QED BY <2>1, <2>2, AnswerFiles, GoneFiles
  <1>6. ASSUME NEW r \in Reqs, OpBegin(r) PROVE \A q \in Reqs : FilesOf(req'[q])
    <2>1. CASE Answer(r)
      BY Zenon, <2>1, AnswerFiles
    <2>2. CASE Goto(r, "conflict")
      <3> DEFINE p == Moved(req[r], "conflict")
      <3>1. "conflict" \in Places /\ req[r].at = "idem"
        BY <1>6 DEF Places, OpBegin, At
      <3>2. Steps(r, p) /\ p.at = "conflict" /\ p.todo = req[r].todo
        BY Zenon, <1>0, <2>2, <3>1, Moves, MovedFields
      <3> HIDE DEF p
      <3>3. FilesOf(p)
        BY <1>0, <3>1, <3>2, Zenon DEF FilesOf
      <3> QED BY Zenon, <3>2, <3>3, FilesFrame
    <2> QED BY <1>6, <2>1, <2>2, Zenon DEF OpBegin
  <1>7. ASSUME NEW r \in Reqs, Running(req[r]), req[r].at # "store", NEW p, Shape(p), p.at # "copying",
               p.todo = req[r].todo, req' = [req EXCEPT ![r] = p] \/ Overtake(r, p, None)
        PROVE  \A q \in Reqs : FilesOf(req'[q])
    <2>1. Steps(r, p)
      BY <1>0, <1>7, OneMoves, OvertakenAll
    <2>2. FilesOf(p)
      BY <1>0, <1>7, Zenon DEF FilesOf
    <2> QED BY Zenon, <2>1, <2>2, FilesFrame
  <1>8. ASSUME NEW r \in Reqs, Running(req[r]), req[r].at # "store", NEW p, p = Settled(req[r]),
               req' = [req EXCEPT ![r] = p] \/ Overtake(r, p, None)
        PROVE  \A q \in Reqs : FilesOf(req'[q])
    <2>1. Shape(p) /\ FilesOf(p)
      BY Zenon, <1>0, <1>8, SettledFields, SettledFiles
    <2>2. Steps(r, p)
      BY Zenon, <1>0, <1>8, <2>1, OneMoves, OvertakenAll
    <2> QED BY Zenon, <2>1, <2>2, FilesFrame
  <1>9. ASSUME NEW r \in Reqs, Conflict(r) PROVE \A q \in Reqs : FilesOf(req'[q])
    <2>1. req[r].at = "conflict" /\ Running(req[r]) /\ "apply" \in Places /\ "evict" \in Places
      BY <1>9 DEF Conflict, At, Running, Places
    <2>2. ASSUME NEW at \in {"apply", "evict"}, NEW d, req' = [req EXCEPT ![r] = Aimed(req[r], at, d)]
          PROVE  \A q \in Reqs : FilesOf(req'[q])
      <3> DEFINE p == Aimed(req[r], at, d)
      <3>0. at \in Places /\ Shape(req[r])
        BY Zenon, <1>0, <2>1
      <3>1. Shape(p) /\ p.at = at /\ p.todo = req[r].todo
        BY <3>0, AimedFields
      <3>2. req' = [req EXCEPT ![r] = p]
        BY <2>2
      <3> HIDE DEF p
      <3> QED BY Zenon, <1>7, <2>1, <3>1, <3>2
    <2>3. CASE req' = [req EXCEPT ![r] = Settled(req[r])]
      BY Zenon, <1>8, <2>1, <2>3
    <2>4. CASE Answer(r)
      BY <2>4, AnswerFiles
    <2> QED BY <1>9, <2>2, <2>3, <2>4, Zenon DEF Conflict
  <1>10. ASSUME NEW r \in Reqs, Evict(r) PROVE \A q \in Reqs : FilesOf(req'[q])
    <2> DEFINE p == Moved(req[r], "apply")
    <2>1. req[r].at = "evict" /\ Running(req[r]) /\ "apply" \in Places /\ Overtake(r, p, None)
      BY <1>10 DEF Evict, At, Running, Places, Moved
    <2>2. Shape(p) /\ p.at = "apply" /\ p.todo = req[r].todo
      BY Zenon, <1>0, <2>1, MovedFields
    <2> HIDE DEF p
    <2> QED BY <1>7, <2>1, <2>2
  <1>11. ASSUME NEW r \in Reqs, Move(r) \/ Link(r) PROVE \A q \in Reqs : FilesOf(req'[q])
    <2>1. req[r].at = "apply" /\ Running(req[r])
      BY <1>11, Zenon DEF Move, Link, At, Running, Operations
    <2>2. Answer(r) \/ Overtake(r, Settled(req[r]), None)
      BY <1>11, ZenonT(30) DEF Move, Link, OpFailed
    <2> QED BY Zenon, <1>8, <2>1, <2>2, AnswerFiles
  <1>12. ASSUME NEW r \in Reqs, CopyCreate(r) PROVE \A q \in Reqs : FilesOf(req'[q])
    <2> DEFINE i == inos'
               p == Copying(req[r], i)
    <2>1. req[r].at = "apply" /\ Running(req[r])
      BY <1>12 DEF CopyCreate, At, Running, Operations
    <2>2. Answer(r) \/ (Overtake(r, p, None) /\ inos < MaxInos /\ inos' = inos + 1)
      BY <1>12, Zenon DEF CopyCreate, OpFailed, Copying
    <2>3. CASE Answer(r)
      BY <2>3, AnswerFiles
    <2>4. CASE Overtake(r, p, None) /\ inos < MaxInos /\ inos' = inos + 1
      <3>1. i \in Inos
        BY <2>4, ConsumerAssumption DEF TInv, StoreOK, Inos
      <3> HIDE DEF i
      <3>0. Shape(req[r])
        BY Zenon, <1>0
      <3>2. Shape(p) /\ p.at = "copying" /\ p.ino = i /\ p.todo = req[r].todo
        BY <3>0, CopyingFields, SMTT(30)
      <3> HIDE DEF p
      <3>3. Steps(r, p)
        BY Zenon, <2>4, <3>2, OvertakenAll
      <3>4. FilesOf(p)
        BY <1>0, <2>1, <3>1, <3>2, Zenon DEF FilesOf
      <3> QED BY Zenon, <3>3, <3>4, FilesFrame
    <2> QED BY <2>2, <2>3, <2>4
  <1>13. ASSUME NEW r \in Reqs, CopyFill(r) PROVE \A q \in Reqs : FilesOf(req'[q])
    <2>1. req[r].at = "copying" /\ Running(req[r]) /\ req' = [req EXCEPT ![r] = Settled(req[r])]
      BY <1>13 DEF CopyFill, At, Running
    <2> QED BY Zenon, <1>8, <2>1
  <1>14. CASE Restart
    <2>1. req' = [r \in Reqs |-> IF At(r, "idle") THEN req[r] ELSE Done(r)]
      BY <1>14, Zenon DEF Restart
    <2>2. ASSUME NEW r \in Reqs PROVE FilesOf(req'[r])
      <3>1. req'[r].at \in {"idle", "done"}
        BY <1>0, <2>1, Answered DEF At
      <3> QED BY <3>1, Zenon DEF FilesOf, Running
    <2> QED BY <2>2
  <1>15. ASSUME NEW s \in Slots, OtherWriter(s) PROVE \A q \in Reqs : FilesOf(req'[q])
    <2>1. Shape(Idle) /\ Overtake(None, Idle, None)
      BY <1>15 DEF OtherWriter, Idle, Shape, Places
    <2>2. \A q \in Reqs : Alike(req'[q], req[q])
      BY <1>0, <2>1, Overtaken DEF NoneApart
    <2> QED BY <1>0, <2>2, Zenon DEF FilesOf, Alike, Running
  <1> QED BY <1>1, <1>2, <1>3, <1>4, <1>5, <1>6, <1>9, <1>10, <1>11, <1>12, <1>13, <1>14, <1>15, Zenon DEF Next

LEMMA TypeStep ==
  ASSUME NoneApart, IInv, TInv, [Next]_vars
  PROVE  TInv'
  <1>1. CASE Next
    BY <1>1, TablesStep, StoreStep, SiblingFiles, RequestFiles DEF TInv
  <1>2. CASE UNCHANGED vars
    BY <1>2, Zenon DEF vars, TInv, StoreOK, TablesOK
  <1> QED BY Zenon, <1>1, <1>2

LEMMA TypeInit ==
  ASSUME Init
  PROVE  TInv
  <1>1. StoreOK
    <2>1. PICK D \in SUBSET Dirs :
            slots = [s \in Slots |-> IF s[2] = FirstName /\ s[1] \in D THEN s[1] ELSE None]
      BY Zenon DEF Init
    <2>2. MaxDir \in Nat /\ MaxInos \in Nat /\ MaxDir <= MaxInos
      BY ConsumerAssumption
    <2>3. Dirs \subseteq Inos /\ MaxDir \in 0 .. MaxInos
      BY <2>2 DEF Dirs, Inos
    <2>5. slots \in Bindings
      BY <2>1, <2>3, Zenon DEF Bindings
    <2>4. ver \in [Inos -> Nat] /\ xattrs \in [Inos -> Reqs \cup {None}] /\ whole = Dirs /\ inos = MaxDir
      BY Zenon DEF Init
    <2> QED BY <2>3, <2>4, <2>5 DEF StoreOK
  <1>2. TablesOK
    BY ConsumerAssumption, SMTT(30) DEF Init, TablesOK
  <1>3. \A r \in Reqs : req[r].at = "idle"
    BY DEF Init, Idle
  <1>4. \A r \in Reqs : FilesOf(req[r])
    BY <1>3 DEF FilesOf, Running
  <1>5. staged = {}
    BY DEF Init
  <1> QED BY <1>1, <1>2, <1>4, <1>5 DEF TInv

LEMMA Invariance ==
  Spec => [](IInv /\ TInv)
  <1>0. NoneApart /\ MaxSources \in Nat
    BY ConsumerAssumption DEF NoneApart, Slots, Dirs
  <1>1. Init => IInv /\ TInv
    BY <1>0, InitInv, TypeInit
  <1>2. IInv /\ TInv /\ [Next]_vars => (IInv /\ TInv)'
    BY <1>0, NextStep, TypeStep
  <1> QED BY <1>1, <1>2, PTL DEF Spec

(***************************************************************************)
(* operations: an operation completes twice under a key only if the cache   *)
(* forgot the key in between, however many retries of it race, fail or are  *)
(* dropped, and with any number of sources.                                 *)
(***************************************************************************)
THEOREM OncePerKey ==
  Spec => []KeysRunOnce
  <1>1. IInv => KeysRunOnce
    BY DEF IInv, KeysInv
  <1> QED BY <1>1, Invariance, PTL

(***************************************************************************)
(* write_content: no partial upload is visible under a name, and a staged   *)
(* sibling outlives its request only where no guard was made or the daemon  *)
(* restarted.  Every variable keeps its type.                               *)
(***************************************************************************)
THEOREM NoPartialUpload ==
  Spec => []UploadsWhole
  <1>1. IInv => EntriesWhole /\ StagedCollected
    BY DEF IInv, CopiesInv, StagedInv, SiblingOf, StagedCollected, Holding
  <1>2. IInv /\ TInv => UploadsWhole
    BY <1>1, TypesHold DEF UploadsWhole
  <1> QED BY <1>2, Invariance, PTL

(***************************************************************************)
(* check_match under the destination lock: an upload or a delete takes      *)
(* effect on the version its If-Match named, unless one without that lock   *)
(* changed the entry in between.                                            *)
(***************************************************************************)
THEOREM IfMatchHonoured ==
  Spec => MatchHonoured
  <1>1. IInv => MatchStep
    BY DEF IInv, MatchesInv, MatchOf, MatchStep, Checked, Guarded, Etag
  <1>2. IInv => [MatchStep]_vars
    BY <1>1
  <1> QED BY <1>2, Invariance, PTL DEF MatchHonoured
=============================================================================
