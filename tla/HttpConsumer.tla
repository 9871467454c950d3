---------------------------- MODULE HttpConsumer -----------------------------
(***************************************************************************)
(* The requests of the HTTP consumer API that change a volume               *)
(* (slatefs-http/src/routes.rs): staged uploads, deletes, entry updates,    *)
(* creation, and the compound operations with their idempotency keys.       *)
(*                                                                          *)
(* Between its awaits a request interleaves with every other, with writers  *)
(* on other protocols, with the drop of its own future when the client goes *)
(* away, and with a restart of the daemon.  Only the destination locks and  *)
(* the lock of an idempotency key order requests, and not every request     *)
(* takes one.                                                               *)
(*                                                                          *)
(* An entry is a slot, a directory and a name, and holds a file.  An ETag   *)
(* is the inode with a version that counts the changes an ETag shows (size, *)
(* mode, links, mtime; not extended attributes).  An entry identifier names *)
(* the slot and the inode; it is resolved when the request begins.          *)
(***************************************************************************)
EXTENDS Integers, Sequences, FiniteSets

CONSTANTS MaxDir,       \* directories are 1 .. MaxDir
          Names,
          FirstName,    \* the name files start under; the others are its "(copy n)"
          Reqs,         \* requests, 1 .. n, made in this order
          Keys,         \* idempotency keys
          Kinds,        \* the kinds of requests that clients make
          MaxSources,   \* bound: sources of one operation
          MaxInos,      \* bound: inodes ever made
          MaxFaults,    \* bound: failures, cancellations, restarts and other writers
          CacheSize,    \* consumer.idempotency_entries
          None

ASSUME ConsumerAssumption ==
    /\ MaxSources \in Nat /\ MaxDir \in Nat /\ MaxInos \in Nat /\ MaxDir <= MaxInos /\ MaxFaults \in Nat
    /\ None \notin Reqs /\ None \notin (1 .. MaxDir) \X Names /\ None # "copy"

VARIABLES slots,    \* slot -> inode or None
          ver,      \* inode -> what its ETag shows
          whole,    \* inodes whose content is complete
          xattrs,   \* inode -> the request that set its attributes last, or None
          inos,     \* inodes made so far
          req,      \* per request: its state
          staged,   \* hidden siblings [by, ino, open, stray]; stray: nothing will remove it
          lock,     \* destination locks: slot -> request or None
          idem,     \* locks of idempotency keys: key -> request or None
          cache,    \* operation_idempotency: key -> the request it stored, or None
          faults,   \* faults so far
          ran,      \* history: key -> how often an operation completed under it
          lapsed    \* history: keys the cache forgot

vars == <<slots, ver, whole, xattrs, inos, req, staged, lock, idem, cache, faults, ran, lapsed>>
keyed == <<idem, cache, ran, lapsed>>

Dirs == 1 .. MaxDir
Slots == Dirs \X Names
Inos == 1 .. MaxInos
Operations == {"move", "copy", "link"}
Guarded == {"body", "sync", "rename"}     \* a StagedUploadCleanup is armed
Checked == {"stage", "open", "unlink", "setx"} \cup Guarded   \* past check_match, under the lock

\* match: the ETag of If-Match, or None.  todo: the sources of an operation.
\* dirty: one who takes no lock of this entry changed it since it was checked.
Idle == [at |-> "idle", kind |-> None, slot |-> None, ino |-> None, match |-> None,
         todo |-> <<>>, dst |-> None, policy |-> None, key |-> None, dirty |-> FALSE]

TypeOK ==
    /\ slots \in [Slots -> Inos \cup {None}] /\ ver \in [Inos -> Nat] /\ whole \subseteq Inos
    /\ xattrs \in [Inos -> Reqs \cup {None}] /\ inos \in 0 .. MaxInos
    /\ \A r \in Reqs : req[r].at \in
          Checked \cup {"idle", "lock", "cleanup", "drop", "apply", "idem", "conflict",
                        "evict", "copying", "store", "done"}
    /\ \A x \in staged : x.by \in Reqs /\ x.ino \in Inos
    /\ lock \in [Slots -> Reqs \cup {None}] /\ idem \in [Keys -> Reqs \cup {None}]
    /\ cache \in [Keys -> Reqs \cup {None}] /\ ran \in [Keys -> Nat]
    /\ lapsed \subseteq Keys /\ faults \in 0 .. MaxFaults

Init ==
    /\ \E D \in SUBSET Dirs :
          slots = [s \in Slots |-> IF s[2] = FirstName /\ s[1] \in D THEN s[1] ELSE None]
    /\ inos = MaxDir /\ whole = Dirs
    /\ ver = [i \in Inos |-> 0] /\ xattrs = [i \in Inos |-> None]
    /\ req = [r \in Reqs |-> Idle] /\ staged = {}
    /\ lock = [s \in Slots |-> None] /\ idem = [k \in Keys |-> None]
    /\ cache = [k \in Keys |-> None] /\ ran = [k \in Keys |-> 0]
    /\ lapsed = {} /\ faults = 0

At(r, p) == req[r].at = p
Goto(r, p) == req' = [req EXCEPT ![r].at = p]

\* An answered request; a copy is remembered for the file it made.
Done(r) == IF req[r].kind = "copy" THEN [Idle EXCEPT !.at = "done", !.kind = "copy", !.ino = req[r].ino]
           ELSE [Idle EXCEPT !.at = "done"]
Answer(r) == req' = [req EXCEPT ![r] = Done(r)]

\* r becomes new.  Whoever checked an entry whose binding or ETag this step
\* changes is overtaken, unless r does it under that entry's lock, own.
Overtake(r, new, own) ==
    req' = [q \in Reqs |->
        IF q = r THEN new
        ELSE IF /\ req[q].at \in Checked /\ req[q].slot # own
                /\ LET i == slots[req[q].slot]
                   IN  slots'[req[q].slot] # i \/ (i # None /\ ver'[i] # ver[i])
             THEN [req[q] EXCEPT !.dirty = TRUE] ELSE req[q]]

Release(r) == lock' = [s \in Slots |-> IF lock[s] = r THEN None ELSE lock[s]]
ReleaseKey(r) == idem' = [k \in Keys |-> IF idem[k] = r THEN None ELSE idem[k]]

Etag(i) == <<i, ver[i]>>
Links(i) == {s \in Slots : slots[s] = i}

\* The bindings change to new: the link count in a file's ETag follows.
Rebind(new) ==
    /\ slots' = new
    /\ ver' = [i \in Inos |->
          IF Links(i) # {} /\ Cardinality({s \in Slots : new[s] = i}) \notin {0, Cardinality(Links(i))}
          THEN ver[i] + 1 ELSE ver[i]]

\* Volume::rename: two names of one file are left alone.
Rename(s, d) ==
    Rebind(IF slots[s] = slots[d] THEN slots ELSE [slots EXCEPT ![d] = slots[s], ![s] = None])

(***************************************************************************)
(* A request arrives and its identifiers are resolved.  A replacement must  *)
(* carry If-Match.  PATCH compares it at once, so that it makes no          *)
(* difference later on; the others do under their lock.                     *)
(***************************************************************************)
Ask(kind, s, m, d) ==
    [Idle EXCEPT !.kind = kind, !.at = IF kind = "chmod" THEN "apply" ELSE "lock", !.slot = s, !.ino = slots[s],
                 !.match = IF m THEN Etag(slots[s]) ELSE None, !.dst = d]

First(r) == At(r, "idle") /\ \A q \in Reqs : q < r => ~At(q, "idle")

Arrive(r) ==
    /\ First(r)
    /\ \E s \in Slots, kind \in Kinds \ Operations, m \in BOOLEAN, d \in Slots :
          /\ IF slots[s] = None THEN kind \in {"put", "create"} /\ ~m
             ELSE kind # "create" /\ (kind = "put" => m)
          /\ (kind # "rename" => d = s) /\ (kind \in {"chmod", "rename"} => ~m)
          /\ req' = [req EXCEPT ![r] = Ask(kind, s, m, d)]
    /\ UNCHANGED <<slots, ver, whole, xattrs, inos, staged, lock, keyed, faults>>

\* An operation as it arrives, its key not looked up yet.
Operation(kind, d, key, p, todo) ==
    [Idle EXCEPT !.at = "idem", !.kind = kind, !.dst = <<d, FirstName>>, !.key = key, !.policy = p, !.todo = todo]

\* operations: overwrite is for moves.  Bound: a source is named once.
ArriveOperation(r) ==
    /\ First(r)
    /\ \E kind \in Kinds \cap Operations, d \in Dirs, key \in Keys,
          p \in {"fail", "skip", "overwrite", "keep_both"}, n \in 1 .. MaxSources :
       \E src \in [1 .. n -> {s \in Slots : slots[s] # None}] :
          /\ p = "overwrite" => kind = "move"
          /\ \A i, j \in 1 .. n : src[i] = src[j] => i = j
          /\ req' = [req EXCEPT ![r] = Operation(kind, d, key, p, [i \in 1 .. n |-> <<src[i], slots[src[i]]>>])]
    /\ UNCHANGED <<slots, ver, whole, xattrs, inos, staged, lock, keyed, faults>>

(***************************************************************************)
(* write_content, delete_entry and update_xattrs look the entry up again    *)
(* under the destination lock and compare its ETag.  Creation through the   *)
(* parent compares nothing.                                                 *)
(***************************************************************************)
\* Mutant: the ETag was compared when the identifier was resolved, not again here.
CheckMatch_Early(r) == slots[req[r].slot] # None

CheckMatch(r) ==
    LET i == IF req[r].kind = "xattr" THEN req[r].ino ELSE slots[req[r].slot]
    IN  i # None /\ req[r].match \in {None, Etag(i)}

Begin(r) ==
    /\ At(r, "lock") /\ req[r].kind \in {"put", "delete", "xattr"}
    /\ lock[req[r].slot] = None
    /\ IF (req[r].kind = "put" /\ req[r].ino = None) \/ CheckMatch(r)
       THEN /\ lock' = [lock EXCEPT ![req[r].slot] = r]
            /\ Goto(r, CASE req[r].kind = "put" -> "stage"
                         [] req[r].kind = "delete" -> "unlink"
                         [] OTHER -> "setx")
       ELSE Answer(r) /\ UNCHANGED lock
    /\ UNCHANGED <<slots, ver, whole, xattrs, inos, staged, keyed, faults>>

DeleteEntry(r) ==
    /\ At(r, "unlink")
    /\ Rebind([slots EXCEPT ![req[r].slot] = None])
    /\ Overtake(r, Done(r), req[r].slot) /\ Release(r)
    /\ UNCHANGED <<whole, xattrs, inos, staged, keyed, faults>>

UpdateXattrs(r) ==
    /\ At(r, "setx")
    /\ xattrs' = [xattrs EXCEPT ![req[r].ino] = r]
    /\ Answer(r) /\ Release(r)
    /\ UNCHANGED <<slots, ver, whole, inos, staged, keyed, faults>>

(***************************************************************************)
(* write_content: a hidden sibling is created, opened, filled, flushed,     *)
(* closed and renamed over the entry.  The cleanup guard exists from the    *)
(* open on and is disarmed by the rename.                                   *)
(***************************************************************************)
Staged(r) == CHOOSE x \in staged : x.by = r

Stage(r) ==
    /\ At(r, "stage") /\ inos < MaxInos
    /\ inos' = inos + 1
    /\ staged' = staged \cup {[by |-> r, ino |-> inos', open |-> FALSE, stray |-> FALSE]}
    /\ Goto(r, "open")
    /\ UNCHANGED <<slots, ver, whole, xattrs, lock, keyed, faults>>

OpenStaged(r) ==
    /\ At(r, "open")
    /\ staged' = (staged \ {Staged(r)}) \cup {[Staged(r) EXCEPT !.open = TRUE]}
    /\ Goto(r, "body")
    /\ UNCHANGED <<slots, ver, whole, xattrs, inos, lock, keyed, faults>>

Body(r) ==
    /\ At(r, "body")
    /\ whole' = whole \cup {Staged(r).ino}
    /\ Goto(r, "sync")
    /\ UNCHANGED <<slots, ver, xattrs, inos, staged, lock, keyed, faults>>

Sync(r) ==
    /\ At(r, "sync")
    /\ staged' = (staged \ {Staged(r)}) \cup {[Staged(r) EXCEPT !.open = FALSE]}
    /\ Goto(r, "rename")
    /\ UNCHANGED <<slots, ver, whole, xattrs, inos, lock, keyed, faults>>

Publish(r) ==
    /\ At(r, "rename")
    /\ Rebind([slots EXCEPT ![req[r].slot] = Staged(r).ino])
    /\ staged' = staged \ {Staged(r)}
    /\ Overtake(r, Done(r), req[r].slot) /\ Release(r)
    /\ UNCHANGED <<whole, xattrs, inos, keyed, faults>>

\* cleanup_now, and the task that Drop spawns: close, then unlink.
Cleanup(r) ==
    /\ req[r].at \in {"cleanup", "drop"}
    /\ staged' = staged \ {Staged(r)}
    /\ Answer(r) /\ Release(r)
    /\ UNCHANGED <<slots, ver, whole, xattrs, inos, keyed, faults>>

(***************************************************************************)
(* create_entry, and update_entry: a mode is set on the inode that was      *)
(* resolved, without a lock; a rename locks its destination only.           *)
(***************************************************************************)
CreateEntry(r) ==
    /\ At(r, "lock") /\ req[r].kind = "create" /\ lock[req[r].slot] = None
    /\ IF slots[req[r].slot] = None /\ inos < MaxInos
       THEN /\ inos' = inos + 1 /\ whole' = whole \cup {inos'}
            /\ slots' = [slots EXCEPT ![req[r].slot] = inos']
       ELSE UNCHANGED <<slots, whole, inos>>
    /\ Answer(r)
    /\ UNCHANGED <<ver, xattrs, staged, lock, keyed, faults>>

SetMode(r) ==
    /\ At(r, "apply") /\ req[r].kind = "chmod"
    /\ ver' = [ver EXCEPT ![req[r].ino] = @ + 1]
    /\ UNCHANGED slots /\ Overtake(r, Done(r), None)
    /\ UNCHANGED <<whole, xattrs, inos, staged, lock, keyed, faults>>

RenameEntry(r) ==
    /\ At(r, "lock") /\ req[r].kind = "rename" /\ lock[req[r].dst] = None
    /\ IF slots[req[r].slot] # None THEN Rename(req[r].slot, req[r].dst) ELSE UNCHANGED <<slots, ver>>
    /\ Overtake(r, Done(r), req[r].dst)
    /\ UNCHANGED <<whole, xattrs, inos, staged, lock, keyed, faults>>

(***************************************************************************)
(* operations: the lock of the key, then the cache, then all sources are    *)
(* resolved; one source after the other is settled by conflict_name and     *)
(* moved, linked or copied.  No destination lock is taken.                  *)
(***************************************************************************)
\* Mutant: retries of a key are not serialized before the cache is consulted.
KeyFree_Unlocked(r) == TRUE

KeyFree(r) == idem[req[r].key] = None

OpBegin(r) ==
    /\ At(r, "idem") /\ KeyFree(r)
    /\ IF cache[req[r].key] # None \/ (\E i \in DOMAIN req[r].todo : slots[req[r].todo[i][1]] # req[r].todo[i][2])
       THEN Answer(r) /\ UNCHANGED idem      \* the stored answer, or a refusal
       ELSE Goto(r, "conflict") /\ idem' = [idem EXCEPT ![req[r].key] = r]
    /\ UNCHANGED <<slots, ver, whole, xattrs, inos, staged, lock, cache, faults, ran, lapsed>>

Source(r) == Head(req[r].todo)
Target(r) == <<req[r].dst[1], Source(r)[1][2]>>
Copies(d) == {e \in Slots : e[1] = d[1] /\ e[2] # FirstName /\ slots[e] = None}

\* The request with the entry its first source goes to.
Aimed(q, at, d) == [q EXCEPT !.at = at, !.dst = d]

\* The request after its first source: the next one, or the result is stored.
Settled(q) == [q EXCEPT !.at = IF Len(q.todo) = 1 THEN "store" ELSE "conflict", !.todo = Tail(q.todo)]

Conflict(r) ==
    /\ At(r, "conflict")
    /\ LET d == Target(r)
           p == IF slots[d] = None THEN "free" ELSE req[r].policy
       IN  \/ p = "free" /\ req' = [req EXCEPT ![r] = Aimed(@, "apply", d)]
           \/ p = "overwrite" /\ req' = [req EXCEPT ![r] = Aimed(@, "evict", d)]
           \/ p = "skip" /\ req' = [req EXCEPT ![r] = Settled(@)]
           \/ p = "keep_both" /\ \E e \in Copies(d) : req' = [req EXCEPT ![r] = Aimed(@, "apply", e)]
           \/ p = "fail" /\ Answer(r)
           \/ p = "keep_both" /\ Copies(d) = {} /\ Answer(r)
    /\ IF req'[r].at = "done" THEN ReleaseKey(r) ELSE UNCHANGED idem
    /\ UNCHANGED <<slots, ver, whole, xattrs, inos, staged, lock, cache, faults, ran, lapsed>>

\* ConflictPolicy::Overwrite: the destination is unlinked.
Evict(r) ==
    /\ At(r, "evict")
    /\ Rebind([slots EXCEPT ![req[r].dst] = None])
    /\ Overtake(r, [req[r] EXCEPT !.at = "apply"], None)
    /\ UNCHANGED <<whole, xattrs, inos, staged, lock, keyed, faults>>

OpFailed(r) == Answer(r) /\ ReleaseKey(r)

Move(r) ==
    /\ At(r, "apply") /\ req[r].kind = "move"
    /\ IF slots[Source(r)[1]] = None THEN OpFailed(r) /\ UNCHANGED <<slots, ver>>
       ELSE /\ Rename(Source(r)[1], req[r].dst)
            /\ Overtake(r, Settled(req[r]), None) /\ UNCHANGED idem
    /\ UNCHANGED <<whole, xattrs, inos, staged, lock, cache, faults, ran, lapsed>>

Link(r) ==
    /\ At(r, "apply") /\ req[r].kind = "link"
    /\ IF Links(Source(r)[2]) = {} \/ slots[req[r].dst] # None THEN OpFailed(r) /\ UNCHANGED <<slots, ver>>
       ELSE /\ Rebind([slots EXCEPT ![req[r].dst] = Source(r)[2]])
            /\ Overtake(r, Settled(req[r]), None) /\ UNCHANGED idem
    /\ UNCHANGED <<whole, xattrs, inos, staged, lock, cache, faults, ran, lapsed>>

\* copy_one: an exclusive create in place, then the content and the attributes.
CopyCreate(r) ==
    /\ At(r, "apply") /\ req[r].kind = "copy"
    /\ IF slots[req[r].dst] # None THEN OpFailed(r) /\ UNCHANGED <<slots, ver, inos>>
       ELSE /\ inos < MaxInos /\ inos' = inos + 1
            /\ Rebind([slots EXCEPT ![req[r].dst] = inos'])
            /\ Overtake(r, [req[r] EXCEPT !.at = "copying", !.ino = inos'], None) /\ UNCHANGED idem
    /\ UNCHANGED <<whole, xattrs, staged, lock, cache, faults, ran, lapsed>>

CopyFill(r) ==
    /\ At(r, "copying")
    /\ whole' = whole \cup {req[r].ino}
    /\ xattrs' = [xattrs EXCEPT ![req[r].ino] = xattrs[Source(r)[2]]]
    /\ req' = [req EXCEPT ![r] = Settled(@)]
    /\ UNCHANGED <<slots, ver, inos, staged, lock, keyed, faults>>

\* The result is stored; a full cache is cleared first.
OpStore(r) ==
    /\ At(r, "store")
    /\ LET stored == {k \in Keys : cache[k] # None}
           full == Cardinality(stored) >= CacheSize
       IN  /\ cache' = [k \in Keys |-> IF k = req[r].key THEN r ELSE IF full THEN None ELSE cache[k]]
           /\ lapsed' = lapsed \cup (IF full THEN stored \ {req[r].key} ELSE {})
    /\ ran' = [ran EXCEPT ![req[r].key] = @ + 1]
    /\ Answer(r) /\ ReleaseKey(r)
    /\ UNCHANGED <<slots, ver, whole, xattrs, inos, staged, lock, faults>>

(***************************************************************************)
(* Faults: a call of the volume fails; the client goes away and the future  *)
(* of the request is dropped where it waits; the daemon restarts; a client  *)
(* of another protocol writes to a file.                                    *)
(***************************************************************************)
Fault == faults < MaxFaults /\ faults' = faults + 1

\* A request that ends between the create and the open made no guard.
Abandon(r) ==
    staged' = IF At(r, "open") THEN (staged \ {Staged(r)}) \cup {[Staged(r) EXCEPT !.stray = TRUE]} ELSE staged

\* A failed request answers an error; a guarded one cleans up first.
Fail(r) ==
    /\ Fault /\ req[r].at \in Checked \cup {"evict", "apply", "copying"}
    /\ IF req[r].at \in Guarded THEN Goto(r, "cleanup") /\ UNCHANGED lock
       ELSE Answer(r) /\ Release(r)
    /\ ReleaseKey(r) /\ Abandon(r)
    /\ UNCHANGED <<slots, ver, whole, xattrs, inos, cache, ran, lapsed>>

\* Mutant: dropping an armed guard removes nothing.
Dropped_Disarmed(p) == "done"

Dropped(p) == IF p \in Guarded THEN "drop" ELSE "done"

Cancel(r) ==
    /\ Fault /\ req[r].at \notin {"idle", "done", "cleanup", "drop", "store"}
    /\ IF Dropped(req[r].at) = "done" THEN Answer(r) ELSE Goto(r, "drop")
    /\ Release(r) /\ ReleaseKey(r) /\ Abandon(r)
    /\ UNCHANGED <<slots, ver, whole, xattrs, inos, cache, ran, lapsed>>

Restart ==
    /\ Fault
    /\ req' = [r \in Reqs |-> IF At(r, "idle") THEN req[r] ELSE Done(r)]
    /\ staged' = {[x EXCEPT !.open = FALSE, !.stray = TRUE] : x \in staged}
    /\ lock' = [s \in Slots |-> None] /\ idem' = [k \in Keys |-> None]
    /\ cache' = [k \in Keys |-> None]
    /\ lapsed' = lapsed \cup {k \in Keys : cache[k] # None}
    /\ UNCHANGED <<slots, ver, whole, xattrs, inos, ran>>

OtherWriter(s) ==
    /\ Fault /\ slots[s] # None
    /\ ver' = [ver EXCEPT ![slots[s]] = @ + 1]
    /\ UNCHANGED slots /\ Overtake(None, Idle, None)
    /\ UNCHANGED <<whole, xattrs, inos, staged, lock, keyed>>

Next ==
    \/ \E r \in Reqs :
          \/ Arrive(r) \/ ArriveOperation(r) \/ Begin(r) \/ DeleteEntry(r) \/ UpdateXattrs(r)
          \/ Stage(r) \/ OpenStaged(r) \/ Body(r) \/ Sync(r) \/ Publish(r) \/ Cleanup(r)
          \/ CreateEntry(r) \/ SetMode(r) \/ RenameEntry(r)
          \/ OpBegin(r) \/ Conflict(r) \/ Evict(r) \/ Move(r) \/ Link(r)
          \/ CopyCreate(r) \/ CopyFill(r) \/ OpStore(r) \/ Fail(r) \/ Cancel(r)
    \/ Restart
    \/ \E s \in Slots : OtherWriter(s)

Spec == Init /\ [][Next]_vars

-----------------------------------------------------------------------------
(***************************************************************************)
(* An upload or a delete that carried If-Match takes effect on exactly the  *)
(* version it named, unless one that does not take the entry's destination  *)
(* lock came in between: an operation, a PATCH, a change through another    *)
(* name of the file, a writer on another protocol.  (write_content and      *)
(* delete_entry compare the ETag of a second lookup, under the lock.)       *)
(***************************************************************************)
MatchStep ==
    \A r \in Reqs :
       /\ req[r].at \in {"rename", "unlink"} /\ req[r].match # None /\ ~req[r].dirty
       /\ slots'[req[r].slot] # slots[req[r].slot] /\ req'[r].at = "done"
       => slots[req[r].slot] # None /\ req[r].match = Etag(slots[req[r].slot])
MatchHonoured == [][MatchStep]_vars

(***************************************************************************)
(* An entry holds incomplete content only if copy_one made it, which fills  *)
(* a file in place under its name.                                          *)
(***************************************************************************)
EntriesWhole ==
    \A s \in Slots : slots[s] # None /\ slots[s] \notin whole =>
        \E r \in Reqs : req[r].kind = "copy" /\ req[r].ino = slots[s]

(***************************************************************************)
(* A staged sibling and its handle outlive their request only when the      *)
(* guard was never made (the request ended between the create and the       *)
(* open) or the daemon restarted; otherwise the request or the task that    *)
(* the dropped guard spawned is still going to remove it.                   *)
(***************************************************************************)
StagedCollected ==
    \A x \in staged :
        \/ req[x.by].at \in {"open", "cleanup", "drop"} \cup Guarded
        \/ x.stray /\ ~x.open

(***************************************************************************)
(* No partial upload is ever visible under a name, and none stays behind    *)
(* that its request or its guard could have removed (write_content,         *)
(* StagedUploadCleanup).                                                    *)
(***************************************************************************)
UploadsWhole == TypeOK /\ EntriesWhole /\ StagedCollected

(***************************************************************************)
(* Concurrent duplicate keys execute only once: an operation completes      *)
(* twice under a key only if the cache forgot the key in between.           *)
(***************************************************************************)
KeysRunOnce == \A k \in Keys : ran[k] > 1 => k \in lapsed

(***************************************************************************)
(* A move that overwrites and does not complete leaves the entry it was to  *)
(* replace in place (conflict_name, operations).                            *)
(***************************************************************************)
OverwriteStep ==
    \A r \in Reqs : At(r, "apply") /\ req[r].policy = "overwrite" /\ req'[r].at = "done"
       => slots'[req[r].dst] # None
OverwriteKeepsDestination == [][OverwriteStep]_vars
=============================================================================
