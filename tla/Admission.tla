------------------------------ MODULE Admission ------------------------------
(***************************************************************************)
(* What a request must pass before it changes a volume: the tenant's token  *)
(* buckets (rate.rs, shared by the exports of the tenant) and the volume's  *)
(* quota tracker (quota.rs, atomics without a lock), while the daemon       *)
(* reloads changed limits into both (reload_live_limits).                   *)
(*                                                                          *)
(* Time is counted in ticks, Scale of them to the second, and tokens in     *)
(* parts of 1/Scale, so that a refill of one tick is a whole number.        *)
(***************************************************************************)
EXTENDS Integers, FiniteSets, FiniteSetsExt

CONSTANTS Callers,      \* requests being served at one time
          Scale,
          Workloads,    \* what may happen: the kinds of request, the RateLimits
                        \* [ops, bytes] and QuotaLimits [bytes, inodes] an operator
                        \* sets, and a bound on the ticks
          MaxServed, MaxEdits,     \* bounds: requests, edits of a record
          MaxWait,      \* how long an NBD request waits for tokens
          Null          \* no limit

VARIABLES load,      \* the workload
          clock,
          tenant,    \* rate_limits in the tenant record
          quota,     \* quota in the volume record
          edits,     \* edits of either record so far
          limiter,   \* RateLimiter: limits and the two buckets
          tracker,   \* QuotaTracker: bytes, inodes and limits
          stored,    \* the qB and qI counters of the database
          manager,   \* reload_live_limits: between the tenant and the volume
          call,      \* per caller: the request and where it is
          served,
          window,    \* observer: operations admitted since an instant
          allowed    \* observer: the hard limits the tracker has had

avars == <<load, clock, tenant, quota, edits, limiter, tracker, stored, manager, call, served,
           window, allowed>>

\* The requests: bytes of payload, what they add, and whether NBD waits for tokens.
Requests ==
    [write  |-> [payload |-> 1, bytes |-> 1, inodes |-> 0, waits |-> FALSE],
     device |-> [payload |-> 1, bytes |-> 1, inodes |-> 0, waits |-> TRUE],
     create |-> [payload |-> 0, bytes |-> 0, inodes |-> 1, waits |-> FALSE],
     remove |-> [payload |-> 0, bytes |-> -1, inodes |-> -1, waits |-> FALSE],
     read   |-> [payload |-> 1, bytes |-> 0, inodes |-> 0, waits |-> FALSE],
     xattr  |-> [payload |-> 0, bytes |-> 0, inodes |-> 0, waits |-> FALSE]]

Idle == [pc |-> "idle", kind |-> "xattr", start |-> 0, now |-> 0, limits |-> Null]
Of(t) == Requests[call[t].kind]
\* Where an admitted request goes: frees are accounted after their batch (unlink).
Admitted(t) == CASE call[t].kind = "read" -> "idle"
                 [] call[t].kind = "xattr" -> "gate"
                 [] call[t].kind = "remove" -> "commit"
                 [] OTHER -> "reserve"
Goes(t, pc) == call' = [call EXCEPT ![t] = IF pc = "idle" THEN Idle ELSE [@ EXCEPT !.pc = pc]]
Ends(t) == Goes(t, "idle")

Smaller(m, n) == IF m < n THEN m ELSE n
Larger(m, n) == IF m > n THEN m ELSE n
-------------------------------------------------------------------------------
(***************************************************************************)
(* Bucket.  duration_since saturates: an instant before `updated' refills   *)
(* nothing, and is still recorded.                                          *)
(***************************************************************************)
Bucket(limit) == [tokens |-> IF limit = Null THEN 0 ELSE limit * Scale, updated |-> clock]

\* Mutant: a bucket that is not drawn on grows beyond its capacity.
Refill_Uncapped(bucket, limit, now) ==
    IF limit = Null THEN [bucket EXCEPT !.updated = now]
    ELSE [tokens |-> bucket.tokens + Larger(now - bucket.updated, 0) * limit, updated |-> now]

Refill(bucket, limit, now) ==
    IF limit = Null THEN [bucket EXCEPT !.updated = now]
    ELSE [tokens |-> Smaller(bucket.tokens + Larger(now - bucket.updated, 0) * limit,
                             limit * Scale),
          updated |-> now]

CanConsume(bucket, limit, amount) == limit = Null \/ bucket.tokens >= amount * Scale

Consume(bucket, limit, amount) ==
    IF limit = Null THEN bucket ELSE [bucket EXCEPT !.tokens = @ - amount * Scale]

Resize(bucket, old, new, now) ==
    [tokens |-> CASE new = Null -> 0
                  [] new # Null /\ old = Null -> new * Scale
                  [] OTHER -> Smaller(bucket.tokens, new * Scale),
     updated |-> now]

(***************************************************************************)
(* RateLimiter::set_limits: refill under the old limits, then resize.       *)
(***************************************************************************)
Limited(new, now) ==
    LET old == limiter.limits
        Changed(bucket, from, to) == Resize(Refill(bucket, from, now), from, to, now)
    IN IF old = new THEN limiter
       ELSE [limits |-> new,
             ops |-> Changed(limiter.ops, old.ops, new.ops),
             bytes |-> Changed(limiter.bytes, old.bytes, new.bytes)]

Watching == [since |-> clock, admitted |-> 0, rewound |-> 0]
-------------------------------------------------------------------------------
AdmissionInit ==
    /\ load \in Workloads
    /\ clock = 0 /\ edits = 0 /\ served = 0 /\ manager = "tenant"
    /\ tenant \in load.rates /\ quota \in load.quotas
    /\ limiter = [limits |-> tenant, ops |-> Bucket(tenant.ops), bytes |-> Bucket(tenant.bytes)]
    /\ stored = [bytes |-> 1, inodes |-> 1]
    /\ tracker = [bytes |-> stored.bytes, inodes |-> stored.inodes, limits |-> quota]
    /\ call = [t \in Callers |-> Idle]
    /\ window = Watching
    /\ allowed = [bytes |-> {quota.bytes.hard}, inodes |-> {quota.inodes.hard}]

Tick == /\ clock < load.ticks
        /\ clock' = clock + 1
        /\ UNCHANGED <<load, tenant, quota, edits, limiter, tracker, stored, manager, call,
                       served, window, allowed>>

\* The observer begins to count again at any moment.
Watch == /\ limiter.limits.ops # Null /\ window # Watching
         /\ window' = Watching
         /\ UNCHANGED <<load, clock, tenant, quota, edits, limiter, tracker, stored, manager, call,
                        served, allowed>>

set_tenant_rate_limits(limits) ==
    /\ edits < MaxEdits /\ limits # tenant
    /\ tenant' = limits /\ edits' = edits + 1
    /\ UNCHANGED <<load, clock, quota, limiter, tracker, stored, manager, call, served, window, allowed>>

set_volume_quota(limits) ==
    /\ edits < MaxEdits /\ limits # quota
    /\ quota' = limits /\ edits' = edits + 1
    /\ UNCHANGED <<load, clock, tenant, limiter, tracker, stored, manager, call, served, window, allowed>>

(***************************************************************************)
(* reload_live_limits, the tenant's limiter and then the open volume; a     *)
(* window of the observer has one limit.                                    *)
(***************************************************************************)
ReloadTenant ==
    /\ manager = "tenant"
    /\ limiter' = Limited(tenant, clock)
    /\ window' = IF limiter' = limiter THEN window ELSE Watching
    /\ manager' = "volume"
    /\ UNCHANGED <<load, clock, tenant, quota, edits, tracker, stored, call, served, allowed>>

ReloadVolume ==
    /\ manager = "volume"
    /\ tracker' = [tracker EXCEPT !.limits = quota]
    /\ allowed' = [r \in {"bytes", "inodes"} |-> allowed[r] \union {quota[r].hard}]
    /\ manager' = "tenant"
    /\ UNCHANGED <<load, clock, tenant, quota, edits, limiter, stored, call, served, window>>
-------------------------------------------------------------------------------
(***************************************************************************)
(* A request comes in, and check() reads the clock before it has the lock.  *)
(***************************************************************************)
Arrive(t) ==
    /\ call[t].pc = "idle" /\ served < MaxServed
    /\ served' = served + 1
    /\ \E k \in load.kinds :
          /\ k = "remove" => stored.bytes > 0 /\ stored.inodes > 0
                             /\ \A u \in Callers : call[u].pc = "idle" \/ call[u].kind # "remove"
          /\ call' = [call EXCEPT ![t] = [Idle EXCEPT !.pc = "check", !.kind = k,
                                                      !.start = clock, !.now = clock]]
    /\ UNCHANGED <<load, clock, tenant, quota, edits, limiter, tracker, stored, manager, window, allowed>>

(***************************************************************************)
(* check_at.  NFS and 9P answer "try again"; NBD sleeps and checks again    *)
(* until it has waited long enough (wait_for_rate_limit).                   *)
(***************************************************************************)
Check(t) ==
    LET now == call[t].now
        limits == limiter.limits
        ops == Refill(limiter.ops, limits.ops, now)
        bytes == Refill(limiter.bytes, limits.bytes, now)
        admitted == CanConsume(ops, limits.ops, 1)
                    /\ (Of(t).payload > 0 => CanConsume(bytes, limits.bytes, Of(t).payload))
    IN /\ call[t].pc = "check"
       /\ limiter' = [limits |-> limits,
                      ops |-> IF admitted THEN Consume(ops, limits.ops, 1) ELSE ops,
                      bytes |-> IF admitted THEN Consume(bytes, limits.bytes, Of(t).payload)
                                ELSE bytes]
       /\ window' = IF limits.ops = Null THEN window ELSE
                    [window EXCEPT
                        !.admitted = @ + IF admitted THEN 1 ELSE 0,
                        !.rewound = @ + Larger(Larger(limiter.ops.updated, window.since) - now, 0)]
       /\ IF admitted THEN Goes(t, Admitted(t))
          ELSE IF Of(t).waits /\ clock - call[t].start < MaxWait THEN Goes(t, "sleep")
          ELSE Ends(t)
       /\ UNCHANGED <<load, clock, tenant, quota, edits, tracker, stored, manager, served, allowed>>

Wake(t) ==
    /\ call[t].pc = "sleep" /\ clock > call[t].now
    /\ call' = [call EXCEPT ![t].pc = "check", ![t].now = clock]
    /\ UNCHANGED <<load, clock, tenant, quota, edits, limiter, tracker, stored, manager, served,
                   window, allowed>>
-------------------------------------------------------------------------------
(***************************************************************************)
(* exceeds_limit: over the hard limit, or over the soft one with its time   *)
(* of grace gone.                                                           *)
(***************************************************************************)
Exceeds(usage, limit, now) ==
    \/ limit.hard # Null /\ usage > limit.hard
    \/ limit.soft # Null /\ limit.grace # Null /\ usage > limit.soft /\ now >= limit.grace

Step(t) == UNCHANGED <<load, clock, tenant, quota, edits, limiter, manager, served, window, allowed>>

(***************************************************************************)
(* QuotaTracker::reserve: the time and the limits, then one counter after   *)
(* the other, each added to first, compared, and taken back when too large. *)
(***************************************************************************)
Reserve(t) ==
    /\ call[t].pc = "reserve"
    /\ call' = [call EXCEPT ![t].pc = "bytes", ![t].now = clock, ![t].limits = tracker.limits]
    /\ Step(t) /\ UNCHANGED <<tracker, stored>>

\* Mutant: the usage is compared first and added to later.
AddBytes_Late(t) ==
    LET delta == Of(t).bytes
    IN /\ call[t].pc = "bytes"
       /\ IF delta > 0 /\ Exceeds(tracker.bytes, call[t].limits.bytes, call[t].now)
          THEN tracker' = tracker /\ Ends(t)
          ELSE tracker' = [tracker EXCEPT !.bytes = @ + delta] /\ Goes(t, "inodes")
       /\ Step(t) /\ UNCHANGED stored

AddBytes(t) ==
    LET delta == Of(t).bytes
        sum == tracker.bytes + delta
    IN /\ call[t].pc = "bytes"
       /\ tracker' = [tracker EXCEPT !.bytes = sum]
       /\ Goes(t, IF delta > 0 /\ Exceeds(sum, call[t].limits.bytes, call[t].now)
                  THEN "undo_bytes" ELSE "inodes")
       /\ Step(t) /\ UNCHANGED stored

AddInodes(t) ==
    LET delta == Of(t).inodes
        sum == tracker.inodes + delta
    IN /\ call[t].pc = "inodes"
       /\ tracker' = [tracker EXCEPT !.inodes = sum]
       /\ Goes(t, IF delta > 0 /\ Exceeds(sum, call[t].limits.inodes, call[t].now)
                  THEN "undo_inodes"
                  ELSE IF call[t].kind = "remove" THEN "idle" ELSE "commit")
       /\ Step(t) /\ UNCHANGED stored

UndoInodes(t) ==
    /\ call[t].pc = "undo_inodes"
    /\ tracker' = [tracker EXCEPT !.inodes = @ - Of(t).inodes]
    /\ Goes(t, "undo_bytes")
    /\ Step(t) /\ UNCHANGED stored

UndoBytes(t) ==
    /\ call[t].pc = "undo_bytes"
    /\ tracker' = [tracker EXCEPT !.bytes = @ - Of(t).bytes]
    /\ Ends(t)
    /\ Step(t) /\ UNCHANGED stored

(***************************************************************************)
(* setxattr is gated by the bytes in use and adds nothing (check_not_over). *)
(***************************************************************************)
check_not_over(t) ==
    /\ call[t].pc = "gate"
    /\ IF Exceeds(tracker.bytes, tracker.limits.bytes, clock) THEN Ends(t) ELSE Goes(t, "commit")
    /\ Step(t) /\ UNCHANGED <<tracker, stored>>

(***************************************************************************)
(* The batch merges the deltas into the counters, or is refused, and        *)
(* release() gives the reservation back.                                    *)
(***************************************************************************)
Commit(t) ==
    /\ call[t].pc = "commit"
    /\ stored' = [bytes |-> stored.bytes + Of(t).bytes, inodes |-> stored.inodes + Of(t).inodes]
    /\ Goes(t, IF call[t].kind = "remove" THEN "reserve" ELSE "idle")
    /\ Step(t) /\ UNCHANGED tracker

CommitFails(t) ==
    /\ call[t].pc = "commit"
    /\ IF call[t].kind \in {"xattr", "remove"} THEN Ends(t) /\ tracker' = tracker
       ELSE /\ tracker' = [tracker EXCEPT !.bytes = @ - Of(t).bytes]
            /\ Goes(t, "release")
    /\ Step(t) /\ UNCHANGED stored

Release(t) ==
    /\ call[t].pc = "release"
    /\ tracker' = [tracker EXCEPT !.inodes = @ - Of(t).inodes]
    /\ Ends(t)
    /\ Step(t) /\ UNCHANGED stored

AdmissionNext ==
    \/ Tick \/ Watch \/ ReloadTenant \/ ReloadVolume
    \/ \E limits \in load.rates : set_tenant_rate_limits(limits)
    \/ \E limits \in load.quotas : set_volume_quota(limits)
    \/ \E t \in Callers :
          \/ Arrive(t) \/ Check(t) \/ Wake(t) \/ Reserve(t) \/ AddBytes(t) \/ AddInodes(t)
          \/ UndoInodes(t) \/ UndoBytes(t) \/ check_not_over(t)
          \/ Commit(t) \/ CommitFails(t) \/ Release(t)

AdmissionSpec == AdmissionInit /\ [][AdmissionNext]_avars
-------------------------------------------------------------------------------
TypeOK ==
    /\ clock \in 0 .. load.ticks /\ tenant \in load.rates /\ quota \in load.quotas
    /\ limiter.limits \in load.rates /\ tracker.limits \in load.quotas
    /\ limiter.ops.tokens >= 0 /\ limiter.bytes.tokens >= 0
    /\ \A t \in Callers : call[t].kind \in DOMAIN Requests

(***************************************************************************)
(* Every way out of a request gives back what it took: with none at work    *)
(* the tracker holds what the database counts (reserve, release).           *)
(***************************************************************************)
ReservationsSettled ==
    (\A t \in Callers : call[t].pc = "idle") =>
        tracker.bytes = stored.bytes /\ tracker.inodes = stored.inodes

(***************************************************************************)
(* However requests that grow the volume interleave with each other and     *)
(* with a reload, what is stored is within a hard limit that was in force   *)
(* (reserve adds before it compares).                                       *)
(***************************************************************************)
HardLimitsKept ==
    \A r \in {"bytes", "inodes"} :
        Null \in allowed[r] \/ stored[r] <= Max(allowed[r])

(***************************************************************************)
(* Token bucket: from any moment on, the operations admitted are at most a  *)
(* full bucket and what the time refills.  check() reads the clock before   *)
(* it takes the lock, and an instant that is late moves `updated' back: the *)
(* time in between is refilled twice (window.rewound).                      *)
(***************************************************************************)
RateKept ==
    LET limit == limiter.limits.ops
    IN limit # Null => window.admitted * Scale
                        <= limit * (Scale + clock - window.since + window.rewound)

\* Without that allowance; TLC shows that it fails.
RateExact ==
    LET limit == limiter.limits.ops
    IN limit # Null => window.admitted * Scale <= limit * (Scale + clock - window.since)

(***************************************************************************)
(* A request is refused only if what is stored and what others will store   *)
(* leaves no room; TLC shows that it fails: a reservation that is about to  *)
(* be taken back counts against the next one.                               *)
(***************************************************************************)
RefusedForRoom ==
    \A t \in Callers : call[t].pc = "undo_bytes" /\ call[t].kind = "write" =>
        stored.bytes + Cardinality({u \in Callers : call[u].pc \in {"inodes", "commit"}
                                                    /\ Of(u).bytes > 0}) + 1
            > call[t].limits.bytes.hard

(***************************************************************************)
(* Limits hold under concurrent requests and live reloads, and reservations *)
(* are settled.                                                             *)
(***************************************************************************)
LimitsKept == TypeOK /\ ReservationsSettled /\ HardLimitsKept /\ RateKept
===============================================================================
