------------------------ MODULE InodeAllocator_proofs ------------------------
(***************************************************************************)
(* While a volume is mounted no number goes to two creates, for any size of *)
(* the lease, any set of concurrent calls and any number of mounts, whether *)
(* the renewals of the lease are written, refused or lost.                  *)
(***************************************************************************)
EXTENDS InodeAllocator, WellFoundedInduction, TLAPS

Entry == [key : {"next_ino", "inode"}, val : Nat, mount : 0 .. MaxMounts]
Calls == [pc : {"idle", "renew", "create"}, ino : Nat, renew : Nat]

(***************************************************************************)
(* The inductive invariant.  The numbers of this mount, created or held by  *)
(* a call, lie below next; nothing in the log is of a later mount; a call   *)
(* is of the mounted volume; and the mark that mkfs wrote is never lost.    *)
(***************************************************************************)
CallsBelow == \A t \in Threads : call[t].pc # "idle" => mounted /\ call[t].ino < next
CreatesBelow == mounted => \A i \in CreatesIn(wal) : wal[i].mount = mounts => wal[i].val < next
LogOfThePast == \A i \in 1 .. Len(wal) : wal[i].mount <= mounts
MarkKept == durable >= 1 /\ Len(wal) >= 1 /\ wal[1].key = "next_ino"

IInv == TypeOK /\ UniqueWithinMount /\ CallsBelow /\ CreatesBelow /\ LogOfThePast /\ MarkKept

(***************************************************************************)
(* The last mark of a log that has one is a number in it (db.get of         *)
(* KEY_NEXT_INO).                                                           *)
(***************************************************************************)
LEMMA MarkIsNumber ==
  ASSUME NEW log \in Seq(Entry), Len(log) >= 1, log[1].key = "next_ino"
  PROVE  MarkIn(log) \in Nat
  <1> DEFINE marks == {i \in 1 .. Len(log) : log[i].key = "next_ino"}
             back == {n \in Nat : \E i \in marks : n = Len(log) - i}
  <1>1. back # {}
    <2>1. 1 \in marks
      OBVIOUS
    <2>2. Len(log) - 1 \in back
      BY <2>1
    <2> QED BY Zenon, <2>2
  <1>2. PICK x \in back : \A y \in back : ~ (<<y, x>> \in OpToRel(<, Nat))
    BY Zenon, <1>1, NatLessThanWellFounded, WFMin
  <1>3. \A y \in back : ~ (y < x)
    BY <1>2, Zenon DEF OpToRel
  <1>4. PICK i \in marks : x = Len(log) - i
    BY Zenon
  <1>5. \A j \in marks : j <= i
    <2> SUFFICES ASSUME NEW j \in marks PROVE j <= i
      OBVIOUS
    <2>1. Len(log) - j \in back
      <3>1. Len(log) - j \in Nat
        OBVIOUS
      <3> QED BY <3>1, Zenon
    <2>2. ~ (Len(log) - j < Len(log) - i)
      BY <2>1, <1>3, <1>4
    <2> QED BY <2>2
  <1>6. (CHOOSE k \in marks : \A j \in marks : j <= k) \in marks
    BY <1>5
  <1>7. \A k \in marks : log[k].val \in Nat
    <2>1. \A k \in 1 .. Len(log) : log[k] \in Entry
      OBVIOUS
    <2>2. \A e \in Entry : e.val \in Nat
      BY DEF Entry
    <2> QED BY <2>1, <2>2
  <1> QED BY <1>6, <1>7 DEF MarkIn

(***************************************************************************)
(* After mkfs: one mark, no calls.                                          *)
(***************************************************************************)
LEMMA InitInv == Init => IInv
  <1> SUFFICES ASSUME Init PROVE IInv
    OBVIOUS
  <1> USE AllocAssumption
  <1>1. TypeOK
    <2>1. Mark(FirstIno) \in Entry
      BY DEF Init, Mark, Entry
    <2>2. wal \in Seq(Entry) /\ Len(wal) = 1
      BY <2>1 DEF Init
    <2>3. call \in [Threads -> Calls]
      BY DEF Init, Idle, Calls
    <2>4. next \in Nat /\ lease_end \in Nat /\ durable = 1 /\ mounts \in 0 .. MaxMounts
      BY DEF Init
    <2>5. ~ mounted /\ mounted \in BOOLEAN
      BY Zenon DEF Init
    <2> QED BY <2>2, <2>3, <2>4, <2>5 DEF TypeOK, Entry, Calls
  <1>2. Len(wal) = 1 /\ wal[1].key = "next_ino" /\ wal[1].mount = 0
    BY DEF Init, Mark
  <1>3. CreatesIn(wal) = {}
    BY <1>2 DEF CreatesIn
  <1>4. \A t \in Threads : call[t].pc = "idle"
    BY Zenon DEF Init, Idle
  <1>5. MarkKept /\ LogOfThePast
    BY <1>2 DEF MarkKept, LogOfThePast, Init
  <1> QED BY <1>1, <1>3, <1>4, <1>5 DEF IInv, UniqueWithinMount, CallsBelow, CreatesBelow

(***************************************************************************)
(* Every write of the volume extends the log by one entry of this mount.    *)
(***************************************************************************)
LEMMA AppendFacts ==
  ASSUME NEW log \in Seq(Entry), NEW e \in Entry
  PROVE  /\ Append(log, e) \in Seq(Entry)
         /\ Len(Append(log, e)) = Len(log) + 1
         /\ \A i \in 1 .. Len(log) : Append(log, e)[i] = log[i]
         /\ Append(log, e)[Len(log) + 1] = e
         /\ CreatesIn(Append(log, e)) =
               CreatesIn(log) \cup (IF e.key = "inode" THEN {Len(log) + 1} ELSE {})
  <1>1. /\ Append(log, e) \in Seq(Entry)
        /\ Len(Append(log, e)) = Len(log) + 1
        /\ \A i \in 1 .. Len(log) : Append(log, e)[i] = log[i]
        /\ Append(log, e)[Len(log) + 1] = e
    OBVIOUS
  <1>2. Len(log) \in Nat
    OBVIOUS
  <1> QED BY <1>1, <1>2 DEF CreatesIn

(***************************************************************************)
(* A write of this mount: an entry that is a mark, or the inode that call t *)
(* holds, after which t holds none.                                         *)
(***************************************************************************)
LEMMA WriteKeeps ==
  ASSUME IInv, NEW t \in Threads, NEW e \in Entry, NEW c \in Calls,
         call[t].pc # "idle", e.mount = mounts,
         wal' = Append(wal, e), call' = [call EXCEPT ![t] = c],
         c.pc # "idle" => c.ino = call[t].ino,
         e.key = "inode" => e.val = call[t].ino /\ c.pc = "idle",
         UNCHANGED <<next, lease_end, durable, mounts, mounted>>
  PROVE  IInv'
  <1> USE AllocAssumption
  <1>1. wal \in Seq(Entry) /\ call \in [Threads -> Calls] /\ mounts \in 0 .. MaxMounts
    BY DEF IInv, TypeOK, Entry, Calls
  <1>2. /\ wal' \in Seq(Entry) /\ Len(wal') = Len(wal) + 1
        /\ \A i \in 1 .. Len(wal) : wal'[i] = wal[i]
        /\ wal'[Len(wal) + 1] = e
        /\ CreatesIn(wal') = CreatesIn(wal) \cup (IF e.key = "inode" THEN {Len(wal) + 1} ELSE {})
    BY <1>1, AppendFacts
  <1>3. Len(wal) \in Nat /\ CreatesIn(wal) \subseteq 1 .. Len(wal)
    BY <1>1 DEF CreatesIn
  <1>4. /\ call' \in [Threads -> Calls]
        /\ call'[t] = c
        /\ \A u \in Threads \ {t} : call'[u] = call[u]
    BY <1>1
  <1>5. TypeOK'
    BY <1>2, <1>3, <1>4 DEF IInv, TypeOK, Entry, Calls
  <1>6. CallsBelow'
    BY <1>4 DEF IInv, CallsBelow
  <1>7. CreatesBelow'
    BY <1>2, <1>3 DEF IInv, CreatesBelow, CallsBelow
  <1>8. LogOfThePast'
    BY <1>1, <1>2, <1>3 DEF IInv, LogOfThePast
  <1>9. MarkKept'
    BY <1>2, <1>3 DEF IInv, MarkKept
  <1>10. UniqueWithinMount'
    <2>1. ASSUME NEW i \in CreatesIn(wal'), NEW j \in CreatesIn(wal'), i # j, wal'[i].mount = wal'[j].mount
          PROVE  wal'[i].val # wal'[j].val
      BY <1>2, <1>3, <2>1 DEF IInv, UniqueWithinMount
    <2>2. ASSUME NEW u \in Threads, call'[u].pc # "idle", NEW v \in Threads \ {u}, call'[v].pc # "idle"
          PROVE  call'[v].ino # call'[u].ino
      BY <1>4, <2>2 DEF IInv, UniqueWithinMount
    <2>3. ASSUME NEW u \in Threads, call'[u].pc # "idle", NEW i \in CreatesIn(wal'), wal'[i].mount = mounts'
          PROVE  wal'[i].val # call'[u].ino
      BY <1>2, <1>3, <1>4, <2>3 DEF IInv, UniqueWithinMount
    <2>4. \A i, j \in CreatesIn(wal') :
             i # j /\ wal'[i].mount = wal'[j].mount => wal'[i].val # wal'[j].val
      BY Zenon, <2>1
    <2>5. \A u \in Threads : call'[u].pc # "idle" =>
             /\ \A v \in Threads \ {u} : call'[v].pc # "idle" => call'[v].ino # call'[u].ino
             /\ \A i \in CreatesIn(wal') : wal'[i].mount = mounts' => wal'[i].val # call'[u].ino
      BY Zenon, <2>2, <2>3
    <2> QED BY <2>4, <2>5, Zenon DEF UniqueWithinMount
  <1> QED BY <1>5, <1>6, <1>7, <1>8, <1>9, <1>10 DEF IInv

(***************************************************************************)
(* Mounting starts at the mark, with a log that knows nothing of this mount.*)
(***************************************************************************)
LEMMA LoadKeeps == IInv /\ Load => IInv'
  <1> SUFFICES ASSUME IInv, Load PROVE IInv'
    OBVIOUS
  <1> USE AllocAssumption
  <1> DEFINE e == Mark(MarkIn(wal) + LeaseSize)
  <1>1. /\ wal \in Seq(Entry) /\ call \in [Threads -> Calls]
        /\ mounts \in Nat /\ mounts' = mounts + 1 /\ mounts' \in 0 .. MaxMounts
    BY DEF IInv, TypeOK, Entry, Calls, Load
  <1>2. MarkIn(wal) \in Nat
    BY <1>1, MarkIsNumber DEF IInv, MarkKept
  <1>3. e \in Entry /\ e.key = "next_ino" /\ e.mount = mounts
    BY <1>1, <1>2 DEF Mark, Entry
  <1>e. wal' = Append(wal, e)
    BY DEF Load
  <1> HIDE DEF e
  <1>4. /\ wal' \in Seq(Entry) /\ Len(wal') = Len(wal) + 1
        /\ \A i \in 1 .. Len(wal) : wal'[i] = wal[i]
        /\ wal'[Len(wal) + 1] = e
        /\ CreatesIn(wal') = CreatesIn(wal)
    <2>1. /\ Append(wal, e) \in Seq(Entry)
          /\ Len(Append(wal, e)) = Len(wal) + 1
          /\ \A i \in 1 .. Len(wal) : Append(wal, e)[i] = wal[i]
          /\ Append(wal, e)[Len(wal) + 1] = e
          /\ CreatesIn(Append(wal, e)) = CreatesIn(wal) \cup (IF e.key = "inode" THEN {Len(wal) + 1} ELSE {})
      BY Zenon, <1>1, <1>3, AppendFacts
    <2>2. CreatesIn(Append(wal, e)) = CreatesIn(wal)
      BY <1>3, <2>1
    <2> QED BY <1>e, <2>1, <2>2
  <1>5. Len(wal) \in Nat /\ CreatesIn(wal) \subseteq 1 .. Len(wal)
    BY <1>1 DEF CreatesIn
  <1>6. \A t \in Threads : call'[t].pc = "idle"
    BY DEF IInv, CallsBelow, Load
  <1>7. \A i \in 1 .. Len(wal') : wal'[i].mount < mounts'
    <2>1. \A i \in 1 .. Len(wal) : wal[i].mount \in Nat /\ wal[i].mount <= mounts
      <3>1. \A i \in 1 .. Len(wal) : wal[i] \in Entry
        BY <1>1
      <3>2. \A x \in Entry : x.mount \in Nat
        BY DEF Entry
      <3> QED BY <3>1, <3>2 DEF IInv, LogOfThePast
    <2> QED BY <1>1, <1>3, <1>4, <1>5, <2>1
  <1>8. TypeOK'
    <2>1. next' \in Nat /\ lease_end' \in Nat /\ next' < lease_end'
      BY <1>2 DEF Load
    <2>2. durable' \in 0 .. Len(wal') /\ mounted' \in BOOLEAN
      BY <1>4, <1>5 DEF Load
    <2> QED BY <1>1, <1>4, <2>1, <2>2 DEF TypeOK, Entry, Calls, Load
  <1>9. CallsBelow'
    BY <1>6 DEF CallsBelow
  <1>10. CreatesBelow' /\ LogOfThePast'
    <2>1. \A i \in 1 .. Len(wal') : wal'[i].mount # mounts' /\ wal'[i].mount <= mounts'
      <3>1. \A i \in 1 .. Len(wal') : wal'[i] \in Entry
        BY <1>4
      <3>2. \A x \in Entry : x.mount \in Nat
        BY DEF Entry
      <3> QED BY <1>1, <1>7, <3>1, <3>2
    <2>2. CreatesIn(wal') \subseteq 1 .. Len(wal')
      BY DEF CreatesIn
    <2> QED BY <2>1, <2>2 DEF CreatesBelow, LogOfThePast
  <1>11. MarkKept'
    BY <1>4, <1>5 DEF IInv, MarkKept, Load
  <1>12. UniqueWithinMount'
    BY <1>4, <1>5, <1>6 DEF IInv, UniqueWithinMount
  <1> QED BY <1>8, <1>9, <1>10, <1>11, <1>12 DEF IInv

(***************************************************************************)
(* allocate consumes a number above all that this mount has handed out, and *)
(* extends the lease before it is used up.                                  *)
(***************************************************************************)
LEMMA AllocateKeeps == ASSUME IInv, NEW t \in Threads, Allocate(t) PROVE IInv'
  <1> USE AllocAssumption
  <1>1. /\ wal \in Seq(Entry) /\ call \in [Threads -> Calls] /\ wal' = wal
        /\ next \in Nat /\ lease_end \in Nat /\ next < lease_end /\ next' = next + 1
        /\ mounts' = mounts /\ mounted /\ mounted' = mounted /\ durable' = durable
    BY DEF IInv, TypeOK, Entry, Calls, Allocate
  <1>2. lease_end' \in Nat /\ next' < lease_end'
    BY <1>1 DEF Allocate
  <1> DEFINE renews == next + 1 = lease_end
             c == [pc |-> IF renews THEN "renew" ELSE "create", ino |-> next,
                   renew |-> IF renews THEN lease_end + LeaseSize ELSE 0]
  <1>3. call' = [call EXCEPT ![t] = c] /\ c \in Calls /\ c.ino = next
    BY <1>1 DEF Allocate, Calls
  <1> HIDE DEF c
  <1>4. /\ call' \in [Threads -> Calls] /\ call'[t] = c
        /\ \A u \in Threads \ {t} : call'[u] = call[u]
    BY <1>1, <1>3
  <1>5. TypeOK'
    BY <1>1, <1>2, <1>4 DEF IInv, TypeOK, Entry, Calls
  <1>6. \A u \in Threads : call[u].ino \in Nat
    BY <1>1 DEF Calls
  <1>7. CallsBelow'
    BY <1>1, <1>3, <1>4, <1>6 DEF IInv, CallsBelow
  <1>8. \A i \in CreatesIn(wal) : wal[i].val \in Nat
    <2>1. \A i \in 1 .. Len(wal) : wal[i] \in Entry
      BY <1>1
    <2>2. \A x \in Entry : x.val \in Nat
      BY DEF Entry
    <2> QED BY <2>1, <2>2 DEF CreatesIn
  <1>9. CreatesBelow'
    BY <1>1, <1>8 DEF IInv, CreatesBelow
  <1>10. LogOfThePast' /\ MarkKept'
    BY <1>1 DEF IInv, LogOfThePast, MarkKept
  <1>11. UniqueWithinMount'
    <2>1. ASSUME NEW u \in Threads, call'[u].pc # "idle", NEW v \in Threads \ {u}, call'[v].pc # "idle"
          PROVE  call'[v].ino # call'[u].ino
      BY <1>1, <1>3, <1>4, <1>6, <2>1 DEF IInv, UniqueWithinMount, CallsBelow
    <2>2. ASSUME NEW u \in Threads, call'[u].pc # "idle", NEW i \in CreatesIn(wal'), wal'[i].mount = mounts'
          PROVE  wal'[i].val # call'[u].ino
      BY <1>1, <1>3, <1>4, <1>8, <2>2 DEF IInv, UniqueWithinMount, CreatesBelow
    <2> QED BY <1>1, <2>1, <2>2 DEF IInv, UniqueWithinMount
  <1> QED BY <1>5, <1>7, <1>9, <1>10, <1>11 DEF IInv

(***************************************************************************)
(* A crash keeps a prefix of the log that has the mark of mkfs, and ends    *)
(* all calls.                                                               *)
(***************************************************************************)
LEMMA CrashKeeps == IInv /\ Crash => IInv'
  <1> SUFFICES ASSUME IInv, Crash PROVE IInv'
    OBVIOUS
  <1> USE AllocAssumption
  <1>1. /\ wal \in Seq(Entry) /\ durable \in 1 .. Len(wal) /\ Len(wal) \in Nat
        /\ UNCHANGED <<next, lease_end, durable, mounts>>
    BY DEF IInv, TypeOK, Entry, Crash, MarkKept
  <1>2. ~ mounted' /\ mounted' \in BOOLEAN
    BY Zenon DEF Crash
  <1>3. /\ wal' \in Seq(Entry) /\ Len(wal') = durable
        /\ \A i \in 1 .. durable : wal'[i] = wal[i]
    BY <1>1 DEF Crash
  <1>4. CreatesIn(wal') \subseteq CreatesIn(wal)
    BY <1>1, <1>3 DEF CreatesIn
  <1>5. CreatesIn(wal') \subseteq 1 .. durable
    BY <1>3 DEF CreatesIn
  <1>6. call' \in [Threads -> Calls] /\ \A t \in Threads : call'[t].pc = "idle"
    BY DEF Crash, Idle, Calls
  <1>7. TypeOK'
    BY <1>1, <1>2, <1>3, <1>6 DEF IInv, TypeOK, Entry, Calls
  <1>8. CallsBelow' /\ CreatesBelow'
    BY <1>2, <1>6 DEF CallsBelow, CreatesBelow
  <1>9. LogOfThePast' /\ MarkKept'
    BY <1>1, <1>3 DEF IInv, LogOfThePast, MarkKept
  <1>10. UniqueWithinMount'
    BY <1>3, <1>4, <1>5, <1>6 DEF IInv, UniqueWithinMount
  <1> QED BY <1>7, <1>8, <1>9, <1>10 DEF IInv

(***************************************************************************)
(* A call that ends without a write only gives up its number.               *)
(***************************************************************************)
LEMMA GiveUpKeeps ==
  ASSUME IInv, NEW t \in Threads, call' = [call EXCEPT ![t] = Idle],
         UNCHANGED <<next, lease_end, wal, durable, mounts, mounted>>
  PROVE  IInv'
  <1>1. call \in [Threads -> Calls] /\ Idle \in Calls /\ Idle.pc = "idle"
    BY DEF IInv, TypeOK, Calls, Idle
  <1>2. call' \in [Threads -> Calls] /\ \A u \in Threads : call'[u].pc = "idle" \/ call'[u] = call[u]
    BY <1>1
  <1>3. TypeOK'
    BY <1>2 DEF IInv, TypeOK, Calls
  <1>4. CallsBelow' /\ CreatesBelow' /\ LogOfThePast' /\ MarkKept'
    BY <1>2 DEF IInv, CallsBelow, CreatesBelow, LogOfThePast, MarkKept
  <1>5. UniqueWithinMount'
    BY <1>2 DEF IInv, UniqueWithinMount
  <1> QED BY <1>3, <1>4, <1>5 DEF IInv

(***************************************************************************)
(* Every step keeps the invariant.                                          *)
(***************************************************************************)
LEMMA Inductive == IInv /\ [Next]_vars => IInv'
  <1> SUFFICES ASSUME IInv, [Next]_vars PROVE IInv'
    OBVIOUS
  <1> USE AllocAssumption
  <1>1. \A t \in Threads : call[t] \in Calls
    BY DEF IInv, TypeOK, Calls
  <1>2. mounts \in 0 .. MaxMounts
    BY DEF IInv, TypeOK
  <1>3. CASE Load
    BY <1>3, LoadKeeps
  <1>4. CASE Crash
    BY <1>4, CrashKeeps
  <1>5. CASE Flush
    <2>1. TypeOK'
      BY <1>5 DEF Flush, IInv, TypeOK
    <2>2. UniqueWithinMount'
      BY <1>5 DEF Flush, IInv, UniqueWithinMount
    <2>3. CallsBelow'
      BY <1>5 DEF Flush, IInv, CallsBelow
    <2>4. CreatesBelow'
      BY <1>5 DEF Flush, IInv, CreatesBelow
    <2>5. LogOfThePast'
      BY <1>5 DEF Flush, IInv, LogOfThePast
    <2>6. MarkKept'
      BY <1>5 DEF Flush, IInv, TypeOK, MarkKept
    <2> QED BY <2>1, <2>2, <2>3, <2>4, <2>5, <2>6 DEF IInv
  <1>6. ASSUME NEW t \in Threads, Allocate(t) PROVE IInv'
    BY <1>6, AllocateKeeps
  <1>7. ASSUME NEW t \in Threads, PutLease(t) PROVE IInv'
    <2> DEFINE e == Mark(call[t].renew)
               c == [call[t] EXCEPT !.pc = "create"]
    <2>1. e \in Entry /\ e.mount = mounts /\ e.key = "next_ino"
      BY <1>1, <1>2 DEF Mark, Entry, Calls
    <2>2. c \in Calls /\ c.ino = call[t].ino
      BY <1>1 DEF Calls
    <2>3. wal' = Append(wal, e) /\ call' = [call EXCEPT ![t] = c] /\ call[t].pc # "idle"
      BY <1>7 DEF PutLease
    <2>4. UNCHANGED <<next, lease_end, durable, mounts, mounted>>
      BY <1>7 DEF PutLease
    <2> HIDE DEF e, c
    <2> QED BY Zenon, <2>1, <2>2, <2>3, <2>4, WriteKeeps
  <1>8. ASSUME NEW t \in Threads, Create(t) PROVE IInv'
    <2> DEFINE e == Created(call[t].ino)
    <2>1. e \in Entry /\ e.mount = mounts /\ e.val = call[t].ino
      BY <1>1, <1>2 DEF Created, Entry, Calls
    <2>2. Idle \in Calls /\ Idle.pc = "idle"
      BY DEF Idle, Calls
    <2>3. wal' = Append(wal, e) /\ call' = [call EXCEPT ![t] = Idle] /\ call[t].pc # "idle"
      BY <1>8 DEF Create
    <2>4. UNCHANGED <<next, lease_end, durable, mounts, mounted>>
      BY <1>8 DEF Create
    <2> HIDE DEF e
    <2> QED BY Zenon, <2>1, <2>2, <2>3, <2>4, WriteKeeps
  <1>9. ASSUME NEW t \in Threads, PutLeaseFails(t) \/ CreateFails(t) PROVE IInv'
    BY <1>9, GiveUpKeeps DEF PutLeaseFails, CreateFails
  <1>10. CASE UNCHANGED vars
    <2>1. TypeOK'
      BY <1>10 DEF vars, IInv, TypeOK
    <2>2. UniqueWithinMount'
      BY <1>10 DEF vars, IInv, UniqueWithinMount
    <2>3. CallsBelow'
      BY <1>10 DEF vars, IInv, CallsBelow
    <2>4. CreatesBelow'
      BY <1>10 DEF vars, IInv, CreatesBelow
    <2>5. LogOfThePast'
      BY <1>10 DEF vars, IInv, LogOfThePast
    <2>6. MarkKept'
      BY <1>10 DEF vars, IInv, MarkKept
    <2> QED BY <2>1, <2>2, <2>3, <2>4, <2>5, <2>6 DEF IInv
  <1> QED BY <1>3, <1>4, <1>5, <1>6, <1>7, <1>8, <1>9, <1>10 DEF Next

(***************************************************************************)
(* While a volume stays mounted its allocator never hands a number to two   *)
(* creates and never stands outside its lease: allocate, alloc_ino and load *)
(* for every LEASE_SIZE and any calls at the same time.                     *)
(***************************************************************************)
THEOREM NumbersStaySound == Spec => []NumbersSound
  <1>1. IInv => NumbersSound
    BY DEF IInv, NumbersSound
  <1> QED BY InitInv, Inductive, <1>1, PTL DEF Spec
===============================================================================
