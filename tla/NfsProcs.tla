------------------------------ MODULE NfsProcs ------------------------------
(***************************************************************************)
(* The NFSv3 procedures that change a volume (nfs3-server/nfs_handlers.rs   *)
(* over slatefs-nfs/adapter.rs), in one directory.  A procedure is a        *)
(* sequence of Vfs calls; each call is atomic here (Namespace, FileData and *)
(* AttrCache take them apart) and other procedures run between two of them. *)
(* A commit is durable only after a flush; a crash loses the rest and ends  *)
(* all procedures.                                                          *)
(*                                                                          *)
(* Any call may be answered with an error that left the volume as it was:   *)
(* permissions, quota, the rate limit, a guard on the ctime or a fenced     *)
(* volume (Refuse).  What a file holds is the set of WRITEs in it.          *)
(* Attributes in the replies are left out.                                  *)
(***************************************************************************)
EXTENDS Naturals, FiniteSets

CONSTANTS Names, FirstName,  \* FirstName: what a file that is there from the start is called
          Inos, Threads,   \* numbers
          Verfs,        \* verifiers of EXCLUSIVE creates
          Writes,       \* the WRITEs of a behaviour, 1..n
          MaxCalls, MaxCrashes,  \* bounds
          None

VARIABLES fs,      \* the volume: [ent, node]
          saved,   \* what a crash leaves of it
          fresh,   \* inode numbers not handed out
          server,  \* the instance whose write verifier replies carry
          call,    \* per thread: None or the procedure it runs
          calls, sent, acked, promised, won  \* history

vars == <<fs, saved, fresh, server, call, calls, sent, acked, promised, won>>

Free == 0
Node(kind) == [kind |-> kind, nlink |-> 1, verf |-> None, data |-> {}]
Exists(ino) == fs.node[ino] # None
IsFile(ino) == Exists(ino) /\ fs.node[ino].kind = "file"

Procs ==
       [proc : {"create"}, how : {"guarded", "unchecked"}, name : Names, empty : BOOLEAN]
  \cup [proc : {"exclusive"}, name : Names, verf : Verfs]
  \cup [proc : {"mkdir", "mknod", "remove"}, name : Names]
  \cup [proc : {"rename"}, name : Names, to : Names]
  \cup [proc : {"link"}, ino : Inos, name : Names]
  \cup [proc : {"setattr", "commit"}, ino : Inos]
  \cup [proc : {"write"}, ino : Inos, id : Writes, stable : BOOLEAN]
Steps == {"lookup", "create", "setattr", "setxattr", "compare", "getxattr", "unlink", "rmdir",
          "call", "fsync", "getattr"}

(***************************************************************************)
(* Type invariant.                                                          *)
(***************************************************************************)
VolumeOK(v) ==
  /\ v.ent \in [Names -> Inos \cup {Free}]
  /\ \A i \in Inos : v.node[i] # None =>
       v.node[i] \in [kind : {"file", "dir", "special"}, nlink : 1..Cardinality(Names),
                      verf : Verfs \cup {None}, data : SUBSET Writes]
TypeOK ==
  /\ VolumeOK(fs) /\ VolumeOK(saved) /\ fresh \subseteq Inos /\ server \in 0..MaxCrashes
  /\ \A t \in Threads : call[t] # None =>
       call[t].args \in Procs /\ call[t].at \in Steps /\ call[t].on \in Inos \cup {Free}
  /\ calls \in 0..MaxCalls /\ sent \subseteq Writes
  /\ acked \subseteq [id : Writes, server : 0..MaxCrashes] /\ promised \subseteq Writes
  /\ won \subseteq [ino : Inos, verf : Verfs]

Init ==
  /\ \E some \in SUBSET {1} :
       /\ fs = [ent |-> [n \in Names |-> IF 1 \in some /\ n = FirstName THEN 1 ELSE Free],
                node |-> [i \in Inos |-> IF i \in some THEN Node("file") ELSE None]]
       /\ fresh = Inos \ some
  /\ saved = fs /\ server = 0 /\ call = [t \in Threads |-> None] /\ calls = 0 /\ sent = {}
  /\ acked = {} /\ promised = {} /\ won = {}
-------------------------------------------------------------------------------
(***************************************************************************)
(* Steps of a procedure.                                                    *)
(***************************************************************************)
At(t, proc, step) == call[t] # None /\ call[t].args.proc = proc /\ call[t].at = step
Args(t) == call[t].args
Goes(t, step, ino) == call' = [call EXCEPT ![t].at = step, ![t].on = ino]
Replies(t) == call' = [call EXCEPT ![t] = None]
History == <<acked, promised, won>>

\* The WRITEs that are no longer in any file are nobody's to lose.
Holds(v) == UNION {v.node[i].data : i \in {j \in Inos : v.node[j] # None}}
Becomes(v) ==
  /\ fs' = v
  /\ acked' = {a \in acked : a.id \in Holds(v)} /\ promised' = promised \cap Holds(v)

First(proc) ==
  CASE proc = "create" -> "lookup" [] proc = "exclusive" -> "create"
    [] proc = "remove" -> "lookup" [] OTHER -> "call"

\* handle_nfs: any procedure with any arguments, after fh_from_nfs and the
\* attributes before the call.  An UNCHECKED create does not look the name up.
\* Threads are alike, a call takes the first idle one; WRITEs are numbered as they come.
Arrive(t, args) ==
  /\ call[t] = None /\ (\A u \in Threads : u < t => call[u] # None)
  /\ calls < MaxCalls /\ calls' = calls + 1
  /\ IF args.proc = "write" THEN args.id = Cardinality(sent) + 1 /\ sent' = sent \cup {args.id} ELSE UNCHANGED sent
  /\ call' = [call EXCEPT ![t] = [args |-> args, on |-> Free,
       at |-> IF args.proc = "create" /\ args.how = "unchecked" THEN "create" ELSE First(args.proc)]]
  /\ UNCHANGED <<fs, saved, fresh, server, History>>

\* A Vfs call fails and changes nothing: the procedure ends.
Refuse(t) ==
  /\ call[t] # None /\ Replies(t)
  /\ UNCHANGED <<fs, saved, fresh, server, calls, sent, History>>

\* Vfs::create, mkdir, mknod and symlink of a free name.
Inserts(t, kind, Then(_)) ==
  LET name == Args(t).name
  IN /\ fs.ent[name] = Free /\ fresh # {}
     /\ LET ino == CHOOSE i \in fresh : \A j \in fresh : i <= j
        IN /\ fs' = [fs EXCEPT !.ent[name] = ino, !.node[ino] = Node(kind)]
           /\ fresh' = fresh \ {ino} /\ Then(ino)
     /\ UNCHANGED <<saved, server, calls, sent, History>>
-------------------------------------------------------------------------------
(***************************************************************************)
(* CREATE, MKDIR, MKNOD and SYMLINK.                                        *)
(***************************************************************************)
\* GUARDED: the name must be free now.
CreateLookup(t) ==
  /\ At(t, "create", "lookup")
  /\ IF fs.ent[Args(t).name] = Free THEN Goes(t, "create", Free) ELSE Replies(t)
  /\ UNCHANGED <<fs, saved, fresh, server, calls, sent, History>>

\* SlateFsNfs::create, not exclusive: a file that is there by now is taken.
Create(t) ==
  LET Then(ino) == IF Args(t).empty THEN Goes(t, "setattr", ino) ELSE Replies(t)
      old == fs.ent[Args(t).name]
  IN /\ At(t, "create", "create")
     /\ \/ Inserts(t, "file", Then)
        \/ /\ old # Free /\ fs.node[old].kind # "dir" /\ Then(old)
           /\ UNCHANGED <<fs, saved, fresh, server, calls, sent, History>>

\* The attributes CREATE carries, the size 0 of an UNCHECKED create: by then
\* the file may be gone.  SETATTR itself.
Truncate(t) ==
  /\ At(t, "create", "setattr") \/ At(t, "setattr", "call")
  /\ LET ino == IF At(t, "create", "setattr") THEN call[t].on ELSE Args(t).ino
     IN IF IsFile(ino) THEN Becomes([fs EXCEPT !.node[ino].data = {}]) ELSE UNCHANGED <<fs, acked, promised>>
  /\ Replies(t)
  /\ UNCHANGED <<saved, fresh, server, calls, sent, won>>

\* create_exclusive
CreateExclusive(t) ==
  LET Then(ino) == Goes(t, "setxattr", ino)
  IN /\ At(t, "exclusive", "create")
     /\ \/ Inserts(t, "file", Then)
        \/ /\ fs.ent[Args(t).name] # Free /\ Goes(t, "compare", Free)
           /\ UNCHANGED <<fs, saved, fresh, server, calls, sent, History>>

StoreVerifier(t) ==
  LET ino == call[t].on
  IN /\ At(t, "exclusive", "setxattr") /\ Replies(t)
     /\ IF Exists(ino)
        THEN /\ fs' = [fs EXCEPT !.node[ino].verf = Args(t).verf]
             /\ won' = won \cup {[ino |-> ino, verf |-> Args(t).verf]}
        ELSE UNCHANGED <<fs, won>>
     /\ UNCHANGED <<saved, fresh, server, calls, sent, acked, promised>>

FindExisting(t) ==
  /\ At(t, "exclusive", "compare")
  /\ IF fs.ent[Args(t).name] = Free THEN Replies(t) ELSE Goes(t, "getxattr", fs.ent[Args(t).name])
  /\ UNCHANGED <<fs, saved, fresh, server, calls, sent, History>>

\* Mutant: an existing file without a verifier is taken for one's own.
SameCreate_Unmarked(t) == Exists(call[t].on) /\ fs.node[call[t].on].verf \in {Args(t).verf, None}

SameCreate(t) == Exists(call[t].on) /\ fs.node[call[t].on].verf = Args(t).verf

CompareVerifier(t) ==
  /\ At(t, "exclusive", "getxattr") /\ Replies(t)
  /\ won' = IF SameCreate(t) THEN won \cup {[ino |-> call[t].on, verf |-> Args(t).verf]} ELSE won
  /\ UNCHANGED <<fs, saved, fresh, server, calls, sent, acked, promised>>

MakeNode(t) ==
  /\ At(t, "mkdir", "call") \/ At(t, "mknod", "call")
  /\ Inserts(t, IF Args(t).proc = "mkdir" THEN "dir" ELSE "special", LAMBDA ino : Replies(t))
-------------------------------------------------------------------------------
(***************************************************************************)
(* REMOVE and RMDIR, RENAME, LINK.                                          *)
(***************************************************************************)
Unnamed(v, name) ==
  LET ino == v.ent[name]
  IN [v EXCEPT !.ent[name] = Free,
               !.node[ino] = IF @.nlink = 1 \/ @.kind = "dir" THEN None ELSE [@ EXCEPT !.nlink = @ - 1]]

\* One handler for both: what the name is decides between rmdir and unlink.
RemoveLookup(t) ==
  LET ino == fs.ent[Args(t).name]
  IN /\ At(t, "remove", "lookup")
     /\ IF ino = Free THEN Replies(t)
        ELSE Goes(t, IF fs.node[ino].kind = "dir" THEN "rmdir" ELSE "unlink", Free)
     /\ UNCHANGED <<fs, saved, fresh, server, calls, sent, History>>

Remove(t) ==
  LET ino == fs.ent[Args(t).name]
  IN /\ At(t, "remove", "rmdir") \/ At(t, "remove", "unlink")
     /\ IF ino # Free /\ (fs.node[ino].kind = "dir" <=> call[t].at = "rmdir")
        THEN Becomes(Unnamed(fs, Args(t).name)) ELSE UNCHANGED <<fs, acked, promised>>
     /\ Replies(t) /\ UNCHANGED <<saved, fresh, server, calls, sent, won>>

Rename(t) ==
  LET from == Args(t).name
      to == Args(t).to
      ino == fs.ent[from]
      old == fs.ent[to]
      without == IF old = Free THEN fs ELSE Unnamed(fs, to)
  IN /\ At(t, "rename", "call")
     /\ IF ino # Free /\ ino # old /\ (old # Free => (fs.node[old].kind = "dir" <=> fs.node[ino].kind = "dir"))
        THEN Becomes([without EXCEPT !.ent[to] = ino, !.ent[from] = Free])
        ELSE UNCHANGED <<fs, acked, promised>>
     /\ Replies(t) /\ UNCHANGED <<saved, fresh, server, calls, sent, won>>

Link(t) ==
  LET ino == Args(t).ino
  IN /\ At(t, "link", "call")
     /\ fs' = IF Exists(ino) /\ fs.node[ino].kind # "dir" /\ fs.ent[Args(t).name] = Free
              THEN [fs EXCEPT !.ent[Args(t).name] = ino, !.node[ino].nlink = @ + 1] ELSE fs
     /\ Replies(t) /\ UNCHANGED <<saved, fresh, server, calls, sent, History>>
-------------------------------------------------------------------------------
(***************************************************************************)
(* WRITE and COMMIT.                                                        *)
(***************************************************************************)
\* UNSTABLE is answered from memory.
WriteCall(t) ==
  LET ino == Args(t).ino
  IN /\ At(t, "write", "call")
     /\ IF IsFile(ino)
        THEN /\ fs' = [fs EXCEPT !.node[ino].data = @ \cup {Args(t).id}]
             /\ Goes(t, IF Args(t).stable THEN "fsync" ELSE "getattr", ino)
        ELSE Replies(t) /\ UNCHANGED fs
     /\ UNCHANGED <<saved, fresh, server, calls, sent, History>>

Fsync(t) ==
  /\ At(t, "write", "fsync") /\ saved' = fs /\ Goes(t, "getattr", call[t].on)
  /\ UNCHANGED <<fs, fresh, server, calls, sent, History>>

\* The reply, if the file is still there to take attributes of.
WriteReply(t) ==
  LET id == Args(t).id
      there == IsFile(call[t].on) /\ id \in fs.node[call[t].on].data
  IN /\ At(t, "write", "getattr") /\ Replies(t)
     /\ promised' = IF there /\ Args(t).stable THEN promised \cup {id} ELSE promised
     /\ acked' = IF there /\ ~Args(t).stable THEN acked \cup {[id |-> id, server |-> server]} ELSE acked
     /\ UNCHANGED <<fs, saved, fresh, server, calls, sent, won>>

\* A flush of the whole volume, then the verifier: the client takes as stable
\* what was answered with the same one.
Commit(t) ==
  /\ At(t, "commit", "call") /\ Replies(t) /\ saved' = fs
  /\ promised' = promised \cup {a.id : a \in {b \in acked : b.server = server}}
  /\ UNCHANGED <<fs, fresh, server, calls, sent, acked, won>>
-------------------------------------------------------------------------------
\* The log reaches the store by itself.
Flush ==
  /\ saved # fs /\ saved' = fs
  /\ UNCHANGED <<fs, fresh, server, call, calls, sent, History>>

\* Mutant: the verifier is the pinned generation of the file handles.
NextInstance_Pinned(s) == s

\* FileHandleConverter: an instance has a verifier of its own.
NextInstance(s) == s + 1

\* After a crash the server is another instance; the handles stay good.
Crash ==
  /\ server < MaxCrashes /\ server' = NextInstance(server)
  /\ fs' = saved /\ call' = [t \in Threads |-> None]
  /\ calls < MaxCalls /\ calls' = calls + 1
  /\ UNCHANGED <<saved, fresh, sent, History>>

Step(t) ==
  \/ Refuse(t) \/ CreateLookup(t) \/ Create(t) \/ Truncate(t)
  \/ CreateExclusive(t) \/ StoreVerifier(t) \/ FindExisting(t) \/ CompareVerifier(t)
  \/ MakeNode(t) \/ RemoveLookup(t) \/ Remove(t) \/ Rename(t) \/ Link(t)
  \/ WriteCall(t) \/ Fsync(t) \/ WriteReply(t) \/ Commit(t)

Next == Flush \/ Crash \/ \E t \in Threads : Step(t) \/ \E args \in Procs : Arrive(t, args)

Spec == Init /\ [][Next]_vars
-------------------------------------------------------------------------------
(***************************************************************************)
(* What the client was told is stable survives a crash at any moment: a     *)
(* WRITE answered FILE_SYNC, and an UNSTABLE one after a COMMIT that was    *)
(* answered with the same write verifier, as long as nobody truncated or    *)
(* removed the file.                                                        *)
(***************************************************************************)
CommittedSurvives == promised \subseteq Holds(saved)

(***************************************************************************)
(* An EXCLUSIVE create is won once: all the calls that were answered with a *)
(* file carried the verifier of the one that made it.                       *)
(***************************************************************************)
ExclusiveOnce == \A v, w \in won : v.ino = w.ino => v.verf = w.verf
===============================================================================
