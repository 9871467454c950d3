----------------------------- MODULE DirListing ------------------------------
(***************************************************************************)
(* A client lists a directory over several calls while others change it:    *)
(* the entry index of a directory and its cookies (slatefs-core/src/        *)
(* vfs_impl.rs readdir, insert_new_node, link, unlink, rename), the NFS     *)
(* iterator over its pages (slatefs-nfs/src/adapter.rs SlateDirIter), the   *)
(* READDIR and READDIRPLUS procedures (nfs3-server/src/nfs_handlers.rs) and *)
(* Treaddir (slatefs-9p/src/filesystem.rs rreaddir).                        *)
(*                                                                          *)
(* A cookie is the number of the entry in its directory (dirent_id).  1 and *)
(* 2 are kept for "." and "..", which only 9P lists.                        *)
(***************************************************************************)
EXTENDS Integers, Sequences, FiniteSets, FiniteSetsExt, SequencesExt

CONSTANTS Names,
          Inos,        \* files that ever stand in the directory
          Page,        \* entries the server reads at a time
          MaxChanges,  \* bound: changes to the directory
          None

VARIABLES ents,     \* the index: entries [id, name, ino]
          next,     \* next_dirent_id of the directory
          changes,  \* changes made: the directory's mtime
          list,     \* the client's listing
          call,     \* the call being served, or None
          steady    \* history: files in the directory ever since the listing began

vars == <<ents, next, changes, list, call, steady>>

Protocols == {"readdir", "readdirplus", "9p"}
FirstId == 3
Ids(s) == [i \in DOMAIN s |-> s[i].id]
Present == {e.ino : e \in ents}

Fresh(p) == [proto |-> p, cookie |-> 0, verf |-> None, got |-> <<>>, done |-> FALSE]

TypeOK ==
    /\ \A e \in ents : e.id \in FirstId .. (next - 1) /\ e.name \in Names /\ e.ino \in Inos
    /\ \A d, e \in ents : d.name = e.name \/ d.id = e.id => d = e
    /\ changes \in 0 .. MaxChanges
    /\ list.proto \in Protocols /\ list.cookie \in 0 .. next /\ list.done \in BOOLEAN
    /\ call = None \/ (call.cookie \in 0 .. next /\ call.eof \in BOOLEAN)
    /\ steady \subseteq Inos

Init ==
    /\ \E f \in Seq(Names \X Inos) \cap UNION {[1 .. n -> Names \X Inos] : n \in 1 .. 3} :
          /\ \A i, j \in DOMAIN f : i # j => f[i][1] # f[j][1] /\ f[i][2] # f[j][2]
          /\ ents = {[id |-> FirstId - 1 + i, name |-> f[i][1], ino |-> f[i][2]] : i \in DOMAIN f}
          /\ next = FirstId + Len(f)
    /\ changes = 0
    /\ list \in {Fresh(p) : p \in Protocols}
    /\ call = None
    /\ steady = Present

(***************************************************************************)
(* The directory changes: create and link, unlink, rename inside it.  Every *)
(* entry that is written gets a number of its own.                          *)
(***************************************************************************)
\* Mutant: the lowest number that is free is used again.
NewId_Reused(used) == Min({i \in FirstId .. next : \A e \in used : e.id # i})

NewId(used) == next

Changed(kept, n, i) ==
    LET id == NewId(kept)
    IN  /\ ents' = kept \cup {[id |-> id, name |-> n, ino |-> i]}
        /\ next' = IF id = next THEN next + 1 ELSE next

Alter ==
    /\ changes < MaxChanges /\ ~list.done
    /\ changes' = changes + 1
    /\ steady' = steady \cap {e.ino : e \in ents'}
    /\ UNCHANGED <<list, call>>

Create(n, i) ==
    /\ \A e \in ents : e.name # n
    /\ Changed(ents, n, i)
    /\ Alter

Unlink(e) ==
    /\ ents' = ents \ {e}
    /\ UNCHANGED next
    /\ Alter

Rename(e, n) ==
    /\ \A d \in ents : d.name = n => d.ino # e.ino
    /\ Changed({d \in ents \ {e} : d.name # n}, n, e.ino)
    /\ Alter

(***************************************************************************)
(* A call begins.  READDIR refuses a verifier that is not the directory's   *)
(* mtime and the client starts again; READDIRPLUS and Treaddir take any     *)
(* cookie.  Treaddir first answers what is left of "." and "..".            *)
(***************************************************************************)
Dots(c) == [i \in 1 .. (2 - c) |-> [id |-> c + i, name |-> None, ino |-> None]]

Serving(out) ==
    call' = [cookie |-> list.cookie, buffer |-> <<>>, eof |-> FALSE, out |-> out]

Begin ==
    /\ call = None /\ ~list.done
    /\ ~(list.proto = "readdir" /\ list.verf # None /\ list.verf # changes)
    /\ list' = [list EXCEPT !.verf = changes]
    /\ IF list.proto = "9p" /\ list.cookie < 2 THEN Serving(Dots(list.cookie)) ELSE Serving(<<>>)
    /\ UNCHANGED <<ents, next, changes, steady>>

BadCookie ==
    /\ call = None /\ ~list.done
    /\ list.proto = "readdir" /\ list.verf # None /\ list.verf # changes
    /\ list' = Fresh("readdir")
    /\ steady' = Present
    /\ UNCHANGED <<ents, next, changes, call>>

(***************************************************************************)
(* Vfs::readdir: the entries after the cookie, in the order of their        *)
(* numbers, at most a page of them, and whether that was all.               *)
(***************************************************************************)
After(c) == SetToSortSeq({e \in ents : e.id > c}, LAMBDA d, e : d.id < e.id)

ReadPage ==
    /\ call # None /\ call.buffer = <<>> /\ ~call.eof
    /\ LET rest == After(call.cookie)
           n == IF Len(rest) < Page THEN Len(rest) ELSE Page
       IN  call' = [call EXCEPT !.buffer = SubSeq(rest, 1, n), !.eof = Len(rest) <= Page]
    /\ UNCHANGED <<ents, next, changes, list, steady>>

(***************************************************************************)
(* The next entry of the page.  The NFS iterator skips a file that is gone  *)
(* (getattr answers Stale); Treaddir does not look.  An entry that does not *)
(* fit ends the reply; the first one fits, or the call is made again with   *)
(* more room.                                                               *)
(***************************************************************************)
Push ==
    /\ call # None /\ call.buffer # <<>>
    /\ LET e == Head(call.buffer)
       IN  call' = [call EXCEPT
              !.buffer = Tail(@), !.cookie = e.id,
              !.out = IF list.proto = "9p" \/ e.ino \in Present THEN Append(@, e) ELSE @]
    /\ UNCHANGED <<ents, next, changes, list, steady>>

(***************************************************************************)
(* The reply.  The client goes on after the last entry it was given, until  *)
(* NFS says eof or 9P answers nothing.                                      *)
(***************************************************************************)
Answered(eof) ==
    /\ call' = None
    /\ list' = [list EXCEPT
          !.got = @ \o call.out,
          !.cookie = IF call.out = <<>> THEN @ ELSE Last(call.out).id,
          !.done = IF list.proto = "9p" THEN call.out = <<>> ELSE eof]
    /\ UNCHANGED <<ents, next, changes, steady>>

Truncated == call # None /\ call.out # <<>> /\ call.buffer # <<>> /\ Answered(FALSE)

\* "." fits and ".." does not.
TruncatedDot ==
    /\ call # None /\ Len(call.out) = 2 /\ call.out[1].id = 1 /\ call.cookie = 0
    /\ call' = None
    /\ list' = [list EXCEPT !.got = Append(@, call.out[1]), !.cookie = 1]
    /\ UNCHANGED <<ents, next, changes, steady>>

Ended == call # None /\ call.buffer = <<>> /\ call.eof /\ Answered(TRUE)

Next ==
    \/ \E n \in Names, i \in Inos : Create(n, i)
    \/ \E e \in ents : Unlink(e) \/ \E n \in Names : Rename(e, n)
    \/ Begin \/ BadCookie \/ ReadPage \/ Push \/ Truncated \/ TruncatedDot \/ Ended

Spec == Init /\ [][Next]_vars

(***************************************************************************)
(* readdir and the iterators over it: a listing shows every file that was   *)
(* in the directory from its first call to its last, even one renamed       *)
(* meanwhile, and shows no entry twice.                                     *)
(***************************************************************************)
ListingFaithful ==
    /\ \A i, j \in DOMAIN list.got : i < j => list.got[i].id < list.got[j].id
    /\ list.done => steady \subseteq {list.got[i].ino : i \in DOMAIN list.got}
    /\ list.done /\ list.proto = "9p" => Ids(SubSeq(list.got, 1, 2)) = <<1, 2>>
=============================================================================
