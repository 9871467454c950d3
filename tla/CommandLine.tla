----------------------------- MODULE CommandLine -----------------------------
(***************************************************************************)
(* The slatefs command (slatefs-cli/src/main.rs) beside the daemon's admin  *)
(* API.  Every command but the key and bundle tools opens the control       *)
(* database as a writer before it does anything, whether it then works      *)
(* offline, on the databases themselves, or asks the daemon (--live), and   *)
(* so fences the writer before it.  An offline command takes no version     *)
(* lock and evicts no cached repository: it meets the daemon in the         *)
(* maintenance lease, in the fencing of the control database, and in that   *)
(* of the volume when it opens it, as fsck, status, commit, restore and     *)
(* resize do.                                                               *)
(*                                                                          *)
(* A command is the set of the programs its flags choose from, each a       *)
(* sequence of steps as in AdminApi.  resize_block_volume is modelled with  *)
(* the sizes it leaves in the superblock and in the control record.         *)
(***************************************************************************)
EXTENDS AdminApi

CONSTANT MaxSize   \* sizes of a block volume are 1 .. MaxSize

VARIABLES cmd,     \* per request: None, or what a command keeps of a block volume
          size     \* per volume, the size its superblock and its record say

cvars == <<cmd, size, vars>>
-------------------------------------------------------------------------------
\* main: the database is opened first and closed last.
Command(on, steps) == [on |-> on, steps |-> <<"control">> \o steps \o <<"exit">>]
Offline(steps) == Command(None, steps)
OverHistory(steps) == Offline(<<"open">> \o steps \o <<"close">>)
Reads == OverHistory(<<"read">>)
Changes == Offline(<<"open", "apply", "close", "audit">>)
Edits == Offline(<<"edit">>)
Lists == Offline(<<"read">>)
\* The volume is opened after the repository, and closed before it.
OverVolume(steps, last) == Offline(<<"open", "mount">> \o steps \o <<"unmount", "close">> \o last)

\* Between open and close, something whose error drops the repository.
Prepares(step, last) == Offline(<<"open", "policy", step, "close">> \o last)

\* --live: live_versioning_json and its like wait for the daemon's answers.
Asks(requests) ==
  LET answered(h) == Route(h).steps \o <<"reply">>
      all == IF Len(requests) = 1 THEN answered(requests[1])
             ELSE answered(requests[1]) \o answered(requests[2]) IN
  Command(Route(requests[Len(requests)]).on, all)

Either(offline, h) == {offline, Asks(<<h>>)}

\* What the command checks on its own side first: --yes, its flags, a file.
Checked(programs) == {[p EXCEPT !.steps = <<"control", "check">> \o Tail(@)] : p \in programs}

Key_RotateKek == {Edits}
Tenant_Create == {Edits}
Tenant_Suspend == {Edits}
Tenant_Resume == {Edits}
Tenant_Delete == Checked({Edits})
Tenant_Rate == {Lists, Command("rate", <<"check", "get", "check", "set">>)}
Tenant_List == {Lists}
Volume_Create == Checked({Offline(<<"edit", "apply", "edit", "edit">>)})
Volume_Info == {Lists}
Volume_List == {Lists}
Volume_Fsck == {Offline(<<"read", "mount", s, "unmount", "check">>) : s \in {"read", "write"}}
Volume_Scrub == {Offline(<<"read", "check">>)}

\* Mutant: the record is put before the superblock.
Volume_Resize_RecordFirst ==
  {Command("quota", <<"volume", "mount", "superblock", "record", "write superblock", "unmount">>)}

Volume_Resize ==
  {Command("quota", <<"volume", "mount", "superblock", "write superblock", "record", "unmount">>)}

Volume_Delete == Checked({Edits})
Quota_Show == {Offline(<<"read", "read", "check">>)}
Quota_Set == Checked({Command("quota", <<"get", "check", "set">>)})

Versioning_Enable == Either(Command("enabled", <<"put">>), "patch_versioning")
Versioning_Disable == Either(Command("enabled", <<"put">>), "patch_versioning")
Versioning_Policy == Either(Lists, "versioning")
Versioning_ExportRepository == Either(Offline(<<"open", "read", "close", "check", "audit">>), "export_bundle")
Versioning_ImportRepository == Checked(Either(Offline(<<"ingest", "audit", "check">>), "import_bundle"))
Versioning_Push == {Offline(<<"remote", "open", "read", "close", "audit", "remote">>)}
Versioning_Pull ==
  {Offline(<<"remote", "existing", "read", "state", "close", "remote", "ingest", "audit">>)}
Versioning_Status == Either(OverVolume(<<"view">>, <<>>), "status")
Versioning_Commit == Either(OverVolume(<<"lease", "view", "lease", "apply">>, <<"audit">>), "commit")
Versioning_Log == Either(Reads, "commits")
Versioning_Inspect == Either(Reads, "inspect")
Versioning_Attest == Checked({Changes, Asks(<<"inspect", "attest">>)})
Versioning_Attestations == Checked({Reads, Asks(<<"inspect", "attestations">>)})
Versioning_ExportAttestations == {Offline(<<"open", "read", "close", "check">>), Asks(<<"inspect", "attestations">>)}
Versioning_Diff == Either(Reads, "diff")
Versioning_Tag == Either(Changes, "tag")
Versioning_Tags == Either(Reads, "tags")
Versioning_Untag == Either(Changes, "untag")
Versioning_Branch == Either(Changes, "branch")
Versioning_Branches == Either(Reads, "branches")
Versioning_QuorumStatus == {Offline(<<"open", "read", "close", "check">>), Asks(<<"quorum">>)}
Versioning_ProtectBranch == Either(Prepares("apply", <<"audit">>), "protect")
Versioning_UnprotectBranch == Checked(Either(Changes, "protect"))
Versioning_Reflog == Either(Reads, "reflog")
Versioning_RecoverBranch == Checked(Either(Changes, "recover"))
Versioning_DeleteBranch == Either(Changes, "delete_branch")
Versioning_ResetBranch == Checked(Either(Changes, "reset"))
Versioning_Merge == Either(Prepares("apply", <<"audit">>), "merge")
Versioning_MergePreview == Either(Reads, "merge_preview")
Versioning_CherryPick == Either(Prepares("apply", <<"audit">>), "cherry_pick")
Versioning_CherryPickPreview == Either(Reads, "cherry_pick_preview")
Versioning_Show == Either(Prepares("read", <<>>), "content")
Versioning_RestorePreview == Either(OverVolume(<<"view">>, <<>>), "restore_preview")
Versioning_Restore == Checked(Either(OverVolume(<<"write">>, <<"audit">>), "restore"))
Versioning_Retention ==
  Checked({Lists, Asks(<<"retention">>), Asks(<<"patch_retention">>)}
          \cup {Command("retention", edit \o <<"read", "existing", "apply", "close", "audit">>)
                 : edit \in {<<"get", "set">>, <<"clear">>}})
Versioning_Stats == Either(Reads, "stats")
Versioning_Verify == Either(Reads, "verify")
Versioning_Gc == {Offline(<<"read", "open", "read", "close">>), Offline(<<"read", "open", "apply", "close", "audit">>), Asks(<<"gc">>)}
Versioning_Unlock == Checked(Either(Offline(<<"break", "audit">>), "unlock"))
Versioning_Purge == Checked(Either(Offline(<<"ingest", "audit">>), "purge"))

Snapshot_Create == {Offline(<<"read", "mount", "write", "unmount", "read">>), Offline(Route("snapshot").steps \o <<"reply", "read">>)}
Snapshot_List == {Lists}
Snapshot_Delete == {Offline(<<"read", "apply">>)}
Snapshot_Retention == {Lists} \cup Checked({Command("snapshots", <<edit>>) : edit \in {"put", "clear"}})
Clone_Create == {Offline(<<"edit", "apply", "edit">>)}
Export_Add == {Command("export", <<"resolve", "free", "set">>)}
Export_List == {Lists}
Export_Update == {Command("export", <<"get", "resolve", "set">>)}
Export_Remove == {Command("export", <<"remove">>)}
Export_Enable == {Command("export", <<"get", "set">>)}
Fleet_Node == {Edits, Lists}
Fleet_Volume == {Edits, Lists}
Fleet_Health == {Edits}

\* run: the command the arguments name.
Versioning(c) ==
  CASE c = "Versioning_Enable" -> Versioning_Enable
    [] c = "Versioning_Disable" -> Versioning_Disable
    [] c = "Versioning_Policy" -> Versioning_Policy
    [] c = "Versioning_ExportRepository" -> Versioning_ExportRepository
    [] c = "Versioning_ImportRepository" -> Versioning_ImportRepository
    [] c = "Versioning_Push" -> Versioning_Push [] c = "Versioning_Pull" -> Versioning_Pull
    [] c = "Versioning_Status" -> Versioning_Status
    [] c = "Versioning_Commit" -> Versioning_Commit [] c = "Versioning_Log" -> Versioning_Log
    [] c = "Versioning_Inspect" -> Versioning_Inspect
    [] c = "Versioning_Attest" -> Versioning_Attest
    [] c = "Versioning_Attestations" -> Versioning_Attestations
    [] c = "Versioning_ExportAttestations" -> Versioning_ExportAttestations
    [] c = "Versioning_Diff" -> Versioning_Diff [] c = "Versioning_Tag" -> Versioning_Tag
    [] c = "Versioning_Tags" -> Versioning_Tags [] c = "Versioning_Untag" -> Versioning_Untag
    [] c = "Versioning_Branch" -> Versioning_Branch
    [] c = "Versioning_Branches" -> Versioning_Branches
    [] c = "Versioning_QuorumStatus" -> Versioning_QuorumStatus
    [] c = "Versioning_ProtectBranch" -> Versioning_ProtectBranch
    [] c = "Versioning_UnprotectBranch" -> Versioning_UnprotectBranch
    [] c = "Versioning_Reflog" -> Versioning_Reflog
    [] c = "Versioning_RecoverBranch" -> Versioning_RecoverBranch
    [] c = "Versioning_DeleteBranch" -> Versioning_DeleteBranch
    [] c = "Versioning_ResetBranch" -> Versioning_ResetBranch
    [] c = "Versioning_Merge" -> Versioning_Merge
    [] c = "Versioning_MergePreview" -> Versioning_MergePreview
    [] c = "Versioning_CherryPick" -> Versioning_CherryPick
    [] c = "Versioning_CherryPickPreview" -> Versioning_CherryPickPreview
    [] c = "Versioning_Show" -> Versioning_Show
    [] c = "Versioning_RestorePreview" -> Versioning_RestorePreview
    [] c = "Versioning_Restore" -> Versioning_Restore
    [] c = "Versioning_Retention" -> Versioning_Retention
    [] c = "Versioning_Stats" -> Versioning_Stats [] c = "Versioning_Verify" -> Versioning_Verify
    [] c = "Versioning_Gc" -> Versioning_Gc [] c = "Versioning_Unlock" -> Versioning_Unlock
    [] c = "Versioning_Purge" -> Versioning_Purge

Programs(c) ==
  CASE c = "Key_RotateKek" -> Key_RotateKek [] c = "Tenant_Create" -> Tenant_Create
    [] c = "Tenant_Suspend" -> Tenant_Suspend [] c = "Tenant_Resume" -> Tenant_Resume
    [] c = "Tenant_Delete" -> Tenant_Delete [] c = "Tenant_Rate" -> Tenant_Rate
    [] c = "Tenant_List" -> Tenant_List [] c = "Volume_Create" -> Volume_Create
    [] c = "Volume_Info" -> Volume_Info [] c = "Volume_List" -> Volume_List
    [] c = "Volume_Fsck" -> Volume_Fsck [] c = "Volume_Scrub" -> Volume_Scrub
    [] c = "Volume_Resize" -> Volume_Resize [] c = "Volume_Delete" -> Volume_Delete
    [] c = "Quota_Show" -> Quota_Show [] c = "Quota_Set" -> Quota_Set
    [] c = "Snapshot_Create" -> Snapshot_Create [] c = "Snapshot_List" -> Snapshot_List
    [] c = "Snapshot_Delete" -> Snapshot_Delete [] c = "Snapshot_Retention" -> Snapshot_Retention
    [] c = "Clone_Create" -> Clone_Create [] c = "Export_Add" -> Export_Add
    [] c = "Export_List" -> Export_List [] c = "Export_Update" -> Export_Update
    [] c = "Export_Remove" -> Export_Remove [] c = "Export_Enable" -> Export_Enable
    [] c = "Fleet_Node" -> Fleet_Node [] c = "Fleet_Volume" -> Fleet_Volume
    [] c = "Fleet_Health" -> Fleet_Health
    [] OTHER -> Versioning(c)
-------------------------------------------------------------------------------
Commanded(r) == Running(r) /\ cmd[r] # None
Rest == <<cmd, size>>
Sizes == 1 .. MaxSize
Block(n) == [superblock |-> n, record |-> n]

\* A process of its own for every command.
Invoke(r, c, v) ==
  /\ \E p \in Programs(c) : Begin(r, p, v)
  /\ \E n \in IF c = "Volume_Resize" THEN Sizes ELSE {MaxSize} :
       cmd' = [cmd EXCEPT ![r] = [to |-> n, record |-> n, superblock |-> n]]
  /\ UNCHANGED size

\* The command's own checks, and the answers of a remote daemon.
Check(r) ==
  /\ At(r, "check") \/ At(r, "remote")
  /\ Proceed(r) \/ Fail(r)
  /\ UNCHANGED <<Others, Shares, Rest>>

\* Tenants, volumes, keys and placements in the control database.
EditRecord(r) ==
  /\ At(r, "edit")
  /\ (MayWrite(r) /\ Progress(r, Did(r))) \/ Fail(r)
  /\ UNCHANGED <<Others, Shares, Rest>>

Opened(r) == [handle EXCEPT ![Vol(r)] = r]

\* get_mountable_volume, unwrap_volume_dek, Volume::open as a writer, and a
\* commit's provenance: an error drops the repository, and the volume, unclosed.
Mount(r) ==
  /\ At(r, "mount")
  /\ \/ Progress(r, [req[r] EXCEPT !.target = r]) /\ handle' = Opened(r) /\ UNCHANGED lease
     \/ /\ req' = [req EXCEPT ![r] = Failed([@ EXCEPT !.repo = FALSE])]
        /\ handle' \in {handle, Opened(r)}
        /\ lease' = [lease EXCEPT ![Vol(r)] = IF @ = r THEN Dropped ELSE @]
  /\ UNCHANGED <<menu, made, loop, sweep, writer, records, lock, cached, refresh, lagging, unread, acked, Rest>>

Unmount(r) ==
  /\ At(r, "unmount")
  /\ Proceed(r) \/ Fail(r)
  /\ UNCHANGED <<Others, Shares, Rest>>

\* The daemon's handler has returned.
Reply(r) ==
  /\ At(r, "reply") /\ Answered(r)
  /\ req' = [req EXCEPT ![r].todo = IF req[r].ok THEN Tail(@) ELSE <<>>]
  /\ UNCHANGED Rest

\* control.close, which may fail; then the process ends.
Exit(r) ==
  /\ At(r, "exit")
  /\ req' = [req EXCEPT ![r] = None]
  /\ acked' \in {acked, IF req[r].edited THEN [acked EXCEPT ![Key(r)] = @ \cup {r}] ELSE acked}
  /\ UNCHANGED <<Others, writer, records, lock, lease, cached, refresh, lagging, unread, Rest>>

\* An offline command is killed; a lease it held is left to expire.
Kill(r) ==
  /\ Commanded(r) /\ \A i \in DOMAIN req[r].todo : req[r].todo[i] # "reply"
  /\ req' = [req EXCEPT ![r] = None]
  /\ lease' = [lease EXCEPT ![Vol(r)] = IF @ = r THEN Dropped ELSE @]
  /\ UNCHANGED <<Others, writer, records, lock, cached, refresh, lagging, unread, acked, Rest>>

LeaseExpires(v) ==
  /\ lease[v] = Dropped /\ lease' = [lease EXCEPT ![v] = Departed]
  /\ UNCHANGED <<Others, req, writer, records, lock, cached, refresh, lagging, unread, acked, Rest>>
-------------------------------------------------------------------------------
\* resize_block_volume: the record as it is, once it is seen to be that of an
\* active block volume.
GetVolume(r) ==
  /\ At(r, "volume")
  /\ \/ Progress(r, [req[r] EXCEPT !.base = records[Key(r)]])
        /\ cmd' = [cmd EXCEPT ![r].record = size[Vol(r)].record]
     \/ Fail(r) /\ UNCHANGED cmd
  /\ UNCHANGED <<Others, Shares, size>>

\* The size in the superblock; through a fenced handle, perhaps an older one.
ReadSuperblock(r) ==
  LET now == size[Vol(r)].superblock IN
  /\ At(r, "superblock")
  /\ \E n \in IF Owned(r) THEN {now} ELSE 1 .. now :
       IF cmd[r].to < n THEN Fail(r) /\ UNCHANGED cmd
       ELSE Proceed(r) /\ cmd' = [cmd EXCEPT ![r].superblock = n]
  /\ UNCHANGED <<Others, Shares, size>>

\* put and flush, when the size changes.
WriteSuperblock(r) ==
  /\ At(r, "write superblock")
  /\ \/ cmd[r].to = cmd[r].superblock /\ Proceed(r) /\ UNCHANGED size
     \/ /\ cmd[r].to # cmd[r].superblock /\ Owned(r) /\ Proceed(r)
        /\ size' = [size EXCEPT ![Vol(r)].superblock = cmd[r].to]
     \/ cmd[r].to # cmd[r].superblock /\ Fail(r) /\ UNCHANGED size
  /\ UNCHANGED <<Others, Shares, cmd>>

\* put_volume, with everything else as it was read, unless both sizes are right.
PutRecord(r) ==
  /\ At(r, "record")
  /\ IF {cmd[r].record, cmd[r].superblock} = {cmd[r].to} THEN Proceed(r) /\ UNCHANGED <<records, size>>
     ELSE IF MayWrite(r)
     THEN /\ records' = [records EXCEPT ![Key(r)] = req[r].base \cup {r}]
          /\ size' = [size EXCEPT ![Vol(r)].record = cmd[r].to]
          /\ Progress(r, [req[r] EXCEPT !.did = TRUE, !.edited = TRUE])
     ELSE Fail(r) /\ UNCHANGED <<records, size>>
  /\ UNCHANGED <<Others, writer, lock, lease, cached, refresh, lagging, unread, acked, cmd>>
-------------------------------------------------------------------------------
CommandInit ==
  /\ Init /\ cmd = [r \in Reqs |-> None] /\ size = [v \in Volumes |-> Block(1)]

Perform(r) ==
  \/ Check(r) \/ EditRecord(r) \/ Mount(r) \/ Unmount(r) \/ Reply(r) \/ Exit(r) \/ Kill(r)
  \/ GetVolume(r) \/ ReadSuperblock(r) \/ WriteSuperblock(r) \/ PutRecord(r)

CommandNext ==
  \/ Next /\ UNCHANGED Rest
  \/ \E r \in Reqs, c \in menu.commands, v \in Volumes : Invoke(r, c, v)
  \/ \E r \in Reqs : Perform(r)
  \/ \E v \in Volumes : LeaseExpires(v)

CommandSpec == CommandInit /\ [][CommandNext]_cvars
-------------------------------------------------------------------------------
(***************************************************************************)
(* A command that is about to exit with success has recorded what it had to *)
(* record, though it opened the control database first and used it last.    *)
(***************************************************************************)
CommandsAudited == \A r \in Reqs : At(r, "exit") /\ req[r].audits => req[r].note = "success"

(***************************************************************************)
(* The control record never says a size the superblock has not reached,     *)
(* however many resizes interleave, fence each other or are killed between  *)
(* the two writes: the superblock is the one to be believed, and a resize   *)
(* run again repairs the record.                                            *)
(***************************************************************************)
SizesFollow == \A v \in Volumes : size[v].record <= size[v].superblock
===============================================================================
