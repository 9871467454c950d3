------------------------------ MODULE MC_Daemon ------------------------------
(***************************************************************************)
(* ExportManager, VersionLease and CommandLine, with AdminApi, for TLC.     *)
(* They share no state: a behaviour is one of them, and part says which.    *)
(*                                                                          *)
(* Two exports, one of the configuration, of a filesystem that consumers    *)
(* use too, a block volume or a snapshot, on two addresses, with and        *)
(* without a certificate; three changes around the daemon at any moment.    *)
(* Three processes and an operator on a lease.  One to three admin requests *)
(* and commands, two at a time, from one of the menus, on two volumes,      *)
(* beside the retention loops.  Some properties are about liveness, so      *)
(* nothing is declared symmetric.                                           *)
(***************************************************************************)
EXTENDS VersionLease

CONSTANTS Parts,   \* a subset of {"exports", "lease", "admin"}
          N, Static, Backends, Kind, Consumed, Configs, MaxChanges,
          MaxReqs, MaxRunning, Volumes, Menus, MaxSize

VARIABLES part, want, active, suspended, busy, badCerts, changes, running, open, admin,
          registry, phase, at, desired, listed, todo,
          menu, made, req, writer, handle, records, lock, lease, cached, refresh, lagging, unread,
          acked, loop, sweep, cmd, size

xvars == <<want, active, suspended, busy, badCerts, changes, running, open, admin,
           registry, phase, at, desired, listed, todo>>
avars == <<menu, made, req, writer, handle, records, lock, lease, cached, refresh, lagging, unread,
           acked, loop, sweep, cmd, size>>
allvars == <<part, vars, xvars, avars>>

Manager == INSTANCE ExportManager
Cli == INSTANCE CommandLine

MCKind == [fs |-> "fs", blk |-> "block", snap |-> "view"]

Config(b, l, secured) == [backend |-> b, listen |-> l, tls |-> secured]
MCConfigs == {Config("fs", 1, FALSE), Config("fs", 2, TRUE), Config("blk", 2, FALSE), Config("snap", 1, TRUE)}

Exporting == part = "exports" /\ UNCHANGED <<part, vars, avars>>
Leasing == part = "lease" /\ UNCHANGED <<part, xvars, avars>>
Managing == part = "admin" /\ UNCHANGED <<part, vars, xvars>>

Commands ==
  {"Key_RotateKek", "Tenant_Create", "Tenant_Suspend", "Tenant_Resume", "Tenant_Delete",
   "Tenant_Rate", "Tenant_List", "Volume_Create", "Volume_Info", "Volume_List", "Volume_Fsck",
   "Volume_Scrub", "Volume_Resize", "Volume_Delete", "Quota_Show", "Quota_Set",
   "Versioning_Enable", "Versioning_Disable", "Versioning_Policy",
   "Versioning_ExportRepository", "Versioning_ImportRepository", "Versioning_Push",
   "Versioning_Pull", "Versioning_Status", "Versioning_Commit", "Versioning_Log",
   "Versioning_Inspect", "Versioning_Attest", "Versioning_Attestations",
   "Versioning_ExportAttestations", "Versioning_Diff", "Versioning_Tag", "Versioning_Tags",
   "Versioning_Untag", "Versioning_Branch", "Versioning_Branches", "Versioning_QuorumStatus",
   "Versioning_ProtectBranch", "Versioning_UnprotectBranch", "Versioning_Reflog",
   "Versioning_RecoverBranch", "Versioning_DeleteBranch", "Versioning_ResetBranch",
   "Versioning_Merge", "Versioning_MergePreview", "Versioning_CherryPick",
   "Versioning_CherryPickPreview", "Versioning_Show", "Versioning_RestorePreview",
   "Versioning_Restore", "Versioning_Retention", "Versioning_Stats", "Versioning_Verify",
   "Versioning_Gc", "Versioning_Unlock", "Versioning_Purge", "Snapshot_Create",
   "Snapshot_List", "Snapshot_Delete", "Snapshot_Retention", "Clone_Create", "Export_Add",
   "Export_List", "Export_Update", "Export_Remove", "Export_Enable", "Fleet_Node",
   "Fleet_Volume", "Fleet_Health"}

Menu(most, vols, calls, commands) ==
  [most |-> most, vols |-> vols, calls |-> calls, commands |-> commands]
Requests(most, calls) == Menu(most, 2, calls, {})
MCMenus ==
  {Menu(3, 1, {"stats", "patch_versioning"}, {}), Requests(2, {"stats", "patch_retention"}),
   Requests(2, {"quota", "snapshot_retention"}), Requests(2, {"create_export", "patch_export"}),
   Requests(2, {"delete_export", "create_export"}), Requests(2, {"commit", "protect", "overview"}),
   Requests(2, {"status", "unlock", "purge"}), Requests(2, {"import_bundle", "sync_state"}),
   Requests(2, {"sync_apply", "attest"}), Requests(2, {"restore", "delete_snapshot"}),
   Menu(2, 1, {"version retention", "gc"}, {}), Menu(2, 1, {"snapshot retention", "delete_snapshot"}, {}),
   Menu(1, 1, {}, Commands),
   Menu(2, 1, {"quota"}, {"Quota_Set", "Volume_Resize"}),
   Menu(2, 1, {"status", "commit"}, {"Versioning_Restore"}),
   Menu(2, 1, {"overview"}, {"Versioning_Commit", "Volume_Fsck"}),
   Menu(2, 1, {"stats"}, {"Versioning_Enable"}), Menu(2, 1, {"sync_export"}, {"Versioning_Pull"}),
   Menu(2, 1, {"protect"}, {"Versioning_ProtectBranch"}),
   Menu(2, 1, {"create_export"}, {"Export_Add", "Export_Update"})}

ApiInit ==
  IF part = "admin" THEN Cli!CommandInit
  ELSE /\ menu = None /\ made = None /\ req = None /\ writer = None /\ handle = None /\ records = None
       /\ lock = None /\ lease = None /\ cached = None /\ refresh = None /\ lagging = None
       /\ unread = None /\ acked = None /\ loop = None /\ sweep = None
       /\ cmd = None /\ size = None

DaemonInit ==
  /\ part \in Parts /\ Init /\ Manager!Init /\ ApiInit
  /\ ~want[1].tls /\ (part # "exports" => want[1].listen = 1)
  /\ part # "lease" => conditional

DaemonNext == (Exporting /\ Manager!Next) \/ (Leasing /\ Next) \/ (Managing /\ Cli!CommandNext)

DaemonSpec ==
  /\ DaemonInit /\ [][DaemonNext]_allvars
  /\ WF_allvars(Exporting /\ Manager!Pass)
  /\ WF_allvars(Leasing /\ ExpireUnrenewed)
  /\ \A p \in Procs : WF_allvars(Leasing /\ Close(p)) /\ WF_allvars(Leasing /\ Release(p))
-------------------------------------------------------------------------------
(***************************************************************************)
(* The manager's counts, addresses and registries agree (ExportManager).    *)
(***************************************************************************)
BooksAgree == part = "exports" => Manager!TypeOK /\ Manager!BooksAgree

(***************************************************************************)
(* Polling brings the listeners in line with the exports (ExportManager).   *)
(***************************************************************************)
ExportsConverge == part = "exports" => Manager!Converges

(***************************************************************************)
(* Once an export is gone nothing keeps its backend open (ExportManager).   *)
(***************************************************************************)
BackendsReleased == part = "exports" => Manager!BackendsReleased

(***************************************************************************)
(* An answer or exit of success has its audit record, and no edit it        *)
(* answers for is lost to a concurrent one (AdminApi, CommandLine).         *)
(***************************************************************************)
AnswersHold == part = "admin" => Cli!TypeOK /\ Cli!AnswersAudited /\ Cli!CommandsAudited /\ Cli!EditsKept

(***************************************************************************)
(* Requests use open repositories, every lease has its handle, and the      *)
(* first read after a policy change sees it (AdminApi).                     *)
(***************************************************************************)
RepositoriesShared == part = "admin" => Cli!HandlesAccounted /\ Cli!PolicyReachesReads

(***************************************************************************)
(* Commits and answers are of what the volume's writer read (AdminApi).     *)
(***************************************************************************)
ViewsCurrent == part = "admin" => Cli!ViewsCurrent

(***************************************************************************)
(* A record's size is one the superblock has reached (CommandLine).         *)
(***************************************************************************)
SizesFollow == part = "admin" => Cli!SizesFollow
===============================================================================
