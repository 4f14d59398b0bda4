----------------------------- MODULE ZCommands -----------------------------
(***************************************************************************)
(* pkg/zcmd: the fluent builders through which the pool manager runs every *)
(* zpool and zfs command.  A caller takes a blank object (New), fills it   *)
(* with With calls in any order, more than once if it likes, and has the   *)
(* command built, possibly several times with changes in between.  What    *)
(* matters is that the command, as the shell splits it and as zpool or zfs *)
(* reads it, asks for what the object says.                                *)
(*                                                                         *)
(* Validate runs the checks a caller registered and wraps the error nil    *)
(* when one fails, which is nil again: Build never refuses, and no caller  *)
(* registers a check.  Executing the command is PoolInstance's and         *)
(* VolumeReplica's business.                                               *)
(***************************************************************************)
EXTENDS ZpoolCommands, ZfsCommands

CONSTANTS
  Command,        \* the commands some caller builds
  MaxList,        \* the longest list a caller fills
  AllSettings     \* callers use the settings no caller of the repository uses

VARIABLES
  cmd,            \* the builder in use, "" for none
  obj,            \* its object
  line            \* the command last built from the object as it is, or <<>>

vars == <<cmd, obj, line>>

\* Elements of a list are told apart by their place.
Ordinal == <<"1", "2", "3", "4">>

New(c) ==
  CASE c = "zpool create" -> NewPoolCreate
    [] c = "zpool add" -> NewPoolExpansion
    [] c = "zpool import" -> NewPoolImport
    [] c = "zpool replace" -> NewPoolDiskReplace
    [] c = "zpool attach" -> NewPoolAttach
    [] c = "zpool get" -> NewPoolGProperty
    [] c = "zpool set" -> NewPoolSProperty
    [] c = "zpool destroy" -> NewPoolDestroy
    [] c = "zpool labelclear" -> NewPoolLabelClear
    [] c = "zpool export" -> NewPoolExport
    [] c = "zpool offline" -> NewPoolOffline
    [] c = "zpool online" -> NewPoolOnline
    [] c = "zpool remove" -> NewPoolRemove
    [] c = "zpool clear" -> NewPoolClear
    [] c = "zpool detach" -> NewPoolDetach
    [] c = "zpool dump" -> NewPoolDump
    [] c = "zpool status" -> NewPoolStatus
    [] c = "zfs clone" -> NewVolumeClone
    [] c = "zfs create" -> NewVolumeCreate
    [] c = "zfs destroy" -> NewVolumeDestroy
    [] c = "zfs get" -> NewVolumeGetProperty
    [] c = "zfs list" -> NewVolumeList
    [] c = "zfs listsnap" -> NewVolumeListSnapshot
    [] c = "zfs rename" -> NewVolumeRename
    [] c = "zfs rollback" -> NewVolumeRollback
    [] c = "zfs send" -> NewVolumeSnapshotSend
    [] c = "zfs set" -> NewVolumeSetProperty
    [] c = "zfs snapshot" -> NewVolumeSnapshot
    [] c = "zfs stats" -> NewVolumeStats

Built(c, o) ==
  CASE c = "zpool create" -> PoolCreate(o)
    [] c = "zpool add" -> PoolExpansion(o)
    [] c = "zpool import" -> PoolImport(o)
    [] c = "zpool replace" -> PoolDiskReplace(o)
    [] c = "zpool attach" -> PoolAttach(o)
    [] c = "zpool get" -> PoolGProperty(o)
    [] c = "zpool set" -> PoolSProperty(o)
    [] c = "zpool destroy" -> PoolDestroy(o)
    [] c = "zpool labelclear" -> PoolLabelClear(o)
    [] c = "zpool export" -> PoolExport(o)
    [] c = "zpool offline" -> PoolOffline(o)
    [] c = "zpool online" -> PoolOnline(o)
    [] c = "zpool remove" -> PoolRemove(o)
    [] c = "zpool clear" -> PoolClear(o)
    [] c = "zpool detach" -> PoolDetach(o)
    [] c = "zpool dump" -> PoolDump(o)
    [] c = "zpool status" -> PoolStatus(o)
    [] c = "zfs clone" -> VolumeClone(o)
    [] c = "zfs create" -> VolumeCreate(o)
    [] c = "zfs destroy" -> VolumeDestroy(o)
    [] c = "zfs get" -> VolumeGetProperty(o)
    [] c = "zfs list" -> VolumeList(o)
    [] c = "zfs listsnap" -> VolumeListSnapshot(o)
    [] c = "zfs rename" -> VolumeRename(o)
    [] c = "zfs rollback" -> VolumeRollback(o)
    [] c = "zfs send" -> VolumeSnapshotSend(o)
    [] c = "zfs set" -> VolumeSetProperty(o)
    [] c = "zfs snapshot" -> VolumeSnapshot(o)
    [] c = "zfs stats" -> VolumeStats(o)

Meant(c, o) ==
  CASE c = "zpool create" -> MeantPoolCreate(o)
    [] c = "zpool add" -> MeantPoolExpansion(o)
    [] c = "zpool import" -> MeantPoolImport(o)
    [] c = "zpool replace" -> MeantPoolDiskReplace(o)
    [] c = "zpool attach" -> MeantPoolAttach(o)
    [] c = "zpool get" -> MeantPoolGProperty(o)
    [] c = "zpool set" -> MeantPoolSProperty(o)
    [] c = "zpool destroy" -> MeantPoolDestroy(o)
    [] c = "zpool labelclear" -> MeantPoolLabelClear(o)
    [] c = "zpool export" -> MeantPoolExport(o)
    [] c = "zpool offline" -> MeantPoolOffline(o)
    [] c = "zpool online" -> MeantPoolOnline(o)
    [] c = "zpool remove" -> MeantPoolRemove(o)
    [] c = "zpool clear" -> MeantPoolClear(o)
    [] c = "zpool detach" -> MeantPoolDetach(o)
    [] c = "zpool dump" -> MeantPoolDump(o)
    [] c = "zpool status" -> MeantPoolStatus(o)
    [] c = "zfs clone" -> MeantVolumeClone(o)
    [] c = "zfs create" -> MeantVolumeCreate(o)
    [] c = "zfs destroy" -> MeantVolumeDestroy(o)
    [] c = "zfs get" -> MeantVolumeGetProperty(o)
    [] c = "zfs list" -> MeantVolumeList(o)
    [] c = "zfs listsnap" -> MeantVolumeListSnapshot(o)
    [] c = "zfs rename" -> MeantVolumeRename(o)
    [] c = "zfs rollback" -> MeantVolumeRollback(o)
    [] c = "zfs send" -> MeantVolumeSnapshotSend(o)
    [] c = "zfs set" -> MeantVolumeSetProperty(o)
    [] c = "zfs snapshot" -> MeantVolumeSnapshot(o)
    [] c = "zfs stats" -> MeantVolumeStats(o)

\* Settings that Build forgets, or sets badly: a clone's and a new volume's missing
\* parents, a clone's properties, a dry run (no space follows " -n"; a send has
\* none at all), the " p" of a rename, and the rest of these, never looked at.
Unheard(c) ==
  CASE c = "zfs clone" -> {"CreateParent", "Property"}
    [] c = "zfs create" -> {"CreateParent"}
    [] c = "zfs destroy" -> {"DryRun"}
    [] c = "zfs rename" -> {"CreateParent", "ForceUnmount"}
    [] c = "zfs send" -> {"DryRun", "EnableCompression"}
    [] c = "zpool export" -> {"AllPool"}
    [] c = "zpool offline" -> {"ForceOffline"}
    [] OTHER -> {}

Used(fields) == {f \in fields : AllSettings \/ f \notin Unheard(cmd)}

-----------------------------------------------------------------------------

Init == cmd = "" /\ obj = <<>> /\ line = <<>>

NewCommand ==
  /\ cmd = ""
  /\ \E c \in Command : cmd' = c /\ obj' = New(c)
  /\ UNCHANGED line

\* WithForcefully, WithRecursive, ...
WithSwitch ==
  /\ cmd # ""
  /\ \E f \in Used(DOMAIN obj.on), b \in BOOLEAN : obj' = [obj EXCEPT !.on[f] = b]
  /\ line' = <<>>
  /\ UNCHANGED cmd

\* WithPool, WithType, ...: a field may also be given the empty string, which is
\* what it had.
WithName ==
  /\ cmd # ""
  /\ \E f \in DOMAIN obj.name :
       \E text \in {<<>>, <<f>>} \cup (IF f = "Type" THEN {<<"stripe">>} ELSE {}) :
         obj' = [obj EXCEPT !.name[f] = text]
  /\ line' = <<>>
  /\ UNCHANGED cmd

\* WithProperty, WithVdev, WithVdevList, ...: each appends.  The directory that a
\* pool on real devices is looked for in is the empty string.
WithElement ==
  /\ cmd # ""
  /\ \E f \in Used(DOMAIN obj.list) :
       /\ Len(obj.list[f]) < MaxList
       /\ \E text \in {<<f, Ordinal[Len(obj.list[f]) + 1]>>}
                        \cup (IF f = "Directorylist" THEN {<<>>} ELSE {}) :
            obj' = [obj EXCEPT !.list[f] = Append(@, text)]
  /\ line' = <<>>
  /\ UNCHANGED cmd

\* Build starts from an empty strings.Builder every time.
Build ==
  /\ cmd # "" /\ line = <<>>
  /\ line' = Built(cmd, obj)
  /\ UNCHANGED <<cmd, obj>>

Next == NewCommand \/ WithSwitch \/ WithName \/ WithElement \/ Build

Spec == Init /\ [][Next]_vars

-----------------------------------------------------------------------------
(* Names and lists a caller may leave out; the others make the command what *)
(* it is, and every caller in the repository sets them.                     *)
Optional ==
  {"Type", "DeviceType", "Cachefile", "NewPool", "BlockSize", "LastSnapshot"}
    \cup (CASE cmd \in {"zpool import", "zpool get"} -> {"Pool"}
            [] cmd \in {"zfs get", "zfs set"} -> {"Snapshot"}
            [] cmd \in {"zfs list", "zfs stats"} -> {"Dataset"}
            [] OTHER -> {})

Complete ==
  /\ \A f \in DOMAIN obj.name \ Optional : obj.name[f] # <<>>
  /\ cmd \in {"zpool get", "zfs get"} =>
       \E f \in {"PropList", "Proplist"} \cap DOMAIN obj.list : obj.list[f] # <<>>

\* A command built from a complete object (Build, through appendCommand and the
\* format strings of each builder) is read by the shell and by zpool or zfs as
\* exactly what the object asks for: every flag, every option with its values in
\* order, every operand in its place, no word run into the next.
ReadAsMeant == line # <<>> /\ Complete => Read(line) = Meant(cmd, obj)

=============================================================================
