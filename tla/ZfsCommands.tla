---------------------------- MODULE ZfsCommands ----------------------------
(***************************************************************************)
(* The zfs builders of pkg/zcmd/zfs, laid out as in ZpoolCommands.         *)
(***************************************************************************)
EXTENDS CommandLine

At(dataset, snapshot) == dataset \o <<"@">> \o snapshot

NewVolumeClone ==
  Blank({"CreateParent"}, {"Snapshot", "TargetDataset", "SourceDataset"}, {"Property"})

VolumeClone(o) ==
  Start("zfs", "clone") \o At(o.name.SourceDataset, o.name.Snapshot) \o <<SP>>
    \o o.name.TargetDataset

MeantVolumeClone(o) ==
  Told("zfs", "clone", When(o.on.CreateParent, "-p"), "-o" :> o.list.Property,
       <<At(o.name.SourceDataset, o.name.Snapshot), o.name.TargetDataset>>)

NewVolumeCreate ==
  Blank({"Reservation", "CreateParent"}, {"Name", "Size", "BlockSize"}, {"Property"})

VolumeCreate(o) ==
  Start("zfs", "create") \o Option("-V", o.name.Size)
    \o Flag(~ o.on.Reservation, "-s")
    \o (IF o.name.BlockSize = <<>> THEN <<>> ELSE Option("-b", o.name.BlockSize))
    \o EachOption("-o", o.list.Property)
    \o <<SP>> \o o.name.Name

MeantVolumeCreate(o) ==
  Told("zfs", "create",
       When(~ o.on.Reservation, "-s") \cup When(o.on.CreateParent, "-p"),
       "-V" :> <<o.name.Size>> @@ "-o" :> o.list.Property
         @@ "-b" :> SelectSeq(<<o.name.BlockSize>>, LAMBDA b : b # <<>>),
       <<o.name.Name>>)

NewVolumeDestroy == Blank({"DryRun", "Recursive"}, {"Name"}, {})

VolumeDestroy(o) ==
  Start("zfs", "destroy") \o (IF o.on.DryRun THEN <<SP, "-n">> ELSE <<>>)
    \o Flag(o.on.Recursive, "-R") \o o.name.Name

MeantVolumeDestroy(o) ==
  Told("zfs", "destroy", When(o.on.DryRun, "-n") \cup When(o.on.Recursive, "-R"),
       NoOptions, <<o.name.Name>>)

NewVolumeGetProperty ==
  Blank({"IsScriptedMode", "IsParsableMode"}, {"Dataset", "Snapshot"}, {"Proplist", "FieldList"})

VolumeGetProperty(o) ==
  Start("zfs", "get") \o Flag(o.on.IsScriptedMode, "-H") \o Flag(o.on.IsParsableMode, "-p")
    \o (IF o.list.FieldList = <<>> THEN <<>>
        ELSE Spaced(<<"-o">>) \o Commas(o.list.FieldList) \o <<SP>>)
    \o (IF o.list.Proplist = <<>> THEN <<>> ELSE Commas(o.list.Proplist) \o <<SP>>)
    \o o.name.Dataset
    \o (IF o.name.Snapshot = <<>> THEN <<>> ELSE <<"@">> \o o.name.Snapshot)

MeantVolumeGetProperty(o) ==
  Told("zfs", "get",
       When(o.on.IsScriptedMode, "-H") \cup When(o.on.IsParsableMode, "-p"),
       IF o.list.FieldList = <<>> THEN NoOptions ELSE "-o" :> <<Commas(o.list.FieldList)>>,
       <<Commas(o.list.Proplist),
         IF o.name.Snapshot = <<>> THEN o.name.Dataset
         ELSE At(o.name.Dataset, o.name.Snapshot)>>)

NewVolumeList ==
  Blank({"IsScriptedMode", "IsParsableMode"}, {"Dataset"}, {"PropList", "FieldList"})

VolumeList(o) ==
  Start("zfs", "list") \o Flag(o.on.IsScriptedMode, "-H") \o Flag(o.on.IsParsableMode, "-p")
    \o (IF o.list.FieldList = <<>> THEN <<>>
        ELSE Spaced(<<"-o">>) \o Commas(o.list.FieldList) \o <<SP>>)
    \o EachOption("-o", o.list.PropList)
    \o (IF o.name.Dataset = <<>> THEN <<>> ELSE Spaced(o.name.Dataset))

MeantVolumeList(o) ==
  Told("zfs", "list",
       When(o.on.IsScriptedMode, "-H") \cup When(o.on.IsParsableMode, "-p"),
       "-o" :> SelectSeq(<<Commas(o.list.FieldList)>>, LAMBDA f : f # <<>>) \o o.list.PropList,
       SelectSeq(<<o.name.Dataset>>, LAMBDA d : d # <<>>))

NewVolumeListSnapshot == Blank({}, {"Dataset"}, {})

VolumeListSnapshot(o) == Start("zfs", "listsnap") \o o.name.Dataset

MeantVolumeListSnapshot(o) == Told("zfs", "listsnap", {}, NoOptions, <<o.name.Dataset>>)

NewVolumeRename == Blank({"CreateParent", "ForceUnmount"}, {"Source", "Dest"}, {})

VolumeRename(o) ==
  Start("zfs", "rename") \o (IF o.on.CreateParent THEN <<SP, "p">> ELSE <<>>)
    \o o.name.Source \o <<SP>> \o o.name.Dest

MeantVolumeRename(o) ==
  Told("zfs", "rename", When(o.on.CreateParent, "-p") \cup When(o.on.ForceUnmount, "-f"),
       NoOptions, <<o.name.Source, o.name.Dest>>)

NewVolumeRollback == Blank({"Destroy", "ForceUnmount", "DestroySnap"}, {"Snapshot"}, {})

VolumeRollback(o) ==
  Start("zfs", "rollback") \o Flag(o.on.Destroy, "-R")
    \o Flag(o.on.Destroy /\ o.on.ForceUnmount, "-f")
    \o Flag(o.on.DestroySnap, "-r") \o o.name.Snapshot

\* -f is about the clones that -R destroys, so it is asked for only with -R.
MeantVolumeRollback(o) ==
  Told("zfs", "rollback",
       When(o.on.Destroy, "-R") \cup When(o.on.Destroy /\ o.on.ForceUnmount, "-f")
         \cup When(o.on.DestroySnap, "-r"),
       NoOptions, <<o.name.Snapshot>>)

NewVolumeSnapshotSend ==
  Blank({"Dedup", "DryRun", "EnableCompression"},
        {"Snapshot", "Dataset", "Target", "LastSnapshot"}, {})

VolumeSnapshotSend(o) ==
  Start("zfs", "send") \o Flag(o.on.Dedup, "-D")
    \o (IF o.name.LastSnapshot = <<>> THEN <<>>
        ELSE <<SP, "-i", SP, "@">> \o o.name.LastSnapshot \o <<SP>>)
    \o Spaced(At(o.name.Dataset, o.name.Snapshot))
    \o <<SP, "|", SP, "nc", SP>> \o o.name.Target

MeantVolumeSnapshotSend(o) ==
  [Told("zfs", "send",
        When(o.on.Dedup, "-D") \cup When(o.on.DryRun, "-n")
          \cup When(o.on.EnableCompression, "-c"),
        IF o.name.LastSnapshot = <<>> THEN NoOptions
        ELSE "-i" :> << <<"@">> \o o.name.LastSnapshot >>,
        <<At(o.name.Dataset, o.name.Snapshot)>>)
   EXCEPT !.pipe = << <<"nc">>, o.name.Target >>]

NewVolumeSetProperty == Blank({}, {"Dataset", "Snapshot"}, {"Proplist"})

VolumeSetProperty(o) ==
  Start("zfs", "set") \o EachSpaced(o.list.Proplist) \o o.name.Dataset
    \o (IF o.name.Snapshot = <<>> THEN <<>> ELSE <<"@">> \o o.name.Snapshot)

MeantVolumeSetProperty(o) ==
  Told("zfs", "set", {}, NoOptions,
       Append(o.list.Proplist,
              IF o.name.Snapshot = <<>> THEN o.name.Dataset
              ELSE At(o.name.Dataset, o.name.Snapshot)))

NewVolumeSnapshot == Blank({"Recursive"}, {"Snapshot", "Dataset"}, {"Property"})

VolumeSnapshot(o) ==
  Start("zfs", "snapshot") \o Flag(o.on.Recursive, "-r") \o EachOption("-o", o.list.Property)
    \o Spaced(At(o.name.Dataset, o.name.Snapshot))

MeantVolumeSnapshot(o) ==
  Told("zfs", "snapshot", When(o.on.Recursive, "-r"), "-o" :> o.list.Property,
       <<At(o.name.Dataset, o.name.Snapshot)>>)

NewVolumeStats == Blank({}, {"Dataset"}, {"Proplist"})

VolumeStats(o) ==
  Start("zfs", "stats") \o EachOption("-o", o.list.Proplist)
    \o (IF o.name.Dataset = <<>> THEN <<>> ELSE Spaced(o.name.Dataset))

MeantVolumeStats(o) ==
  Told("zfs", "stats", {}, "-o" :> o.list.Proplist,
       SelectSeq(<<o.name.Dataset>>, LAMBDA d : d # <<>>))

=============================================================================
