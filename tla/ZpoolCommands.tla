--------------------------- MODULE ZpoolCommands ---------------------------
(***************************************************************************)
(* The zpool builders of pkg/zcmd/zpool.  For each: New..., the object it  *)
(* starts from and the fields its With methods fill; the text its Build    *)
(* method makes of an object; and Meant..., what the object asks of zpool. *)
(***************************************************************************)
EXTENDS CommandLine

\* IsTypeSet: a stripe is what zpool takes devices without a type for.
IsTypeSet(type) == type \notin {<<>>, <<"stripe">>}
TypeWord(type) == IF IsTypeSet(type) THEN <<type>> ELSE <<>>

NewPoolCreate == Blank({"Forcefully"}, {"Pool", "Type"}, {"Property", "FSProperty", "Vdev"})

\* A plausible slip: the type appended without a space before it.
PoolCreateGlued(o) ==
  Start("zpool", "create") \o Flag(o.on.Forcefully, "-f")
    \o EachOptionSpaced("-o", o.list.Property) \o EachOptionSpaced("-O", o.list.FSProperty)
    \o o.name.Pool
    \o (IF IsTypeSet(o.name.Type) THEN o.name.Type \o <<SP>> ELSE <<>>)
    \o EachSpaced(o.list.Vdev)

PoolCreate(o) ==
  Start("zpool", "create") \o Flag(o.on.Forcefully, "-f")
    \o EachOptionSpaced("-o", o.list.Property) \o EachOptionSpaced("-O", o.list.FSProperty)
    \o o.name.Pool
    \o (IF IsTypeSet(o.name.Type) THEN Spaced(o.name.Type) ELSE <<>>)
    \o EachSpaced(o.list.Vdev)

MeantPoolCreate(o) ==
  Told("zpool", "create", When(o.on.Forcefully, "-f"),
       "-o" :> o.list.Property @@ "-O" :> o.list.FSProperty,
       <<o.name.Pool>> \o TypeWord(o.name.Type) \o o.list.Vdev)

NewPoolExpansion == Blank({"Forcefully"}, {"Pool", "DeviceType", "Type"}, {"Property", "VdevList"})

PoolExpansion(o) ==
  Start("zpool", "add") \o Flag(o.on.Forcefully, "-f") \o EachOptionSpaced("-o", o.list.Property)
    \o o.name.Pool
    \o (IF IsTypeSet(o.name.DeviceType) THEN Spaced(o.name.DeviceType) ELSE <<>>)
    \o (IF IsTypeSet(o.name.Type) THEN Spaced(o.name.Type) ELSE <<>>)
    \o EachSpaced(o.list.VdevList)

MeantPoolExpansion(o) ==
  Told("zpool", "add", When(o.on.Forcefully, "-f"), "-o" :> o.list.Property,
       <<o.name.Pool>> \o TypeWord(o.name.DeviceType) \o TypeWord(o.name.Type)
         \o o.list.VdevList)

NewPoolImport ==
  Blank({"ImportAll", "ForceImport"}, {"Cachefile", "Pool", "NewPool"},
        {"Directorylist", "Property"})

PoolImport(o) ==
  LET Directories == SelectSeq(o.list.Directorylist, LAMBDA d : d # <<>>)
  IN Start("zpool", "import") \o EachOptionSpaced("-o", o.list.Property)
       \o (IF o.name.Cachefile = <<>> THEN EachOptionSpaced("-d", Directories)
           ELSE Option("-c", o.name.Cachefile) \o <<SP>>)
       \o Flag(o.on.ForceImport, "-f")
       \o (IF o.on.ImportAll THEN Spaced(<<"-a">>)
           ELSE o.name.Pool \o (IF o.name.NewPool = <<>> THEN <<>>
                                ELSE Spaced(o.name.NewPool)))

\* A cache file stands for the directories it was written from; with neither,
\* zpool scans /dev.  A new name alone is the name to import.
MeantPoolImport(o) ==
  Told("zpool", "import",
       When(o.on.ForceImport, "-f") \cup When(o.on.ImportAll, "-a"),
       IF o.name.Cachefile = <<>>
       THEN "-o" :> o.list.Property
              @@ "-d" :> SelectSeq(o.list.Directorylist, LAMBDA d : d # <<>>)
       ELSE "-o" :> o.list.Property @@ "-c" :> <<o.name.Cachefile>>,
       IF o.on.ImportAll THEN <<>>
       ELSE SelectSeq(<<o.name.Pool, o.name.NewPool>>, LAMBDA n : n # <<>>))

NewPoolDiskReplace == Blank({"Forcefully"}, {"OldVdev", "NewVdev", "Pool"}, {"Property"})

PoolDiskReplace(o) ==
  Start("zpool", "replace") \o Flag(o.on.Forcefully, "-f") \o EachOptionSpaced("-o", o.list.Property)
    \o o.name.Pool \o <<SP>> \o o.name.OldVdev \o <<SP>> \o o.name.NewVdev

MeantPoolDiskReplace(o) ==
  Told("zpool", "replace", When(o.on.Forcefully, "-f"), "-o" :> o.list.Property,
       <<o.name.Pool, o.name.OldVdev, o.name.NewVdev>>)

NewPoolAttach == Blank({"Forcefully"}, {"Device", "NewDevice", "Pool"}, {"Property"})

PoolAttach(o) ==
  Start("zpool", "attach") \o Flag(o.on.Forcefully, "-f") \o EachOptionSpaced("-o", o.list.Property)
    \o o.name.Pool \o Spaced(o.name.Device) \o Spaced(o.name.NewDevice)

MeantPoolAttach(o) ==
  Told("zpool", "attach", When(o.on.Forcefully, "-f"), "-o" :> o.list.Property,
       <<o.name.Pool, o.name.Device, o.name.NewDevice>>)

NewPoolGProperty ==
  Blank({"IsScriptedMode", "IsParsableMode"}, {"Pool"}, {"PropList", "FieldList"})

PoolGProperty(o) ==
  Start("zpool", "get") \o Flag(o.on.IsScriptedMode, "-H") \o Flag(o.on.IsParsableMode, "-p")
    \o (IF o.list.FieldList = <<>> THEN <<>>
        ELSE Spaced(<<"-o">>) \o Commas(o.list.FieldList) \o <<SP>>)
    \o (IF o.list.PropList = <<>> THEN <<>> ELSE Commas(o.list.PropList) \o <<SP>>)
    \o (IF o.name.Pool = <<>> THEN <<>> ELSE Spaced(o.name.Pool))

MeantPoolGProperty(o) ==
  Told("zpool", "get", When(o.on.IsScriptedMode, "-H") \cup When(o.on.IsParsableMode, "-p"),
       IF o.list.FieldList = <<>> THEN NoOptions ELSE "-o" :> <<Commas(o.list.FieldList)>>,
       SelectSeq(<<Commas(o.list.PropList), o.name.Pool>>, LAMBDA w : w # <<>>))

NewPoolSProperty == Blank({}, {"Pool"}, {"PropList"})

PoolSProperty(o) == Start("zpool", "set") \o EachSpaced(o.list.PropList) \o o.name.Pool

MeantPoolSProperty(o) ==
  Told("zpool", "set", {}, NoOptions, Append(o.list.PropList, o.name.Pool))

NewPoolDestroy == Blank({"Forcefully"}, {"Pool"}, {})

PoolDestroy(o) == Start("zpool", "destroy") \o Flag(o.on.Forcefully, "-f") \o o.name.Pool

MeantPoolDestroy(o) ==
  Told("zpool", "destroy", When(o.on.Forcefully, "-f"), NoOptions, <<o.name.Pool>>)

NewPoolLabelClear == Blank({"Forcefully"}, {"Vdev"}, {})

PoolLabelClear(o) == Start("zpool", "labelclear") \o Flag(o.on.Forcefully, "-f") \o Spaced(o.name.Vdev)

MeantPoolLabelClear(o) ==
  Told("zpool", "labelclear", When(o.on.Forcefully, "-f"), NoOptions, <<o.name.Vdev>>)

NewPoolExport == Blank({"AllPool", "Forcefully"}, {}, {"PoolList"})

PoolExport(o) == Start("zpool", "export") \o Flag(o.on.Forcefully, "-f") \o EachSpaced(o.list.PoolList)

MeantPoolExport(o) ==
  Told("zpool", "export", When(o.on.Forcefully, "-f") \cup When(o.on.AllPool, "-a"),
       NoOptions, o.list.PoolList)

NewPoolOffline == Blank({"ForceOffline", "isTemporary"}, {"Pool"}, {"Devicelist"})

PoolOffline(o) ==
  Start("zpool", "offline") \o Flag(o.on.isTemporary, "-t") \o Spaced(o.name.Pool)
    \o EachSpaced(o.list.Devicelist)

MeantPoolOffline(o) ==
  Told("zpool", "offline", When(o.on.isTemporary, "-t") \cup When(o.on.ForceOffline, "-f"),
       NoOptions, <<o.name.Pool>> \o o.list.Devicelist)

NewPoolOnline == Blank({"ShouldExpand"}, {"Pool"}, {"Device"})

PoolOnline(o) ==
  Start("zpool", "online") \o Flag(o.on.ShouldExpand, "-e") \o Spaced(o.name.Pool)
    \o EachSpaced(o.list.Device)

MeantPoolOnline(o) ==
  Told("zpool", "online", When(o.on.ShouldExpand, "-e"), NoOptions,
       <<o.name.Pool>> \o o.list.Device)

NewPoolRemove == Blank({}, {"Pool"}, {"Device"})

PoolRemove(o) == Start("zpool", "remove") \o Spaced(o.name.Pool) \o EachSpaced(o.list.Device)

MeantPoolRemove(o) ==
  Told("zpool", "remove", {}, NoOptions, <<o.name.Pool>> \o o.list.Device)

NewPoolClear == Blank({}, {"Pool"}, {"Vdev"})

PoolClear(o) == Start("zpool", "clear") \o o.name.Pool \o EachSpaced(o.list.Vdev)

MeantPoolClear(o) == Told("zpool", "clear", {}, NoOptions, <<o.name.Pool>> \o o.list.Vdev)

NewPoolDetach == Blank({}, {"Pool", "Vdev"}, {})

PoolDetach(o) == Start("zpool", "detach") \o Spaced(o.name.Pool) \o Spaced(o.name.Vdev)

MeantPoolDetach(o) == Told("zpool", "detach", {}, NoOptions, <<o.name.Pool, o.name.Vdev>>)

NewPoolDump == Blank({}, {"Pool"}, {})

PoolDump(o) == Start("zpool", "dump") \o o.name.Pool

MeantPoolDump(o) == Told("zpool", "dump", {}, NoOptions, <<o.name.Pool>>)

NewPoolStatus == Blank({}, {"Pool"}, {})

PoolStatus(o) == Start("zpool", "status") \o o.name.Pool

MeantPoolStatus(o) == Told("zpool", "status", {}, NoOptions, <<o.name.Pool>>)

=============================================================================
