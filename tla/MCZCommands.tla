---------------------------- MODULE MCZCommands ----------------------------
(* Every builder of ZCommands. *)
EXTENDS ZCommands

EveryCommand ==
  {"zpool create", "zpool add", "zpool import", "zpool replace", "zpool attach",
   "zpool get", "zpool set", "zpool destroy", "zpool labelclear", "zpool export",
   "zpool offline", "zpool online", "zpool remove", "zpool clear", "zpool detach",
   "zpool dump", "zpool status", "zfs clone", "zfs create", "zfs destroy",
   "zfs get", "zfs list", "zfs listsnap", "zfs rename", "zfs rollback",
   "zfs send", "zfs set", "zfs snapshot", "zfs stats"}
=============================================================================
