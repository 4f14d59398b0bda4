-------------------------- MODULE MCVolumeReplica --------------------------
(* Small instances of VolumeReplica. *)
EXTENDS VolumeReplica

CONSTANT s1

OneSnap == {s1}
=============================================================================
