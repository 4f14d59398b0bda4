--------------------------- MODULE MCVolumeBackup ---------------------------
(* Small instances of VolumeBackup.                                        *)
EXTENDS VolumeRestore

CONSTANTS p1, p2, s1, s2

TwoPools == {p1, p2}
TwoSnaps == {s1, s2}

\* All the pools have the same version.
Uniform == {[p \in TwoPools |-> v] : v \in APIs}
=============================================================================
