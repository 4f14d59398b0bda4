---------------------------- MODULE MCVolumeScale ----------------------------
(***************************************************************************)
(* Small instances of VolumeScale for TLC.                                 *)
(***************************************************************************)
EXTENDS VolumeScale, TLC

CONSTANTS p1, p2, p3

\* One replica, or one to three
One == {{p1}}

OneToThree == SUBSET {p1, p2, p3} \ {{}}

TwoPools == {p1, p2}

ThreePools == {p1, p2, p3}

\* Pools are alike, and nothing orders them.
Alike == Permutations(ThreePools)

FullDiscipline == {"settled", "one", "gone", "ready", "joined"}

\* The faults after which the volume manager tries again
RetriedFaults == {"call", "operator", "pod"}

\* Every process is restarted, connections break and writes fail
RestartFaults == {"disk", "create", "replica", "operator", "volume-mgmt", "target", "pod"}
=============================================================================
