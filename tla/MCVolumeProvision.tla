-------------------------- MODULE MCVolumeProvision --------------------------
(***************************************************************************)
(* Small instances of VolumeProvision for TLC.                             *)
(***************************************************************************)
EXTENDS VolumeProvision, TLC

CONSTANTS a, b, p1, p2, p3

TwoVolumes == {a, b}

ThreePools == {p1, p2, p3}

\* b is a clone of a, with fewer replicas and an application on the node of p1
CloneCount == a :> 2 @@ b :> 1

CloneSource == a :> {} @@ b :> {a}

CloneNear == a :> {} @@ b :> {p1}

\* One HA volume
OneCount == a :> 3

OneSource == a :> {}

NoNear == [v \in Vol |-> {}]

AnyPool == [k \in Policy |-> {}]

\* All faults but the edit of a policy while a volume is provisioned with it
AllFaults == {"call", "operator", "pool"}

EveryFault == AllFaults \cup {"edit"}
=============================================================================
