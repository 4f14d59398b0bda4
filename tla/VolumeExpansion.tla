--------------------------- MODULE VolumeExpansion ---------------------------
(***************************************************************************)
(* What the owner of a volume is promised about its capacity: a request    *)
(* may only grow; the storage behind the volume may be lost and come back, *)
(* but never with less than has been announced; and no more is announced   *)
(* than has been requested and is there.                                   *)
(***************************************************************************)
EXTENDS Integers

CONSTANT ProvisionedCap

VARIABLES
  requested,  \* spec.capacity of the CVC
  announced,  \* status.capacity of the CVC, 0 before it is Bound
  backing     \* capacity the storage is configured with, 0 while there is none

expansionVars == <<requested, announced, backing>>

Init ==
  /\ requested = ProvisionedCap
  /\ announced = 0
  /\ backing = 0

Request ==
  /\ requested' \in Nat
  /\ requested' > requested
  /\ UNCHANGED <<announced, backing>>

Configure ==
  /\ backing' \in Nat
  /\ backing' # 0 => announced <= backing' /\ backing' <= requested
  /\ UNCHANGED <<requested, announced>>

Announce ==
  /\ announced' \in Nat
  /\ announced < announced' /\ announced' <= requested
  /\ backing # 0 => announced' <= backing
  /\ UNCHANGED <<requested, backing>>

Next == Request \/ Configure \/ Announce

Spec == Init /\ [][Next]_expansionVars
=============================================================================
