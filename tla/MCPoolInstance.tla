--------------------------- MODULE MCPoolInstance ---------------------------
(* Instances of PoolInstance. *)
EXTENDS PoolInstance, TLC

CONSTANTS d1, d2, d3, d4

FourDevices == {d1, d2, d3, d4}
OneMirror == {{d1, d2}}
=============================================================================
