-------------------------- MODULE MCAdmissionServer --------------------------
(* Values for the constants of AdmissionServer. *)
EXTENDS AdmissionServer

Release == <<3, 1, 0>>
EarlierReleases == {<<2, 0, 0>>, <<2, 7, 0>>, <<2, 8, 0>>}
=============================================================================
