--------------------------- MODULE MCVolumeResize ---------------------------
(* Instances of VolumeResize for TLC; the configurations name the bounds.  *)
EXTENDS VolumeResize

\* A target pod that starts can write istgt.conf: nothing writes it again otherwise.
RetriedFaults == {"call", "disk", "volume-mgmt", "target", "pod"}
=============================================================================
