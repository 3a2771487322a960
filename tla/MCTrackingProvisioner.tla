------------------------ MODULE MCTrackingProvisioner ------------------------
(* Two overlapping requests on one adapter. *)
EXTENDS TrackingProvisioner
=============================================================================
