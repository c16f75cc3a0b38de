---------------------------- MODULE MCStopGesture ----------------------------
(* StopGesture on small instances: see the configurations.                 *)
EXTENDS StopGesture

CONSTANTS j1, j2, r1, r2

=============================================================================
