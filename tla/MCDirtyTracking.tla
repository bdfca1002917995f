-------------------------- MODULE MCDirtyTracking --------------------------
(* Instances of DirtyTracking for TLC.                                       *)
EXTENDS DirtyTracking

CONSTANTS a, b

=============================================================================
