--------------------------- MODULE MCBoundedTraining ---------------------------
(* BoundedTraining on a few rollouts.                                         *)
EXTENDS BoundedTraining

CONSTANTS mixed, none \* model values
================================================================================
