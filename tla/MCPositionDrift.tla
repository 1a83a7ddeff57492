--------------------------- MODULE MCPositionDrift ---------------------------
(* Bounds of the model checking of PositionDrift are the constants of the cfg. *)
EXTENDS PositionDrift
=============================================================================
