---------------------------- MODULE MCPassiveOrder ----------------------------
(* The maker event lane with the constants of the configurations.            *)
EXTENDS PassiveOrder
=============================================================================
