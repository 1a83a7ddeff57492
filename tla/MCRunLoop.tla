------------------------------ MODULE MCRunLoop ------------------------------
(* The run loop with the constants of the configurations.                    *)
EXTENDS RunLoop
=============================================================================
