----------------------------- MODULE MCRiskMode -----------------------------
(* Instances of RiskMode.                                                    *)
EXTENDS RiskMode
=============================================================================
