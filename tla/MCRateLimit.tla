----------------------------- MODULE MCRateLimit -----------------------------
(* Two callers, a host and a venue bucket of different speed, and an endpoint
   with a minimum interval longer than its budget takes to refill. *)
EXTENDS RateLimit, TLC

MCCapacity == [b \in Buckets |-> IF b = "host" THEN 3 ELSE 2]
MCRefill == [b \in Buckets |-> IF b = "host" THEN 2 ELSE 1]
MCMinInterval == [s \in Scopes |-> IF s = "endpoint" THEN 3 ELSE 0]
MCScopesOf == [r \in Requests |->
  IF r = "order" THEN <<"host", "venue", "endpoint">> ELSE <<"venue">>]
MCWeight == [r \in Requests |-> IF r = "order" THEN 2 ELSE 1]
MCBackoff == [n \in 0..20 |-> Lesser(BackoffInitial * 2^n, BackoffMax)]
Symmetry == Permutations(Callers)
==============================================================================
