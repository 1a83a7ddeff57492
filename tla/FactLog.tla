------------------------------- MODULE FactLog -------------------------------
(***************************************************************************)
(* What the journal and the snapshot promise together: the facts the       *)
(* engine knows are a sequence that only ever grows at its end.  A crash    *)
(* and the restart after it are not visible.  A fault of the storage may    *)
(* cost facts, but what is left is in order and without repetition.         *)
(***************************************************************************)
EXTENDS Naturals, Sequences

CONSTANT Facts
VARIABLES known, intact

InOrder(k) ==
    /\ \A i \in DOMAIN k : k[i] \in Facts
    /\ \A i, j \in DOMAIN k : i < j => k[i] < k[j]

Init == known = <<>> /\ intact = TRUE

Learn ==
    /\ \E f \in Facts : known' = Append(known, f)
    /\ InOrder(known')
    /\ UNCHANGED intact

Fault == intact' = FALSE /\ InOrder(known')

Next == Learn \/ Fault

Spec == Init /\ [][Next]_<<known, intact>>
=============================================================================
