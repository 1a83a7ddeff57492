---------------------------- MODULE CloseLedger ----------------------------
(***************************************************************************)
(* What the main loop does with the traces of an aggressive close: the     *)
(* pending closes of pending_entry_runtime and the billing owners of       *)
(* close_runtime.  Both lanes and execute_close are awaited by one loop,   *)
(* so they run between two calls of execute_close and never inside one.    *)
(***************************************************************************)
EXTENDS CloseExecutor

Idle == step = "idle"
callLocals == <<step, at, callVars, request, attempt, fills, unknown, calls, lost, refused>>
outside == <<setup, orders, venue, failClosed, residual>>

\* _merge_pending_close_leg_evidence: the final owner learns the legs of a
\* pending close, and owns no less than that close proved
Merged(e, p) ==
    LET new == {o \in p.legs : \A f \in e.legs : Name(f) # Name(o) \/ f.quantity = 0}
        kept == {f \in e.legs : \A o \in new : Name(f) # Name(o)}
    IN  [e EXCEPT !.legs = kept \cup new,
                  !.owned = [l \in Legs |-> IF p.closed[l] > @[l] THEN p.closed[l] ELSE @[l]]]
MergeAll(p) == {IF e.kind = "final" THEN Merged(e, p) ELSE e : e \in owners}

\* a pending close is over when the position is gone or both venues are flat
ResolvePendingClose ==
    /\ Idle
    /\ \E p \in pendings :
          /\ ~open \/ \A l \in Legs : venue[l] = 0
          /\ pendings' = pendings \ {p}
          /\ owners' = MergeAll(p)
          /\ open' = FALSE
    /\ UNCHANGED <<outside, position, billed, dropped, callLocals, blind>>

\* pending_close_reconciliation_missing_legs: such an owner is evidence debt
MissingIdentity(e) == \E l \in Legs : e.owned[l] > 0 /\ Coverage(e, l) = 0

\* _fetch_close_leg_reconciliations with the lookups of `unread' failing: a
\* known fill that cannot be read leaves the leg unavailable, a placeholder is skipped
Found(e, unread) == {[o EXCEPT !.quantity = Executed(o.leg, o.cid)] : o \in {p \in e.legs : Name(p) \notin unread}}
Available(e, unread) == \A o \in e.legs : Name(o) \in unread => o.quantity = 0

\* a leg's fills prove what the owner owns of it
Proves(owned, S) ==
    \A l \in Legs : LET q == QuantityOf(S, l)
                    IN  IF owned[l] = 0 THEN q = 0 ELSE q >= owned[l]

\* _reclassify_full_uncertain_submission
Promoted(e, S) ==
    /\ e.kind = "partial" /\ e.unresolved # {}
    /\ \A l \in Legs : e.snapshot[l] > 0 /\ QuantityOf(S, l) = e.snapshot[l]

\* _partial_reconciliation_has_successor
HasSuccessor(e) == open \/ \E f \in owners : f.kind = "final" /\ f.call >= e.call

\* an owner's fills are read and its bill is written
Settle ==
    /\ Idle
    /\ \E e \in owners :
       \E unread \in {u \in SUBSET Named(e) : Cardinality(u) + blind <= MaxBlind} :
          LET S == Found(e, unread)
              some == \E o \in S : o.quantity > 0
          IN  /\ ~MissingIdentity(e) /\ Available(e, unread) /\ some
              /\ blind' = blind + Cardinality(unread)
              /\ \/ /\ Promoted(e, S)
                    /\ owners' = owners \ {e} /\ open' = FALSE /\ pendings' = {}
                    /\ residual' = {}
                 \/ /\ ~Promoted(e, S) /\ Proves(e.owned, S)
                    /\ e.kind = "partial" => HasSuccessor(e)
                    /\ owners' = owners \ {e}
                    /\ UNCHANGED <<open, pendings, residual>>
              /\ billed' = billed \cup {Name(o) : o \in {p \in S : p.quantity > 0}}
              /\ dropped' = dropped \cup unread
    /\ UNCHANGED <<setup, orders, venue, failClosed, position, callLocals>>

\* _try_terminalize_billing_evidence_gap: a final owner whose fills do not
\* prove it ends as a provisional bill that carries its identities
Terminalize ==
    /\ Idle /\ ~open /\ \A l \in Legs : venue[l] = 0
    /\ \E e \in owners :
          /\ e.kind = "final" /\ ~MissingIdentity(e)
          /\ \E o \in Found(e, {}) : o.quantity > 0
          /\ ~Proves(e.owned, Found(e, {}))
          /\ owners' = owners \ {e}
          /\ billed' = billed \cup Named(e)
    /\ UNCHANGED <<outside, position, open, pendings, dropped, callLocals, blind>>

LedgerStep == ResolvePendingClose \/ Settle \/ Terminalize
Next == Begin \/ CloseStep \/ LedgerStep
Spec == Init /\ [][Next]_vars

-----------------------------------------------------------------------------
(* Properties.                                                             *)

\* Orders that executed something, and the orders that the books name.
Traces == {Name(o) : o \in {p \in orders : p.quantity > 0}}
Owned == NamedBy(owners) \cup billed

\* Types of the venue, the record and the running call; a position has at
\* most one billing owner of each kind and one residual repair.
TypeOK ==
    /\ venue \in [Legs -> 0..Quantity]
    /\ position \in [matched : 0..Quantity, short : 0..Quantity, long : 0..Quantity]
    /\ \A o \in orders : o.leg \in Legs /\ o.cid \in Cids /\ o.quantity \in 0..Quantity
    /\ \A u \in unknown : u.leg \in Legs /\ u.cid \in Cids
    /\ Cardinality(owners) <= 2 /\ Cardinality(residual) <= 1
    /\ request.quantity \in 0..Quantity

\* Between two calls every order that executed is named by a billing owner or
\* by a bill, unless one of the three places that let an identity go did so:
\* the refused short leg, the owner replaced by another of its kind, the
\* placeholder whose lookup failed.  Retries, compensation, its failure and the
\* hard stop lose nothing.
NoSilentLoss == Idle => Traces \subseteq Owned \cup dropped

\* Between two calls every order that executed is named by a billing owner or
\* by a bill: "the close ledger therefore retains the exact ID (or its CID
\* fallback) until reconciliation establishes its fill".
FillsKept == Idle => Traces \subseteq Owned

\* The close as it is meant: no id of another close or another chunk came
\* back, and no identity was let go.
Whole == Idle /\ ~reused /\ dropped = {}

\* A position leaves the record only when both venues are flat, whichever of
\* the write-back, the pending close and the promoted bill removes it.
GoneIsFlat == Whole /\ ~open => \A l \in Legs : venue[l] = 0

\* While a position is recorded, no leg is recorded smaller than the venue
\* holds it: every unit the books call closed was closed once.
BookNotBelowVenue == Whole /\ open => \A l \in Legs : position[l] >= venue[l]

\* The calls of execute_close that closed more of one leg than of the other.
OfCall(c) == {o \in orders : o.call = c}
Lopsided == {c \in 1..calls : QuantityOf(OfCall(c), "short") # QuantityOf(OfCall(c), "long")}

\* When no outcome is pending and one call closed its legs unequally, the legs
\* that differ at the venues have a residual repair for the larger leg and
\* exactly the difference, or the engine has failed closed.  After a second
\* such call the repair is the second call's alone.
NothingNaked ==
    Whole /\ ~failClosed /\ pendings = {} /\ Cardinality(Lopsided) <= 1 =>
        \A l, m \in Legs :
            venue[l] > venue[m] => residual = {[leg |-> l, quantity |-> venue[l] - venue[m]]}
=============================================================================
