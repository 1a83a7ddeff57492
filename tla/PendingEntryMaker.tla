------------------------- MODULE PendingEntryMaker -------------------------
(***************************************************************************)
(* The maintenance pass over a pending entry                               *)
(* (LiveRuntime._maintain_pending_entry_passive_orders): poll the maker    *)
(* order, hedge what it filled, cancel it when it rests too long, and      *)
(* complete a cancelled one: another zero-fill cycle, perhaps on the other *)
(* leg, a repost of the remainder, or finalization.                        *)
(*                                                                         *)
(* The poll interval, the ages of an order and of its cancel, the venue    *)
(* request budget and the tradeability of the candidate are choices.       *)
(***************************************************************************)
EXTENDS PendingEntry

Start ==
  /\ pc = "idle" /\ owned
  /\ Await(e, "progress", "none", "none")
  /\ UNCHANGED <<venue, handoff>>

-----------------------------------------------------------------------------
(* The hedge. *)

\* What the hedge venue's smallest order leaves of the missing quantity.
Releasable(n) == (MissingHedge(n) \div MinHedge) * MinHedge
Ending(n) == MakerCompleted(n) \/ n.cancel

AfterHedge(n, k, driven) ==
  IF driven /\ MissingHedge(n) = 0 /\ MakerCompleted(n)
  THEN Finalize(n) ELSE Resume(n, k)

\* _drive_missing_hedge_live up to the order.
DriveHedge(n, k) ==
  LET blocked == MissingHedge(n) = 0 \/ n.inflight \/ n.repair
  IN \/ /\ blocked \/ Releasable(n) = 0 \/ ~Ending(n)   \* nothing, or buffer it
        /\ AfterHedge(n, k, FALSE)
     \/ /\ ~blocked /\ Releasable(n) = 0 /\ Ending(n)
        /\ Abort(n, k)
     \/ /\ ~blocked /\ Releasable(n) > 0 /\ Len(hedges) < MaxHedges
        /\ Await(n, "hedge", "none", k)

\* A fill the hedge order reports, now or when it is asked for.
HedgeFilled(n, f, id) ==
  LET p == [HedgeProgress(n, n.hedge + f, id) EXCEPT !.inflight = FALSE]
  IN [p EXCEPT !.uncertain = MissingHedge(p) > 0 /\ p.uncertain]

HedgeAnswered ==
  /\ pc = "hedge"
  /\ LET id == Len(hedges) + 1
         filled == \E f \in 1..Releasable(e) :
           Execute(f) /\ AfterHedge(HedgeFilled(e, f, id), cont, TRUE)
         \* accepted without a fill: what it executed is for reconciliation
         unconfirmed == \E f \in 0..Releasable(e) :
           /\ Execute(f)
           /\ AfterHedge([e EXCEPT !.inflight = TRUE, !.uncertain = TRUE, !.hedgeId = id],
                         cont, FALSE)
         unknown == \E f \in 0..Releasable(e) :
           Execute(f) /\ Await([e EXCEPT !.inflight = TRUE], "hedgeCheck", "none", cont)
         refused == UNCHANGED venue /\ AfterHedge(e, cont, FALSE)
     IN filled \/ unconfirmed \/ unknown \/ refused
  /\ UNCHANGED handoff

\* Refusals that end the hedge: an admission block aborts the entry, a signing
\* error stops the engine.
HedgeRefusedForGood ==
  /\ pc = "hedge"
  /\ \/ Abort([e EXCEPT !.repair = TRUE], cont)
     \/ AfterHedge([e EXCEPT !.repair = TRUE, !.uncertain = TRUE], cont, FALSE)
  /\ UNCHANGED <<venue, handoff>>

\* After an unknown outcome the order is asked for once, by its client id.
HedgeChecked ==
  /\ pc = "hedgeCheck"
  /\ LET f == hedges[Len(hedges)]
     IN \/ f > 0 /\ AfterHedge(HedgeFilled(e, f, Len(hedges)), cont, TRUE)
        \/ AfterHedge(e, cont, FALSE)
  /\ UNCHANGED <<venue, handoff>>

-----------------------------------------------------------------------------
(* Steps 1 to 4. *)

\* Maintenance asks for passive_order, whatever maker_order_id names.
Asked == AtMaker(e.order)

ProgressAnswered ==
  /\ pc = "progress"
  /\ LET o == orders[e.order]
         n == PassiveProgress(e, o.fill, ~o.live)
         hedgeNow == o.fill > e.maker /\ MissingHedge(n) > 0 /\ ~n.inflight /\ ~n.repair
     IN \/ Leave(e)            \* the query failed
        \/ GoOn(e)              \* no answer
        \/ /\ Asked /\ n.slices <= MaxSlices
           /\ \/ hedgeNow /\ DriveHedge(n, "progress")
              \/ ~hedgeNow /\ GoOn(n)
  /\ UNCHANGED <<venue, handoff>>

\* The cancel failed: an ended order is noted as such, its fills are not.
CancelProgressAnswered ==
  /\ pc = "cancelProgress"
  /\ \/ Leave(e)
     \/ Asked /\ ~orders[e.order].live /\ Leave([e EXCEPT !.done = TRUE])
  /\ UNCHANGED <<venue, handoff>>

-----------------------------------------------------------------------------
(* Step 5: the order was cancelled and has ended. *)

\* Nothing filled: a cycle is recorded, and resubmitted after its delay.
ZeroFillCycle ==
  /\ pc = "terminal" /\ ~HasAnyFill(e) /\ ~e.retry
  /\ Leave([e EXCEPT !.cycles = @ + 1, !.retry = TRUE, !.reposts = e.cycles + 1,
                     !.attempts = 0])
  /\ UNCHANGED <<venue, handoff>>

Switching == e.phase = "high" /\ e.cycles >= ZeroFillBudget
Ended(n) == n.cancel /\ n.done /\ orders[n.order].fill < orders[n.order].qty

SwitchConfirmed(n) == Ended(n) /\ ~HasAnyFill(n) /\ ~n.inflight

\* The phase and the leg of the next cycle: after the budget of the first
\* phase the maker moves to the other leg.
NextCycle(n) ==
  IF Switching
  THEN [n EXCEPT !.phase = "low", !.makerLeg = Other(n.makerLeg),
                 !.cycles = 0, !.reposts = 0, !.attempts = 0, !.uncertain = FALSE]
  ELSE n

Submit(n) ==
  \/ Leave(n)                                         \* no request budget
  \/ Len(orders) < MaxOrders /\ Await(n, "resubmit", "none", "none")

ZeroFillRetry ==
  /\ pc = "terminal" /\ ~HasAnyFill(e) /\ e.retry
  /\ \/ Leave(e)                                      \* not yet due
     \/ Switching /\ ~SwitchConfirmed(e) /\ Leave(e)
     \/ /\ Switching => SwitchConfirmed(e)
        /\ Switching \/ e.cycles < ZeroFillBudget
        /\ Submit(NextCycle(e))
  /\ UNCHANGED <<venue, handoff>>

\* The entry is no longer viable or tradeable, or both phases are spent.
ZeroFillOver ==
  /\ pc = "terminal" /\ ~HasAnyFill(e)
  /\ \/ Finalize(e)
     \/ /\ e.retry /\ (Switching => SwitchConfirmed(e))
        /\ Finalize([e EXCEPT !.uncertain = @ /\ ~Switching])
     \/ /\ e.retry /\ e.phase = "low" /\ e.cycles >= ZeroFillBudget
        /\ Finalize([e EXCEPT !.phase = "dual"])
  /\ UNCHANGED <<venue, handoff>>

\* Everything that filled is hedged: the remainder is reposted, or the entry
\* finalized.
RemainderOrFinalize ==
  /\ pc = "terminal" /\ HasAnyFill(e) /\ MissingHedge(e) = 0
  /\ \/ /\ e.maker < Target /\ e.attempts < RepostAttempts /\ e.reposts < MaxReposts
        /\ Submit(e)
     \/ Finalize(e)
  /\ UNCHANGED <<venue, handoff>>

\* _maybe_finalize_pending_entry_terminal_hedge_dust
Dust(n) == ~n.inflight /\ Balanced(n) > 0 /\ MissingHedge(n) \in 1..(MinHedge - 1)

HedgeRemainder ==
  /\ pc = "terminal" /\ HasAnyFill(e) /\ MissingHedge(e) > 0
  /\ \/ Dust(e) /\ Finalize([e EXCEPT !.repair = TRUE])
     \/ ~Dust(e) /\ Finalize(e)  \* 30 s after the cancel
     \/ ~Dust(e) /\ DriveHedge(e, "none")
  /\ UNCHANGED <<venue, handoff>>

-----------------------------------------------------------------------------
(* _submit_pending_entry_passive_order_with_retries.  An attempt that would take
   is refused, and the next one is sent under another client id; any other
   failure ends the pass, and a later pass starts over with the first id.  The
   venue refuses an id that an open order has, and no other order: one whose
   answer was lost does not keep those of other attempts out. *)

Quantity == IF HasAnyFill(e) THEN Target - e.maker ELSE e.qty

\* The stage prefix and the first attempt of a remainder and of a zero-fill cycle.
Stage(k) ==
  IF HasAnyFill(e)
  THEN [stage |-> e.makerLeg, cycle |-> e.reposts + 1, attempt |-> k]
  ELSE [stage |-> "maker", cycle |-> e.accepted + 1, attempt |-> k]
FirstAttempt == IF HasAnyFill(e) THEN e.attempts ELSE 0

Accepted(k) ==
  LET n == CycleAccepted(e, Len(orders) + 1, Quantity, k + 1)
  IN IF HasAnyFill(e) THEN [n EXCEPT !.reposts = e.reposts + 1]
     ELSE [n EXCEPT !.retry = FALSE, !.accepted = e.accepted + 1]

Resubmitted ==
  /\ pc = "resubmit"
  /\ \/ \E k \in FirstAttempt..(PostOnlyAttempts - 1) :
          /\ ~InBooks(e.makerLeg, Stage(k))
          /\ \/ Land(e.makerLeg, Quantity, Stage(k), TRUE) /\ Leave(Accepted(k))
             \/ Land(e.makerLeg, Quantity, Stage(k), FALSE) /\ Leave(e) \* answer lost
     \/ Leave(e) /\ orders' = orders     \* refused, failed, or would take at the end
     \/ Finalize(e) /\ orders' = orders   \* no price to offer
  /\ UNCHANGED <<handoff, hedges, pos>>

=============================================================================
