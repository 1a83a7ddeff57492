---------------------------- MODULE PendingEntry ----------------------------
(***************************************************************************)
(* A pending entry of the live engine: the local record of a maker order   *)
(* that rests on one venue and of the IOC orders that hedge its fills on   *)
(* the other (engine/state.py, engine/pending_entry_lifecycle.py), and the *)
(* two venues it is an entry on.                                           *)
(*                                                                         *)
(* The engine is one asyncio task.  pc names the venue call it awaits: the *)
(* action of a pc is the answer of that call with everything the engine    *)
(* computes from it up to its next await.  The venues act between any two  *)
(* such actions.                                                           *)
(***************************************************************************)
EXTENDS Integers, Sequences, FiniteSets

CONSTANTS
  Target,          \* target_quantity of the entry, in lots
  MinHedge,        \* lots below which the hedge venue refuses an order
  ZeroFillBudget,  \* pending_entry_phase_zero_fill_budget
  MaxReposts,      \* maker_entry_max_reposts
  PostOnlyAttempts, \* _pending_entry_passive_post_only_attempt_limit
  RepostAttempts,  \* passive_attempt_limit of a remainder
  MaxOrders,       \* bound on the maker orders that reach the venue
  MaxHedges,       \* bound on the hedge orders of one entry
  MaxSlices        \* bound on the maker fills noted and not yet hedged

ASSUME QuantityAssumption ==
  /\ Target \in Nat \ {0} /\ MinHedge \in Nat \ {0}
  /\ ZeroFillBudget \in Nat \ {0} /\ MaxReposts \in Nat
  /\ PostOnlyAttempts \in Nat \ {0} /\ RepostAttempts \in Nat \ {0}
  /\ MaxOrders \in Nat \ {0} /\ MaxHedges \in Nat /\ MaxSlices \in Nat

Legs == {"long", "short"}
Other(leg) == IF leg = "long" THEN "short" ELSE "long"
Least(a, b) == IF a <= b THEN a ELSE b
Most(a, b) == IF a >= b THEN a ELSE b

VARIABLES
  owned,     \* entry_id \in state.pending_entries
  e,         \* the PendingEntry object, see Entry
  pc,        \* the awaited call, "idle" between two passes
  cont,      \* "progress" when the hedge order or the abort under way belongs
             \* to step 2 of a maintenance pass, which goes on after it
  goal,      \* what the exchange truth is being read for
  probe,     \* the answers so far, see Probe
  open,      \* matched quantity of the OpenPosition published for the entry
  residual,  \* [Legs -> quantity of the residual repair task queued]
  orders,    \* the maker orders that reached a venue, in submission order
  hedges,    \* fills of the hedge orders, in submission order
  pos        \* [Legs -> position on the leg's venue]

venue == <<orders, hedges, pos>>
handoff == <<owned, open, residual>>
vars == <<owned, e, pc, cont, goal, probe, open, residual, orders, hedges, pos>>

\* The fields of PendingEntry, PendingPassiveOrder and phase_state in use.
Entry == [
  makerLeg : Legs,          \* maker_leg
  maker : Nat, hedge : Nat, \* maker_leg_filled, hedge_leg_filled
  slices : Nat,             \* sum of maker_remainder_slices
  order : Nat,              \* passive_order, as its index in orders
  named : Nat,              \* the order maker_order_id names, likewise
  base : Nat,               \* its fill_checkpoint_quantity
  qty : Nat,                \* its target_quantity
  done : BOOLEAN,           \* its last_progress_state is terminal
  cancel : BOOLEAN,         \* its cancel_requested()
  hedgeId : Nat,            \* hedge_order_id, as an index in hedges; 0 none
  inflight : BOOLEAN,       \* hedge_inflight
  uncertain : BOOLEAN,      \* uncertain_outcome
  repair : BOOLEAN,         \* repair_state is set
  phase : {"high", "low", "dual"}, \* *_slippage_maker, dual_taker
  cycles : Nat,             \* zero_fill_cycles_in_phase
  retry : BOOLEAN,          \* passive_zero_fill_retry_pending
  reposts : Nat,            \* repost_attempt_count
  accepted : Nat,           \* repost_count
  attempts : Nat,           \* passive_attempt_count
  tried : BOOLEAN]          \* reconcile_attempt >= 1

\* What compact_client_order_id makes of an entry's order: "maker_repost_<cycle>"
\* or "<leg>_repost_<cycle>", and the attempt; "entry" is the first order, "lane"
\* one of the maker-event lane, which has no client id.
ClientId ==
  [stage : Legs \cup {"entry", "maker", "lane"}, cycle : Nat, attempt : Nat]

\* acked: the venue's acceptance reached the engine, which reads it nowhere: a
\* history of the submission.
Order == [leg : Legs, qty : Nat, fill : Nat, live : BOOLEAN, cid : ClientId,
          acked : BOOLEAN]

\* live: positions read; fill: fills read; ended: the maker order was reported
\* ended without a fill; clean: every leg flattened so far is flat.
Probe == [live : [Legs -> Nat], fill : [Legs -> Nat], ended : BOOLEAN, clean : BOOLEAN]
Nothing == [leg \in Legs |-> 0]
NoProbe == [live |-> Nothing, fill |-> Nothing, ended |-> FALSE, clean |-> TRUE]

-----------------------------------------------------------------------------
(* PendingEntry's questions about itself. *)

\* missing_hedge_quantity: what the remainder slices still hold, or, without
\* slices, what the two legs differ by.
MissingHedge(n) ==
  IF n.slices > 0 THEN n.slices ELSE Most(0, Least(n.maker, Target) - n.hedge)

MakerCompleted(n) == n.maker >= Target \/ n.done
HasAnyFill(n) == n.maker > 0 \/ n.hedge > 0
Balanced(n) == Least(n.maker, n.hedge)

\* Mutant: the slices pay for more than they hold.
SlicesOverdrawn(n, h) ==
  (IF n.slices > 0 THEN n.slices ELSE Most(0, Least(n.maker, Target) - h)) - (h - n.hedge)

\* consume_hedge_quantity_fifo, after hedge_leg_filled became h: an entry
\* without slices first gets one for what it takes to be missing.
SlicesAfterHedge(n, h) ==
  LET held == IF n.slices > 0 THEN n.slices ELSE Most(0, Least(n.maker, Target) - h)
  IN Most(0, held - (h - n.hedge))

\* apply_pending_entry_hedge_progress: never backwards.
HedgeProgress(n, total, id) ==
  IF total > n.hedge
  THEN [n EXCEPT !.hedge = total, !.slices = SlicesAfterHedge(n, total), !.hedgeId = id]
  ELSE [n EXCEPT !.hedgeId = id]

\* apply_pending_entry_passive_progress: the order's cumulative fill on top of
\* the checkpoint taken when it was submitted.
PassiveProgress(n, cumulative, terminal) ==
  LET updated == n.base + Least(cumulative, n.qty)
      seen == [n EXCEPT !.done = terminal]
  IN IF updated > n.maker
     THEN [seen EXCEPT !.maker = updated, !.slices = n.slices + updated - n.maker]
     ELSE seen

\* note_pending_entry_passive_cycle_accepted: the next maker order, accepted at
\* the attempt-th try.
CycleAccepted(n, id, quantity, attempt) ==
  [n EXCEPT !.order = id, !.named = id, !.base = n.maker, !.qty = quantity, !.done = FALSE,
            !.cancel = FALSE, !.reposts = n.cycles, !.attempts = attempt]

-----------------------------------------------------------------------------
(* The venues. *)

\* _pending_entry_maker_order_identifiers: the order id is maker_order_id, the
\* client id that of passive_order; which of the two a venue answers for depends
\* on the venue and on what its private stream holds.
Identified(n) == {n.order, n.named}

\* The venue of maker_leg knows the maker orders of that leg only.
AtMaker(i) == orders[i].leg = e.makerLeg

\* Mutant: only an order under the entry's identifiers counts as open.
IdentifiedOrder(leg) == \E i \in Identified(e) : orders[i].leg = leg /\ orders[i].live

LiveOrder(leg) == \E i \in DOMAIN orders : orders[i].leg = leg /\ orders[i].live

\* An open order has this client id: the venue refuses another one under it.
InBooks(leg, cid) ==
  \E i \in DOMAIN orders : orders[i].leg = leg /\ orders[i].live /\ orders[i].cid = cid

\* A maker order of this leg reaches the book.
Land(leg, quantity, cid, acked) ==
  orders' = Append(orders, [leg |-> leg, qty |-> quantity, fill |-> 0, live |-> TRUE,
                            cid |-> cid, acked |-> acked])

\* The hedge order of the entry, executed for f.
Execute(f) ==
  /\ hedges' = Append(hedges, f)
  /\ pos' = [pos EXCEPT ![Other(e.makerLeg)] = @ + f]
  /\ orders' = orders

\* A live maker order fills by one more lot, requested cancels included: the
\* answer to a cancel is not its effect.
MakerFills(i) ==
  /\ i \in DOMAIN orders /\ orders[i].live
  /\ LET o == orders[i]
     IN orders' = [orders EXCEPT ![i] = [o EXCEPT !.fill = o.fill + 1,
                                                 !.live = o.fill + 1 < o.qty]]
  /\ pos' = [pos EXCEPT ![orders[i].leg] = @ + 1]
  /\ UNCHANGED <<handoff, e, pc, cont, goal, probe, hedges>>

\* It leaves the book: a cancel takes effect, or the venue ends it.
MakerEnds(i) ==
  /\ i \in DOMAIN orders /\ orders[i].live
  /\ orders' = [orders EXCEPT ![i].live = FALSE]
  /\ UNCHANGED <<handoff, e, pc, cont, goal, probe, hedges, pos>>

-----------------------------------------------------------------------------
(* Where a pass goes next.  n is the entry as the step leaves it. *)

\* The pass over this entry ends.
Leave(n) ==
  e' = n /\ pc' = "idle" /\ cont' = "none" /\ goal' = "none" /\ probe' = NoProbe

\* A venue call p is awaited, for the purpose g.
Await(n, p, g, k) ==
  e' = n /\ pc' = p /\ cont' = k /\ goal' = g /\ probe' = NoProbe

\* _finalize_pending_entry: first the fill details of both legs.
Finalize(n) == Await(n, "makerDetails", "finalize", "none")

\* Mutant: an acknowledged cancel is taken for the end of the order.
AcknowledgedIsEnded(n) ==
  \/ Leave(n)
  \/ n.cancel /\ n.done /\ Await(n, "terminal", "none", "none")
  \/ ~n.cancel /\ ~n.done /\ Leave([n EXCEPT !.cancel = TRUE, !.done = TRUE])

\* Steps 3 to 5 of a maintenance pass: an order that rests too long is
\* cancelled (the venue's answer is not the order's end, and an error asks for
\* its progress); one cancelled and ended is completed.
GoOn(n) ==
  \/ Leave(n)
  \/ n.cancel /\ n.done /\ Await(n, "terminal", "none", "none")
  \/ /\ ~n.cancel /\ ~n.done
     /\ \/ Leave([n EXCEPT !.cancel = TRUE])
        \/ Await(n, "cancelProgress", "none", "none")

\* What follows a hedge order or an abort.
Resume(n, k) == IF k = "progress" THEN GoOn(n) ELSE Leave(n)

\* _abort_pending_entry: the maker order must be gone first, which a
\* completely filled one is.  A cancel that fails keeps the entry.
Abort(n, k) ==
  \/ n.maker >= Target /\ Await(n, "longOrders", "abort", k)
  \/ n.maker < Target /\ Await([n EXCEPT !.cancel = TRUE], "abortOrder", "abort", k)
  \/ n.maker < Target /\ ~n.cancel /\ Resume(n, k)

\* _complete_pending_entry_terminal_removal without an exchange truth: the
\* removal of an entry that is gone already needs none.
Release(n, k) ==
  IF owned THEN Await(n, "longOrders", "release", k) ELSE Resume(n, k)

\* reconcile_position: the orders and the positions of both legs.
ReadLegs(n) == Await([n EXCEPT !.tried = TRUE], "longFill", "none", "none")

=============================================================================
