------------------------ MODULE PendingEntryRelease ------------------------
(***************************************************************************)
(* How a pending entry is let go (engine/pending_entry_runtime.py,         *)
(* engine/pending_entry_terminalizer.py): fill details, then the exchange  *)
(* truth - the open orders of both venues, then both positions - then the  *)
(* decision, which hands the live exposure to an open position and a       *)
(* residual repair task, cleans it up, or keeps the entry.                 *)
(*                                                                         *)
(* A read that fails, or an open order, settles every decision against the *)
(* release, so the reads after it are left out.                            *)
(***************************************************************************)
EXTENDS PendingEntry

\* What follows when the entry may not go: an abandoned entry is reconciled
\* and, past its hard ceiling, aborted.
Kept(n) ==
  \/ goal = "abandon" /\ ReadLegs(n)
  \/ goal = "ceiling" /\ Abort(n, "none")
  \/ goal \notin {"abandon", "ceiling"} /\ Resume(n, cont)

\* Without an answer the entry is marked uncertain.
Deferred == Kept([e EXCEPT !.uncertain = TRUE])

-----------------------------------------------------------------------------
(* _ensure_pending_entry_open_fill_details: what the latest order of each leg
   filled replaces what the entry counted. *)

MakerDetails ==
  /\ pc = "makerDetails"
  /\ \/ e' = e /\ probe' = NoProbe                 \* no answer
     \/ \E i \in Identified(e) :
          /\ AtMaker(i)
          /\ \/ /\ orders[i].fill > 0
                /\ e' = [e EXCEPT !.maker = orders[i].fill, !.named = i]
                /\ probe' = NoProbe
             \/ /\ orders[i].fill = 0
                /\ e' = e /\ probe' = [NoProbe EXCEPT !.ended = ~orders[i].live]
  /\ pc' = "hedgeDetails"
  /\ UNCHANGED <<venue, handoff, cont, goal>>

\* The order asked for: the last one an order id is known of, or the last sent.
HedgeReference == IF e.hedgeId # 0 THEN e.hedgeId ELSE Len(hedges)

HedgeDetails ==
  /\ pc = "hedgeDetails"
  /\ \E f \in {0} \cup {hedges[i] : i \in {HedgeReference} \cap DOMAIN hedges} :
       LET n == IF f > 0 THEN [e EXCEPT !.hedge = f, !.hedgeId = HedgeReference] ELSE e
           resolved == Balanced(n) > 0 \/ n.done \/ probe.ended
       IN IF resolved THEN Await(n, "longOrders", "finalize", "none")
          ELSE Leave([n EXCEPT !.uncertain = TRUE])
  /\ UNCHANGED <<venue, handoff>>

-----------------------------------------------------------------------------
(* The exchange truth. *)

NextAfterOrders ==
  CASE goal = "abort"   -> "flattenMaker"
    [] goal = "cleanup" -> "cleanup"
    [] OTHER            -> "longPosition"

\* Mutant: open orders do not keep the entry.
OrdersOverlooked(here, leg, next) ==
  /\ pc = here
  /\ pc' = next
  /\ UNCHANGED <<venue, handoff, e, cont, goal, probe>>

\* One list of _pending_entry_pair_open_order_truth: no open order, or no answer
\* or an open order, which a release takes for uncertain.
OrdersAnswered(here, leg, next) ==
  /\ pc = here
  /\ \/ Deferred
     \/ LiveOrder(leg) /\ goal # "release" /\ Kept(e)
     \/ /\ ~LiveOrder(leg)
        /\ pc' = next
        /\ UNCHANGED <<e, cont, goal, probe>>
  /\ UNCHANGED <<venue, handoff>>

LongOrders == OrdersAnswered("longOrders", "long", "shortOrders")
ShortOrders == OrdersAnswered("shortOrders", "short", NextAfterOrders)

LongPosition ==
  /\ pc = "longPosition"
  /\ \/ Deferred
     \/ /\ probe' = [probe EXCEPT !.live["long"] = pos["long"]]
        /\ pc' = "shortPosition"
        /\ UNCHANGED <<e, cont, goal>>
  /\ UNCHANGED <<venue, handoff>>

-----------------------------------------------------------------------------
(* The decision, on the positions live. *)

Flat(live) == live = Nothing
OneLeg(live) == \E leg \in Legs : live[leg] > 0 /\ live[Other(leg)] = 0

\* split_entry_fill_residual: what one leg filled more than the other.
Filled(n, leg) == IF leg = n.makerLeg THEN n.maker ELSE n.hedge
Excess(n) == [leg \in Legs |-> Most(0, Filled(n, leg) - Filled(n, Other(leg)))]

\* Mutant: the two legs are compared together.
CoversTogether(matched, rest, live) ==
  2 * matched + rest["long"] + rest["short"] >= live["long"] + live["short"]

\* _pending_entry_successor_covers_live_truth
Covers(matched, rest, live) == \A leg \in Legs : matched + rest[leg] >= live[leg]

Remove(n, k) == owned' = FALSE /\ Resume(n, k)

\* Publication of the successors and removal of the entry, with no await
\* between.
HandOff(matched, rest) == open' = matched /\ residual' = rest /\ Remove(e, "none")

\* _cleanup_owned_single_leg_live_truth_conflict, for an entry still owned
CleanupOrKeep(n, live) ==
  /\ IF OneLeg(live) /\ owned
     THEN /\ e' = n /\ pc' = "cleanup" /\ cont' = "none" /\ goal' = "cleanup"
          /\ probe' = [NoProbe EXCEPT !.live = live]
     ELSE Leave(n)
  /\ UNCHANGED handoff

\* Mutant: the matched quantity is not compared with the live positions.
FinalizeOnLocalFills(live) ==
  LET covered == Covers(Balanced(e), Excess(e), live)
  IN \/ ~HasAnyFill(e) /\ Flat(live) /\ Remove(e, "none") /\ UNCHANGED <<open, residual>>
     \/ ~HasAnyFill(e) /\ ~Flat(live) /\ CleanupOrKeep(e, live)
     \/ HasAnyFill(e) /\ covered /\ HandOff(Balanced(e), Excess(e))
     \/ /\ HasAnyFill(e) /\ ~covered
        /\ Leave([e EXCEPT !.uncertain = TRUE])
        /\ UNCHANGED handoff

\* PendingEntryTerminalizer.decide and the branches of _finalize_pending_entry:
\* zero fill, a conflict with the live positions, a matched or one-sided fill.
FinalizeOn(live) ==
  LET conflict == Balanced(e) > Least(live["long"], live["short"])
      covered == Covers(Balanced(e), Excess(e), live)
  IN \/ ~HasAnyFill(e) /\ Flat(live) /\ Remove(e, "none") /\ UNCHANGED <<open, residual>>
     \/ ~HasAnyFill(e) /\ ~Flat(live) /\ CleanupOrKeep(e, live)
     \/ HasAnyFill(e) /\ conflict /\ CleanupOrKeep([e EXCEPT !.uncertain = TRUE], live)
     \/ HasAnyFill(e) /\ ~conflict /\ covered /\ HandOff(Balanced(e), Excess(e))
     \/ /\ HasAnyFill(e) /\ ~conflict /\ ~covered
        /\ Leave([e EXCEPT !.uncertain = TRUE])
        /\ UNCHANGED handoff

\* The release of an entry that handed over open and residual before.
ReleaseOn(live) ==
  \/ Covers(open, residual, live) /\ Remove(e, cont) /\ UNCHANGED <<open, residual>>
  \/ ~Covers(open, residual, live) /\ Resume([e EXCEPT !.uncertain = TRUE], cont)
     /\ UNCHANGED handoff

\* After a cleanup only a flat truth releases.
RecheckOn(live) ==
  \/ Flat(live) /\ Remove(e, "none") /\ UNCHANGED <<open, residual>>
  \/ ~Flat(live) /\ Leave(e) /\ UNCHANGED handoff

\* _try_abandon_stale_entry: flat is asked for once more before the release.
AbandonOn(live) ==
  /\ \/ Flat(live) /\ Release(e, "none")
     \/ ~Flat(live) /\ Kept(e)
  /\ UNCHANGED handoff

ShortPosition ==
  /\ pc = "shortPosition"
  /\ LET live == [probe.live EXCEPT !["short"] = pos["short"]]
     IN \/ Deferred /\ UNCHANGED handoff
        \/ goal = "finalize" /\ FinalizeOn(live)
        \/ goal = "release" /\ ReleaseOn(live)
        \/ goal = "recheck" /\ RecheckOn(live)
        \/ goal \in {"abandon", "ceiling"} /\ AbandonOn(live)
  /\ UNCHANGED venue

-----------------------------------------------------------------------------
(* Reduce-only cleanup. *)

\* _cleanup_failed_leg_exposure: "flat" is only said of a leg that is, and a
\* leg that is flat may not be known to be.
Flatten(leg, flat) ==
  /\ \E q \in 0..pos[leg] : (flat => q = 0) /\ pos' = [pos EXCEPT ![leg] = q]
  /\ UNCHANGED <<orders, hedges>>

CleanupLeg ==
  /\ pc = "cleanup"
  /\ \E leg \in Legs, flat \in BOOLEAN :
       /\ probe.live[leg] > 0
       /\ Flatten(leg, flat)
       /\ IF flat THEN Await(e, "longOrders", "recheck", "none") ELSE Leave(e)
  /\ UNCHANGED handoff

\* _ensure_pending_entry_maker_not_open_before_abort, after the cancel: no open
\* order under its identifiers or, without the list, an end reported for one.
AbortOrder ==
  /\ pc = "abortOrder"
  /\ \/ Kept(e)
     \/ /\ \E i \in Identified(e) : ~(AtMaker(i) /\ orders[i].live)
        /\ pc' = "longOrders"
        /\ UNCHANGED <<e, cont, goal, probe>>
  /\ UNCHANGED <<venue, handoff>>

\* The first leg of a tier is flattened, then the other.
FlattenFirst(here, next) ==
  /\ pc = here
  /\ \E flat \in BOOLEAN :
       /\ Flatten(e.makerLeg, flat)
       /\ probe' = [NoProbe EXCEPT !.clean = flat]
  /\ pc' = next
  /\ UNCHANGED <<handoff, e, cont, goal>>

FlattenMaker == FlattenFirst("flattenMaker", "flattenHedge")
StopMaker == FlattenFirst("stopMaker", "stopHedge")

FlattenHedge ==
  /\ pc = "flattenHedge"
  /\ \E flat \in BOOLEAN :
       /\ Flatten(Other(e.makerLeg), flat)
       /\ IF flat /\ probe.clean THEN Release(e, cont)
          ELSE Await(e, "stopMaker", "abort", cont)
  /\ UNCHANGED handoff

StopHedge ==
  /\ pc = "stopHedge"
  /\ \E flat \in BOOLEAN :
       /\ Flatten(Other(e.makerLeg), flat)
       /\ \/ flat /\ probe.clean /\ Release(e, cont)
          \/ ~(flat /\ probe.clean) /\ Kept(e)
  /\ UNCHANGED handoff

=============================================================================
