----------------------- MODULE PendingEntryReconcile -----------------------
(***************************************************************************)
(* Reconciliation of a pending entry                                       *)
(* (PendingEntryRuntime._reconcile_pending_state): read the latest order   *)
(* and the position of each leg, take over what they show, and finalize,   *)
(* terminalize, release or hedge the entry.  Backoff and the lifetime of   *)
(* the entry are choices.                                                  *)
(***************************************************************************)
EXTENDS PendingEntryMaker, PendingEntryRelease

\* An entry whose zero-fill retry is pending is left alone.  One reconciled
\* before is first tried to be abandoned.
Reconcile ==
  /\ pc = "idle" /\ owned /\ ~e.retry
  /\ \/ ~e.uncertain /\ ~HasAnyFill(e) /\ Release(e, "none")
     \/ /\ e.uncertain \/ HasAnyFill(e)
        /\ \/ ~e.tried /\ ReadLegs(e)
           \/ e.tried /\ e.maker >= Target /\ Await(e, "longOrders", "abandon", "none")
           \/ e.tried /\ e.maker < Target /\ Await(e, "unresolved", "abandon", "none")
  /\ UNCHANGED <<venue, handoff>>

\* _pending_entry_has_unresolved_maker_order: its progress, then the open
\* orders.  Resolved is an order no longer open that shows no fill.
UnresolvedAnswered ==
  /\ pc = "unresolved"
  /\ \/ /\ goal \in {"abandon", "ceiling"}
        /\ Kept(e)
     \/ goal = "forced" /\ Leave(e)
     \/ /\ \A i \in Identified(e) : ~(AtMaker(i) /\ orders[i].live)
        /\ e.cancel \/ \E i \in Identified(e) : AtMaker(i) /\ orders[i].fill = 0
        /\ \/ goal = "forced" /\ Finalize(e)
           \/ goal # "forced" /\ Await(e, "longOrders", goal, "none")
  /\ UNCHANGED <<venue, handoff>>

-----------------------------------------------------------------------------
(* ReconciliationEngine.reconcile_position.  An error ends the attempt. *)

\* The order of a leg: no answer, or what it filled so far.
FillRead(here, leg, next) ==
  /\ pc = here
  /\ \/ Leave(e)
     \/ pc' = next /\ UNCHANGED <<e, cont, goal, probe>>
     \/ /\ leg = e.makerLeg
        /\ pc' = next
        /\ \E i \in Identified(e) :
             /\ AtMaker(i)
             /\ probe' = [probe EXCEPT !.fill[leg] = orders[i].fill,
                                       !.ended = ~orders[i].live /\ orders[i].fill = 0]
        /\ UNCHANGED <<e, cont, goal>>
     \/ /\ leg = e.makerLeg                            \* ended, quantity unknown
        /\ \E i \in Identified(e) : AtMaker(i) /\ ~orders[i].live
        /\ Leave([e EXCEPT !.uncertain = TRUE])
     \/ /\ leg # e.makerLeg /\ HedgeReference \in DOMAIN hedges
        /\ e.hedgeId # 0 \/ e.inflight \/ e.hedge > 0
        /\ pc' = next
        /\ probe' = [probe EXCEPT !.fill[leg] = hedges[HedgeReference]]
        /\ UNCHANGED <<e, cont, goal>>
  /\ UNCHANGED <<venue, handoff>>

LongFill == FillRead("longFill", "long", "longLive")
ShortFill == FillRead("shortFill", "short", "shortLive")

LongLive ==
  /\ pc = "longLive"
  /\ \/ Leave(e)
     \/ /\ probe' = [probe EXCEPT !.live["long"] = pos["long"]]
        /\ pc' = "shortFill"
        /\ UNCHANGED <<e, cont, goal>>
  /\ UNCHANGED <<venue, handoff>>

-----------------------------------------------------------------------------
(* What the reads show is written back: never less than before, except that a
   maker order ended without a fill on a flat leg corrects an earlier fill. *)

Corrected(n, live) ==
  IF probe.ended /\ live[n.makerLeg] = 0 /\ (n.maker > 0 \/ n.slices > 0)
  THEN [n EXCEPT !.maker = 0, !.slices = 0, !.done = TRUE]
  ELSE n

Raised(n, leg, quantity, id) ==
  CASE leg = n.makerLeg /\ quantity > n.maker -> [n EXCEPT !.maker = quantity]
    [] leg # n.makerLeg /\ quantity > n.hedge -> HedgeProgress(n, quantity, id)
    [] OTHER -> n

FillTaken(n, leg) == Raised(n, leg, probe.fill[leg], HedgeReference)

\* A maker position counts only beside a fill of the maker order.
PositionTaken(n, leg, live) ==
  IF leg = n.makerLeg /\ probe.fill[leg] = 0 THEN n ELSE Raised(n, leg, live[leg], n.hedgeId)

Taken(live) ==
  LET fills == FillTaken(FillTaken(Corrected(e, live), "long"), "short")
  IN PositionTaken(PositionTaken(fills, "long", live), "short", live)

-----------------------------------------------------------------------------
(* _force_terminalize_pending_entry_if_budget_exhausted, for an entry past its
   force-terminal age or its hard ceiling.  A hedge in flight puts off the
   first only. *)

MayForce(n) == ~n.inflight /\ (~HasAnyFill(n) \/ MissingHedge(n) = 0)

ForceResting(n) ==
  /\ ~MakerCompleted(n)
  /\ \/ MayForce(n) /\ ~n.cancel /\ Leave([n EXCEPT !.cancel = TRUE])
     \/ \E cancelled \in BOOLEAN :
          LET m == [n EXCEPT !.cancel = @ \/ cancelled]
          IN IF HasAnyFill(n) /\ MissingHedge(n) = 0 THEN Finalize(m) ELSE Abort(m, "none")

ForceCompleted(n) ==
  /\ MakerCompleted(n)
  /\ \/ MayForce(n) /\ Await(n, "unresolved", "forced", "none")
     \/ ~HasAnyFill(n) /\ Await(n, "unresolved", "ceiling", "none")
     \/ HasAnyFill(n) /\ ~n.repair /\ Leave(n)       \* the reconcile extension
     \/ HasAnyFill(n) /\ Abort(n, "none")

ForceTerminal(n) == ForceResting(n) \/ ForceCompleted(n)

-----------------------------------------------------------------------------
(* The decision on what was taken over. *)

FlatDecision(n) ==
  \/ ~probe.ended /\ ~HasAnyFill(n) /\ Finalize(n)     \* the order is not found
  \/ probe.ended /\ Release(n, "none")
  \/ ~probe.ended /\ Leave(n)

\* _try_clear_stale_hedge_inflight needs the order, its fills and the position
\* to show no hedge.
InflightCleared(n, live) ==
  {n} \cup (IF probe.fill[Other(n.makerLeg)] = 0 /\ live[Other(n.makerLeg)] = 0
            THEN {[n EXCEPT !.inflight = FALSE]} ELSE {})

ExposedDecision(n) ==
  \/ n.inflight /\ Abort(n, "none")                    \* past its hard deadline
  \/ ForceTerminal(n)
  \/ Dust(n) /\ Finalize([n EXCEPT !.repair = TRUE])
  \/ MissingHedge(n) > 0 /\ ~Dust(n) /\ DriveHedge(n, "none")
  \/ MissingHedge(n) = 0 /\ Leave(n)

Decide(live) ==
  LET n == Taken(live)
      zeroOneLeg == probe.ended /\ live[e.makerLeg] = 0 /\ OneLeg(live)
      complete == \/ MissingHedge(n) = 0 /\ MakerCompleted(n)
                  \/ \A leg \in Legs : probe.fill[leg] > 0
  IN \/ /\ zeroOneLeg
        /\ e' = n /\ pc' = "longOrders" /\ cont' = "none" /\ goal' = "cleanup"
        /\ probe' = [NoProbe EXCEPT !.live = live]
     \/ ~zeroOneLeg /\ complete /\ Finalize(n)
     \/ /\ ~zeroOneLeg /\ ~complete
        /\ \/ ForceTerminal(n)
           \/ Flat(live) /\ FlatDecision(n)
           \/ ~Flat(live) /\ \E m \in InflightCleared(n, live) : ExposedDecision(m)

ShortLive ==
  /\ pc = "shortLive"
  /\ \/ Leave(e)
     \/ Decide([probe.live EXCEPT !["short"] = pos["short"]])
  /\ UNCHANGED <<venue, handoff>>

=============================================================================
