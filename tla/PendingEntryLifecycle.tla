----------------------- MODULE PendingEntryLifecycle -----------------------
(***************************************************************************)
(* The life of one pending entry: maintenance, reconciliation and release  *)
(* interleaved with its venues, from the acknowledgement of its maker      *)
(* order to its removal.                                                   *)
(***************************************************************************)
EXTENDS PendingEntryReconcile, PendingEntryReprice, Folds, Functions

InitEntry(leg) ==
  [makerLeg |-> leg, maker |-> 0, hedge |-> 0, slices |-> 0,
   order |-> 1, named |-> 1, base |-> 0, qty |-> Target, done |-> FALSE, cancel |-> FALSE,
   hedgeId |-> 0, inflight |-> FALSE, uncertain |-> TRUE, repair |-> FALSE,
   phase |-> "high", cycles |-> 0, retry |-> FALSE, reposts |-> 0,
   accepted |-> 0, attempts |-> 1, tried |-> FALSE]

FirstOrder(leg) ==
  [leg |-> leg, qty |-> Target, fill |-> 0, live |-> TRUE,
   cid |-> [stage |-> "entry", cycle |-> 0, attempt |-> 0], acked |-> TRUE]

\* build_pending_entry: the maker order was accepted and rests.
Init ==
  \E leg \in Legs :
    /\ owned = TRUE /\ e = InitEntry(leg)
    /\ pc = "idle" /\ cont = "none" /\ goal = "none" /\ probe = NoProbe
    /\ open = 0 /\ residual = Nothing
    /\ orders = <<FirstOrder(leg)>>
    /\ hedges = <<>> /\ pos = Nothing

Maintenance ==
  \/ Start \/ ProgressAnswered \/ CancelProgressAnswered
  \/ HedgeAnswered \/ HedgeRefusedForGood \/ HedgeChecked
  \/ ZeroFillCycle \/ ZeroFillRetry \/ ZeroFillOver
  \/ RemainderOrFinalize \/ HedgeRemainder \/ Resubmitted

Reconciliation ==
  \/ Reconcile \/ UnresolvedAnswered
  \/ LongFill \/ LongLive \/ ShortFill \/ ShortLive

Settlement ==
  \/ MakerDetails \/ HedgeDetails
  \/ LongOrders \/ ShortOrders \/ LongPosition \/ ShortPosition
  \/ CleanupLeg \/ AbortOrder
  \/ FlattenMaker \/ FlattenHedge \/ StopMaker \/ StopHedge

Repricing == RepriceMaker \/ CancelAnswered \/ ReplacementAnswered

Engine == Maintenance \/ Repricing \/ Reconciliation \/ Settlement
Venues == \E i \in 1..MaxOrders : MakerFills(i) \/ MakerEnds(i)

Next == Engine \/ Venues
Spec == Init /\ [][Next]_vars

-----------------------------------------------------------------------------

ControlTyped ==
  /\ e \in Entry
  /\ pc \in {"idle", "progress", "cancelProgress", "terminal", "resubmit", "hedge",
             "hedgeCheck", "unresolved", "longFill", "longLive", "shortFill", "shortLive",
             "makerDetails", "hedgeDetails", "longOrders", "shortOrders", "longPosition",
             "shortPosition", "cleanup", "abortOrder", "flattenMaker", "flattenHedge",
             "stopMaker", "stopHedge", "laneCancel", "laneSubmit"}
  /\ cont \in {"none", "progress"}
  /\ goal \in {"none", "finalize", "release", "recheck", "abandon", "ceiling", "forced",
               "abort", "cleanup"}
  /\ probe \in Probe
HandoffTyped == owned \in BOOLEAN /\ open \in Nat /\ residual \in [Legs -> Nat]
VenueTyped ==
  /\ orders \in Seq(Order) /\ hedges \in Seq(Nat) /\ pos \in [Legs -> Nat]
  /\ e.order \in DOMAIN orders
  /\ e.named \in DOMAIN orders /\ e.hedgeId \in 0..Len(hedges)

\* Every variable keeps its type: no quantity the entry counts becomes negative
\* - the slices of maker_remainder_slices are consumed from three places - and
\* the orders it refers to exist.
TypeOK == ControlTyped /\ HandoffTyped /\ VenueTyped

\* Whatever is live on a venue when the entry has been let go is in the open
\* position or in the residual task that took its place, and no maker order of
\* it can add to it: the live-truth contract of finalize, abandon and abort
\* over reads that are not atomic.
NoOrphanExposure ==
  ~owned =>
    /\ \A i \in DOMAIN orders : ~orders[i].live
    /\ \A leg \in Legs : pos[leg] <= open + residual[leg]

\* An open position is never published for more than both venues hold.
PublishedIsBacked ==
  [][open' > open => \A leg \in Legs : open' <= pos[leg]]_vars

\* Of the maker orders whose acceptance the engine has seen, only the one it
\* polls and cancels rests: no resubmission, repost or change of the maker leg
\* takes the place of an order that may still fill.
RestingIsPolled ==
  \A i \in DOMAIN orders : orders[i].live /\ orders[i].acked => i = e.order

\* An order of this leg that the engine was never told of has filled.
Unanswered(leg) ==
  \E i \in DOMAIN orders : orders[i].leg = leg /\ ~orders[i].acked /\ orders[i].fill > 0

\* When the maker moves to the other leg, every acknowledged order has ended
\* without a fill, and what a leg holds comes from an order whose acceptance was
\* lost.
LegSwitchSafe ==
  [][e'.makerLeg # e.makerLeg =>
       /\ \A i \in DOMAIN orders :
            orders[i].acked => ~orders[i].live /\ orders[i].fill = 0
       /\ \A leg \in Legs : pos[leg] = 0 \/ Unanswered(leg)]_vars

\* At most one maker order of the entry rests at a time.
OneMakerOrder ==
  \A i, j \in DOMAIN orders : orders[i].live /\ orders[j].live => i = j

\* The hedge orders never fill more than the maker orders: no duplicate hedge
\* is sent, whatever the entry believes is missing.
HedgeWithinMaker ==
  FoldFunction(+, 0, hedges) <= FoldFunction(+, 0, [i \in DOMAIN orders |-> orders[i].fill])

\* An entry that knows its maker order has ended has counted what it filled.
EndedOrderCounted ==
  owned /\ e.done /\ Asked => e.maker >= orders[e.order].fill

=============================================================================
