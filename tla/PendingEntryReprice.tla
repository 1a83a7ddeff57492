------------------------ MODULE PendingEntryReprice ------------------------
(***************************************************************************)
(* The maker-event lane over a pending entry                               *)
(* (PassiveMakerRuntime._maybe_tick_maker_event_local_l2): when the book   *)
(* moved, the maker order is cancelled and a new one of the whole quantity *)
(* placed (drive_pending_entry_hedge, cancel_replace).                     *)
(*                                                                         *)
(* The book, the stored price and the verdict of the PassiveOrderManager   *)
(* are a choice.  No venue adapter overrides amend_order, so the manager   *)
(* never decides for an amendment.                                         *)
(***************************************************************************)
EXTENDS PendingEntry

CONSTANT LaneEnabled  \* maker_event_lane_enabled

ASSUME LaneAssumption == LaneEnabled \in BOOLEAN

\* The lane looks at no state of the passive order: one that has ended, or a
\* zero-fill cycle waiting for its delay, is repriced like a resting one.
RepriceMaker ==
  /\ LaneEnabled
  /\ pc = "idle" /\ owned
  /\ Await(e, "laneCancel", "none", "none")
  /\ UNCHANGED <<venue, handoff>>

\* An error of the cancel keeps the replacement back; an order that is not
\* found counts as cancelled.
CancelAnswered ==
  /\ pc = "laneCancel"
  /\ \/ Leave(e)
     \/ Len(orders) < MaxOrders /\ Await(e, "laneSubmit", "none", "none")
  /\ UNCHANGED <<venue, handoff>>

\* The replacement carries no client id, so nothing but its own order tells it
\* from another one.
LaneId == [stage |-> "lane", cycle |-> 0, attempt |-> 0]

\* Only maker_order_id is written back, and only of an accepted replacement.
ReplacementAnswered ==
  /\ pc = "laneSubmit"
  /\ LET accepted == /\ Land(e.makerLeg, Target, LaneId, TRUE)
                     /\ Leave([e EXCEPT !.named = Len(orders) + 1])
         lost == Land(e.makerLeg, Target, LaneId, FALSE) /\ Leave(e)
         refused == UNCHANGED orders /\ Leave(e)
     IN accepted \/ lost \/ refused
  /\ UNCHANGED <<handoff, hedges, pos>>

=============================================================================
