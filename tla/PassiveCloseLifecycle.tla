------------------------ MODULE PassiveCloseLifecycle ------------------------
(***************************************************************************)
(* The life of a passive close: it is registered, driven once per tick of  *)
(* the lane, turned over to takers when it is overdue or its maker orders  *)
(* do not fill, and restored from snapshot and journal after a crash.      *)
(*                                                                         *)
(* The aggressive close that the fallback calls is module CloseExecutor;   *)
(* here it is what its caller sees: reduce-only executions on both legs,   *)
(* written back to the record, or an outcome that is not known.            *)
(***************************************************************************)
EXTENDS PassiveClose

-----------------------------------------------------------------------------
(* Registration, the force deadline and the tick of the lane.              *)

\* start_pending_passive_close: the record is in the journal before any order
Start ==
    /\ step = "idle" /\ ~started /\ open
    /\ started' = TRUE
    /\ pending' = Fresh /\ saved' = [saved EXCEPT !.pending = Fresh]
    /\ Goto("drive")
    /\ UNCHANGED <<setup, overdue, crashes, venueVars, stateVars, history, faults>>

DeadlinePasses ==
    /\ step = "idle" /\ ~overdue /\ overdue' = TRUE
    /\ UNCHANGED <<setup, started, crashes, venueVars, stateVars, pending, saved, step, passVars,
                   history, faults>>

\* mutant: a close whose order has no known outcome is left alone
ArmedWhenQuiet == IF overdue /\ book.matched > 0 /\ pending.cid = 0 THEN Taker(pending) ELSE pending

\* _arm_overdue_passive_close_fallbacks
Armed == IF overdue /\ book.matched > 0 THEN Taker(pending) ELSE pending

\* _maybe_tick_passive_close: arm, clear if the venues are flat, drive
Tick ==
    /\ step = "idle" /\ Exists
    /\ \/ BothFlat /\ Clear /\ Fine
       \/ /\ IF BothFlat THEN Fault ELSE Fine
          /\ pending' = Armed /\ Goto("drive") /\ UNCHANGED stateVars
    /\ UNCHANGED <<fixed, venueVars, saved, history>>

TakerPhase == step = "drive" /\ Exists /\ pending.phase = "taker"
DriveTaker ==
    /\ TakerPhase /\ Goto("fallback")
    /\ UNCHANGED <<fixed, venueVars, stateVars, pending, saved, history, faults>>

-----------------------------------------------------------------------------
(* _fallback_to_aggressive_close.                                          *)

Unhedged == Less(pending.maker, pending.hedge)
Paired == Less(Chunk, pending.maker)
Most(l) == held[l] > held[Other(l)]

Onesided(l, next, t) ==
    /\ ask' = [leg |-> l, quantity |-> held[l] - (IF next = "end" THEN 0 ELSE held[Other(l)])]
    /\ after' = next /\ total' = t /\ UNCHANGED <<result, gained>>
    /\ IF Dust(ask'.quantity) THEN step' = "compensate" ELSE step' = "onesided"
Aggressive(q, next) ==
    /\ step' = "aggressive" /\ total' = q /\ after' = next /\ UNCHANGED <<ask, result, gained>>

\* nothing of the chunk is open by the record's sums: the record is kept
FallbackNothing ==
    /\ step = "fallback" /\ Unhedged + Paired = 0
    /\ EndPass
    /\ UNCHANGED <<fixed, venueVars, stateVars, pending, saved, history, faults>>

\* both positions were read: they decide, not the record
FallbackLive ==
    /\ step = "fallback" /\ Unhedged + Paired > 0 /\ Fine
    /\ UNCHANGED <<fixed, venueVars, saved, history>>
    /\ \/ BothFlat /\ Clear
       \/ /\ UNCHANGED <<pending, stateVars>>
          /\ \/ \E l \in Legs :
                   /\ Most(l)
                   /\ \/ held[Other(l)] > 0 /\ Onesided(l, "balanced", held[Other(l)])
                      \/ held[Other(l)] = 0 /\ ~RestsOn(l) /\ Onesided(l, "end", 0)
                      \/ held[Other(l)] = 0 /\ RestsOn(l) /\ EndPass
             \/ /\ held["long"] = held["short"] /\ held["long"] > 0
                /\ Aggressive(held["long"], "balanced")

\* a position could not be read: the unhedged part, then the pair of the chunk
FallbackBlind ==
    /\ step = "fallback" /\ Unhedged + Paired > 0 /\ Fault
    /\ UNCHANGED <<fixed, venueVars, stateVars, history>>
    /\ \/ Unhedged > 0 /\ ~Dust(Unhedged) /\ Hedge(Unhedged, "fallback")
       \/ Unhedged > 0 /\ Dust(Unhedged) /\ EndPass /\ UNCHANGED <<pending, saved>>
       \/ Unhedged = 0 /\ Aggressive(Paired, "paired") /\ UNCHANGED <<pending, saved>>

\* ... the hedge of it is answered
FallbackHedged ==
    /\ step = "hedged" /\ after = "fallback"
    /\ UNCHANGED <<fixed, venueVars, history>>
    /\ \/ /\ result = "done" /\ Paired > 0 /\ Fine
          /\ Aggressive(Paired, "paired") /\ UNCHANGED <<pending, stateVars, saved>>
       \/ /\ result = "done" /\ Paired = 0 /\ Fine
          /\ pending' = NoClose /\ EndPass /\ UNCHANGED <<stateVars, saved>>
       \/ result \in {"gap", "refused"} /\ ClearOr(pending) /\ UNCHANGED saved
       \/ result = "short" /\ Fine /\ EndPass /\ UNCHANGED <<pending, stateVars, saved>>

\* what an order for q on leg l executes: less than there is costs a fault
Executes(q, l, x) == x <= Room(q, l)
Fills(l, x) == Take(l, x) /\ makers' = Settled(makers) /\ UNCHANGED hedges
FillsBoth(x) ==
    /\ held' = [l \in Legs |-> held[l] - x[l]]
    /\ makers' = Settled(makers) /\ UNCHANGED hedges

\* the larger leg is reduced under an id of its own; its fill is recorded, or
\* its outcome is not known and the next tick reads the positions again
FlattenAnswered ==
    /\ step = "onesided"
    /\ UNCHANGED <<fixed, history, stateVars>>
    /\ \E x \in 0..Room(ask.quantity, ask.leg) :
          LET p == [pending EXCEPT !.closed[ask.leg] = @ + x]
          IN  /\ Fills(ask.leg, x)
              /\ IF x = Room(ask.quantity, ask.leg) THEN Fine ELSE Fault
              /\ saved' = [saved EXCEPT !.pending = pending]
              /\ pending' = p
              /\ IF after = "balanced"
                 THEN step' = "aggressive" /\ UNCHANGED <<ask, after, result, gained, total>>
                 ELSE Goto("check")

FlattenUnanswered ==
    /\ step = "onesided" /\ Fault
    /\ UNCHANGED <<fixed, history, stateVars, pending>>
    /\ \E x \in 0..Room(ask.quantity, ask.leg) : Fills(ask.leg, x)
    /\ saved' = [saved EXCEPT !.pending = pending]
    /\ \/ after = "balanced" /\ Goto("check")
       \/ after # "balanced" /\ (EndPass \/ Goto("compensate"))

\* execute_close answers: what it executed is written back to the record
Wrote(x) ==
    /\ book' = Reduced(x)
    /\ open' = (open /\ book'.matched > 0)
    /\ residual' = residual \cup Unmatched(book.matched, x)

AggressiveAnswered ==
    /\ step = "aggressive"
    /\ UNCHANGED <<fixed, history, saved>>
    /\ \E x \in [Legs -> 0..total] :
          /\ \A l \in Legs : Executes(total, l, x[l])
          /\ IF \A l \in Legs : x[l] = Room(total, l) THEN Fine ELSE Fault
          /\ FillsBoth(x) /\ Wrote(x)
    /\ \/ after = "balanced" /\ Goto("check") /\ UNCHANGED pending
       \/ after = "paired" /\ pending' = NoClose /\ EndPass

\* ... or returns nothing: its own owners keep what it may have executed
AggressiveUnknown ==
    /\ step = "aggressive" /\ Fault
    /\ UNCHANGED <<fixed, history, saved, stateVars, pending>>
    /\ \E x \in [Legs -> 0..total] :
          /\ \A l \in Legs : Executes(total, l, x[l])
          /\ FillsBoth(x)
    /\ IF after = "balanced" THEN EndPass ELSE Goto("check")

\* _clear_if_live_flat at the end of a branch
Check ==
    /\ step = "check"
    /\ ClearOr(pending)
    /\ UNCHANGED <<fixed, venueVars, saved, history>>

\* _abort_and_compensate_min_notional and compensate_failed_full_close: both
\* venues are flattened by orders outside the record
CompensateFlat ==
    /\ step = "compensate" /\ Fine
    /\ held' = [l \in Legs |-> 0] /\ makers' = Settled(makers) /\ UNCHANGED hedges
    /\ Clear
    /\ UNCHANGED <<fixed, saved, history>>

CompensateFails ==
    /\ step = "compensate" /\ Fault
    /\ \E x \in [Legs -> 0..Quantity] :
          /\ \A l \in Legs : Executes(Quantity, l, x[l])
          /\ FillsBoth(x)
    /\ pending' = IF after = "taker" THEN Taker(pending) ELSE pending
    /\ EndPass
    /\ UNCHANGED <<fixed, stateVars, saved, history>>

-----------------------------------------------------------------------------
(* The snapshot at the end of a loop iteration, and a crash.               *)

Current == [pending |-> pending, book |-> book, open |-> open, residual |-> residual]

Save ==
    /\ step = "end"
    /\ saved' = Current
    /\ step' = "idle"
    /\ UNCHANGED <<fixed, venueVars, stateVars, pending, passVars, history, faults>>

\* the order in flight reaches the venue or it does not
InFlight ==
    \/ UNCHANGED <<held, hedges>> /\ makers' = IF step = "submit" THEN Vanish(ask.leg, ask.quantity)
                                               ELSE makers
    \/ step = "submit" /\ makers' = Accept(ask.leg, ask.quantity) /\ UNCHANGED <<held, hedges>>
    \/ step = "hedge" /\ ~Taken /\ \E x \in 1..Room(ask.quantity, HedgeLeg) : FillHedge(x)
    \/ step \in {"retry", "onesided"} /\ \E x \in 1..Room(ask.quantity, ask.leg) : Fills(ask.leg, x)
    \/ /\ step = "aggressive"
       /\ FillsBoth([l \in Legs |-> Room(total, l)])
    \/ /\ step = "compensate"
       /\ held' = [l \in Legs |-> 0] /\ makers' = Settled(makers) /\ UNCHANGED hedges

\* a restart: snapshot, the claims and the exit.closed after it, recovery probe
Crash ==
    /\ crashes < MaxCrashes /\ crashes' = crashes + 1
    /\ InFlight
    /\ pending' = saved.pending /\ book' = saved.book /\ open' = saved.open
    /\ residual' = saved.residual
    /\ step' = "idle" /\ ask' = NoOrder /\ after' = "none" /\ result' = "none"
    /\ gained' = 0 /\ total' = 0
    /\ UNCHANGED <<setup, started, overdue, saved, history, faults>>

FallbackStep == FallbackNothing \/ FallbackLive \/ FallbackBlind \/ FallbackHedged
                \/ FlattenAnswered \/ FlattenUnanswered \/ AggressiveAnswered
                \/ AggressiveUnknown \/ Check \/ CompensateFlat \/ CompensateFails
PassStep == MakerStep \/ HedgeStep \/ RoundStep \/ DriveTaker \/ FallbackStep
Venue == MakerFills \/ MakerDies
Next == Start \/ DeadlinePasses \/ Tick \/ PassStep \/ Save \/ Crash \/ Venue
Spec == Init /\ [][Next]_vars

\* an await of the pass is answered or times out, the loop runs on, time passes
Fairness == WF_vars(PassStep) /\ WF_vars(Save) /\ WF_vars(Tick) /\ WF_vars(DeadlinePasses)
FairSpec == Spec /\ Fairness

-----------------------------------------------------------------------------
(* Properties.                                                             *)

Made(l) == MapThenSumSet(LAMBDA i : makers[i].done, {i \in DOMAIN makers : makers[i].leg = l})

\* Types, and that an order's number is the one of its submission.
TypeOK ==
    /\ held \in [Legs -> 0..Quantity]
    /\ \A i \in DOMAIN makers : makers[i].leg \in Legs /\ makers[i].done \in 0..makers[i].asked
    /\ book \in [matched : 0..Quantity, long : 0..Quantity, short : 0..Quantity]
    /\ Exists => /\ pending.phase \in {"high", "low", "taker"}
                 /\ pending.order \in 0..Len(makers) /\ pending.cid \in 0..(Len(makers) + 1)
                 /\ pending.chunk \in 1..(Len(setup.plan) + 1)
    /\ step \in {"idle", "drive", "submit", "filled", "gap", "hedge", "reconcile", "retry",
                 "hedged", "maintain", "zero", "fallback", "onesided", "aggressive",
                 "compensate", "check", "end"}

\* A position that left the record is flat at both venues, whichever of the
\* last chunk, the write-back of the fallback and the flat probe removed it,
\* as long as no fill was recorded twice.
GoneIsFlat == ~open /\ ~twice => \A l \in Legs : held[l] = 0

\* A position leaves the record only when both legs are known flat: "Emit the
\* normal terminal event only when both legs are known flat and no residual
\* task was created".
ClosedIsFlat == ~open => \A l \in Legs : held[l] = 0

\* No leg is recorded smaller than the venue holds it, across partial fills,
\* lost answers, replays after a crash and the hand-over to takers.
BookNotBelowVenue == open /\ ~twice => \A l \in Legs : book[l] >= held[l]

\* At most one maker order rests, over every crash between claim, submission
\* and answer, as long as the code did not let one go that may still rest.
OneCloseOrder == ~guessed => Cardinality({i \in DOMAIN makers : makers[i].rests}) <= 1

\* The delta hedges of a leg never execute more than the maker orders of the
\* other leg did, unless a duplicate was retried under a new id.
HedgeFollows ==
    ~again => \A l \in Legs :
        MapThenSumSet(LAMBDA h : h.done, {h \in hedges : h.leg = l}) <= Made(Other(l))

\* what keeps an overdue close for ever: a resting order on the leg that is
\* left, or sums that say nothing of the chunk is open
Blocked ==
    /\ Exists
    /\ \/ Unhedged + Paired = 0
       \/ \E l \in Legs : held[l] > 0 /\ held[Other(l)] = 0 /\ RestsOn(l)

\* An overdue close ends: the fallback takes it over and clears it or hands
\* what is left back to the exit decision, whatever was lost on the way.
OverdueEnds == overdue ~> (~Exists \/ Blocked)
=============================================================================
