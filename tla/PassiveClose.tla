---------------------------- MODULE PassiveClose ----------------------------
(***************************************************************************)
(* The passive close of one hedged position (engine/passive_close.py).     *)
(* One leg is closed by a resting reduce-only maker order; every fill of   *)
(* it is hedged on the other leg by a reduce-only IOC order.  The driver   *)
(* runs once per tick of the passive close lane, chunk by chunk; when the  *)
(* maker does not fill, it turns to the other leg and then to the taker    *)
(* fallback of module PassiveCloseLifecycle.                               *)
(*                                                                         *)
(* Quantities are lots.  A maker order is named by its number: each        *)
(* submission has a client order id of its own.  The hedges of a chunk on  *)
(* a leg share one id, which the venue refuses when it has seen it.        *)
(* Prices, fees, retry times and the wording of answers are left out.      *)
(***************************************************************************)
EXTENDS Integers, Sequences, FiniteSets, FiniteSetsExt, SequencesExt

CONSTANTS
    Quantity,     \* what each leg holds at first
    Plans,        \* chunk plans of compute_close_chunks
    Smallest,     \* least hedges in lots that are above the minimum notional
    Recognised,   \* whether the hedge venue's duplicate refusal is known
    MaxZero,      \* max_zero_fill_cycles
    MaxMakers,    \* bound: maker orders submitted
    MaxFaults,    \* bound: lost answers, failed reads, orders that fill short
    MaxCrashes    \* bound: crashes of the process

ASSUME PassiveCloseConstants ==
    /\ Quantity \in Nat \ {0}
    /\ \A plan \in Plans : plan \in Seq(Nat \ {0})
    /\ Smallest \subseteq Nat \ {0}
    /\ Recognised \subseteq BOOLEAN
    /\ MaxZero \in Nat \ {0}
    /\ MaxMakers \in Nat /\ MaxFaults \in Nat /\ MaxCrashes \in Nat

VARIABLES
    setup,        \* chunk plan, least hedge, recognised: they do not change
    held,         \* the venues: what each leg still holds
    makers,       \* the venues: maker orders in the order of submission
    hedges,       \* the venues: delta hedges accepted, with what they executed
    book,         \* EngineState.open_positions: quantities of the record
    open,         \* the record is there
    residual,     \* pending_residual_repairs of this position
    pending,      \* EngineState.pending_passive_closes of this position
    saved,        \* what a restart restores: the snapshot and the journal after it
    step,         \* where the pass is
    ask,          \* the order in flight: leg and quantity
    after,        \* what the pass goes on with afterwards
    result,       \* how the hedge went
    gained,       \* how much the poll of this round raised the maker fill
    started,      \* the close was registered
    overdue,      \* the force deadline has passed
    total,        \* what the fallback read of the position is worth closing
    twice,        \* history: the fill of one hedge order was recorded twice
    again,        \* history: a duplicate hedge was retried under a new id
    guessed,      \* history: a maker order that may rest was let go
    faults, crashes

venueVars == <<held, makers, hedges>>
stateVars == <<book, open, residual>>
passVars == <<ask, after, result, gained, total>>
history == <<twice, again, guessed>>
fixed == <<setup, started, overdue, crashes>>
vars == <<setup, held, makers, hedges, book, open, residual, pending, saved, step, ask, after,
          result, gained, total, started, overdue, twice, again, guessed, faults, crashes>>

Legs == {"long", "short"}
Other(l) == IF l = "long" THEN "short" ELSE "long"
Less(a, b) == IF a > b THEN a - b ELSE 0
Lesser(a, b) == IF a <= b THEN a ELSE b
Greater(a, b) == IF a >= b THEN a ELSE b

NoClose == [phase |-> "none"]
NoOrder == [leg |-> "long", quantity |-> 0]
NoFills == [l \in Legs |-> 0]
Exists == pending # NoClose

\* PendingPassiveClose and its PassivePhaseState; closed sums the fills of
\* long_legs and short_legs, claimed and counted name the hedges in them
Fresh ==
    [phase |-> "high", leg |-> "long", order |-> 0, cid |-> 0, maker |-> 0, hedge |-> 0,
     chunk |-> 1, zero |-> 0, gap |-> FALSE, closed |-> NoFills, claimed |-> {}, counted |-> {}]

Chunk == IF pending.chunk > Len(setup.plan) THEN 0 ELSE setup.plan[pending.chunk]
\* mutant: what the chunk lacks
GapOfChunk == Chunk - pending.hedge
Gap == pending.maker - pending.hedge
HedgeLeg == Other(pending.leg)
HedgeId == [leg |-> HedgeLeg, chunk |-> pending.chunk]
Dust(q) == q < setup.least

Init ==
    /\ setup \in [plan : Plans, least : Smallest, recognised : Recognised]
    /\ held = [l \in Legs |-> Quantity]
    /\ makers = <<>> /\ hedges = {}
    /\ book = [matched |-> Quantity, long |-> Quantity, short |-> Quantity]
    /\ open = TRUE /\ residual = {}
    /\ pending = NoClose
    /\ saved = [pending |-> NoClose, book |-> book, open |-> TRUE, residual |-> {}]
    /\ step = "idle" /\ ask = NoOrder /\ after = "none" /\ result = "none" /\ gained = 0
    /\ started = FALSE /\ overdue = FALSE
    /\ twice = FALSE /\ again = FALSE /\ guessed = FALSE
    /\ faults = 0 /\ crashes = 0 /\ total = 0

-----------------------------------------------------------------------------
(* The venues.  An order is reduce-only: it cannot take more than the leg  *)
(* holds, and one that rests on a leg that has become flat is cancelled.   *)

Take(l, x) == held' = [held EXCEPT ![l] = @ - x]
Settled(ms) ==
    [i \in DOMAIN ms |-> [ms[i] EXCEPT !.rests = @ /\ ms[i].done < ms[i].asked
                                                  /\ held'[ms[i].leg] > 0]]
\* mutant: an order that is not reduce-only
RoomOfAny(q, l) == q
Room(q, l) == Lesser(q, held[l])
Rests(i) == i \in DOMAIN makers /\ makers[i].rests
RestsOn(l) == \E i \in DOMAIN makers : makers[i].rests /\ makers[i].leg = l
Accept(l, q) == Append(makers, [leg |-> l, asked |-> q, done |-> 0, rests |-> held[l] > 0,
                                known |-> TRUE])
Vanish(l, q) == Append(makers, [leg |-> l, asked |-> q, done |-> 0, rests |-> FALSE,
                                known |-> FALSE])

Fault == faults < MaxFaults /\ faults' = faults + 1
Fine == UNCHANGED faults

MakerFills ==
    /\ \E i \in DOMAIN makers :
          /\ makers[i].rests
          /\ \E x \in 1..Room(makers[i].asked - makers[i].done, makers[i].leg) :
                /\ Take(makers[i].leg, x)
                /\ makers' = Settled([makers EXCEPT ![i].done = @ + x])
    /\ UNCHANGED <<fixed, hedges, stateVars, pending, saved, step, passVars, history, faults>>

\* the venue ends a resting order on its own
MakerDies ==
    /\ Fault
    /\ \E i \in DOMAIN makers :
          makers[i].rests /\ makers' = [makers EXCEPT ![i].rests = FALSE]
    /\ UNCHANGED <<fixed, held, hedges, stateVars, pending, saved, step, passVars, history>>

-----------------------------------------------------------------------------
(* Steps of the pass.                                                      *)

\* mutant: one leg read flat is enough
EitherFlat == \E l \in Legs : held[l] = 0
BothFlat == \A l \in Legs : held[l] = 0
Goto(s) == step' = s /\ UNCHANGED passVars
EndPass == step' = "end" /\ ask' = NoOrder /\ after' = "none" /\ result' = "none"
           /\ gained' = 0 /\ total' = 0

\* _clear_live_flat_state: position and close are dropped, the venues are flat
Clear ==
    /\ pending' = NoClose /\ open' = FALSE
    /\ book' = [matched |-> 0, long |-> 0, short |-> 0]
    /\ EndPass /\ UNCHANGED residual
\* _clear_if_live_flat, after which the pass ends as p
ClearOr(p) ==
    \/ BothFlat /\ Clear /\ Fine
    \/ /\ IF BothFlat THEN Fault ELSE Fine
       /\ pending' = p /\ EndPass /\ UNCHANGED stateVars

\* mutant: the claim is made in memory only
ClaimLate(p) == pending' = p /\ UNCHANGED saved

\* _claim_close_order_intent of an id the record does not name yet: the whole
\* record is in the journal before the order is sent
Claim(p) == pending' = p /\ saved' = [saved EXCEPT !.pending = p]

\* the maker leg is flat and the other is not: that one is flattened
OtherLeg(p) ==
    /\ held[pending.leg] = 0 /\ held[HedgeLeg] > 0 /\ Fine
    /\ step' = "onesided" /\ ask' = [leg |-> HedgeLeg, quantity |-> held[HedgeLeg]]
    /\ pending' = p /\ UNCHANGED <<after, result, gained, total>>

Taker(p) == [p EXCEPT !.phase = "taker"]
Working == step = "drive" /\ Exists /\ pending.phase # "taker"
HasIds == pending.order # 0 \/ pending.cid # 0
Watched == IF pending.order # 0 THEN pending.order ELSE pending.cid

-----------------------------------------------------------------------------
(* The maker order.                                                        *)

\* no order is known: the live position decides whether one is sent at all
OpenMaker ==
    /\ Working /\ ~HasIds
    /\ UNCHANGED <<fixed, venueVars, history>>
    /\ \/ /\ IF held[pending.leg] > 0 THEN Fine ELSE Fault
          /\ Len(makers) < MaxMakers
          /\ Claim([pending EXCEPT !.cid = Len(makers) + 1])
          /\ step' = "submit" /\ ask' = [leg |-> pending.leg, quantity |-> Chunk]
          /\ after' = "drive" /\ UNCHANGED <<result, gained, total, stateVars>>
       \/ BothFlat /\ ClearOr(pending) /\ UNCHANGED saved
       \/ OtherLeg(pending) /\ UNCHANGED <<saved, stateVars>>

\* no price or tick size: a later tick tries again, and in the end the taker
NoMaker ==
    /\ Working /\ ~HasIds /\ Fine
    /\ pending' \in {pending, Taker(pending)} /\ EndPass
    /\ UNCHANGED <<fixed, venueVars, stateVars, saved, history>>

\* the answer of submit_passive_order; after a replacement the round goes on
SubmitGoesOn == IF after = "drive" THEN Goto("drive") ELSE Goto("zero")
SubmitFails == IF after = "drive" THEN EndPass ELSE Goto("zero")

MakerAccepted ==
    /\ step = "submit" /\ Fine
    /\ makers' = Accept(ask.leg, ask.quantity)
    /\ pending' = [pending EXCEPT !.order = Len(makers) + 1]
    /\ SubmitGoesOn
    /\ UNCHANGED <<fixed, held, hedges, stateVars, saved, history>>

MakerUnanswered ==
    /\ step = "submit" /\ Fault
    /\ makers' \in {Accept(ask.leg, ask.quantity), Vanish(ask.leg, ask.quantity)}
    /\ SubmitFails
    /\ UNCHANGED <<fixed, held, hedges, stateVars, pending, saved, history>>

\* refused: taker; a leg found flat is cleared up at once
MakerRefused ==
    /\ step = "submit"
    /\ makers' = Vanish(ask.leg, ask.quantity)
    /\ UNCHANGED <<fixed, held, hedges, saved, history>>
    /\ \/ pending' = Taker(pending) /\ SubmitFails /\ Fine /\ UNCHANGED stateVars
       \/ OtherLeg(Taker(pending)) /\ UNCHANGED stateVars
       \/ BothFlat /\ ClearOr(Taker(pending))

\* refused as it would have crossed: priced again, under a new id
MakerRequoted ==
    /\ step = "submit" /\ Fine /\ Len(makers) + 1 < MaxMakers
    /\ makers' = Vanish(ask.leg, ask.quantity)
    /\ Claim([pending EXCEPT !.cid = Len(makers) + 2])
    /\ UNCHANGED <<fixed, held, hedges, stateVars, step, passVars, history>>

\* _apply_maker_progress: the cumulative amount of the order that is watched
Applied(done) ==
    LET most == Greater(pending.maker, done)
    IN  [pending EXCEPT !.maker = most,
                        !.closed[pending.leg] = @ + (most - pending.maker)]
Rises(done) == gained' = Less(done, pending.maker)
Onwards(s) == step' = s /\ UNCHANGED <<ask, after, result, total>>

\* an order the venue does not know, or a query without an answer: nothing is
\* sent beside it as long as only its client id is known
PollNothing ==
    /\ Working /\ HasIds
    /\ IF makers[Watched].known THEN Fault ELSE Fine
    /\ \/ EndPass
       \/ pending.order # 0 /\ Onwards("gap") /\ gained' = 0
    /\ UNCHANGED <<fixed, venueVars, stateVars, pending, saved, history>>

PollResting ==
    /\ Working /\ HasIds /\ Rests(Watched) /\ Fine
    /\ pending' = Applied(makers[Watched].done) /\ Rises(makers[Watched].done)
    /\ Onwards("gap")
    /\ UNCHANGED <<fixed, venueVars, stateVars, saved, history>>

PollFilled ==
    /\ Working /\ HasIds /\ Fine
    /\ makers[Watched].done = makers[Watched].asked
    /\ pending' = Applied(makers[Watched].done) /\ Rises(makers[Watched].done)
    /\ Onwards("filled")
    /\ UNCHANGED <<fixed, venueVars, stateVars, saved, history>>

\* a cancelled, expired or rejected order.  Without a fill it is kept until
\* its executions are known; with the maker leg still live its identity goes
PollEnded ==
    /\ Working /\ HasIds /\ ~Rests(Watched)
    /\ makers[Watched].known /\ makers[Watched].done < makers[Watched].asked
    /\ UNCHANGED <<fixed, venueVars, saved, twice, again>>
    /\ LET p == Applied(makers[Watched].done)
           bare == makers[Watched].done = 0 /\ pending.maker = 0
       IN  \/ /\ IF bare THEN Fine ELSE Fault
              /\ pending' = p
              /\ EndPass /\ UNCHANGED <<stateVars, guessed>>
           \/ BothFlat /\ ClearOr(p) /\ UNCHANGED guessed
           \/ OtherLeg(p) /\ UNCHANGED <<stateVars, guessed>>
           \/ /\ held[pending.leg] > 0 /\ Fine
              /\ pending' = [p EXCEPT !.order = 0, !.cid = 0] /\ Rises(makers[Watched].done)
              /\ Onwards("gap") /\ UNCHANGED stateVars
              /\ guessed' = (guessed \/ Rests(pending.cid))

-----------------------------------------------------------------------------
(* The delta hedge.                                                        *)

Taken == \E h \in hedges : h.leg = HedgeLeg /\ h.chunk = pending.chunk
Executed == MapThenSumSet(LAMBDA h : h.done,
                          {h \in hedges : h.leg = HedgeLeg /\ h.chunk = pending.chunk})

\* _submit_hedge_for_delta up to the order: the claim of an id that the record
\* names already reaches the journal, but a replay does not take its record
SendHedge(q, next) ==
    /\ step' = "hedge" /\ ask' = [leg |-> HedgeLeg, quantity |-> q] /\ after' = next
    /\ UNCHANGED <<result, gained, total>>
    /\ IF HedgeId \in pending.claimed THEN UNCHANGED <<pending, saved>>
       ELSE Claim([pending EXCEPT !.claimed = @ \cup {HedgeId}])

\* an accepted hedge without known execution is asked for, never sent again
AskHedge(q, next) ==
    /\ step' = "reconcile" /\ ask' = [leg |-> HedgeLeg, quantity |-> q] /\ after' = next
    /\ UNCHANGED <<result, gained, total, pending, saved>>
Hedge(q, next) == IF pending.gap THEN AskHedge(q, next) ELSE SendHedge(q, next)

\* a hedge below the minimum notional after the maker ended: compensation
Compensate(next) ==
    /\ step' = "compensate" /\ after' = next /\ UNCHANGED <<ask, result, gained, total, pending, saved>>

\* record_hedge_fill of the order with the chunk's id
Recorded(p, x) ==
    [p EXCEPT !.hedge = @ + x, !.closed[HedgeLeg] = @ + x,
              !.counted = IF x = 0 THEN @ ELSE @ \cup {HedgeId}, !.gap = FALSE]
Hedged(r) == step' = "hedged" /\ result' = r /\ UNCHANGED <<ask, after, gained, total>>
Outcome(x) == IF x >= ask.quantity THEN "done" ELSE "short"

\* the gap after the terminal fill; where the hedges are ahead, what was gained
Due == IF Gap > 0 THEN Gap ELSE gained
MakerFilled ==
    /\ step = "filled" /\ Fine
    /\ UNCHANGED <<fixed, venueVars, stateVars, history>>
    /\ \/ Due > 0 /\ ~Dust(Due) /\ Hedge(Due, "filled")
       \/ Due > 0 /\ Dust(Due) /\ Compensate("taker")
       \/ /\ Due = 0 /\ step' = "hedged" /\ after' = "filled" /\ result' = "done"
          /\ UNCHANGED <<ask, gained, total, pending, saved>>

\* a small fill waits for more as long as the maker order lives; too many
\* small fills end the passive phases
MindTheGap ==
    /\ step = "gap" /\ Fine
    /\ UNCHANGED <<fixed, venueVars, stateVars, history>>
    /\ \/ Gap > 0 /\ ~Dust(Gap) /\ Hedge(Gap, "gap")
       \/ Gap > 0 /\ Dust(Gap) /\ pending.cid = 0 /\ Compensate("taker")
       \/ /\ Gap > 0 /\ pending.cid # 0
          /\ pending' \in {pending} \cup (IF Dust(Gap) THEN {Taker(pending)} ELSE {})
          /\ EndPass /\ UNCHANGED saved
       \/ /\ Gap <= 0 /\ step' = "hedged" /\ after' = "gap" /\ result' = "done"
          /\ UNCHANGED <<ask, gained, total, pending, saved>>

Hedging == step = "hedge"
FillHedge(x) ==
    /\ Take(HedgeLeg, x)
    /\ hedges' = hedges \cup {[leg |-> HedgeLeg, chunk |-> pending.chunk, done |-> x]}
    /\ makers' = Settled(makers)

\* answered in time; in full, or for what the book of the venue gave
HedgeAnswered ==
    /\ Hedging /\ ~Taken /\ held[HedgeLeg] > 0
    /\ \E x \in 0..Room(ask.quantity, HedgeLeg) :
          /\ IF x = Room(ask.quantity, HedgeLeg) THEN Fine ELSE Fault
          /\ FillHedge(x)
          /\ pending' = Recorded(pending, x)
          /\ Hedged(Outcome(x))
    /\ UNCHANGED <<fixed, stateVars, saved, history>>

\* answered after the hedge deadline: fail closed and compensate
HedgeSlow ==
    /\ Hedging /\ ~Taken /\ held[HedgeLeg] > 0 /\ Fault
    /\ \E x \in 1..Room(ask.quantity, HedgeLeg) : FillHedge(x) /\ pending' = Recorded(pending, x)
    /\ step' = "compensate" /\ after' = "passive" /\ UNCHANGED <<ask, result, gained, total>>
    /\ UNCHANGED <<fixed, stateVars, saved, history>>

\* not answered: the execution is asked for once; found, or not, and then
\* the acceptance of the order may be all that is known
HedgeUnanswered ==
    /\ Hedging /\ ~Taken /\ Fault
    /\ UNCHANGED <<fixed, stateVars, saved, history>>
    /\ \/ \E x \in 0..Room(ask.quantity, HedgeLeg) :
             /\ FillHedge(x)
             /\ \/ x > 0 /\ pending' = Recorded(pending, x) /\ Hedged(Outcome(x))
                \/ UNCHANGED pending /\ Hedged("short")
                \/ pending' = [pending EXCEPT !.gap = TRUE] /\ Hedged("gap")
       \/ UNCHANGED <<venueVars, pending>> /\ Hedged("short")

\* nothing to reduce: the refusal that is not retried
HedgeRefused ==
    /\ Hedging /\ held[HedgeLeg] = 0 /\ Fine
    /\ Hedged("refused")
    /\ UNCHANGED <<fixed, venueVars, stateVars, pending, saved, history>>

\* reconcile_hedge of an accepted order without known execution
HedgeReconciled ==
    /\ step = "reconcile"
    /\ UNCHANGED <<fixed, venueVars, stateVars, saved, again, guessed>>
    /\ \/ /\ Executed > 0 /\ Fine
          /\ pending' = Recorded(pending, Executed) /\ Hedged(Outcome(Executed))
          /\ twice' = (twice \/ HedgeId \in pending.counted)
       \/ /\ IF Executed > 0 THEN Fault ELSE Fine
          /\ Hedged("gap") /\ UNCHANGED <<pending, twice>>

\* a duplicate refusal the code does not know: the order is asked for like
\* one whose answer was lost
DuplicateUnknown ==
    /\ Hedging /\ Taken /\ ~setup.recognised
    /\ UNCHANGED <<fixed, venueVars, stateVars, saved, again, guessed>>
    /\ \/ /\ Executed > 0 /\ Fine
          /\ pending' = Recorded(pending, Executed) /\ Hedged(Outcome(Executed))
          /\ twice' = (twice \/ HedgeId \in pending.counted)
       \/ /\ IF Executed > 0 THEN Fault ELSE Fine
          /\ Hedged("short") /\ UNCHANGED <<pending, twice>>

\* resolve_duplicate_conflict: what to send under a new id once the order with
\* this id is known to have executed q and the leg to hold live
RetryQuantity(q, live) ==
    IF q >= ask.quantity THEN live ELSE Lesser(ask.quantity - q, live)

\* a duplicate refusal that is resolved from order and position
DuplicateKnown ==
    /\ Hedging /\ Taken /\ setup.recognised
    /\ UNCHANGED <<fixed, venueVars, stateVars, guessed>>
    /\ \E readOrder, read \in BOOLEAN :
          LET q == IF readOrder THEN Executed ELSE 0
              live == held[HedgeLeg]
              p == IF q > 0 THEN Recorded(pending, q) ELSE pending
          IN  /\ IF readOrder /\ read THEN Fine ELSE Fault
              /\ twice' = (twice \/ (q > 0 /\ HedgeId \in pending.counted))
              /\ \/ /\ read /\ live = 0 /\ Hedged("done") /\ pending' = p
                    /\ UNCHANGED <<saved, again>>
                 \/ /\ q > 0 /\ (read => live > 0) /\ (~read => q < ask.quantity)
                    /\ Claim(p) /\ again' = TRUE
                    /\ step' = "retry" /\ UNCHANGED <<after, result, gained, total>>
                    /\ ask' = [leg |-> HedgeLeg,
                               quantity |-> IF read THEN RetryQuantity(q, live)
                                            ELSE ask.quantity - q]
                 \/ /\ ~(read /\ live = 0) /\ (q = 0 \/ (~read /\ q >= ask.quantity))
                    /\ pending' = p /\ Hedged("short") /\ UNCHANGED <<saved, again>>

\* the order under the new id: its fill is recorded beside the first
RetryAnswered ==
    /\ step = "retry"
    /\ UNCHANGED <<fixed, stateVars, saved, history>>
    /\ \/ \E x \in 0..Room(ask.quantity, HedgeLeg) :
             /\ IF x = Room(ask.quantity, HedgeLeg) THEN Fine ELSE Fault
             /\ Take(HedgeLeg, x) /\ makers' = Settled(makers) /\ UNCHANGED hedges
             /\ pending' = [pending EXCEPT !.hedge = @ + x, !.closed[HedgeLeg] = @ + x]
             /\ Hedged(IF pending'.hedge >= pending.maker THEN "done" ELSE "short")
       \/ /\ Fault /\ UNCHANGED pending /\ Hedged("short")
          /\ \E x \in 0..Room(ask.quantity, HedgeLeg) : Take(HedgeLeg, x)
          /\ makers' = Settled(makers) /\ UNCHANGED hedges

-----------------------------------------------------------------------------
(* The rest of a round.                                                    *)

\* _finalize_passive_close: the sums of the legs, at least the last chunk's
ClosedOf(l) == Greater(pending.closed[l], IF l = pending.leg THEN pending.maker ELSE pending.hedge)
\* mutant: both legs by what the larger closed
ReducedAlike(x) ==
    LET most == Greater(x["long"], x["short"])
    IN  [matched |-> Less(book.matched, Lesser(x["long"], x["short"])),
         long |-> Less(book.long, most), short |-> Less(book.short, most)]

\* the record after x[l] of each leg was closed
Reduced(x) ==
    [matched |-> Less(book.matched, Lesser(x["long"], x["short"])),
     long |-> Less(book.long, x["long"]), short |-> Less(book.short, x["short"])]

\* split_close_fill_residual: the leg that closed less of matched
Unmatched(matched, x) ==
    LET left(l) == Less(matched, x[l])
    IN  {[leg |-> l, quantity |-> left(l) - left(Other(l))] :
            l \in {k \in Legs : left(k) > left(Other(k))}}

\* here it is given what is left of matched after the reduction
Finalize ==
    /\ book' = Reduced([l \in Legs |-> ClosedOf(l)])
    /\ residual' = residual \cup Unmatched(book'.matched, [l \in Legs |-> ClosedOf(l)])
    /\ open' = (book'.matched > 0)
    /\ pending' = NoClose
    /\ EndPass
    /\ \/ UNCHANGED saved
       \/ /\ \A l \in Legs : book'[l] = 0   \* exit.closed, with all evidence at hand
          /\ saved' = [pending |-> NoClose, book |-> book', open |-> open', residual |-> residual']

ChunkDone == pending.maker >= Chunk /\ pending.hedge >= pending.maker

\* _advance_chunk
Advance ==
    \/ pending.chunk = Len(setup.plan) /\ Finalize /\ UNCHANGED guessed
    \/ /\ pending.chunk < Len(setup.plan)
       /\ pending' = [pending EXCEPT !.phase = "high", !.leg = "long", !.order = 0, !.cid = 0,
                                     !.maker = 0, !.hedge = 0, !.chunk = @ + 1, !.zero = 0]
       /\ guessed' = (guessed \/ \E i \in DOMAIN makers : makers[i].rests)
       /\ Goto("drive") /\ UNCHANGED <<stateVars, saved>>

AfterFilled ==
    /\ step = "hedged" /\ after = "filled"
    /\ UNCHANGED <<fixed, venueVars, twice, again>>
    /\ \/ result = "gap" /\ ClearOr(pending) /\ UNCHANGED <<saved, guessed>>
       \/ /\ result = "refused" /\ Fine
          /\ pending' = Taker(pending) /\ EndPass /\ UNCHANGED <<stateVars, saved, guessed>>
       \/ result \in {"done", "short"} /\ ChunkDone /\ Advance /\ Fine
       \/ /\ result \in {"done", "short"} /\ pending.maker < Chunk /\ Gap <= 0
          /\ ClearOr(Taker(pending)) /\ UNCHANGED <<saved, guessed>>
       \/ /\ result \in {"done", "short"} /\ Gap > 0 /\ Fine
          /\ EndPass /\ UNCHANGED <<pending, stateVars, saved, guessed>>

AfterGap ==
    /\ step = "hedged" /\ after = "gap"
    /\ UNCHANGED <<fixed, venueVars, twice, again>>
    /\ \/ result = "gap" /\ ClearOr(pending) /\ UNCHANGED <<saved, guessed>>
       \/ /\ result \in {"refused", "short"} /\ Fine
          /\ pending' = IF result = "refused" \/ pending.cid = 0 THEN Taker(pending) ELSE pending
          /\ EndPass /\ UNCHANGED <<stateVars, saved, guessed>>
       \/ result = "done" /\ ChunkDone /\ Advance /\ Fine
       \/ /\ result = "done" /\ ~ChunkDone /\ Fine
          /\ Goto(IF gained > 0 THEN "drive" ELSE "maintain")
          /\ UNCHANGED <<pending, stateVars, saved, guessed>>

\* _maintain_maker_order: the order is held, or amended in its price (an id
\* the venue gives it then is of the same order, which its number stands for)
Hold ==
    /\ step = "maintain" /\ Fine
    /\ Goto("zero")
    /\ UNCHANGED <<fixed, venueVars, stateVars, pending, saved, history>>

\* _amend_maker_order, refused or unanswered: the order is asked for, and with
\* what it filled meanwhile the round is not one without a fill
AmendFails ==
    /\ step = "maintain" /\ Fault
    /\ pending.order # 0 /\ pending.maker < Chunk
    /\ makers[pending.order].done > pending.maker
    /\ pending' = Applied(makers[pending.order].done)
    /\ Goto("drive")
    /\ UNCHANGED <<fixed, venueVars, stateVars, saved, history>>

\* ... or cancelled and, once it is known dead, replaced for what the chunk
\* lacks; a query without an answer counts as dead
Replace ==
    /\ step = "maintain" /\ pending.order # 0 /\ pending.maker < Chunk
    /\ makers' \in {makers, [makers EXCEPT ![pending.order].rests = FALSE]}
    /\ UNCHANGED <<fixed, held, hedges, stateVars, twice, again>>
    /\ \/ /\ Fine /\ Goto("zero")
          /\ UNCHANGED <<pending, saved, guessed>>
       \/ /\ IF makers'[pending.order].rests THEN Fault ELSE Fine
          /\ guessed' = (guessed \/ \E i \in DOMAIN makers' : makers'[i].rests)
          /\ Len(makers) < MaxMakers
          /\ Claim([pending EXCEPT !.cid = Len(makers) + 1])
          /\ step' = "submit" /\ ask' = [leg |-> pending.leg, quantity |-> Chunk - pending.maker]
          /\ after' = "maintain" /\ UNCHANGED <<result, gained, total>>

\* a round without a fill: the leg is changed after MaxZero of them, and
\* after as many on the other leg the taker takes over
ZeroFill ==
    /\ step = "zero" /\ Fine
    /\ UNCHANGED <<fixed, venueVars, stateVars, saved, twice, again>>
    /\ \/ /\ pending.zero + 1 < MaxZero
          /\ pending' = [pending EXCEPT !.zero = @ + 1] /\ EndPass /\ UNCHANGED guessed
       \/ /\ pending.zero + 1 = MaxZero /\ pending.phase = "high"
          /\ pending' = [pending EXCEPT !.phase = "low", !.leg = "short", !.zero = 0,
                                        !.order = 0, !.cid = 0, !.maker = 0, !.hedge = 0]
          /\ guessed' = (guessed \/ \E i \in DOMAIN makers : makers[i].rests)
          /\ Goto("drive")
       \/ /\ pending.zero + 1 = MaxZero /\ pending.phase # "high"
          /\ pending' = Taker(pending) /\ Goto("fallback") /\ UNCHANGED guessed

MakerStep == OpenMaker \/ NoMaker \/ MakerAccepted \/ MakerUnanswered \/ MakerRefused
             \/ MakerRequoted \/ PollNothing \/ PollResting \/ PollFilled \/ PollEnded
HedgeStep == MakerFilled \/ MindTheGap \/ HedgeAnswered \/ HedgeSlow \/ HedgeUnanswered
             \/ HedgeRefused \/ HedgeReconciled \/ DuplicateUnknown \/ DuplicateKnown
             \/ RetryAnswered
RoundStep == AfterFilled \/ AfterGap \/ Hold \/ AmendFails \/ Replace \/ ZeroFill
=============================================================================
