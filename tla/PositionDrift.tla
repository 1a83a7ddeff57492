---------------------------- MODULE PositionDrift ----------------------------
(***************************************************************************)
(* The drift check of engine/runtime.py (_maybe_check_active_position_     *)
(* drift) beside the repair lane, and what happens around them: closes,    *)
(* snapshots and crashes.  The check compares both venues with the book    *)
(* of every position that no passive close owns, flattens what one leg     *)
(* holds more than the other, and makes the book say what is left.  Both   *)
(* lanes run in one loop, one after the other; a passive close rests its   *)
(* orders meanwhile, an aggressive close runs between two of their passes. *)
(***************************************************************************)
EXTENDS ResidualRepair

VARIABLES
    at,       \* the leg the check flattens
    want,     \* what it wants to sell, by leg
    even,     \* balanced_quantity
    ok        \* both orders were confirmed

driftVars == <<at, want, even, ok>>
vars == <<setup, held, orders, book, closing, saved, repairVars, driftVars,
          faults, crashes, closes>>

NoWant == [l \in Legs |-> 0]
NoClose == [on |-> FALSE, kind |-> "taker", closed |-> [l \in Legs |-> 0]]

Init ==
    \E e \in ExcessLegs, x \in Excess, s \in Smallest,
       known \in BOOLEAN, rule \in {"wait", "strict", "tolerant"} :
       /\ s = 1 => rule = "wait"    \* no excess is too small: any rule will do
       /\ setup = [smallest |-> s, recognised |-> known, dust |-> rule]
       /\ held = [l \in Legs |-> IF l = e THEN Matched + x ELSE Matched]
       /\ book = [open |-> TRUE, matched |-> Matched, leg |-> [l \in Legs |-> Matched]]
       /\ task = [o \in Origins |->
             IF o = "entry" THEN [NoTask EXCEPT !.leg = e, !.quantity = x] ELSE NoTask]
       /\ saved = [book |-> book, task |-> task]
       /\ orders = {} /\ closing = NoClose
       /\ step = "idle" /\ cur = "none" /\ ask = NoAsk
       /\ dust = {} /\ again = FALSE
       /\ at = "long" /\ want = NoWant /\ even = 0 /\ ok = TRUE
       /\ faults = 0 /\ crashes = 0 /\ closes = 0

-----------------------------------------------------------------------------
(* The drift check. *)

\* expected_long, expected_short: a leg the book has at zero counts as matched.
Expected(l) == IF book.leg[l] = 0 THEN book.matched ELSE book.leg[l]
Drifted == book.open /\ \E l \in Legs : held[l] # Expected(l)

Balanced == Lesser(held["long"], held["short"])

driftRest == <<setup, book, closing, saved, task, cur, ask, dust, again, crashes, closes>>

\* A failed read leaves everything to the next check.
DriftFound ==
    /\ LanesRun /\ ~closing.on /\ Drifted
    /\ even' = Balanced
    /\ want' = [l \in Legs |-> Less(held[l], Balanced)]
    /\ at' = "long" /\ ok' = TRUE /\ step' = "flatten"
    /\ NoOrder /\ Works /\ UNCHANGED driftRest

\* The id of a flatten is made of position, leg and symbol: the second one of a
\* leg is refused, and so is one below the least order.
DriftId == -2
Flatten ==
    /\ step = "flatten"
    /\ \/ want[at] = 0 /\ NoOrder /\ Works /\ UNCHANGED ok
       \/ /\ want[at] > 0
          /\ \/ Works /\ (Seen(at, DriftId) \/ want[at] < setup.smallest) /\ NoOrder /\ ok' = FALSE
             \/ Fails /\ NoOrder /\ ok' = FALSE
             \/ /\ want[at] >= setup.smallest
                /\ \E done \in 0 .. want[at] :
                     /\ Executes(at, DriftId, want[at], done)
                     /\ \/ Works /\ ok' = (ok /\ done = want[at])
                        \/ Fails /\ ok' = FALSE
    /\ \/ at = "long" /\ at' = "short" /\ step' = "flatten"
       \/ at = "short" /\ at' = at /\ step' = "verify"
    /\ UNCHANGED <<driftRest, want, even>>

Ends == step' = "idle" /\ at' = "long" /\ want' = NoWant /\ even' = 0 /\ ok' = TRUE

EvenNow == \A l \in Legs : held[l] = even

\* Both confirmed, or both venues read as even: the book follows, and is saved.
DriftCorrected ==
    /\ step = "verify"
    /\ \/ ok
       \/ EvenNow
    /\ book' = [open |-> even > 0, matched |-> even, leg |-> [l \in Legs |-> even]]
    /\ Writes([book |-> book', task |-> task])
    /\ Ends /\ NoOrder /\ Works
    /\ UNCHANGED <<setup, closing, task, cur, ask, dust, again, crashes, closes>>

\* Otherwise the engine fails closed (RiskMode) and the book stays.
DriftFails ==
    /\ step = "verify" /\ ~ok
    /\ \/ ~EvenNow /\ Works
       \/ Fails
    /\ Ends /\ NoOrder /\ UNCHANGED driftRest

DriftStep == Flatten \/ DriftCorrected \/ DriftFails

-----------------------------------------------------------------------------
(* Closes.  A taker close closes up to the matched quantity of each leg and is
   written back at once; a maker close ends when both venues are flat. *)

closeRest == <<setup, orders, step, cur, ask, dust, again, driftVars, faults, crashes>>

CloseBegins(kind) ==
    /\ step = "idle" /\ book.open /\ ~closing.on
    /\ closes < MaxCloses /\ closes' = closes + 1
    /\ closing' = [NoClose EXCEPT !.on = TRUE, !.kind = kind]
    /\ UNCHANGED <<closeRest, held, book, task, saved>>

CloseFills(l) ==
    /\ closing.on /\ held[l] > 0
    /\ closing.kind = "taker" =>
          closing.closed[l] < Lesser(book.leg["long"], book.leg["short"])
    /\ held' = [held EXCEPT ![l] = @ - 1]
    /\ closing' = [closing EXCEPT !.closed[l] = @ + 1]
    /\ UNCHANGED <<closeRest, book, task, saved, closes>>

\* _writeback_to_state: the matched quantity shrinks by what both legs closed.
AfterClose ==
    LET left == Less(book.matched, Lesser(closing.closed["long"], closing.closed["short"]))
    IN [open |-> left > 0, matched |-> left,
        leg |-> [l \in Legs |-> Less(book.leg[l], closing.closed[l])]]

\* The record of a close that is complete takes the position out of the book on
\* a replay; that of a part of it does nothing (see Crash).
Recorded == [saved EXCEPT !.book = IF book'.open THEN @ ELSE book']

\* split_close_fill_residual: the leg that closed less, and the difference.
Residual(l) == Less(closing.closed[Other(l)], closing.closed[l])

TakerEnds ==
    /\ closing.on /\ closing.kind = "taker"
    /\ book' = AfterClose
    /\ \/ \E l \in Legs :
            /\ Residual(l) > 0
            /\ task' = [task EXCEPT !["close"] =
                           [NoTask EXCEPT !.leg = l, !.quantity = Residual(l)]]
       \/ (\A l \in Legs : Residual(l) = 0) /\ UNCHANGED task
    /\ closing' = NoClose /\ Writes(Recorded)
    /\ UNCHANGED <<closeRest, held, closes>>

MakerEnds ==
    /\ closing.on /\ closing.kind = "maker" /\ step = "idle"
    /\ \A l \in Legs : held[l] = 0
    /\ book' = NoBook
    /\ closing' = NoClose /\ Writes(Recorded)
    /\ UNCHANGED <<closeRest, held, task, closes>>

-----------------------------------------------------------------------------
Save ==
    /\ step = "idle" /\ ~(closing.on /\ closing.kind = "taker")
    /\ crashes < MaxCrashes
    /\ Writes([book |-> book, task |-> task])
    /\ UNCHANGED <<setup, held, orders, book, closing, repairVars, driftVars,
                   faults, crashes, closes>>

\* A restart: the snapshot and the outcomes journalled after it.  The replay of
\* exit.partial_closed looks for a field the record does not have, so that the
\* book is the snapshot's; a passive close is taken up again.
Crash ==
    /\ crashes < MaxCrashes /\ crashes' = crashes + 1
    /\ book' = saved.book /\ task' = saved.task
    /\ saved' = IF crashes' < MaxCrashes THEN saved ELSE NoSave
    /\ closing' = IF closing.kind = "maker" THEN closing ELSE NoClose
    /\ Ends /\ cur' = "none" /\ ask' = NoAsk
    /\ UNCHANGED <<setup, held, orders, dust, again, faults, closes>>

Next ==
    \/ \E o \in Origins : Pass(o) /\ UNCHANGED driftVars
    \/ LaneStep /\ UNCHANGED driftVars
    \/ DriftFound \/ DriftStep
    \/ \E kind \in {"taker", "maker"} : CloseBegins(kind)
    \/ \E l \in Legs : CloseFills(l)
    \/ TakerEnds \/ MakerEnds
    \/ Save \/ Crash

Spec == Init /\ [][Next]_vars

\* The loop runs on and takes its lanes and the tasks in turn (so that a pass that
\* has to wait for the drift check or the other task still comes), a close that
\* rests is filled in the end, and a taker close is one call that returns.
FairSpec ==
    /\ Spec
    /\ \A o \in Origins : SF_vars(Pass(o) /\ UNCHANGED driftVars)
    /\ WF_vars((LaneStep /\ UNCHANGED driftVars) \/ DriftStep)
    /\ WF_vars(TakerEnds \/ MakerEnds \/ \E l \in Legs : closing.kind = "maker" /\ CloseFills(l))

-----------------------------------------------------------------------------
(* Properties. *)

\* What a leg holds beyond the matched quantity of the book has an owner: a
\* task on that leg, or it was let go as dust.  Refusals, lost answers, closes,
\* the other lane and restarts between any two steps do not lose it.
ExcessOwned ==
    step = "idle" /\ ~closing.on =>
        \A l \in Legs : Over(l) > 0 => (\E o \in Origins : task[o].leg = l) \/ l \in dust

\* What a leg holds beyond the other has an owner too: a task, the drift check
\* (which compares with what the book says of each leg), or it is dust.  It does
\* not hold after a close that closed its legs unequally: the matched quantity
\* shrinks by the lesser part, so that no excess is seen, and the legs' own
\* quantities are right, so that no drift is.
PairOwned ==
    step = "idle" /\ ~closing.on /\ ~again =>
        \A l \in Legs : held[l] > held[Other(l)] =>
            (\E o \in Origins : task[o].leg = l) \/ l \in dust \/ Drifted

\* An order of a lane leaves a leg with what it shares with the other, or with
\* what a close that is under way has still to close.
LeavesPair ==
    orders' # orders =>
        \A l \in Legs : held'[l] # held[l] =>
            held'[l] >= Lesser(Less(Baseline(l), closing.closed[l]), held[Other(l)])

\* However stale the measured excess is when the order goes out, and whatever a
\* duplicate, a restart or the other lane did before, the matched part of a leg
\* is not sold, unless a duplicate was answered with an order for the whole leg.
OnlyExcessSold == [][~again' => LeavesPair]_vars

\* The same without exception: "One-sided and partial-match residuals repair
\* only live excess instead of full-closing matched positions."
MatchedIsKept == [][LeavesPair]_vars

\* A task that the code keeps for ever: an order that was accepted and executed
\* nothing, an excess too small to order, a position that is gone while the
\* other leg is held.
Blocked(o) ==
    LET l == task[o].leg IN
    \/ task[o].gap >= 0 /\ Executed(l, task[o].gap) = 0 /\ Over(l) > 0
    \/ task[o].gap < 0 /\ Over(l) \in 1 .. setup.smallest - 1
    \/ task[o].gap < 0 /\ Over(l) = 0 /\ WaitsForOther(l)

\* Every task is worked off, or comes into one of the three states above.
RepairEnds == []<>(\A o \in Origins : task[o] # NoTask => Blocked(o))
=============================================================================
