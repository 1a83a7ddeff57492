--------------------------- MODULE ResidualRepair ---------------------------
(***************************************************************************)
(* The repair lane of engine/residual_repair_runtime.py.  An entry or a    *)
(* close that filled its two legs unequally leaves a task that names the   *)
(* leg which holds too much; recover_residual_repairs measures the excess  *)
(* at the venue against what the book says the two legs share, sells it    *)
(* with a reduce-only IOC order, and keeps the task until the venue shows  *)
(* it is no longer needed.                                                 *)
(*                                                                         *)
(* One position is followed, with at most one task of each origin.  The    *)
(* client order id of a repair is made of the position and a number: the   *)
(* attempts of the task, or the number kept after a duplicate.  A venue    *)
(* refuses an id that it has seen; the refusal of some venues is           *)
(* recognised.  Delays, deadlines and pauses only slow the lane down.      *)
(***************************************************************************)
EXTENDS Integers, FiniteSets

Legs == {"long", "short"}
Origins == {"entry", "close"}

CONSTANTS
    Matched,     \* what the two legs share at first
    Excess,      \* how much more one of them may hold at first
    ExcessLegs,  \* on which leg
    Smallest,    \* the least an order may ask for, by venue
    MaxTries,    \* attempts after which a task is paused (3 in the code)
    MaxFaults,   \* bound: answers lost, reads failed
    MaxCrashes,  \* bound: crashes
    MaxCloses    \* bound: closes begun

ASSUME RepairConstants ==
    /\ Matched \in Nat \ {0}
    /\ Excess \subseteq Nat \ {0}
    /\ ExcessLegs \subseteq Legs
    /\ Smallest \subseteq Nat \ {0}
    /\ MaxTries \in Nat \ {0}
    /\ MaxFaults \in Nat /\ MaxCrashes \in Nat /\ MaxCloses \in Nat

VARIABLES
    setup,    \* the venues: least order, duplicates recognised, rule for dust
    held,     \* the venues: what each leg holds
    orders,   \* the venues: accepted orders of the two lanes and what they executed
    book,     \* open_positions: the position is there, and its quantities
    closing,  \* a close that is under way and what it closed, by leg
    task,     \* pending_residual_repairs, by origin
    saved,    \* what a restart finds: book and tasks
    step,     \* where a lane waits: "idle", "sent", "duplicate", "retry",
              \* "resolve"; "flatten" and "verify" are those of PositionDrift
    cur,      \* the origin of the task in work
    ask,      \* the order that is out, or the order whose truth is asked for
    dust,     \* legs whose rest was let go as too small for an order
    again,    \* history: a duplicate was answered with an order for the whole leg
    faults, crashes, closes

repairVars == <<task, step, cur, ask, dust, again>>

NoTask == [leg |-> "none", quantity |-> 0, tries |-> 0, next |-> -1, gap |-> -1]
NoBook == [open |-> FALSE, matched |-> 0, leg |-> [l \in Legs |-> 0]]
NoSave == [book |-> NoBook, task |-> [o \in Origins |-> NoTask]]
NoAsk == [quantity |-> 0, id |-> -1, excess |-> 0]

-----------------------------------------------------------------------------
Less(a, b) == IF a > b THEN a - b ELSE 0
Lesser(a, b) == IF a <= b THEN a ELSE b
Greater(a, b) == IF a >= b THEN a ELSE b
Other(l) == IF l = "long" THEN "short" ELSE "long"

\* _residual_repair_baseline_size
Baseline(l) == IF book.open THEN book.matched ELSE 0

\* (Mutant of Over: what the leg holds, matched or not.)
WholeLeg(l) == held[l]

Over(l) == Less(held[l], Baseline(l))

Fails == faults < MaxFaults /\ faults' = faults + 1
Works == UNCHANGED faults

Seen(l, id) == \E o \in orders : o.leg = l /\ o.id = id
Executed(l, id) == (CHOOSE o \in orders : o.leg = l /\ o.id = id).done

\* The venue takes a reduce-only order and executes some of it at once.
Executes(l, id, quantity, done) ==
    /\ ~Seen(l, id)
    /\ done <= Lesser(quantity, held[l])
    /\ held' = [held EXCEPT ![l] = @ - done]
    /\ orders' = orders \cup {[leg |-> l, id |-> id, done |-> done]}
NoOrder == UNCHANGED <<held, orders>>

-----------------------------------------------------------------------------
(* What becomes of the task in work. *)

\* What is written after the last crash of a behaviour is never read.
Writes(s) == saved' = IF crashes < MaxCrashes THEN s ELSE NoSave

\* _record_residual_repair_outcome journals the tasks of the origin that remain.
Outcome(o, t) ==
    /\ task' = [task EXCEPT ![o] = t]
    /\ Writes([saved EXCEPT !.task[o] = t])
    /\ step' = "idle" /\ cur' = "none" /\ ask' = NoAsk

Retire(o) == Outcome(o, NoTask)

\* A change of the task that only the next snapshot keeps.
Keep(o, t) ==
    /\ task' = [task EXCEPT ![o] = t]
    /\ step' = "idle" /\ cur' = "none" /\ ask' = NoAsk
    /\ UNCHANGED saved

\* _reschedule_pending_residual_repair_task or, once the attempts are used up or
\* the deadline has passed, _pause_pending_residual_repair, which keeps the count.
\* (Two of the callers go on counting; the count only matters where it names an
\* order.)
TriesAfter(t) == IF t.tries < MaxTries THEN t.tries + 1 ELSE t.tries
Reschedule(o, t) == \E n \in {t.tries, TriesAfter(t)} : Keep(o, [t EXCEPT !.tries = n])

\* (Mutant of OrderFailed: the failed order is not counted.)
NotCounted(t) == Keep(cur, t)

\* After an order the count goes on, paused or not: the next id is a new one.
OrderFailed(t) == Keep(cur, [t EXCEPT !.tries = @ + 1])

\* (Mutant of Rest: what the order asked for is taken for what it filled.)
RestIfAllFilled(excess, done) == IF done > 0 THEN 0 ELSE excess

\* What is left of the excess after a fill.
Rest(excess, done) == Less(excess, done)

\* A fill: the task ends, or goes on for the rest with its count reset.
Filled(o, excess, done) ==
    IF Rest(excess, done) = 0
    THEN Retire(o)
    ELSE Outcome(o, [NoTask EXCEPT !.leg = task[o].leg, !.quantity = Rest(excess, done)])

\* _retain_residual_repair_accepted_order_gap
RetainGap(o, id) ==
    Keep(o, [task[o] EXCEPT !.gap = id, !.tries = TriesAfter(task[o])])

-----------------------------------------------------------------------------
(* A pass over one task: the positions and open orders of both venues are read
   and the lane decides.  OrdersListed stands for the resting order of a passive
   close, which the listing may or may not show. *)

LanesRun == step = "idle" /\ ~(closing.on /\ closing.kind = "taker")
OrdersListed == closing.on

Takes(o) == LanesRun /\ task[o] # NoTask /\ task[o].gap = -1

ProbeFails(o) ==
    /\ Takes(o) /\ Fails
    /\ Reschedule(o, task[o])
    /\ NoOrder /\ UNCHANGED <<setup, book, closing, dust, again, crashes, closes>>

\* The position is gone and only the other leg is held.
WaitsForOther(l) == ~book.open /\ held[Other(l)] > 0

NothingOver(o) ==
    LET l == task[o].leg IN
    /\ Takes(o) /\ Works
    /\ Over(l) = 0
    /\ \/ OrdersListed /\ Reschedule(o, task[o])
       \/ WaitsForOther(l) /\ Reschedule(o, task[o])
       \/ ~WaitsForOther(l) /\ Retire(o)
    /\ NoOrder /\ UNCHANGED <<setup, book, closing, dust, again, crashes, closes>>

\* An excess that no order may ask for: the task waits, or is let go unless it
\* is an entry's and more than the tolerated part of what the legs share.
TooLarge(o) == setup.dust = "strict" /\ o = "entry" /\ Baseline(task[o].leg) > 0

Dust(o) ==
    LET l == task[o].leg IN
    /\ Takes(o) /\ Works
    /\ Over(l) > 0 /\ Over(l) < setup.smallest
    /\ \/ setup.dust = "wait" /\ Reschedule(o, task[o]) /\ UNCHANGED dust
       \/ setup.dust # "wait" /\ TooLarge(o) /\ Keep(o, task[o]) /\ UNCHANGED dust
       \/ setup.dust # "wait" /\ ~TooLarge(o) /\ Retire(o) /\ dust' = dust \cup {l}
    /\ NoOrder /\ UNCHANGED <<setup, book, closing, again, crashes, closes>>

NextId(t) == IF t.next >= 0 THEN t.next ELSE t.tries

Send(o) ==
    LET t == task[o] IN
    /\ Takes(o) /\ Works
    /\ Over(t.leg) >= setup.smallest
    /\ ask' = [quantity |-> Over(t.leg), id |-> NextId(t), excess |-> Over(t.leg)]
    /\ task' = [task EXCEPT ![o].next = -1]
    /\ step' = "sent" /\ cur' = o
    /\ NoOrder
    /\ UNCHANGED <<setup, book, closing, saved, dust, again, crashes, closes>>

-----------------------------------------------------------------------------
(* The order of the pass, and the second one that follows a duplicate. *)

Out(steps) == step \in steps /\ cur \in Origins
L == task[cur].leg
outRest == <<setup, book, closing, dust, crashes, closes>>

\* The order is answered with what it filled, which may be nothing.
OrderAnswered ==
    /\ Out({"sent", "retry"})
    /\ \E done \in 0 .. ask.quantity :
         /\ IF done > 0 THEN Works ELSE Fails
         /\ Executes(L, ask.id, ask.quantity, done)
         /\ Filled(cur, ask.excess, done)
    /\ UNCHANGED <<outRest, again>>

\* The answer is lost, whether or not the venue executed; or the order was
\* refused because the leg is flat.
OrderFails ==
    /\ Out({"sent", "retry"})
    /\ \/ Fails /\ NoOrder
       \/ Fails /\ \E done \in 0 .. ask.quantity : Executes(L, ask.id, ask.quantity, done)
       \/ Works /\ held[L] = 0 /\ NoOrder
    /\ OrderFailed(task[cur])
    /\ UNCHANGED <<outRest, again>>

\* The order is accepted and nothing is said of a fill: its truth is asked for,
\* under the id of the order that was answered, the second one of the pass too.
\* (The code falls back to the first id if the acknowledgement names none; every
\* adapter that raises one puts the id of its own request into it.)
AckOnly ==
    /\ Out({"sent", "retry"}) /\ Fails
    /\ \E done \in 0 .. ask.quantity : Executes(L, ask.id, ask.quantity, done)
    /\ step' = "resolve"
    /\ UNCHANGED <<outRest, again, task, saved, cur, ask>>

DuplicateUnknown ==
    /\ Out({"sent", "retry"}) /\ Works
    /\ Seen(L, ask.id) /\ ~setup.recognised
    /\ OrderFailed(task[cur])
    /\ NoOrder /\ UNCHANGED <<outRest, again>>

DuplicateKnown ==
    /\ Out({"sent"}) /\ Works
    /\ Seen(L, ask.id) /\ setup.recognised
    /\ step' = "duplicate"
    /\ NoOrder /\ UNCHANGED <<outRest, again, task, saved, cur, ask>>

\* A second duplicate in the same pass: the number after it is kept.
DuplicateAgain ==
    /\ Out({"retry"}) /\ Works
    /\ Seen(L, ask.id) /\ setup.recognised
    /\ OrderFailed([task[cur] EXCEPT !.next = ask.id + 1])
    /\ NoOrder /\ UNCHANGED <<outRest, again>>

\* reconcile_duplicate_client_order read the order as done and the leg as live
\* (-1: the read failed); resolve_duplicate_conflict decides.
Full(done) == done >= ask.quantity /\ done > 0
Cleared(done, live) ==
    \/ Full(done) /\ live = 0
    \/ ~Full(done) /\ live = 0
Repeated(done, live) ==
    \/ Full(done) /\ live > 0
    \/ ~Full(done) /\ done > 0 /\ live # 0

RetryQuantity(done, live) ==
    IF Full(done) THEN live
    ELSE IF live > 0 THEN Lesser(ask.quantity - done, live) ELSE ask.quantity - done

Duplicate ==
    /\ Out({"duplicate"})
    /\ \E done \in {0, Executed(L, ask.id)}, live \in {-1, held[L]} :
         /\ IF done = Executed(L, ask.id) /\ live = held[L] THEN Works ELSE Fails
         /\ \/ /\ Cleared(done, live)
               /\ Retire(cur) /\ UNCHANGED again
            \/ /\ Repeated(done, live)
               /\ ask' = [ask EXCEPT !.quantity = RetryQuantity(done, live),
                                     !.id = Greater(task[cur].tries, ask.id) + 1]
               /\ step' = "retry"
               /\ again' = (again \/ Full(done))
               /\ UNCHANGED <<task, saved, cur>>
            \/ /\ ~Cleared(done, live) /\ ~Repeated(done, live)
               /\ OrderFailed(task[cur]) /\ UNCHANGED again
    /\ NoOrder /\ UNCHANGED outRest

-----------------------------------------------------------------------------
(* _resolve_residual_repair_accepted_order: at once, where the excess that was
   measured is reduced, or in a later pass, where the task's quantity is. *)

Resolved(o, id, excess) ==
    LET l == task[o].leg IN
    \/ Fails /\ RetainGap(o, id)
    \/ /\ Works
       /\ \/ Executed(l, id) > 0 /\ Filled(o, excess, Executed(l, id))
          \/ Executed(l, id) = 0 /\ (OrdersListed \/ Over(l) > 0) /\ RetainGap(o, id)
          \/ Executed(l, id) = 0 /\ Over(l) = 0 /\ Retire(o)

ResolveNow ==
    /\ Out({"resolve"})
    /\ Resolved(cur, ask.id, ask.excess)
    /\ NoOrder /\ UNCHANGED <<outRest, again>>

ResolveLater(o) ==
    /\ LanesRun /\ task[o] # NoTask /\ task[o].gap >= 0
    /\ Resolved(o, task[o].gap, task[o].quantity)
    /\ NoOrder /\ UNCHANGED <<outRest, again>>

Pass(o) ==
    \/ ProbeFails(o) \/ NothingOver(o) \/ Dust(o) \/ Send(o) \/ ResolveLater(o)

LaneStep ==
    \/ OrderAnswered \/ OrderFails \/ AckOnly
    \/ DuplicateUnknown \/ DuplicateKnown \/ DuplicateAgain \/ Duplicate
    \/ ResolveNow
=============================================================================
