----------------------------- MODULE PassiveOrder -----------------------------
(* The lane that lets the resting maker order of a pending entry follow the   *)
(* market, and the manager that holds it back: a token bucket of operations,  *)
(* a shortest time between two actions, a cooldown after failures.  The state *)
(* of the lane is written with the snapshot and read back after a restart.    *)
(*                                                                            *)
(* One entry.  Time is kept as ages in ticks, so no clock bounds a run.  No   *)
(* adapter overrides amend_order, so every action is a cancel-replace; the    *)
(* timeout of decide() needs resting_since_ms, which no caller passes.        *)
EXTENDS Integers, FiniteSetsExt

CONSTANTS
    Lanes,        \* the lanes an engine may run: TRUE local L2, FALSE sidecar
    Prices,       \* mid prices, as numbers of reprice thresholds
    One,          \* units of a token
    Capacity,     \* effective capacity of the bucket, in units
    Refill,       \* units refilled in a tick
    MinAmend,     \* min_amend_interval_ms in ticks
    MaxFailures,  \* max_consecutive_failures
    Cooldown,     \* failure_cooldown_ms in ticks
    MaxRaised,    \* bound: drives that raise
    MaxRestarts   \* bound: restarts

ASSUME PassiveOrderAssumption ==
    /\ Lanes \subseteq BOOLEAN
    /\ Prices \subseteq Nat \ {0}
    /\ {One, Capacity, Refill, MinAmend, MaxFailures, Cooldown} \subseteq Nat \ {0}
    /\ Capacity >= 2 * One
    /\ MaxRaised \in Nat /\ MaxRestarts \in Nat

VARIABLES
    l2,        \* whether the local-L2 lane runs, or the sidecar lane
    mid,       \* the mid price of the maker venue
    lane,      \* _maker_event_state[entry]: manager and price, or the dict
    saved,     \* passive_order_manager_states[entry] of the snapshot
    driven,    \* what the last step sent: "nothing", or a drive that did
               \* ("applied") or did not ("vain") leave an order at mid
    books,     \* bookkeeping of what was really sent, and of the snapshot's
    raised,    \* drives that raised so far
    restarts   \* restarts so far

vars == <<l2, mid, lane, saved, driven, books, raised, restarts>>

None == [kind |-> "none"]
Never == -1                               \* a timestamp that is None
Forever == Max({MinAmend, Cooldown, Capacity \div Refill + 1})  \* an age nothing asks beyond

\* PassiveOrderManager.__init__
Fresh == [kind |-> "manager", price |-> 0, since |-> Never, stale |-> Never,
          tokens |-> Capacity, failures |-> 0, quiet |-> Never]

Older(age, n) == IF age = Never THEN Never ELSE Min({age + n, Forever})
Sooner(left, n) == IF left = Never THEN Never ELSE Max({left - n, 0})

\* the state of the lane, n ticks later
Later(s, n) ==
    CASE s.kind = "manager" -> [s EXCEPT !.since = Older(@, n), !.stale = Older(@, n),
                                         !.quiet = Sooner(@, n)]
      [] s.kind = "dict"    -> [s EXCEPT !.since = Older(@, n)]
      [] OTHER              -> s

-----------------------------------------------------------------------------
(* The manager.                                                              *)

\* mutant: the bucket has no capacity
RefilledUncapped(m) ==
    [m EXCEPT !.stale = 0,
              !.tokens = IF m.stale = Never THEN Capacity ELSE @ + m.stale * Refill]

Refilled(m) ==
    [m EXCEPT !.stale = 0,
              !.tokens = IF m.stale = Never THEN Capacity
                         ELSE Min({Capacity, @ + m.stale * Refill})]

NoteOperation(m) == [Refilled(m) EXCEPT !.tokens = Max({0, @ - One}), !.since = 0]

NoteSuccess(m) == [Refilled(m) EXCEPT !.failures = 0, !.since = 0, !.quiet = Never]

\* mutant: a cooldown for exactly the failure that reaches the limit
NoteFailureAtLimit(m) ==
    LET n == Min({m.failures + 1, MaxFailures + 1})
    IN [Refilled(m) EXCEPT !.failures = n, !.since = 0,
                           !.quiet = IF n = MaxFailures THEN Cooldown ELSE @]

NoteFailure(m) ==
    LET n == Min({m.failures + 1, MaxFailures + 1})
    IN [Refilled(m) EXCEPT !.failures = n, !.since = 0,
                           !.quiet = IF n >= MaxFailures THEN Cooldown ELSE @]

\* mutant: a cooldown that was set is never over
CoolingUntilReset(m) == m.quiet # Never

Cooling(m) == m.quiet > 0

\* what decide() leaves in the manager
Decided(m) == IF Cooling(m) THEN m ELSE [Refilled(m) EXCEPT !.quiet = Never]

Distance(p, q) == IF p < q THEN q - p ELSE p - q

\* decide()
Decision(m, target) ==
    LET d == Decided(m)
    IN CASE Cooling(m)                             -> "cooldown"
         [] ~Cooling(m) /\ d.tokens < One          -> "budget"
         [] ~Cooling(m) /\ d.tokens >= One ->
              CASE d.price = 0                     -> "place"
                [] d.price # 0 ->
                     CASE Distance(d.price, target) < 1          -> "near"
                       [] d.since # Never /\ d.since < MinAmend  -> "interval"
                       [] d.tokens < 2 * One                     -> "budget"
                       [] OTHER                                  -> "replace"

-----------------------------------------------------------------------------
(* Snapshot and restart.                                                     *)

\* mutant: the refill anchor is not read back
RestoredUnanchored(d) ==
    IF d.kind = "none" THEN None
    ELSE IF d.kind = "dict" THEN [Fresh EXCEPT !.price = d.price]
    ELSE [d EXCEPT !.stale = Never]

\* mutant: failures are not counted again
RestoredForgiven(d) ==
    IF d.kind = "none" THEN None
    ELSE IF d.kind = "dict" THEN [Fresh EXCEPT !.price = d.price]
    ELSE [d EXCEPT !.failures = 0]

\* The failures are noted again at the time of the last action, which may set
\* a cooldown; then what the snapshot holds is put over it.  Of the sidecar
\* lane's dict only the price is a field of the manager: it has no
\* last_action_at_ms, so its failures are not noted.
Restored(d) ==
    IF d.kind = "none" THEN None
    ELSE IF d.kind = "dict" THEN [Fresh EXCEPT !.price = d.price]
    ELSE LET again == IF d.since = Never THEN 0 ELSE Min({d.failures, MaxFailures})
             quiet == IF again >= MaxFailures THEN Max({0, Cooldown - d.since}) ELSE Never
         IN [d EXCEPT !.failures = again,
                      !.quiet = IF @ = Never THEN quiet ELSE @]

-----------------------------------------------------------------------------
(* What was really sent: a bucket refilled at every tick, the raised failures *)
(* in a row, and the ticks to wait after too many.                            *)

Clean == [bucket |-> Capacity, failures |-> 0, wait |-> 0]

Passed(b) == [b EXCEPT !.bucket = Min({Capacity, @ + Refill}), !.wait = Sooner(@, 1)]

Accounted(b, failed) ==
    LET f == IF failed THEN Min({b.failures + 1, MaxFailures}) ELSE 0
    IN [bucket   |-> b.bucket - 2 * One,
        failures |-> f,
        wait     |-> IF f >= MaxFailures THEN Cooldown ELSE 0]

-----------------------------------------------------------------------------
(* The lane.                                                                 *)

Init ==
    /\ l2 \in Lanes
    /\ mid \in Prices
    /\ lane = None
    /\ saved = None
    /\ driven = "nothing"
    /\ books = [now |-> Clean, saved |-> Clean]
    /\ raised = 0
    /\ restarts = 0

Tick ==
    /\ lane' = Later(lane, 1)
    /\ saved' = Later(saved, 1)
    /\ books' = [now |-> Passed(books.now), saved |-> Passed(books.saved)]
    /\ driven' = "nothing"
    /\ UNCHANGED <<l2, mid, raised, restarts>>

Move ==
    /\ mid' \in Prices \ {mid}
    /\ driven' = "nothing"
    /\ UNCHANGED <<l2, lane, saved, books, raised, restarts>>

\* What drive_pending_entry_hedge did: cancelled and replaced; a cancel that
\* failed, or a replacement of which nothing is known ("uncertain"); a
\* replacement refused, no adapter, no quantity ("rejected": it raises).
Drives ==
    {[did |-> "applied", raised |-> FALSE],
     [did |-> "vain",    raised |-> FALSE],
     [did |-> "vain",    raised |-> TRUE]}

Manager == IF lane.kind = "manager" THEN lane ELSE Fresh

\* a local-L2 event of the entry's books, and nothing is sent
Observe ==
    /\ l2
    /\ Decision(Manager, mid) # "replace"
    /\ lane' = IF Decision(Manager, mid) = "place"
               THEN [Decided(Manager) EXCEPT !.price = mid]
               ELSE Decided(Manager)
    /\ driven' = "nothing"
    /\ UNCHANGED <<l2, mid, saved, books, raised, restarts>>

\* the order is cancelled and replaced
Replace ==
    /\ l2
    /\ Decision(Manager, mid) = "replace"
    /\ LET m == NoteOperation(NoteOperation(Decided(Manager)))
       IN \E d \in Drives :
            /\ d.raised => raised < MaxRaised
            /\ lane' = IF d.raised THEN NoteFailure(m)
                       ELSE [NoteSuccess(m) EXCEPT !.price = mid]
            /\ driven' = d.did
            /\ books' = [books EXCEPT !.now = Accounted(@, d.raised)]
            /\ raised' = IF d.raised THEN raised + 1 ELSE raised
    /\ UNCHANGED <<l2, mid, saved, restarts>>

\* mutant: the last failure that is allowed is already one too many
PermittedBelow(s) == s.since >= Cooldown /\ s.failures + 1 < MaxFailures

Permitted(s) == s.since >= Cooldown /\ s.failures < MaxFailures

\* the sidecar lane; with a manager restored from the snapshot est.get raises,
\* and run_loop catches it
Sidecar ==
    /\ ~l2
    /\ driven' = "nothing"
    /\ IF lane.kind = "none"
       THEN /\ lane' = [kind |-> "dict", price |-> mid, since |-> 0, failures |-> 0]
            /\ UNCHANGED raised
       ELSE /\ lane.kind = "dict"
            /\ Permitted(lane)
            /\ Distance(lane.price, mid) >= 1
            /\ \/ /\ lane' = [lane EXCEPT !.price = mid, !.since = 0, !.failures = 0]
                  /\ UNCHANGED raised
               \/ /\ raised < MaxRaised
                  /\ lane' = [lane EXCEPT !.since = 0, !.failures = @ + 1]
                  /\ raised' = raised + 1
    /\ UNCHANGED <<l2, mid, saved, books, restarts>>

\* _sync_passive_order_manager_states, with the snapshot of the iteration
Save ==
    /\ saved' = lane
    /\ books' = [books EXCEPT !.saved = books.now]
    /\ driven' = "nothing"
    /\ UNCHANGED <<l2, mid, lane, raised, restarts>>

\* What was sent after the snapshot is not in the books of the new process.
Restart ==
    /\ restarts < MaxRestarts
    /\ lane' = Restored(saved)
    /\ saved' = Restored(saved)
    /\ books' = [books EXCEPT !.now = books.saved]
    /\ driven' = "nothing"
    /\ restarts' = restarts + 1
    /\ UNCHANGED <<l2, mid, raised>>

Next == Tick \/ Move \/ Observe \/ Replace \/ Sidecar \/ Save \/ Restart

Spec == Init /\ [][Next]_vars

\* Time passes, and books of the venue change again and again.
FairSpec == Spec /\ WF_vars(Tick) /\ WF_vars(Observe) /\ WF_vars(Replace) /\ WF_vars(Sidecar)

-----------------------------------------------------------------------------
(* Properties.                                                               *)

\* Values of the lane and of the snapshot are those the code can write.
TypeOK ==
    /\ mid \in Prices
    /\ \A s \in {lane, saved} :
          s.kind = "manager" => /\ s.tokens \in 0..Capacity
                                /\ s.quiet \in Never..Cooldown
                                /\ s.failures \in 0..(MaxFailures + 1)

\* Operations really sent never exceed a bucket that is refilled tick by tick,
\* although the manager refills only when asked, at every note, and again
\* from the snapshot after a restart (_refill_ops_bucket).  What was sent
\* between the snapshot and a stop is the only excess, and is not counted.
BudgetHeld == books.now.bucket >= 0

\* After MaxFailures drives that raised, in a row, nothing is sent for the
\* cooldown: also when the first one after a cooldown fails again, and when
\* the process is restarted in between (note_failure, decide, _restore_...).
CooldownHonoured == [][driven' # "nothing" => books.now.wait = 0]_vars

\* A manager read back from the snapshot decides as the one that was written,
\* at every price, now and until the cooldown is over.
RestoredDecidesAlike ==
    LET Alike(m, k) == \A n \in 0..Forever, p \in Prices :
            Decision(Later(m, n), p) = Decision(Later(k, n), p)
        Fail(m) == NoteFailure(Decided(m))
    IN saved.kind = "manager" =>
          /\ Alike(saved, Restored(saved))
          /\ Alike(Fail(saved), Fail(Restored(saved)))

\* The lane can still act: in the sidecar lane failures that reached the limit
\* are never forgotten, and a restart leaves it a state it cannot read.
Acting == l2 \/ (lane.kind = "dict" /\ lane.failures < MaxFailures)

\* A market that moved away from the price of the lane is followed: neither
\* the bucket nor a cooldown nor a restart keeps the lane away for ever.
PriceFollowed ==
    (lane.kind # "none" /\ Acting /\ Distance(lane.price, mid) >= 1)
        ~> (lane.kind = "none" \/ ~Acting \/ Distance(lane.price, mid) < 1)

\* "record failed operation - may trigger cooldown": where one failure is
\* enough, a drive that left no order at the new price starts the cooldown.
VainDrivesCool == [][driven' = "vain" /\ MaxFailures = 1 => Cooling(lane')]_vars
=============================================================================
