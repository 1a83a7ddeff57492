------------------------------- MODULE RunLoop -------------------------------
(***************************************************************************)
(* LiveRuntime.run_loop (engine/runtime.py): one iteration runs its lanes   *)
(* one after another, the ticks behind a due time and a failure backoff of  *)
(* their own.  What fails in a lane that does not catch it leaves the loop: *)
(* the process stops and systemd starts it again.                           *)
(*                                                                         *)
(* Time is kept as what is left of every deadline; a lane takes as long as  *)
(* its venue calls do.                                                      *)
(***************************************************************************)
EXTENDS Naturals, Sequences, FiniteSetsExt

CONSTANTS
    PollMs,             \* poll_interval_ms
    ActivePollMs,       \* active_position_poll_interval_ms with a position open
    MakerWakeMs,        \* maker_event_lane_min_wake_interval_ms
    BackoffInitialMs,   \* tick_failure_backoff_initial_ms
    BackoffMaxMs,       \* tick_failure_backoff_max_ms
    LaneMs,             \* what a lane may take
    MaxStops            \* bound: how often an exception leaves the loop

ASSUME PollAssumption ==
    /\ {PollMs, ActivePollMs, MakerWakeMs} \subseteq Nat \ {0}
    /\ ActivePollMs < PollMs
ASSUME BackoffAssumption == BackoffInitialMs \in Nat \ {0} /\ BackoffMaxMs \in Nat
\* Every venue call has a time limit, so a lane has a longest time.
ASSUME LaneAssumption ==
    /\ LaneMs \subseteq Nat
    /\ \E most \in LaneMs : \A ms \in LaneMs : ms <= most
    /\ MaxStops \in Nat

Order == <<"full_tick", "active_positions", "rate_limit_reload", "local_l2_sync",
           "passive_close", "normal_exit", "maker_event",
           "pending_entry_maintenance", "housekeeping", "snapshot">>
Lanes == {Order[i] : i \in DOMAIN Order}
Ticks == {"full_tick", "active_positions"}
Backed == Ticks \cup {"maker_event"}
Contained == {"rate_limit_reload", "local_l2_sync"}  \* catch whatever they meet

VARIABLES
    pc,         \* the place in Order, one past its end asleep, 0 stopped
    due,        \* time until a tick is due
    backoff,    \* time until a lane that failed may run again
    turn,       \* what the iteration decided when it began
    active,     \* a position is open and the lifecycle is running
    stops,      \* how often the loop was left
    served,     \* the lane that ran last
    delay,      \* the delay the last failure of a lane set, if it failed last
    unsupervised    \* time since housekeeping, up to a bound

loopVars == <<pc, due, backoff, turn, active, stops, served, delay, unsupervised>>

Asleep == Len(Order) + 1
Later(left, ms) == IF left > ms THEN left - ms ELSE 0
AtMost(a, b) == IF a < b THEN a ELSE b
AtLeast(a, b) == IF a > b THEN a ELSE b

\* The time housekeeping may be away: a full poll interval and every lane once.
SupervisionMs == PollMs + Len(Order) * Max(LaneMs)

Elapse(ms) == unsupervised' = AtMost(unsupervised + ms, SupervisionMs + 1)
Left(timers, ms) == [l \in DOMAIN timers |-> Later(timers[l], ms)]

\* active_position_poll_interval_ms and active_position_poll_enabled.
Begun(d, b, a) ==
    [enabled |-> a,
     due |-> {l \in Ticks : d[l] = 0 /\ (l = "active_positions" => a)},
     ready |-> {l \in Backed : b[l] = 0}]

\* (Mutant of Periodic: the lanes behind a tick wait for its backoff.)
PeriodicWhenReady == turn.due \cap turn.ready # {}
Periodic == turn.due # {}

TakesPart(lane) ==
    CASE lane \in Ticks       -> lane \in turn.due
      [] lane = "maker_event" -> lane \in turn.ready
      [] lane = "snapshot"    -> TRUE
      [] OTHER                -> Periodic

Runs(lane) == TakesPart(lane) /\ (lane \in Ticks => lane \in turn.ready)

\* _apply_tick_backoff, from what is left of the backoff when the lane fails.
BackoffAfter(left) ==
    AtMost(AtLeast(BackoffInitialMs,
                   IF left > 0 THEN 2 * left ELSE BackoffInitialMs),
           BackoffMaxMs)

Here == Order[pc]
IntervalOf(lane) ==
    IF lane = "full_tick" THEN PollMs
    ELSE IF turn.enabled THEN ActivePollMs ELSE PollMs

\* A tick that took part is due again an interval after it ended.
DueAfter(ms) ==
    [l \in Ticks |-> IF l = Here THEN IntervalOf(l) ELSE Later(due[l], ms)]

\* (Mutant of NextPlace: a lane that fails ends the iteration.)
NextPlaceOrSleep ==
    pc' = IF \E l \in Backed : l = Here /\ delay'[l] > 0 THEN Asleep ELSE pc + 1
NextPlace == pc' = pc + 1

-----------------------------------------------------------------------------
InIteration == pc \in DOMAIN Order

Skip ==
    /\ InIteration
    /\ ~Runs(Here)
    /\ due' = IF TakesPart(Here) THEN DueAfter(0) ELSE due
    /\ pc' = pc + 1
    /\ UNCHANGED <<backoff, turn, active, stops, served, delay, unsupervised>>

\* The lane runs to its end; positions may open or close meanwhile.
Ends(ms) ==
    /\ InIteration
    /\ Runs(Here)
    /\ due' = DueAfter(ms)
    /\ served' = Here
    /\ active' \in BOOLEAN
    /\ UNCHANGED <<turn, stops>>

Succeeds ==
    \E ms \in LaneMs :
        /\ Ends(ms)
        /\ backoff' = [l \in Backed |-> IF l = Here THEN 0 ELSE Later(backoff[l], ms)]
        /\ delay' = [l \in Backed |-> IF l = Here THEN 0 ELSE delay[l]]
        /\ IF Here = "housekeeping" THEN unsupervised' = 0 ELSE Elapse(ms)
        /\ NextPlace

\* The tick lanes and the maker-event lane catch their exception.
Fails(lane) ==
    /\ lane \in Backed
    /\ InIteration /\ Here = lane
    /\ \E ms \in LaneMs :
          /\ Ends(ms)
          /\ Elapse(ms)
          /\ LET new == BackoffAfter(Later(backoff[lane], ms)) IN
             /\ backoff' = [l \in Backed |-> IF l = lane THEN new ELSE Later(backoff[l], ms)]
             /\ delay' = [delay EXCEPT ![lane] = new]
          /\ NextPlace

LeavesLoop ==
    /\ stops < MaxStops
    /\ InIteration
    /\ Runs(Here)
    /\ Here \notin Backed \cup Contained
    /\ pc' = 0
    /\ stops' = stops + 1
    /\ UNCHANGED <<due, backoff, turn, active, served, delay, unsupervised>>

\* The unit file says Restart=always; a new run_loop starts with all due.
Restarted ==
    /\ pc = 0
    /\ pc' = 1
    /\ due' = [l \in Ticks |-> 0]
    /\ backoff' = [l \in Backed |-> 0]
    /\ delay' = [l \in Backed |-> 0]
    /\ turn' = Begun(due', backoff', active)
    /\ unsupervised' = 0
    /\ UNCHANGED <<active, stops, served>>

\* _runtime_loop_sleep_ms and the beginning of the next iteration.
SleepMs(fast) ==
    Min({AtLeast(1, due["full_tick"]), IntervalOf("active_positions")}
        \cup (IF turn.enabled THEN {AtLeast(1, due["active_positions"])} ELSE {})
        \cup (IF fast THEN {MakerWakeMs} ELSE {}))

Sleep ==
    /\ pc = Asleep
    /\ \E fast \in BOOLEAN :
          /\ due' = Left(due, SleepMs(fast))
          /\ backoff' = Left(backoff, SleepMs(fast))
          /\ Elapse(SleepMs(fast))
    /\ turn' = Begun(due', backoff', active)
    /\ pc' = 1
    /\ UNCHANGED <<active, stops, served, delay>>

LoopInit ==
    /\ pc = 1
    /\ due = [l \in Ticks |-> 0]
    /\ backoff = [l \in Backed |-> 0]
    /\ active \in BOOLEAN
    /\ turn = Begun(due, backoff, active)
    /\ stops = 0
    /\ served = "snapshot"
    /\ delay = [l \in Backed |-> 0]
    /\ unsupervised = 0

LoopNext ==
    \/ Skip \/ Succeeds \/ (\E l \in Backed : Fails(l))
    \/ LeavesLoop \/ Restarted \/ Sleep

LoopSpec == LoopInit /\ [][LoopNext]_loopVars

\* The event loop runs on: sleeps end, venue calls have a time limit, and the
\* process is started again.  Nothing says that a lane ever succeeds.
FairLoop == LoopSpec /\ WF_loopVars(LoopNext)

-----------------------------------------------------------------------------
(* Properties.                                                              *)

\* Ticks that fail for ever, or that take longer than the poll interval, do
\* not keep any lane from running: each runs again and again, the active
\* positions' lane as long as it is wanted.
LanesServed ==
    /\ \A l \in Lanes \ {"active_positions"} : []<>(served = l)
    /\ []<>(~active) \/ []<>(served = "active_positions")

\* Supervision and reconciliation are never away for longer than a poll
\* interval and one round of lanes, whatever fails and however often the fast
\* lanes wake the loop.
SupervisedInTime == unsupervised <= SupervisionMs
=============================================================================
