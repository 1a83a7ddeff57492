------------------------------- MODULE RiskMode -------------------------------
(***************************************************************************)
(* The lifecycle and the global risk mode of the engine and every writer of *)
(* them: the per-position risk plans and the drift check of the active lane *)
(* (engine/supervisor.py, engine/risk_actions.py), and the supervisor, the  *)
(* close accounting and the account-truth probe of housekeeping, with the   *)
(* restart from the snapshot (engine/lifecycle.py, engine/recovery.py,      *)
(* engine/recovery_startup_runtime.py, engine/recovery_decision_core.py).   *)
(*                                                                         *)
(* One position at a time, on one pair of venues; a health ratio is the     *)
(* line it lies under; the defaults of config/schema.py for the rest        *)
(* (snapshot missing means the death line, single-side protection on).      *)
(***************************************************************************)
EXTENDS Naturals, FiniteSets

CONSTANTS
    MaxSteps,       \* max_partial_delever_steps
    Cooldown,       \* partial_delever_cooldown_ms, in loop iterations
    MaxPositions,   \* bound: positions ever opened
    MaxMoves,       \* bound: changes of a venue's health
    MaxOrders,      \* bound: orders of unknown owner that appear
    MaxStarts,      \* bound: crashes and restarts
    MaxRaises,      \* bound: delevers whose close raised an exception
    Commands        \* what an operator may do to the stopped engine

ASSUME LimitAssumption == MaxSteps \in Nat /\ Cooldown \in Nat \ {0}
ASSUME BoundAssumption == {MaxPositions, MaxMoves, MaxOrders, MaxStarts, MaxRaises} \subseteq Nat
ASSUME CommandAssumption == Commands \subseteq {"fail_closed", "resume_if_safe"}

Legs == {"long", "short"}
Other(leg) == IF leg = "long" THEN "short" ELSE "long"

\* Health lines from worst to best: at or below death, at or below delever,
\* below recovery, below warning, above all of them; or no snapshot at all.
Lines == {"death", "delever", "low", "warning", "good"}
Rank == [death |-> 0, delever |-> 1, low |-> 2, warning |-> 3, good |-> 4]

Modes == {"running", "entry_paused", "reduce_only", "fail_closed"}
Severity == [running |-> 0, entry_paused |-> 1, reduce_only |-> 2, fail_closed |-> 3]

NoReason == "none"
Artifacts == {"orphan_order", "unpaired_live_position", "stale_risk_only"}
Drifted == "position_drift_correction_failed"
Unflattened == "live_position_mismatch_flatten_failed"
ByOperator == "operator_fail_closed"
CoreClearable == Artifacts \cup {Drifted}
Reasons == CoreClearable \cup {Unflattened, ByOperator, NoReason}

VARIABLES
    pc,         \* the lane of the loop iteration that comes next
    st,         \* the engine's state: lifecycle, risk mode, recovery_blocked_reason,
                \* operator (requested_mode is fail_closed), pos, owed (close accounting)
    saved,      \* the snapshot on disk
    live,       \* the legs that exist on the venues
    order,      \* an order nobody owns rests on a venue
    health,     \* line of each leg's venue, or "gone"
    tally       \* taken: delevers since health recovered; and the bounded counts

vars == <<pc, st, saved, live, order, health, tally>>

NoPosition == [open |-> FALSE, steps |-> 0, wait |-> 0]
Opened == [open |-> TRUE, steps |-> 0, wait |-> 0]

Init ==
    /\ pc = "drift"
    /\ st = [lifecycle |-> "running", risk |-> "running", blocked |-> NoReason,
             operator |-> FALSE, pos |-> NoPosition, owed |-> FALSE]
    /\ saved = st
    /\ live = {} /\ order = FALSE
    /\ health = [l \in Legs |-> "good"]
    /\ tally = [taken |-> 0, positions |-> 0, moves |-> 0, orders |-> 0, starts |-> 0,
                raises |-> 0]

FailClosed(s) == [s EXCEPT !.lifecycle = "risk_only", !.risk = "fail_closed"]
Blocked(s, reason) == [FailClosed(s) EXCEPT !.blocked = reason]
Cleared(s) == [s EXCEPT !.lifecycle = "running", !.risk = "running", !.blocked = NoReason]

-----------------------------------------------------------------------------
(* The active lane: drift of the position, then its risk plan.             *)

\* The lane runs with the lifecycle running and a position open; of the drift
\* check it may be too early, or a probe fails.
Drift ==
    /\ pc = "drift"
    /\ IF st.lifecycle = "running" /\ st.pos.open
       THEN /\ pc' = "plan"
            /\ \/ UNCHANGED <<st, saved, live>>
               \/ /\ live # Legs
                  /\ live' = {}
                  /\ st' = [st EXCEPT !.pos = NoPosition]
                  /\ saved' = st'
               \/ /\ Cardinality(live) = 1
                  /\ st' = Blocked(st, Drifted)
                  /\ UNCHANGED <<saved, live>>
       ELSE /\ pc' \in {"supervise", "save"}
            /\ UNCHANGED <<st, saved, live>>
    /\ UNCHANGED <<order, health, tally>>

Known == {l \in Legs : health[l] # "gone"}
Worst(lines) == CHOOSE h \in lines : \A o \in lines : Rank[h] <= Rank[o]
MinLine == IF Known = {} THEN "gone" ELSE Worst({health[l] : l \in Known})
AtOrBelow(line) == MinLine # "gone" /\ Rank[MinLine] <= Rank[line]
Recovered == MinLine \in {"warning", "good"}

DeathCondition == Known # Legs \/ AtOrBelow("death")
DeleverCondition == AtOrBelow("delever")

\* _select_single_side_protection_target: the leg that is closed.
ProtectedLeg ==
    IF health["long"] = "gone" THEN "short"
    ELSE IF health["short"] = "gone" THEN "long"
    ELSE IF Rank[health["long"]] <= Rank[health["short"]] THEN "long" ELSE "short"

\* supervise_position: recovery of the health ends a run of delevers.
AfterRecovery(pos) ==
    IF pos.steps > 0 /\ Recovered THEN [pos EXCEPT !.steps = 0, !.wait = 0] ELSE pos
StillCounted(pos) == IF Recovered THEN 0 ELSE tally.taken

\* (Mutant of MayDelever: the limit of the steps is one too many.)
MayDeleverOnceMore(pos) ==
    /\ DeleverCondition \/ (pos.steps > 0 /\ AtOrBelow("low"))
    /\ MaxSteps = 0 \/ pos.steps <= MaxSteps
    /\ pos.wait = 0

MayDelever(pos) ==
    /\ DeleverCondition \/ (pos.steps > 0 /\ AtOrBelow("low"))
    /\ MaxSteps = 0 \/ pos.steps < MaxSteps
    /\ pos.wait = 0

\* execute_risk_plan with the protection of one side: the reduce-only order
\* fills, or is refused.
Protect(pos) ==
    /\ st' = FailClosed([st EXCEPT !.pos = [pos EXCEPT !.wait = Cooldown]])
    /\ live' \in {live, live \ {ProtectedLeg}}

Plan ==
    /\ pc = "plan"
    /\ pc' \in {"supervise", "save"}
    /\ IF ~st.pos.open THEN UNCHANGED <<st, live, tally>>
       ELSE LET pos == AfterRecovery(st.pos)
                counted == StillCounted(st.pos)
            IN IF DeathCondition
               THEN Protect(pos) /\ tally' = [tally EXCEPT !.taken = counted]
               ELSE IF MayDelever(pos)
               THEN \/ /\ st' = [st EXCEPT !.pos = [pos EXCEPT !.steps = @ + 1,
                                                               !.wait = Cooldown]]
                       /\ tally' = [tally EXCEPT !.taken = counted + 1]
                       /\ UNCHANGED live
                    \/ /\ tally.raises < MaxRaises   \* closed in part, and not counted
                       /\ st' = [st EXCEPT !.pos = pos]
                       /\ tally' = [tally EXCEPT !.taken = counted + 1, !.raises = @ + 1]
                       /\ UNCHANGED live
                    \/ Protect(pos) /\ tally' = [tally EXCEPT !.taken = counted]
               ELSE /\ st' = [st EXCEPT !.pos = pos]
                    /\ tally' = [tally EXCEPT !.taken = counted]
                    /\ UNCHANGED live
    /\ UNCHANGED <<saved, order, health>>

-----------------------------------------------------------------------------
(* Housekeeping.                                                           *)

ModeOf(line) == CASE line \in {"gone", "death"} -> "fail_closed"
                  [] line = "delever" -> "reduce_only"
                  [] line \in {"low", "warning"} -> "entry_paused"
                  [] OTHER -> "running"

\* The venues of positions and of close accounting are supervised, no other.
HealthMode ==
    LET modes == {"running"} \cup
                 {ModeOf(health[l]) : l \in IF st.pos.open \/ st.owed THEN Legs ELSE {}}
    IN CHOOSE m \in modes : \A o \in modes : Severity[o] <= Severity[m]

\* (Mutant of CanClear: an open position is no work to reconcile.)
CanClearWithPosition == ~st.operator /\ st.blocked = NoReason

\* (Mutant of CanClear: only an open position keeps the lock.)
CanClearOnceClosed == ~st.pos.open

\* _fail_closed_can_clear
CanClear ==
    /\ ~st.operator
    /\ st.blocked = NoReason
    /\ ~st.pos.open

\* update_global_risk_mode
Supervise ==
    /\ pc = "supervise"
    /\ pc' = "reconcile"
    /\ st' = IF st.risk = "fail_closed" /\ HealthMode # "fail_closed"
             THEN IF CanClear
                  THEN [st EXCEPT !.lifecycle = "running", !.risk = HealthMode]
                  ELSE st
             ELSE IF HealthMode = st.risk THEN st
             ELSE IF HealthMode = "fail_closed" THEN FailClosed(st)
             ELSE [st EXCEPT !.risk = HealthMode]
    /\ UNCHANGED <<saved, live, order, health, tally>>

\* _process_pending_close_reconciliations: what it does to the lifecycle when
\* a reconciliation made progress (done or retained).
AfterAccounting(s, confirmed) ==
    IF ~s.pos.open /\ ~s.owed THEN [s EXCEPT !.lifecycle = "running"]
    ELSE IF s.risk = "fail_closed" \/ s.operator
    THEN [s EXCEPT !.lifecycle = "risk_only"]
    ELSE IF ~s.pos.open \/ confirmed THEN [s EXCEPT !.lifecycle = "running"]
    ELSE IF s.owed THEN [s EXCEPT !.lifecycle = "risk_only"]
    ELSE s

Reconcile ==
    /\ pc = "reconcile"
    /\ pc' = "probe"
    /\ \/ UNCHANGED st
       \/ /\ st.owed
          /\ \E owed, confirmed \in BOOLEAN :
                st' = AfterAccounting([st EXCEPT !.owed = owed], confirmed)
    /\ UNCHANGED <<saved, live, order, health, tally>>

\* V1RecoveryDecisionCore.decide on exchange truth that is complete or has gaps
\* (which rows a gap hides is open), or on none.
Flat(truth) == truth.complete /\ truth.live = {} /\ ~truth.order
Matches(s, truth) == truth.complete /\ s.pos.open /\ truth.live = Legs /\ ~truth.order
NoTruth == [complete |-> FALSE, live |-> {}, order |-> FALSE]
Truths == {[complete |-> TRUE, live |-> live, order |-> order]} \cup
          [complete : {FALSE}, live : SUBSET live, order : {FALSE, order}]

BlockReason(s, truth) ==
    IF s.operator THEN IF s.blocked # NoReason THEN s.blocked ELSE ByOperator
    ELSE IF truth.order THEN "orphan_order"
    ELSE IF (~s.pos.open /\ truth.live # {}) \/ (truth.complete /\ s.pos.open /\ truth.live # Legs)
    THEN "unpaired_live_position"
    ELSE IF s.blocked \in Artifacts /\ ~Flat(truth) /\ ~Matches(s, truth)
    THEN s.blocked
    ELSE NoReason

\* (Mutant of ClearsBlock: only a pair that matches its truth ends a block.)
ClearsBlockOfPair(s, truth) == Matches(s, truth)

\* clear_previous_block of a decision that blocks nothing
ClearsBlock(s, truth) ==
    IF s.blocked \in Artifacts THEN Flat(truth) \/ Matches(s, truth)
    ELSE s.blocked \in CoreClearable \cup {NoReason}

\* _risk_only_lifecycle_needs_account_truth
NeedsTruth(s) ==
    /\ s.lifecycle = "risk_only"
    /\ s.risk \in {"running", "fail_closed"}
    /\ ~s.operator

\* _refresh_recovery_ledger_from_exchange_truth
Refreshed(s, truth) ==
    LET reason == BlockReason(s, truth) IN
    IF reason # NoReason THEN [s EXCEPT !.blocked = reason, !.lifecycle = "risk_only"]
    ELSE IF ClearsBlock(s, truth) /\ s.blocked # NoReason THEN Cleared(s)
    ELSE IF NeedsTruth(s) /\ s.blocked = NoReason /\ Flat(truth) /\ ~s.owed THEN Cleared(s)
    ELSE s

\* _finalize_startup_recovery with a position: the decision core decides,
\* without any exchange truth.
Finalized(s) ==
    IF BlockReason(s, NoTruth) # NoReason
    THEN [s EXCEPT !.lifecycle = "risk_only"]
    ELSE Cleared(s)

\* _hydrate_balanced_startup_live_positions: a pair nobody knows is adopted.
Adopt ==
    /\ ~st.pos.open /\ live = Legs
    /\ st' = LET s == [st EXCEPT !.pos = Opened]
             IN  IF s.blocked \in CoreClearable /\ ~s.operator THEN Finalized(s) ELSE s
    /\ saved' = [saved EXCEPT !.pos = Opened]   \* recovery.live_detected is journalled
    /\ tally' = [tally EXCEPT !.taken = 0]
    /\ UNCHANGED live

\* _maybe_recover_clean_live_positions: legs that are no pair are closed, or
\* block when that fails.
Probe ==
    /\ pc = "probe"
    /\ pc' = "save"
    /\ UNCHANGED <<order, health>>
    /\ \/ UNCHANGED <<st, live, saved, tally>>
       \/ /\ st.pos.open \/ live = {}
          /\ NeedsTruth(st)
          /\ \E truth \in Truths : st' = Refreshed(st, truth)
          /\ UNCHANGED <<live, saved, tally>>
       \/ /\ ~st.pos.open /\ live # {}
          /\ \/ live' = {} /\ UNCHANGED st
             \/ st' = Blocked(st, Unflattened) /\ UNCHANGED live
          /\ UNCHANGED <<saved, tally>>
       \/ Adopt

Save ==
    /\ pc = "save"
    /\ pc' = "drift"
    /\ st' = [st EXCEPT !.pos.wait = IF @ > 0 THEN @ - 1 ELSE 0]
    /\ saved' = st'
    /\ UNCHANGED <<live, order, health, tally>>

-----------------------------------------------------------------------------
(* A crash, what an operator does to the stopped engine, and the start.    *)

\* lightfee-ops, on the snapshot; resume-if-safe refuses with a position open.
Commanded(s, command) ==
    IF command = "fail_closed" THEN [FailClosed(s) EXCEPT !.operator = TRUE]
    ELSE IF command = "resume_if_safe" /\ ~s.pos.open
    THEN [s EXCEPT !.lifecycle = "running", !.risk = "running", !.operator = FALSE]
    ELSE s

\* recover_from_snapshot and start, by the class of the state.
Started(s) ==
    IF s.operator THEN FailClosed([s EXCEPT !.blocked = BlockReason(s, NoTruth)])
    ELSE IF s.pos.open THEN Finalized(s)
    ELSE IF s.blocked # NoReason THEN FailClosed(s)
    ELSE IF s.risk = "fail_closed" \/ (s.lifecycle = "risk_only" /\ s.risk = "running")
    THEN [s EXCEPT !.lifecycle = "risk_only", !.blocked = "stale_risk_only"]
    ELSE [s EXCEPT !.lifecycle = "running"]

\* _gate_reduce_only, with the venues flat.
MayEnter ==
    /\ st.lifecycle # "risk_only"
    /\ st.risk \notin {"reduce_only", "fail_closed"}
    /\ ~st.pos.open /\ live = {}
    /\ tally.positions < MaxPositions

\* A crash may cut off an entry whose fills no snapshot names.
Restart ==
    /\ tally.starts < MaxStarts
    /\ \/ /\ tally' = [tally EXCEPT !.starts = @ + 1]
          /\ UNCHANGED live
       \/ /\ MayEnter
          /\ tally' = [tally EXCEPT !.starts = @ + 1, !.positions = @ + 1]
          /\ live' \in SUBSET Legs
    /\ \E command \in Commands \cup {"none"} : st' = Started(Commanded(saved, command))
    /\ saved' = st'
    /\ pc' = "probe"
    /\ UNCHANGED <<order, health>>

-----------------------------------------------------------------------------
(* Around the engine.                                                      *)

\* An entry opens a pair.
Enter ==
    /\ MayEnter
    /\ st' = [st EXCEPT !.pos = Opened]
    /\ saved' = [saved EXCEPT !.pos = Opened]   \* entry.opened is journalled
    /\ live' = Legs
    /\ tally' = [tally EXCEPT !.positions = @ + 1, !.taken = 0]
    /\ UNCHANGED <<pc, order, health>>

\* A close of the pair ends; its accounting may stay owed.
Close ==
    /\ st.pos.open /\ live = Legs
    /\ \E owed \in BOOLEAN :
          /\ st' = [st EXCEPT !.pos = NoPosition, !.owed = @ \/ owed]
          /\ saved' = [saved EXCEPT !.pos = NoPosition, !.owed = @ \/ owed]
    /\ live' = {}
    /\ UNCHANGED <<pc, order, health, tally>>

Move(leg, line) ==
    /\ tally.moves < MaxMoves /\ health[leg] # line
    /\ health' = [health EXCEPT ![leg] = line]
    /\ tally' = [tally EXCEPT !.moves = @ + 1]
    /\ UNCHANGED <<pc, st, saved, live, order>>

OrderMoves ==
    /\ order \/ tally.orders < MaxOrders
    /\ order' = ~order
    /\ tally' = [tally EXCEPT !.orders = @ + IF order THEN 0 ELSE 1]
    /\ UNCHANGED <<pc, st, saved, live, health>>

World == Enter \/ Close \/ OrderMoves \/ \E l \in Legs, h \in Lines \cup {"gone"} : Move(l, h)
Loop == Drift \/ Plan \/ Supervise \/ Reconcile \/ Probe \/ Save
Next == Loop \/ World \/ Restart
Spec == Init /\ [][Next]_vars

\* The loop goes on, its periodic lanes come due, and time and again the venues
\* answer the account-truth probe completely.
Periodic == (Drift \/ Plan) /\ pc' = "supervise"
CompleteTruth == \E t \in Truths : t.complete /\ st' = Refreshed(st, t)
Fairness == WF_vars(Loop) /\ SF_vars(Periodic) /\ SF_vars(Probe /\ CompleteTruth)
FairSpec == Spec /\ Fairness

-----------------------------------------------------------------------------
(* Properties.                                                             *)

\* The engine's state is one that EngineState can hold.
Position == [open : BOOLEAN, steps : Nat, wait : 0 .. Cooldown]
State == [lifecycle : {"running", "risk_only"}, risk : Modes, blocked : Reasons,
          operator : BOOLEAN, pos : Position, owed : BOOLEAN]
TypeOK ==
    /\ pc \in {"drift", "plan", "supervise", "reconcile", "probe", "save"}
    /\ st \in State /\ saved \in State
    /\ live \subseteq Legs /\ order \in BOOLEAN
    /\ health \in [Legs -> Lines \cup {"gone"}]

\* What an operator closed no supervisor, core, accounting or restart opens.
OperatorHolds == st.operator => st.risk = "fail_closed"

\* Delevers that are not in the position's count.
Forgotten == tally.starts + tally.raises

\* Between two recoveries of the health a position is delevered no more often
\* than max_partial_delever_steps allows (0 is no limit); a crash may cost one
\* step of memory, and a close that raised is not counted.
DeleverBounded == MaxSteps # 0 => tally.taken <= MaxSteps + Forgotten

\* Until the engine is restarted, a step out of fail_closed never leaves a
\* single leg on the venues: the supervisor and the account truth release a pair
\* or nothing.  A start with a position decides without exchange truth; when it
\* released a single leg, the drift check blocks again, but truth with gaps
\* clears that block.
NakedNeverReleased ==
    [][(st.risk = "fail_closed" /\ st'.risk # "fail_closed" /\ tally'.starts = 0)
        => Cardinality(live') # 1]_vars

Calm == health = [l \in Legs |-> "good"] /\ ~order /\ ~st.operator
Flatted == live = {} /\ ~st.pos.open
Running == st.lifecycle = "running" /\ st.risk = "running"

\* The probe is asked: the lifecycle is risk_only while a block stands, and the
\* block is one that account truth may clear.
Reachable == st.blocked = NoReason
             \/ (st.blocked \in CoreClearable /\ st.lifecycle = "risk_only")

\* With healthy venues, nothing left on them and no operator against it, the
\* engine comes to run again, whatever closed it, unless it is latched.
FlatResumes == <>[](Calm /\ Flatted /\ Reachable) => <>[]Running

\* "the probe that can prove the earlier risk-only latch is stale": the same,
\* whatever the close accounting did to the lifecycle meanwhile.
LatchReleased ==
    <>[](Calm /\ Flatted /\ st.blocked \in CoreClearable \cup {NoReason})
        => <>[]Running
=============================================================================
