---------------------------- MODULE RiskModeProofs ----------------------------
(***************************************************************************)
(* The risk mode's promises, for every limit of the delevers, cooldown and *)
(* number of positions, moves, orders, exceptions and restarts.            *)
(*                                                                         *)
(* Operator: the request of an operator and the mode that obeys it are in  *)
(* the snapshot as they are in memory (Obeyed).  Delevers: what was taken  *)
(* is what the position counts, but for a step each crash or raised close  *)
(* forgot; and only the step of this iteration is not in the snapshot yet  *)
(* (Counted).  A single leg: before the first restart there is one only    *)
(* with a position open in fail_closed, and what blocks is one of the      *)
(* artifacts, which only complete truth clears (Closed).                   *)
(***************************************************************************)
EXTENDS RiskMode, FiniteSetTheorems, TLAPS

Counts == [taken : Nat, positions : Nat, moves : Nat, orders : Nat, starts : Nat,
           raises : Nat]
Typed == TypeOK /\ tally \in Counts

Obeys(s) == s.operator => s.risk = "fail_closed"
Obeyed == Obeys(st) /\ Obeys(saved)

\* A position is open in memory and in the snapshot, or in neither.
InStep == saved.pos.open = st.pos.open

Unsaved == IF pc \in {"drift", "plan"} THEN 0 ELSE 1
Counted ==
    MaxSteps # 0 =>
        /\ st.pos.steps <= MaxSteps /\ saved.pos.steps <= MaxSteps
        /\ tally.taken <= MaxSteps + Forgotten
        /\ st.pos.open => /\ tally.taken <= st.pos.steps + Forgotten
                          /\ tally.taken <= saved.pos.steps + Forgotten + Unsaved

Single == live \in {{"long"}, {"short"}}
Closed ==
    tally.starts = 0 =>
        /\ ~st.operator /\ st.blocked \in Artifacts \cup {NoReason}
        /\ ~st.pos.open => live = {}
        /\ Single => st.risk = "fail_closed" /\ st.lifecycle = "risk_only" /\ st.pos.open

Inductive == Typed /\ Obeyed /\ InStep /\ Counted /\ Closed

-----------------------------------------------------------------------------
(* States and what is made of them. *)

LEMMA Limits ==
  /\ MaxSteps \in Nat /\ Cooldown \in Nat /\ Cooldown > 0
  /\ 0 \in 0 .. Cooldown /\ Cooldown \in 0 .. Cooldown
BY LimitAssumption

LEMMA ReasonsHave ==
  /\ NoReason \in Reasons /\ Drifted \in Reasons /\ Unflattened \in Reasons
  /\ ByOperator \in Reasons
  /\ "orphan_order" \in Reasons /\ "unpaired_live_position" \in Reasons
  /\ "stale_risk_only" \in Reasons
BY DEF Reasons, CoreClearable, Artifacts

LEMMA StateFields ==
  ASSUME NEW s \in State
  PROVE  /\ s.lifecycle \in {"running", "risk_only"} /\ s.risk \in Modes
         /\ s.blocked \in Reasons /\ s.operator \in BOOLEAN /\ s.owed \in BOOLEAN
         /\ s.pos \in Position /\ s.pos.open \in BOOLEAN /\ s.pos.steps \in Nat
         /\ s.pos.wait \in 0 .. Cooldown
BY DEF State, Position

\* Everything but the field that is set.
LEMMA LifecycleSet ==
  ASSUME NEW s \in State, NEW v \in {"running", "risk_only"}
  PROVE  /\ [s EXCEPT !.lifecycle = v] \in State
         /\ [s EXCEPT !.lifecycle = v].lifecycle = v
         /\ [s EXCEPT !.lifecycle = v].risk = s.risk
         /\ [s EXCEPT !.lifecycle = v].blocked = s.blocked
         /\ [s EXCEPT !.lifecycle = v].operator = s.operator
         /\ [s EXCEPT !.lifecycle = v].pos = s.pos
BY DEF State

LEMMA RiskSet ==
  ASSUME NEW s \in State, NEW v \in Modes
  PROVE  /\ [s EXCEPT !.risk = v] \in State
         /\ [s EXCEPT !.risk = v].lifecycle = s.lifecycle
         /\ [s EXCEPT !.risk = v].risk = v
         /\ [s EXCEPT !.risk = v].blocked = s.blocked
         /\ [s EXCEPT !.risk = v].operator = s.operator
         /\ [s EXCEPT !.risk = v].pos = s.pos
BY DEF State

LEMMA BlockedSet ==
  ASSUME NEW s \in State, NEW v \in Reasons
  PROVE  /\ [s EXCEPT !.blocked = v] \in State
         /\ [s EXCEPT !.blocked = v].lifecycle = s.lifecycle
         /\ [s EXCEPT !.blocked = v].risk = s.risk
         /\ [s EXCEPT !.blocked = v].blocked = v
         /\ [s EXCEPT !.blocked = v].operator = s.operator
         /\ [s EXCEPT !.blocked = v].pos = s.pos
BY DEF State

LEMMA OperatorSet ==
  ASSUME NEW s \in State, NEW v \in BOOLEAN
  PROVE  /\ [s EXCEPT !.operator = v] \in State
         /\ [s EXCEPT !.operator = v].risk = s.risk
         /\ [s EXCEPT !.operator = v].operator = v
         /\ [s EXCEPT !.operator = v].pos = s.pos
BY DEF State

LEMMA PosSet ==
  ASSUME NEW s \in State, NEW p \in Position
  PROVE  /\ [s EXCEPT !.pos = p] \in State
         /\ [s EXCEPT !.pos = p].lifecycle = s.lifecycle
         /\ [s EXCEPT !.pos = p].risk = s.risk
         /\ [s EXCEPT !.pos = p].blocked = s.blocked
         /\ [s EXCEPT !.pos = p].operator = s.operator
         /\ [s EXCEPT !.pos = p].pos = p
BY DEF State

LEMMA OwedSet ==
  ASSUME NEW s \in State, NEW v \in BOOLEAN
  PROVE  /\ [s EXCEPT !.owed = v] \in State
         /\ [s EXCEPT !.owed = v].lifecycle = s.lifecycle
         /\ [s EXCEPT !.owed = v].risk = s.risk
         /\ [s EXCEPT !.owed = v].blocked = s.blocked
         /\ [s EXCEPT !.owed = v].operator = s.operator
         /\ [s EXCEPT !.owed = v].pos = s.pos
BY DEF State

LEMMA FailClosedIs ==
  ASSUME NEW s \in State
  PROVE  /\ FailClosed(s) \in State
         /\ FailClosed(s).lifecycle = "risk_only" /\ FailClosed(s).risk = "fail_closed"
         /\ FailClosed(s).blocked = s.blocked /\ FailClosed(s).operator = s.operator
         /\ FailClosed(s).pos = s.pos
BY DEF FailClosed, State, Modes

LEMMA BlockedIs ==
  ASSUME NEW s \in State, NEW reason \in Reasons
  PROVE  /\ Blocked(s, reason) \in State
         /\ Blocked(s, reason).lifecycle = "risk_only"
         /\ Blocked(s, reason).risk = "fail_closed"
         /\ Blocked(s, reason).blocked = reason /\ Blocked(s, reason).operator = s.operator
         /\ Blocked(s, reason).pos = s.pos
BY FailClosedIs, BlockedSet DEF Blocked

LEMMA ClearedIs ==
  ASSUME NEW s \in State
  PROVE  /\ Cleared(s) \in State
         /\ Cleared(s).lifecycle = "running" /\ Cleared(s).risk = "running"
         /\ Cleared(s).blocked = NoReason /\ Cleared(s).operator = s.operator
         /\ Cleared(s).pos = s.pos
BY ReasonsHave DEF Cleared, State, Modes

LEMMA PositionSet ==
  ASSUME NEW p \in Position
  PROVE  /\ \A n \in Nat, w \in 0 .. Cooldown :
              /\ [p EXCEPT !.steps = n, !.wait = w] \in Position
              /\ [p EXCEPT !.steps = n, !.wait = w].steps = n
              /\ [p EXCEPT !.steps = n, !.wait = w].open = p.open
         /\ \A w \in 0 .. Cooldown :
              /\ [p EXCEPT !.wait = w] \in Position
              /\ [p EXCEPT !.wait = w].steps = p.steps
              /\ [p EXCEPT !.wait = w].open = p.open
BY DEF Position

LEMMA PositionsAre ==
  /\ NoPosition \in Position /\ ~NoPosition.open /\ NoPosition.steps = 0
  /\ Opened \in Position /\ Opened.open /\ Opened.steps = 0
BY Limits DEF NoPosition, Opened, Position

LEMMA OneLeg ==
  ASSUME NEW legs \in SUBSET Legs
  PROVE  /\ legs \in {{}, {"long"}, {"short"}, Legs}
         /\ Cardinality(legs) = 1 <=> legs \in {{"long"}, {"short"}}
<1>1. legs \in {{}, {"long"}, {"short"}, Legs}
  BY DEF Legs
<1>2. Cardinality({}) = 0
  BY FS_EmptySet
<1>3. Cardinality({"long"}) = 1 /\ Cardinality({"short"}) = 1
  BY FS_Singleton
<1>4. Cardinality(Legs) = 2 /\ Legs # {"long"} /\ Legs # {"short"}
  <2>1. IsFiniteSet({"long"}) /\ Cardinality({"long"}) = 1
    BY FS_Singleton
  <2>2. Cardinality({"long"} \cup {"short"}) = 2
    BY <2>1, FS_AddElement
  <2>3. Legs = {"long"} \cup {"short"}
    BY DEF Legs
  <2> QED BY <2>2, <2>3 DEF Legs
<1> QED BY <1>1, <1>2, <1>3, <1>4

-----------------------------------------------------------------------------
(* Steps that change no count. *)

Places == {"drift", "plan", "supervise", "reconcile", "probe", "save"}
Fresh == {"drift", "plan"}   \* the places from a snapshot to the plan

LEMMA TypedFields ==
  ASSUME Typed
  PROVE  /\ st \in State /\ saved \in State /\ live \in SUBSET Legs
         /\ tally.taken \in Nat /\ tally.starts \in Nat /\ Forgotten \in Nat
         /\ st.pos \in Position /\ st.pos.steps \in Nat /\ st.pos.open \in BOOLEAN
         /\ saved.pos.steps \in Nat /\ saved.pos.open \in BOOLEAN
         /\ pc \in Places
<1>1. tally.starts \in Nat /\ tally.raises \in Nat
  BY DEF Typed, Counts
<1>2. Forgotten \in Nat
  BY <1>1 DEF Forgotten
<1> QED BY <1>2, StateFields DEF Typed, TypeOK, Counts, Places

\* What was taken is counted anew, and nothing forgotten.
LEMMA TakenSet ==
  ASSUME Typed, NEW taken \in Nat, tally' = [tally EXCEPT !.taken = taken]
  PROVE  /\ tally' \in Counts /\ tally'.taken = taken /\ tally'.starts = tally.starts
         /\ Forgotten' = Forgotten
<1>1. /\ tally' \in Counts /\ tally'.taken = taken
      /\ tally'.starts = tally.starts /\ tally'.raises = tally.raises
  BY DEF Typed, Counts
<1> QED BY <1>1 DEF Forgotten

\* What must be so as long as the engine was not restarted.
Fit(s, legs) ==
    /\ ~s.operator /\ s.blocked \in Artifacts \cup {NoReason}
    /\ ~s.pos.open => legs = {}
    /\ legs \in {{"long"}, {"short"}} =>
         s.risk = "fail_closed" /\ s.lifecycle = "risk_only" /\ s.pos.open

LEMMA ClosedIsFit == Closed <=> (tally.starts = 0 => Fit(st, live))
BY DEF Closed, Fit, Single

\* Of a step that leaves the position, its count and the snapshot alone only the
\* new mode and what is left on the venues is to be asked.
LEMMA ModeStep ==
  ASSUME Inductive, st' \in State, Obeys(st'),
         st'.pos.open = st.pos.open, st'.pos.steps = st.pos.steps,
         live' \in SUBSET Legs, tally.starts = 0 => Fit(st', live'),
         pc' \in Places, pc' \in Fresh => pc \in Fresh,
         UNCHANGED <<saved, order, health, tally>>
  PROVE  Inductive'
<1>1. Typed'
  BY DEF Inductive, Typed, TypeOK, Places
<1>2. Obeyed' /\ InStep'
  BY DEF Inductive, Obeyed, Obeys, InStep
<1>3. Closed'
  BY DEF Closed, Fit, Single
<1>4. Counted'
  <2>1. Unsaved \in {0, 1} /\ Unsaved' \in {0, 1} /\ Unsaved <= Unsaved'
    BY DEF Unsaved, Fresh
  <2>2. Typed /\ Counted /\ Forgotten' = Forgotten
    BY DEF Inductive, Forgotten
  <2> HIDE DEF Inductive
  <2> SUFFICES ASSUME MaxSteps # 0, st.pos.open
               PROVE  tally.taken <= saved.pos.steps + Forgotten + Unsaved'
    BY <2>2 DEF Counted
  <2>3. tally.taken <= saved.pos.steps + Forgotten + Unsaved
    BY <2>2 DEF Counted
  <2> QED BY <2>1, <2>2, <2>3, TypedFields
<1> QED BY <1>1, <1>2, <1>3, <1>4 DEF Inductive

LEMMA SuperviseInductive == ASSUME Inductive, Supervise PROVE Inductive'
<1>1. Typed /\ Obeys(st) /\ Closed
  BY DEF Inductive, Obeyed
<1>2. st \in State /\ st.pos \in Position
  BY <1>1, TypedFields
<1>3. HealthMode \in Modes
  <2> DEFINE modes == {"running"} \cup
                 {ModeOf(health[l]) : l \in IF st.pos.open \/ st.owed THEN Legs ELSE {}}
             harshest(m) == m \in modes /\ \A o \in modes : Severity[o] <= Severity[m]
  <2>1. modes \subseteq Modes /\ "running" \in modes
    BY DEF ModeOf, Modes
  <2>2. Severity["running"] = 0 /\ Severity["entry_paused"] = 1
        /\ Severity["reduce_only"] = 2 /\ Severity["fail_closed"] = 3
    BY DEF Severity
  <2>3. \E m \in modes : \A o \in modes : Severity[o] <= Severity[m]
    <3> HIDE DEF modes
    <3>1. CASE "fail_closed" \in modes
      BY <2>1, <2>2, <3>1 DEF Modes
    <3>2. CASE "fail_closed" \notin modes /\ "reduce_only" \in modes
      BY <2>1, <2>2, <3>2 DEF Modes
    <3>3. CASE "fail_closed" \notin modes /\ "reduce_only" \notin modes /\ "entry_paused" \in modes
      BY <2>1, <2>2, <3>3 DEF Modes
    <3>4. CASE modes \subseteq {"running"}
      BY <2>1, <2>2, <3>4
    <3> QED BY <2>1, <3>1, <3>2, <3>3, <3>4 DEF Modes
  <2>4. HealthMode = CHOOSE m \in modes : \A o \in modes : Severity[o] <= Severity[m]
    BY DEF HealthMode
  <2> HIDE DEF modes
  <2> QED BY <2>1, <2>3, <2>4
<1>4. CASE st.risk = "fail_closed" /\ HealthMode # "fail_closed" /\ CanClear
  <2>1. st' = [st EXCEPT !.lifecycle = "running", !.risk = HealthMode]
    BY <1>4 DEF Supervise
  <2>2. /\ st' \in State /\ st'.operator = st.operator /\ st'.blocked = st.blocked
        /\ st'.pos = st.pos
    BY <1>2, <1>3, <2>1 DEF State
  <2>3. ~st.operator /\ ~st.pos.open
    BY <1>4 DEF CanClear
  <2>4. tally.starts = 0 => Fit(st', live')
    BY <1>1, <2>2, <2>3, ClosedIsFit DEF Fit, Supervise
  <2> QED BY <1>1, <2>2, <2>3, <2>4, TypedFields, ModeStep DEF Supervise, Obeys, Places, Fresh
<1>5. CASE st' = st
  BY <1>1, <1>2, <1>5, ClosedIsFit, TypedFields, ModeStep DEF Supervise, Obeys, Fit, Places, Fresh
<1>6. CASE HealthMode = "fail_closed" /\ st' = FailClosed(st)
  BY <1>1, <1>2, <1>6, ClosedIsFit, FailClosedIs, TypedFields, ModeStep
  DEF Supervise, Obeys, Fit, Places, Fresh
<1>7. CASE st.risk # "fail_closed" /\ st' = [st EXCEPT !.risk = HealthMode]
  <2>1. /\ st' \in State /\ st'.operator = st.operator /\ st'.blocked = st.blocked
        /\ st'.pos = st.pos /\ ~st.operator
        /\ st.lifecycle = st'.lifecycle
    BY <1>1, <1>2, <1>3, <1>7, RiskSet DEF Obeys
  <2>2. tally.starts = 0 => Fit(st', live')
    BY <1>1, <1>7, <2>1, ClosedIsFit DEF Fit, Supervise
  <2> QED BY <1>1, <2>1, <2>2, TypedFields, ModeStep DEF Supervise, Obeys, Places, Fresh
<1> QED BY <1>4, <1>5, <1>6, <1>7 DEF Supervise

LEMMA AccountingKeeps ==
  ASSUME NEW s \in State, NEW confirmed \in BOOLEAN
  PROVE  /\ AfterAccounting(s, confirmed) \in State
         /\ AfterAccounting(s, confirmed).risk = s.risk
         /\ AfterAccounting(s, confirmed).blocked = s.blocked
         /\ AfterAccounting(s, confirmed).operator = s.operator
         /\ AfterAccounting(s, confirmed).pos = s.pos
         /\ s.pos.open /\ s.risk = "fail_closed"
              => AfterAccounting(s, confirmed).lifecycle = "risk_only"
BY StateFields, LifecycleSet DEF AfterAccounting

LEMMA ReconcileInductive == ASSUME Inductive, Reconcile PROVE Inductive'
<1>1. Typed /\ Obeys(st) /\ Closed
  BY DEF Inductive, Obeyed
<1>2. st \in State /\ st.pos \in Position
  BY <1>1, TypedFields
<1>3. CASE st' = st
  BY <1>1, <1>2, <1>3, ClosedIsFit, TypedFields, ModeStep DEF Reconcile, Obeys, Fit, Places, Fresh
<1>4. CASE st' # st
  <2>1. PICK owed \in BOOLEAN, confirmed \in BOOLEAN :
            st' = AfterAccounting([st EXCEPT !.owed = owed], confirmed)
    BY <1>4 DEF Reconcile
  <2> DEFINE s == [st EXCEPT !.owed = owed]
  <2>2. /\ s \in State /\ s.risk = st.risk /\ s.blocked = st.blocked
        /\ s.operator = st.operator /\ s.pos = st.pos
    BY <1>2, OwedSet
  <2> HIDE DEF s
  <2>3. st' = AfterAccounting(s, confirmed)
    BY <2>1 DEF s
  <2>4. /\ st' \in State /\ st'.risk = st.risk /\ st'.blocked = st.blocked
        /\ st'.operator = st.operator /\ st'.pos = st.pos
        /\ st.pos.open /\ st.risk = "fail_closed" => st'.lifecycle = "risk_only"
    BY <2>2, <2>3, AccountingKeeps
  <2>5. Obeys(st') /\ (tally.starts = 0 => Fit(st', live'))
    BY <1>1, <2>4, ClosedIsFit DEF Obeys, Fit, Reconcile
  <2> QED BY <1>1, <2>4, <2>5, TypedFields, ModeStep DEF Reconcile, Places, Fresh
<1> QED BY <1>3, <1>4

LEMMA TruthsAre ==
  ASSUME NEW truth \in Truths
  PROVE  truth.complete => truth.live = live /\ truth.order = order
<1>1. CASE truth = [complete |-> TRUE, live |-> live, order |-> order]
  BY <1>1
<1>2. CASE truth \in [complete : {FALSE}, live : SUBSET live, order : {FALSE, order}]
  <2>1. truth.complete \in {FALSE}
    BY <1>2
  <2> QED BY <2>1
<1> QED BY <1>1, <1>2 DEF Truths

LEMMA ReasonOfBlock ==
  ASSUME NEW s \in State, NEW truth
  PROVE  /\ BlockReason(s, truth) \in Reasons
         /\ ~s.operator => BlockReason(s, truth) \in Artifacts \cup {NoReason}
<1>1. s.blocked \in Reasons
  BY StateFields
<1>2. BlockReason(s, truth) \in {s.blocked, ByOperator, "orphan_order",
                                "unpaired_live_position", NoReason}
  BY DEF BlockReason
<1>3. ~s.operator /\ BlockReason(s, truth) \notin {"orphan_order",
                                "unpaired_live_position", NoReason}
        => s.blocked \in Artifacts /\ BlockReason(s, truth) = s.blocked
  BY DEF BlockReason
<1>4. {"orphan_order", "unpaired_live_position"} \subseteq Artifacts
  BY DEF Artifacts
<1> QED BY <1>1, <1>2, <1>3, <1>4, ReasonsHave

\* Account truth ends a block or adds one; a single leg never makes it end one
\* of the artifacts.
LEMMA RefreshedIs ==
  ASSUME NEW s \in State, NEW truth \in Truths, NeedsTruth(s)
  PROVE  /\ Refreshed(s, truth) \in State
         /\ ~Refreshed(s, truth).operator
         /\ Refreshed(s, truth).pos = s.pos
         /\ Fit(s, live) => Fit(Refreshed(s, truth), live)
<1> DEFINE reason == BlockReason(s, truth)
<1>1. reason \in Reasons /\ ~s.operator /\ reason \in Artifacts \cup {NoReason}
  BY ReasonOfBlock DEF NeedsTruth
<1>2. CASE reason # NoReason
  <2>1. Refreshed(s, truth) = [s EXCEPT !.blocked = reason, !.lifecycle = "risk_only"]
    BY <1>2 DEF Refreshed
  <2> HIDE DEF reason
  <2>2. /\ Refreshed(s, truth) \in State
        /\ Refreshed(s, truth).operator = s.operator /\ Refreshed(s, truth).pos = s.pos
        /\ Refreshed(s, truth).blocked = reason /\ Refreshed(s, truth).risk = s.risk
        /\ Refreshed(s, truth).lifecycle = "risk_only"
    BY <1>1, <2>1 DEF State
  <2> QED BY <1>1, <2>2 DEF Fit
<1>3. CASE /\ reason = NoReason
           /\ \/ ClearsBlock(s, truth) /\ s.blocked # NoReason
              \/ s.blocked = NoReason /\ Flat(truth) /\ ~s.owed
  <2>1. Refreshed(s, truth) = Cleared(s)
    BY <1>3 DEF Refreshed
  <2>2. Fit(s, live) => live \in {{}, Legs}
    <3>1. Fit(s, live) => Flat(truth) \/ Matches(s, truth)
      BY <1>3 DEF Fit, ClearsBlock
    <3>2. Flat(truth) \/ Matches(s, truth) => live \in {{}, Legs}
      BY TruthsAre DEF Flat, Matches
    <3> QED BY <3>1, <3>2
  <2>3. Fit(s, live) => live \notin {{"long"}, {"short"}}
    BY <2>2 DEF Legs
  <2> QED BY <1>1, <2>1, <2>3, ClearedIs DEF Fit
<1>4. CASE Refreshed(s, truth) = s
  BY <1>1, <1>4
<1> QED BY <1>2, <1>3, <1>4 DEF Refreshed

LEMMA FinalizedIs ==
  ASSUME NEW s \in State, Obeys(s), ~s.operator
  PROVE  Finalized(s) \in State /\ Obeys(Finalized(s)) /\ Finalized(s).pos = s.pos
<1>1. CASE Finalized(s) = [s EXCEPT !.lifecycle = "risk_only"]
  <2>1. [s EXCEPT !.lifecycle = "risk_only"] \in State
        /\ [s EXCEPT !.lifecycle = "risk_only"].operator = s.operator
        /\ [s EXCEPT !.lifecycle = "risk_only"].pos = s.pos
    BY LifecycleSet
  <2> QED BY <1>1, <2>1 DEF Obeys
<1>2. CASE Finalized(s) = Cleared(s)
  BY <1>2, ClearedIs DEF Obeys
<1> QED BY <1>1, <1>2 DEF Finalized

\* A position begins, in memory and in the snapshot, by an entry or a pair that
\* is adopted.
LEMMA OpenedStep ==
  ASSUME Inductive, st' \in State, Obeys(st'), st'.pos = Opened,
         saved' = [saved EXCEPT !.pos = Opened], live' = Legs, pc' \in Places,
         tally' \in Counts, tally'.taken = 0, tally'.starts = tally.starts,
         tally.starts = 0 => ~st'.operator /\ st'.blocked \in Artifacts \cup {NoReason},
         UNCHANGED <<order, health>>
  PROVE  Inductive'
<1>1. Typed /\ Obeyed
  BY DEF Inductive
<1>2. /\ saved' \in State /\ saved'.operator = saved.operator
      /\ saved'.risk = saved.risk /\ saved'.pos = Opened
  BY <1>1, TypedFields, PosSet, PositionsAre
<1>3. Typed'
  BY <1>1, <1>2 DEF Typed, TypeOK, Places
<1>4. Obeyed' /\ InStep'
  BY <1>1, <1>2 DEF Obeyed, Obeys, InStep
<1>5. Closed'
  <2>1. Legs \notin {{"long"}, {"short"}}
    BY DEF Legs
  <2> QED BY <2>1, PositionsAre DEF Closed, Single
<1>6. Counted'
  <2>1. Unsaved' \in {0, 1}
    BY DEF Unsaved
  <2>2. Forgotten' \in Nat
    <3>1. tally'.starts \in Nat /\ tally'.raises \in Nat
      BY DEF Counts
    <3> QED BY <3>1 DEF Forgotten
  <2> QED BY <1>2, <2>1, <2>2, PositionsAre, Limits DEF Counted
<1> QED BY <1>3, <1>4, <1>5, <1>6 DEF Inductive

LEMMA AdoptInductive ==
  ASSUME Inductive, Adopt, pc' \in Places, UNCHANGED <<order, health>> PROVE Inductive'
<1> DEFINE s == [st EXCEPT !.pos = Opened]
<1>1. Typed /\ Obeys(st) /\ Closed
  BY DEF Inductive, Obeyed
<1>2. /\ s \in State /\ s.operator = st.operator /\ s.risk = st.risk /\ s.pos = Opened
  BY <1>1, TypedFields, PosSet, PositionsAre
<1>3. /\ st' = IF s.blocked \in CoreClearable /\ ~s.operator THEN Finalized(s) ELSE s
      /\ saved' = [saved EXCEPT !.pos = Opened] /\ live' = Legs
      /\ tally' = [tally EXCEPT !.taken = 0] /\ ~st.pos.open /\ live = Legs
  BY DEF Adopt
<1> HIDE DEF s
<1>4. Obeys(s)
  BY <1>1, <1>2 DEF Obeys
<1>5. st' \in State /\ Obeys(st') /\ st'.pos = Opened
  BY <1>2, <1>3, <1>4, FinalizedIs
<1>6. tally.starts # 0
  BY <1>1, <1>3 DEF Closed, Legs
<1>7. tally' \in Counts /\ tally'.taken = 0 /\ tally'.starts = tally.starts
  BY <1>1, <1>3, TakenSet
<1> QED BY <1>3, <1>5, <1>6, <1>7, OpenedStep

LEMMA ProbeInductive == ASSUME Inductive, Probe PROVE Inductive'
<1>0. pc' = "save" /\ UNCHANGED <<order, health>>
  BY DEF Probe
<1>1. Typed /\ Obeys(st) /\ Closed
  BY DEF Inductive, Obeyed
<1>2. st \in State /\ st.pos \in Position /\ live \in SUBSET Legs
  BY <1>1, TypedFields
<1>3. CASE UNCHANGED <<st, live, saved, tally>>
  BY <1>0, <1>1, <1>2, <1>3, ClosedIsFit, ModeStep DEF Obeys, Fit, Places, Fresh
<1>4. CASE NeedsTruth(st) /\ UNCHANGED <<live, saved, tally>>
           /\ \E truth \in Truths : st' = Refreshed(st, truth)
  <2>1. /\ st' \in State /\ ~st'.operator /\ st'.pos = st.pos
        /\ Fit(st, live) => Fit(st', live')
    BY <1>2, <1>4, RefreshedIs
  <2>2. Obeys(st') /\ (tally.starts = 0 => Fit(st', live'))
    BY <1>1, <2>1, ClosedIsFit DEF Obeys
  <2> QED BY <1>0, <1>2, <1>4, <2>1, <2>2, ModeStep DEF Places, Fresh
<1>5. CASE /\ ~st.pos.open /\ live # {}
           /\ \/ live' = {} /\ st' = st
              \/ st' = Blocked(st, Unflattened) /\ live' = live
           /\ UNCHANGED <<saved, tally>>
  <2>1. tally.starts # 0
    BY <1>1, <1>5 DEF Closed
  <2>2. CASE st' = st
    BY <1>0, <1>1, <1>2, <1>5, <2>1, <2>2, ModeStep DEF Places, Fresh
  <2>3. CASE st' = Blocked(st, Unflattened)
    <3>1. st' \in State /\ Obeys(st') /\ st'.pos = st.pos
      BY <1>2, <2>3, BlockedIs, ReasonsHave DEF Obeys
    <3> QED BY <1>0, <1>2, <1>5, <2>1, <3>1, ModeStep DEF Places, Fresh
  <2> QED BY <1>5, <2>2, <2>3
<1>6. CASE Adopt
  BY <1>0, <1>6, AdoptInductive DEF Places
<1> QED BY <1>3, <1>4, <1>5, <1>6 DEF Probe

LEMMA SaveInductive == ASSUME Inductive, Save PROVE Inductive'
<1>1. Typed /\ Obeys(st) /\ Closed /\ Counted
  BY DEF Inductive, Obeyed
<1>2. /\ st \in State /\ st.pos \in Position /\ st.pos.wait \in 0 .. Cooldown
      /\ st.pos.open \in BOOLEAN
  BY <1>1, TypedFields, StateFields
<1> DEFINE wait == IF st.pos.wait > 0 THEN st.pos.wait - 1 ELSE 0
<1>3. wait \in 0 .. Cooldown
  BY <1>2, Limits
<1> HIDE DEF wait
<1>4. st' = [st EXCEPT !.pos = [st.pos EXCEPT !.wait = wait]]
  BY <1>2 DEF Save, State, wait
<1> DEFINE p == [st.pos EXCEPT !.wait = wait]
<1>5. p \in Position /\ p.steps = st.pos.steps /\ p.open = st.pos.open
  BY <1>2, <1>3, PositionSet
<1> HIDE DEF p
<1>6. /\ st' \in State /\ st'.pos = p /\ st'.operator = st.operator
      /\ st'.risk = st.risk /\ st'.blocked = st.blocked /\ st'.lifecycle = st.lifecycle
  BY <1>2, <1>4, <1>5, PosSet DEF p
<1>7. saved' = st' /\ pc' = "drift" /\ UNCHANGED <<live, order, health, tally>>
  BY DEF Save
<1>8. Typed'
  BY <1>1, <1>6, <1>7 DEF Typed, TypeOK
<1>9. Obeyed' /\ InStep'
  BY <1>1, <1>6, <1>7 DEF Obeyed, Obeys, InStep
<1>10. Counted'
  <2>1. Unsaved' = 0
    BY <1>7 DEF Unsaved
  <2>2. tally.taken \in Nat /\ Forgotten \in Nat /\ st.pos.steps \in Nat
    BY <1>1, TypedFields
  <2>3. Forgotten' = Forgotten
    BY <1>7 DEF Forgotten
  <2> QED BY <1>1, <1>5, <1>6, <1>7, <2>1, <2>2, <2>3 DEF Counted
<1>11. Closed'
  BY <1>1, <1>5, <1>6, <1>7 DEF Closed, Single
<1> QED BY <1>8, <1>9, <1>10, <1>11 DEF Inductive

-----------------------------------------------------------------------------
(* The active lane. *)

\* The position ends, in memory and in the snapshot.
LEMMA ShutStep ==
  ASSUME Inductive, st' \in State, saved' \in State,
         st'.pos = NoPosition, saved'.pos = NoPosition, live' = {},
         Obeys(st'), Obeys(saved'),
         st'.operator = st.operator, st'.blocked = st.blocked,
         pc' \in Places, UNCHANGED <<order, health, tally>>
  PROVE  Inductive'
<1>1. Typed'
  BY DEF Inductive, Typed, TypeOK, Places
<1>2. Obeyed' /\ InStep'
  BY PositionsAre DEF Obeyed, Obeys, InStep
<1>3. Closed'
  BY PositionsAre DEF Inductive, Closed, Single
<1>4. Counted'
  <2>1. Forgotten' = Forgotten
    BY DEF Forgotten
  <2> QED BY <2>1, PositionsAre, Limits DEF Inductive, Counted
<1> QED BY <1>1, <1>2, <1>3, <1>4 DEF Inductive

LEMMA DriftInductive == ASSUME Inductive, Drift PROVE Inductive'
<1>1. Typed /\ Obeys(st) /\ Closed
  BY DEF Inductive, Obeyed
<1>2. st \in State /\ st.pos \in Position /\ live \in SUBSET Legs
  BY <1>1, TypedFields
<1>3. pc = "drift" /\ pc' \in Places /\ UNCHANGED <<order, health, tally>>
  BY DEF Drift, Places
<1>4. CASE UNCHANGED <<st, saved, live>>
  BY <1>1, <1>2, <1>3, <1>4, ClosedIsFit, ModeStep DEF Obeys, Fit, Fresh
<1>5. CASE st' = [st EXCEPT !.pos = NoPosition] /\ saved' = st' /\ live' = {}
  <2>1. /\ st' \in State /\ st'.operator = st.operator /\ st'.blocked = st.blocked
        /\ st'.risk = st.risk /\ st'.pos = NoPosition
    BY <1>2, <1>5, PosSet, PositionsAre
  <2> QED BY <1>1, <1>3, <1>5, <2>1, ShutStep DEF Obeys
<1>6. CASE /\ st.lifecycle = "running" /\ Cardinality(live) = 1
           /\ st' = Blocked(st, Drifted) /\ UNCHANGED <<saved, live>>
  <2>1. live \in {{"long"}, {"short"}}
    BY <1>2, <1>6, OneLeg
  <2>2. tally.starts # 0
    BY <1>1, <1>6, <2>1, ClosedIsFit DEF Fit
  <2>3. st' \in State /\ Obeys(st') /\ st'.pos = st.pos
    BY <1>2, <1>6, BlockedIs, ReasonsHave DEF Obeys
  <2> QED BY <1>2, <1>3, <1>6, <2>2, <2>3, ModeStep DEF Fresh
<1> QED BY <1>4, <1>5, <1>6 DEF Drift

\* The plan of an open position: what it counts, and what was taken.
LEMMA PlanStep ==
  ASSUME Inductive, pc = "plan", pc' \in {"supervise", "save"},
         NEW taken \in Nat, st' \in State, st'.pos.open,
         st.pos.open, live' \in SUBSET Legs, Obeys(st'),
         MaxSteps # 0 => /\ st'.pos.steps <= MaxSteps
                         /\ taken <= st'.pos.steps + Forgotten'
                         /\ taken <= saved.pos.steps + Forgotten' + 1,
         tally' \in Counts, tally'.taken = taken, tally'.starts = tally.starts,
         tally.starts = 0 => Fit(st', live'),
         UNCHANGED <<saved, order, health>>
  PROVE  Inductive'
<1>1. Forgotten' \in Nat
  <2>1. tally'.starts \in Nat /\ tally'.raises \in Nat
    BY DEF Counts
  <2> QED BY <2>1 DEF Forgotten
<1>2. Typed'
  BY DEF Inductive, Typed, TypeOK
<1>3. Obeyed' /\ InStep'
  BY DEF Inductive, Obeyed, Obeys, InStep
<1>4. Closed'
  BY DEF Closed, Fit, Single
<1>5. Counted'
  <2>1. Unsaved' = 1
    BY DEF Unsaved
  <2>2. /\ MaxSteps # 0 => saved.pos.steps <= MaxSteps
        /\ saved.pos.steps \in Nat /\ st'.pos.steps \in Nat
    BY TypedFields, StateFields DEF Inductive, Counted
  <2>3. MaxSteps # 0 => taken <= MaxSteps + Forgotten'
    BY <1>1, <2>2, Limits
  <2> QED BY <1>1, <2>1, <2>2, <2>3 DEF Counted
<1> QED BY <1>2, <1>3, <1>4, <1>5 DEF Inductive

\* A plan that protects one side: the legs that are left are under fail_closed.
LEMMA ProtectStep ==
  ASSUME Typed, Closed, NEW p \in Position, p.open, st.pos.open, Protect(p)
  PROVE  /\ st' \in State /\ st'.pos.open /\ st'.pos.steps = p.steps
         /\ live' \in SUBSET Legs /\ Obeys(st')
         /\ tally.starts = 0 => Fit(st', live')
<1>1. st \in State /\ live \in SUBSET Legs
  BY TypedFields
<1> DEFINE q == [p EXCEPT !.wait = Cooldown]
           s == [st EXCEPT !.pos = q]
<1>2. q \in Position /\ q.steps = p.steps /\ q.open
  BY PositionSet, Limits
<1>3. st' = FailClosed(s) /\ live' \in {live, live \ {ProtectedLeg}}
  BY DEF Protect
<1> HIDE DEF q
<1>4. s \in State /\ s.operator = st.operator /\ s.blocked = st.blocked /\ s.pos = q
  BY <1>1, <1>2, PosSet
<1> HIDE DEF s
<1>5. /\ st' \in State /\ st'.pos = q /\ st'.risk = "fail_closed"
      /\ st'.lifecycle = "risk_only" /\ st'.operator = st.operator
      /\ st'.blocked = st.blocked
  BY <1>3, <1>4, FailClosedIs
<1>6. tally.starts = 0 => Fit(st', live')
  BY <1>2, <1>5, ClosedIsFit DEF Fit
<1> QED BY <1>1, <1>2, <1>3, <1>5, <1>6 DEF Obeys

LEMMA PlanInductive == ASSUME Inductive, Plan PROVE Inductive'
<1>1. Typed /\ Obeys(st) /\ Closed /\ Counted
  BY DEF Inductive, Obeyed
<1>2. /\ st \in State /\ st.pos \in Position /\ live \in SUBSET Legs
      /\ tally.taken \in Nat /\ Forgotten \in Nat /\ saved.pos.steps \in Nat
  BY <1>1, TypedFields
<1>3. pc = "plan" /\ pc' \in {"supervise", "save"} /\ UNCHANGED <<saved, order, health>>
  BY DEF Plan
<1>4. CASE ~st.pos.open
  <2>1. UNCHANGED <<st, live, tally>>
    BY <1>4 DEF Plan
  <2> QED BY <1>1, <1>2, <1>3, <2>1, ClosedIsFit, ModeStep DEF Obeys, Fit, Places, Fresh
<1>5. CASE st.pos.open
  <2> DEFINE pos == AfterRecovery(st.pos)
             counted == StillCounted(st.pos)
  <2>1. pos \in Position /\ pos.open /\ pos.steps \in {0, st.pos.steps}
    <3>1. CASE pos = st.pos
      BY <1>2, <1>5, <3>1
    <3>2. CASE pos = [st.pos EXCEPT !.steps = 0, !.wait = 0]
      <4>1. /\ [st.pos EXCEPT !.steps = 0, !.wait = 0] \in Position
            /\ [st.pos EXCEPT !.steps = 0, !.wait = 0].steps = 0
            /\ [st.pos EXCEPT !.steps = 0, !.wait = 0].open = st.pos.open
        BY <1>2, Limits DEF Position
      <4> HIDE DEF pos
      <4> QED BY <1>5, <3>2, <4>1
    <3> QED BY <3>1, <3>2 DEF AfterRecovery
  <2>2. counted \in Nat /\ pos.steps \in Nat
    BY <1>2, <2>1, TypedFields, <1>1 DEF StillCounted
  <2>3. Unsaved = 0
    BY <1>3 DEF Unsaved
  <2>4. ~Recovered => pos = st.pos /\ counted = tally.taken
    BY DEF AfterRecovery, StillCounted
  <2>5. Recovered => counted = 0
    BY DEF StillCounted
  <2>6. MaxSteps # 0 => /\ pos.steps <= MaxSteps
                        /\ counted <= pos.steps + Forgotten
                        /\ counted <= saved.pos.steps + Forgotten
    <3>1. MaxSteps # 0 => /\ st.pos.steps <= MaxSteps
                          /\ tally.taken <= st.pos.steps + Forgotten
                          /\ tally.taken <= saved.pos.steps + Forgotten
      BY <1>1, <1>2, <1>5, <2>3 DEF Counted
    <3>2. CASE Recovered
      BY <1>2, <2>1, <2>2, <2>5, <3>1, <3>2, Limits
    <3>3. CASE ~Recovered
      BY <2>4, <3>1, <3>3
    <3> QED BY <3>2, <3>3
  <2> HIDE DEF pos, counted
  <2>7. CASE Protect(pos) /\ tally' = [tally EXCEPT !.taken = counted]
    <3>1. /\ st' \in State /\ st'.pos.open /\ st'.pos.steps = pos.steps
          /\ live' \in SUBSET Legs /\ Obeys(st')
          /\ tally.starts = 0 => Fit(st', live')
      BY <1>1, <1>5, <2>1, <2>7, ProtectStep
    <3>2. MaxSteps # 0 => counted <= saved.pos.steps + Forgotten + 1
      BY <1>2, <2>2, <2>6
    <3>3. /\ tally' \in Counts /\ tally'.taken = counted /\ tally'.starts = tally.starts
          /\ Forgotten' = Forgotten
      BY <1>1, <2>2, <2>7, TakenSet
    <3> QED BY <1>3, <1>5, <2>2, <2>6, <3>1, <3>2, <3>3, PlanStep
  <2>8. CASE /\ MayDelever(pos)
             /\ st' = [st EXCEPT !.pos = [pos EXCEPT !.steps = @ + 1, !.wait = Cooldown]]
             /\ tally' = [tally EXCEPT !.taken = counted + 1]
             /\ live' = live
    <3> DEFINE more == pos.steps + 1
               taken == counted + 1
               q == [pos EXCEPT !.steps = more, !.wait = Cooldown]
    <3>1. more \in Nat /\ taken \in Nat
      BY <2>2
    <3>2. MaxSteps # 0 => /\ more <= MaxSteps
                          /\ taken <= more + Forgotten
                          /\ taken <= saved.pos.steps + Forgotten + 1
      BY <1>2, <2>2, <2>6, <2>8, Limits DEF MayDelever
    <3>3. st' = [st EXCEPT !.pos = q] /\ tally' = [tally EXCEPT !.taken = taken]
      BY <2>1, <2>8 DEF Position
    <3> HIDE DEF more, taken
    <3>4. q \in Position /\ q.open /\ q.steps = more
      BY <2>1, <3>1, Limits DEF Position
    <3> HIDE DEF q
    <3>5. /\ st' \in State /\ st'.pos = q /\ st'.operator = st.operator
          /\ st'.risk = st.risk /\ st'.blocked = st.blocked
          /\ st'.lifecycle = st.lifecycle
      BY <1>2, <3>3, <3>4, PosSet
    <3>6. tally.starts = 0 => Fit(st', live')
      BY <1>1, <1>5, <2>8, <3>4, <3>5, ClosedIsFit DEF Fit
    <3>7. /\ tally' \in Counts /\ tally'.taken = taken /\ tally'.starts = tally.starts
          /\ Forgotten' = Forgotten
      BY <1>1, <3>1, <3>3, TakenSet
    <3> QED BY <1>1, <1>2, <1>3, <1>5, <2>8, <3>1, <3>2, <3>4, <3>5, <3>6, <3>7, PlanStep
            DEF Obeys
  <2>9. CASE /\ st' = [st EXCEPT !.pos = pos]
             /\ tally' = [tally EXCEPT !.taken = counted]
             /\ live' = live
    <3>1. /\ st' \in State /\ st'.pos = pos /\ st'.operator = st.operator
          /\ st'.risk = st.risk /\ st'.blocked = st.blocked
          /\ st'.lifecycle = st.lifecycle
      BY <1>2, <2>1, <2>9, PosSet
    <3>2. tally.starts = 0 => Fit(st', live')
      BY <1>1, <1>5, <2>1, <2>9, <3>1, ClosedIsFit DEF Fit
    <3>3. MaxSteps # 0 => counted <= saved.pos.steps + Forgotten + 1
      BY <1>2, <2>2, <2>6
    <3>4. /\ tally' \in Counts /\ tally'.taken = counted /\ tally'.starts = tally.starts
          /\ Forgotten' = Forgotten
      BY <1>1, <2>2, <2>9, TakenSet
    <3> QED BY <1>1, <1>2, <1>3, <1>5, <2>1, <2>2, <2>6, <2>9, <3>1, <3>2, <3>3, <3>4, PlanStep
            DEF Obeys
  <2>10. CASE /\ MayDelever(pos) /\ st' = [st EXCEPT !.pos = pos]
              /\ tally' = [tally EXCEPT !.taken = counted + 1, !.raises = @ + 1]
              /\ live' = live
    <3> DEFINE taken == counted + 1
               raises == tally.raises + 1
    <3>1. /\ st' \in State /\ st'.pos = pos /\ st'.operator = st.operator
          /\ st'.risk = st.risk /\ st'.blocked = st.blocked
          /\ st'.lifecycle = st.lifecycle
      BY <1>2, <2>1, <2>10, PosSet
    <3>2. tally.starts = 0 => Fit(st', live')
      BY <1>1, <1>5, <2>1, <2>10, <3>1, ClosedIsFit DEF Fit
    <3>3. taken \in Nat /\ tally.starts \in Nat /\ tally.raises \in Nat /\ raises \in Nat
      BY <1>1, <2>2 DEF Typed, Counts
    <3>4. tally' = [tally EXCEPT !.taken = taken, !.raises = raises]
      BY <2>10
    <3>5. Forgotten = tally.starts + tally.raises
      BY DEF Forgotten
    <3> HIDE DEF raises
    <3>6. /\ tally' \in Counts /\ tally'.taken = taken /\ tally'.starts = tally.starts
          /\ tally'.raises = raises
      <4> HIDE DEF taken
      <4> QED BY <1>1, <3>3, <3>4 DEF Typed, Counts
    <3>7. Forgotten' = Forgotten + 1
      BY <3>3, <3>5, <3>6 DEF Forgotten, raises
    <3>8. MaxSteps # 0 => /\ taken <= pos.steps + Forgotten'
                          /\ taken <= saved.pos.steps + Forgotten' + 1
      BY <1>2, <2>2, <2>6, <3>7
    <3> HIDE DEF taken
    <3> QED BY <1>1, <1>2, <1>3, <1>5, <2>1, <2>6, <2>10, <3>1, <3>2, <3>3, <3>6, <3>8, PlanStep
            DEF Obeys
  <2> QED BY <1>5, <2>7, <2>8, <2>9, <2>10 DEF Plan, pos, counted
<1> QED BY <1>4, <1>5

-----------------------------------------------------------------------------
(* A crash and what happens around the engine. *)

LEMMA CommandedIs ==
  ASSUME NEW s \in State, Obeys(s), NEW command
  PROVE  /\ Commanded(s, command) \in State /\ Obeys(Commanded(s, command))
         /\ Commanded(s, command).pos = s.pos
<1>1. CASE command = "fail_closed"
  <2> DEFINE t == FailClosed(s)
  <2>1. t \in State /\ t.risk = "fail_closed" /\ t.pos = s.pos
    BY FailClosedIs
  <2>2. Commanded(s, command) = [t EXCEPT !.operator = TRUE]
    BY <1>1 DEF Commanded
  <2> HIDE DEF t
  <2> QED BY <2>1, <2>2, OperatorSet DEF Obeys
<1>2. CASE command = "resume_if_safe" /\ ~s.pos.open
  <2>1. Commanded(s, command) =
          [s EXCEPT !.lifecycle = "running", !.risk = "running", !.operator = FALSE]
    BY <1>2 DEF Commanded
  <2>2. /\ Commanded(s, command) \in State /\ ~Commanded(s, command).operator
        /\ Commanded(s, command).pos = s.pos
    BY <2>1 DEF State, Modes
  <2> QED BY <2>2 DEF Obeys
<1>3. CASE Commanded(s, command) = s
  BY <1>3
<1> QED BY <1>1, <1>2, <1>3 DEF Commanded

LEMMA StartedIs ==
  ASSUME NEW s \in State, Obeys(s)
  PROVE  Started(s) \in State /\ Obeys(Started(s)) /\ Started(s).pos = s.pos
<1> DEFINE reason == BlockReason(s, NoTruth)
<1>1. reason \in Reasons
  BY ReasonOfBlock
<1> HIDE DEF reason
<1>2. CASE s.operator /\ Started(s) = FailClosed([s EXCEPT !.blocked = reason])
  <2> DEFINE t == [s EXCEPT !.blocked = reason]
  <2>1. t \in State /\ t.pos = s.pos
    BY <1>1, BlockedSet
  <2>2. Started(s) = FailClosed(t)
    BY <1>2
  <2> HIDE DEF t
  <2> QED BY <2>1, <2>2, FailClosedIs DEF Obeys
<1>3. CASE ~s.operator /\ Started(s) = Finalized(s)
  BY <1>3, FinalizedIs
<1>5. CASE Started(s) = FailClosed(s)
  BY <1>5, FailClosedIs DEF Obeys
<1>6. CASE Started(s) = [s EXCEPT !.lifecycle = "risk_only", !.blocked = "stale_risk_only"]
  <2>1. /\ Started(s) \in State /\ Started(s).risk = s.risk
        /\ Started(s).operator = s.operator /\ Started(s).pos = s.pos
    BY <1>6, ReasonsHave DEF State
  <2> QED BY <2>1 DEF Obeys
<1>7. CASE Started(s) = [s EXCEPT !.lifecycle = "running"]
  <2>1. /\ Started(s) \in State /\ Started(s).risk = s.risk
        /\ Started(s).operator = s.operator /\ Started(s).pos = s.pos
    BY <1>7 DEF State
  <2> QED BY <2>1 DEF Obeys
<1> QED BY <1>2, <1>3, <1>5, <1>6, <1>7 DEF Started, reason

LEMMA RestartInductive == ASSUME Inductive, Restart PROVE Inductive'
<1>1. Typed /\ Obeys(saved) /\ Counted /\ InStep
  BY DEF Inductive, Obeyed
<1>2. /\ saved \in State /\ live \in SUBSET Legs /\ tally.taken \in Nat
      /\ tally.starts \in Nat /\ saved.pos.steps \in Nat /\ Forgotten \in Nat
  BY <1>1, TypedFields
<1>3. PICK command \in Commands \cup {"none"} : st' = Started(Commanded(saved, command))
  BY DEF Restart
<1>4. st' \in State /\ Obeys(st') /\ st'.pos = saved.pos
  BY <1>1, <1>2, <1>3, CommandedIs, StartedIs
<1>5. saved' = st' /\ pc' = "probe" /\ UNCHANGED <<order, health>>
  BY DEF Restart
<1>6. /\ tally' \in Counts /\ tally'.taken = tally.taken
      /\ tally'.starts = tally.starts + 1 /\ live' \in SUBSET Legs
      /\ tally'.raises = tally.raises
  <2>1. tally \in Counts
    BY <1>1 DEF Typed
  <2> DEFINE started == tally.starts + 1
             opened == tally.positions + 1
  <2>2. started \in Nat /\ opened \in Nat
    BY <1>2, <2>1 DEF Counts
  <2>3. CASE tally' = [tally EXCEPT !.starts = started] /\ live' = live
    <3> HIDE DEF started, opened
    <3>1. /\ tally' \in Counts /\ tally'.taken = tally.taken
          /\ tally'.starts = started /\ tally'.raises = tally.raises
      BY <2>1, <2>2, <2>3 DEF Counts
    <3> QED BY <1>2, <2>3, <3>1 DEF started
  <2>4. CASE /\ tally' = [tally EXCEPT !.starts = started, !.positions = opened]
             /\ live' \in SUBSET Legs
    <3> HIDE DEF started, opened
    <3>1. /\ tally' \in Counts /\ tally'.taken = tally.taken
          /\ tally'.starts = started /\ tally'.raises = tally.raises
      BY <2>1, <2>2, <2>4 DEF Counts
    <3> QED BY <2>4, <3>1 DEF started
  <2> QED BY <2>3, <2>4 DEF Restart
<1>7. Typed'
  BY <1>1, <1>4, <1>5, <1>6 DEF Typed, TypeOK
<1>8. Obeyed' /\ InStep'
  BY <1>4, <1>5 DEF Obeyed, InStep
<1>9. Closed'
  BY <1>2, <1>6 DEF Closed
<1>10. Counted'
  <2>1. Unsaved' = 1 /\ Unsaved \in {0, 1}
    BY <1>5 DEF Unsaved
  <2>2. Forgotten' = Forgotten + 1
    <3>1. tally.starts \in Nat /\ tally.raises \in Nat
      BY <1>1 DEF Typed, Counts
    <3> QED BY <1>6, <3>1 DEF Forgotten
  <2>3. MaxSteps # 0 =>
          /\ saved.pos.steps <= MaxSteps
          /\ tally.taken <= MaxSteps + Forgotten
          /\ saved.pos.open => tally.taken <= saved.pos.steps + Forgotten + Unsaved
    BY <1>1 DEF Counted, InStep
  <2>4. MaxSteps # 0 =>
          /\ tally.taken <= MaxSteps + Forgotten'
          /\ saved.pos.open => /\ tally.taken <= saved.pos.steps + Forgotten'
                               /\ tally.taken <= saved.pos.steps + Forgotten' + 1
    BY <1>2, <2>1, <2>3, <2>2, Limits
  <2> QED BY <1>4, <1>5, <1>6, <2>1, <2>3, <2>4 DEF Counted
<1> QED BY <1>7, <1>8, <1>9, <1>10 DEF Inductive

LEMMA EnterInductive == ASSUME Inductive, Enter PROVE Inductive'
<1>1. Typed /\ Obeys(st) /\ Closed
  BY DEF Inductive, Obeyed
<1>2. st \in State /\ tally \in Counts /\ pc \in Places
  BY <1>1, TypedFields DEF Typed
<1>3. /\ st' = [st EXCEPT !.pos = Opened] /\ saved' = [saved EXCEPT !.pos = Opened]
      /\ live' = Legs /\ UNCHANGED <<pc, order, health>>
      /\ tally' = [tally EXCEPT !.positions = @ + 1, !.taken = 0]
  BY DEF Enter
<1>4. /\ st' \in State /\ st'.operator = st.operator /\ st'.blocked = st.blocked
      /\ st'.risk = st.risk /\ st'.pos = Opened
  BY <1>2, <1>3, PosSet, PositionsAre
<1>5. tally' \in Counts /\ tally'.taken = 0 /\ tally'.starts = tally.starts
  <2> DEFINE opened == tally.positions + 1
  <2>1. opened \in Nat
    BY <1>2 DEF Counts
  <2>2. tally' = [tally EXCEPT !.positions = opened, !.taken = 0]
    BY <1>3
  <2> HIDE DEF opened
  <2> QED BY <1>2, <2>1, <2>2 DEF Counts
<1>6. Obeys(st') /\ (tally.starts = 0 => ~st'.operator /\ st'.blocked \in Artifacts \cup {NoReason})
  BY <1>1, <1>4 DEF Obeys, Closed
<1> QED BY <1>2, <1>3, <1>4, <1>5, <1>6, OpenedStep

LEMMA CloseInductive == ASSUME Inductive, Close PROVE Inductive'
<1>1. Typed /\ Obeyed
  BY DEF Inductive
<1>2. st \in State /\ saved \in State /\ pc \in Places
  BY <1>1, TypedFields
<1>3. PICK owed \in BOOLEAN :
         /\ st' = [st EXCEPT !.pos = NoPosition, !.owed = @ \/ owed]
         /\ saved' = [saved EXCEPT !.pos = NoPosition, !.owed = @ \/ owed]
  BY DEF Close
<1>4. /\ st' \in State /\ st'.operator = st.operator /\ st'.blocked = st.blocked
      /\ st'.risk = st.risk /\ st'.pos = NoPosition
  BY <1>2, <1>3, PositionsAre DEF State
<1>5. /\ saved' \in State /\ saved'.operator = saved.operator
      /\ saved'.risk = saved.risk /\ saved'.pos = NoPosition
  BY <1>2, <1>3, PositionsAre DEF State
<1> QED BY <1>1, <1>2, <1>4, <1>5, ShutStep DEF Close, Obeyed, Obeys

\* What only moves the venues' health or an order of unknown owner.
LEMMA OutsideStep ==
  ASSUME Inductive, UNCHANGED <<pc, st, saved, live>>,
         tally' \in Counts, tally'.taken = tally.taken, tally'.starts = tally.starts,
         tally'.raises = tally.raises,
         order' \in BOOLEAN, health' \in [Legs -> Lines \cup {"gone"}]
  PROVE  Inductive'
<1>1. Forgotten' = Forgotten
  BY DEF Forgotten
<1> QED BY <1>1 DEF Inductive, Typed, TypeOK, Obeyed, Obeys, InStep, Counted, Unsaved, Closed, Single

LEMMA WorldInductive == ASSUME Inductive, World PROVE Inductive'
<1>1. tally \in Counts /\ order \in BOOLEAN /\ health \in [Legs -> Lines \cup {"gone"}]
  BY DEF Inductive, Typed, TypeOK
<1>2. CASE OrderMoves
  <2>1. tally' \in Counts /\ tally'.taken = tally.taken /\ tally'.starts = tally.starts
        /\ tally'.raises = tally.raises
    <3> DEFINE more == tally.orders + (IF order THEN 0 ELSE 1)
    <3>1. more \in Nat
      BY <1>1 DEF Counts
    <3>2. tally' = [tally EXCEPT !.orders = more]
      BY <1>2 DEF OrderMoves
    <3> HIDE DEF more
    <3> QED BY <1>1, <3>1, <3>2 DEF Counts
  <2> QED BY <1>1, <1>2, <2>1, OutsideStep DEF OrderMoves
<1>3. CASE \E l \in Legs, h \in Lines \cup {"gone"} : Move(l, h)
  <2>1. PICK l \in Legs, h \in Lines \cup {"gone"} : Move(l, h)
    BY <1>3
  <2>2. tally' \in Counts /\ tally'.taken = tally.taken /\ tally'.starts = tally.starts
        /\ tally'.raises = tally.raises
    BY <1>1, <2>1 DEF Move, Counts
  <2>3. health' \in [Legs -> Lines \cup {"gone"}]
    BY <1>1, <2>1 DEF Move
  <2> QED BY <1>1, <2>1, <2>2, <2>3, OutsideStep DEF Move
<1> QED BY <1>2, <1>3, EnterInductive, CloseInductive DEF World

LEMMA InitInductive == Init => Inductive
<1> SUFFICES ASSUME Init PROVE Inductive
  OBVIOUS
<1>1. st \in State /\ ~st.operator /\ st.blocked = NoReason /\ st.pos = NoPosition
  BY ReasonsHave, PositionsAre DEF Init, State, Modes
<1>2. tally \in Counts /\ tally.taken = 0 /\ tally.starts = 0 /\ Forgotten = 0
  BY DEF Init, Counts, Forgotten
<1>3. health \in [Legs -> Lines \cup {"gone"}]
  BY DEF Init, Lines
<1>4. Typed
  BY <1>1, <1>2, <1>3 DEF Init, Typed, TypeOK
<1>5. Obeyed /\ InStep
  BY <1>1 DEF Init, Obeyed, Obeys, InStep
<1>6. Closed
  BY <1>1 DEF Init, Closed, Single
<1>7. Counted
  BY <1>1, <1>2, PositionsAre, Limits DEF Init, Counted
<1> QED BY <1>4, <1>5, <1>6, <1>7 DEF Inductive

LEMMA NextInductive == ASSUME Inductive, [Next]_vars PROVE Inductive'
<1>1. CASE Loop
  BY <1>1, DriftInductive, PlanInductive, SuperviseInductive, ReconcileInductive,
     ProbeInductive, SaveInductive DEF Loop
<1>2. CASE World
  BY <1>2, WorldInductive
<1>3. CASE Restart
  BY <1>3, RestartInductive
<1>4. CASE UNCHANGED vars
  BY <1>4 DEF vars, Inductive, Typed, TypeOK, Obeyed, Obeys, InStep, Counted, Unsaved,
     Forgotten, Closed, Single
<1> QED BY <1>1, <1>2, <1>3, <1>4 DEF Next

LEMMA AlwaysInductive == Spec => []Inductive
BY InitInductive, NextInductive, PTL DEF Spec

-----------------------------------------------------------------------------
(* What follows. *)

\* An operator's fail_closed stays: update_global_risk_mode, the account truth,
\* the close accounting and a start, with any command in between, leave it.
THEOREM OperatorStays == Spec => []OperatorHolds
<1>1. Inductive => OperatorHolds
  BY DEF Inductive, Obeyed, Obeys, OperatorHolds
<1> QED BY <1>1, AlwaysInductive, PTL

\* max_partial_delever_steps holds across crashes, but for one step a crash or
\* a close that raised, because supervise_position counts in memory and the iteration saves it.
THEOREM DeleversBounded == Spec => []DeleverBounded
<1>1. Inductive => DeleverBounded
  BY DEF Inductive, Counted, DeleverBounded
<1> QED BY <1>1, AlwaysInductive, PTL

\* Before the first restart no step out of fail_closed leaves a single leg: the
\* supervisor waits for the position to be closed, the core for complete truth.
THEOREM NakedStaysClosed == Spec => NakedNeverReleased
<1> DEFINE Release == (st.risk = "fail_closed" /\ st'.risk # "fail_closed"
                          /\ tally'.starts = 0) => Cardinality(live') # 1
<1>1. Inductive' => [Release]_vars
  <2> SUFFICES ASSUME Inductive', st'.risk # "fail_closed", tally'.starts = 0
               PROVE  Cardinality(live') # 1
    OBVIOUS
  <2>1. ~Single'
    BY DEF Inductive, Closed
  <2>2. live' \in SUBSET Legs
    BY DEF Inductive, Typed, TypeOK
  <2> QED BY <2>1, <2>2, OneLeg DEF Single
<1> QED BY <1>1, AlwaysInductive, PTL DEF NakedNeverReleased
=============================================================================
