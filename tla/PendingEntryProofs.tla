------------------------- MODULE PendingEntryProofs -------------------------
(***************************************************************************)
(* The type invariant of a pending entry, for every target, hedge minimum, *)
(* phase budget and bound; without the maker-event lane, that of the       *)
(* orders known to have been accepted only the polled one rests (OneOrder  *)
(* is what a step keeps) and that the maker leg is changed only when none  *)
(* of them leaves anything behind (Untouched); and that what an entry      *)
(* leaves on the venues has an owner when it goes (Contained).             *)
(***************************************************************************)
EXTENDS PendingEntryLifecycle, TLAPS

\* Where a pass may go, but for the two calls that are only made in a state that
\* fits: asking for a hedge order and resubmitting a maker order.
PCs == {"idle", "progress", "cancelProgress", "terminal", "hedge", "unresolved",
        "longFill", "longLive", "shortFill", "shortLive", "makerDetails",
        "hedgeDetails", "longOrders", "shortOrders", "longPosition", "shortPosition",
        "cleanup", "abortOrder", "flattenMaker", "flattenHedge", "stopMaker", "stopHedge",
        "laneCancel", "laneSubmit"}
Conts == {"none", "progress"}
Goals == {"none", "finalize", "release", "recheck", "abandon", "ceiling", "forced",
          "abort", "cleanup"}

-----------------------------------------------------------------------------
(* Updates of the entry. *)

\* Every field takes the values of its type.
LEMMA FieldUpdates ==
  /\ \A n \in Entry, v \in Legs : [n EXCEPT !.makerLeg = v] \in Entry
  /\ \A n \in Entry, v \in Nat : [n EXCEPT !.maker = v] \in Entry
  /\ \A n \in Entry, v \in Nat : [n EXCEPT !.hedge = v] \in Entry
  /\ \A n \in Entry, v \in Nat : [n EXCEPT !.slices = v] \in Entry
  /\ \A n \in Entry, v \in Nat : [n EXCEPT !.order = v] \in Entry
  /\ \A n \in Entry, v \in Nat : [n EXCEPT !.named = v] \in Entry
  /\ \A n \in Entry, v \in Nat : [n EXCEPT !.base = v] \in Entry
  /\ \A n \in Entry, v \in Nat : [n EXCEPT !.qty = v] \in Entry
  /\ \A n \in Entry, v \in Nat : [n EXCEPT !.hedgeId = v] \in Entry
  /\ \A n \in Entry, v \in Nat : [n EXCEPT !.cycles = v] \in Entry
  /\ \A n \in Entry, v \in Nat : [n EXCEPT !.reposts = v] \in Entry
  /\ \A n \in Entry, v \in Nat : [n EXCEPT !.accepted = v] \in Entry
  /\ \A n \in Entry, v \in Nat : [n EXCEPT !.attempts = v] \in Entry
BY DEF Entry

LEMMA FlagUpdates ==
  /\ \A n \in Entry, v \in BOOLEAN : [n EXCEPT !.done = v] \in Entry
  /\ \A n \in Entry, v \in BOOLEAN : [n EXCEPT !.cancel = v] \in Entry
  /\ \A n \in Entry, v \in BOOLEAN : [n EXCEPT !.inflight = v] \in Entry
  /\ \A n \in Entry, v \in BOOLEAN : [n EXCEPT !.uncertain = v] \in Entry
  /\ \A n \in Entry, v \in BOOLEAN : [n EXCEPT !.repair = v] \in Entry
  /\ \A n \in Entry, v \in BOOLEAN : [n EXCEPT !.retry = v] \in Entry
  /\ \A n \in Entry, v \in BOOLEAN : [n EXCEPT !.tried = v] \in Entry
  /\ \A n \in Entry, v \in {"high", "low", "dual"} : [n EXCEPT !.phase = v] \in Entry
BY DEF Entry

LEMMA FieldTypes ==
  ASSUME NEW n \in Entry
  PROVE  /\ n.maker \in Nat /\ n.hedge \in Nat /\ n.slices \in Nat
         /\ n.order \in Nat /\ n.named \in Nat /\ n.hedgeId \in Nat
         /\ n.base \in Nat /\ n.qty \in Nat
         /\ n.cycles \in Nat /\ n.reposts \in Nat
         /\ n.accepted \in Nat /\ n.attempts \in Nat
         /\ n.makerLeg \in Legs /\ n.phase \in {"high", "low", "dual"}
         /\ n.done \in BOOLEAN /\ n.cancel \in BOOLEAN /\ n.inflight \in BOOLEAN
         /\ n.uncertain \in BOOLEAN /\ n.repair \in BOOLEAN /\ n.retry \in BOOLEAN
         /\ n.tried \in BOOLEAN
BY DEF Entry

LEMMA Quantities ==
  ASSUME NEW a \in Int, NEW b \in Int
  PROVE  /\ Least(a, b) \in Int /\ Most(a, b) \in Int
         /\ Least(a, b) <= a /\ Least(a, b) <= b
         /\ Most(a, b) >= a /\ Most(a, b) >= b
         /\ Least(a, b) \in {a, b} /\ Most(a, b) \in {a, b}
BY DEF Least, Most

LEMMA SlicesTyped ==
  ASSUME NEW n \in Entry, NEW h \in Nat, h >= n.hedge
  PROVE  SlicesAfterHedge(n, h) \in Nat
BY QuantityAssumption, FieldTypes DEF SlicesAfterHedge, Least, Most

\* An update that keeps the entry an entry and its order and hedge references.
KeepsReferences(m, n) ==
  m \in Entry /\ m.order = n.order /\ m.named = n.named /\ m.hedgeId = n.hedgeId

LEMMA HedgeProgressTyped ==
  ASSUME NEW n \in Entry, NEW h \in Nat, NEW id \in Nat
  PROVE  /\ HedgeProgress(n, h, id) \in Entry
         /\ HedgeProgress(n, h, id).order = n.order /\ HedgeProgress(n, h, id).named = n.named
         /\ HedgeProgress(n, h, id).hedgeId = id
<1>1. [n EXCEPT !.hedgeId = id] \in Entry
  BY FieldUpdates
<1>2. CASE h > n.hedge
  <2>1. SlicesAfterHedge(n, h) \in Nat
    BY <1>2, SlicesTyped, FieldTypes
  <2>2. [n EXCEPT !.hedge = h, !.slices = SlicesAfterHedge(n, h), !.hedgeId = id] \in Entry
    BY <2>1, FieldUpdates, Zenon
  <2>3. /\ [n EXCEPT !.hedge = h, !.slices = SlicesAfterHedge(n, h), !.hedgeId = id].order = n.order
        /\ [n EXCEPT !.hedge = h, !.slices = SlicesAfterHedge(n, h), !.hedgeId = id].named = n.named
    BY DEF Entry
  <2>4. [n EXCEPT !.hedge = h, !.slices = SlicesAfterHedge(n, h), !.hedgeId = id].hedgeId = id
    BY DEF Entry
  <2> QED BY <1>2, <2>2, <2>3, <2>4, Zenon DEF HedgeProgress
<1>3. CASE ~(h > n.hedge)
  <2>1. /\ [n EXCEPT !.hedgeId = id].order = n.order /\ [n EXCEPT !.hedgeId = id].named = n.named
        /\ [n EXCEPT !.hedgeId = id].hedgeId = id
    BY DEF Entry
  <2> QED BY <1>1, <1>3, <2>1, Zenon DEF HedgeProgress
<1> QED BY <1>2, <1>3

LEMMA PassiveProgressTyped ==
  ASSUME NEW n \in Entry, NEW c \in Nat, NEW t \in BOOLEAN
  PROVE  KeepsReferences(PassiveProgress(n, c, t), n)
<1> DEFINE updated == n.base + Least(c, n.qty)
           seen == [n EXCEPT !.done = t]
           raised == [seen EXCEPT !.maker = updated, !.slices = n.slices + updated - n.maker]
<1>1. updated \in Nat
  BY FieldTypes DEF Least
<1>2. seen \in Entry
  BY FlagUpdates, Zenon
<1>3. seen.order = n.order /\ seen.named = n.named /\ seen.hedgeId = n.hedgeId
  BY DEF Entry
<1>4. CASE updated > n.maker
  <2>1. n.slices + updated - n.maker \in Nat
    BY <1>1, <1>4, FieldTypes
  <2>2. raised \in Entry
    <3> HIDE DEF updated, seen
    <3> QED BY <1>1, <1>2, <2>1, FieldUpdates, Zenon
  <2>3. raised.order = n.order /\ raised.named = n.named /\ raised.hedgeId = n.hedgeId
    BY DEF Entry
  <2>4. PassiveProgress(n, c, t) = raised
    BY <1>4 DEF PassiveProgress
  <2> QED BY <2>2, <2>3, <2>4, Zenon DEF KeepsReferences
<1>5. CASE ~(updated > n.maker)
  <2>1. PassiveProgress(n, c, t) = seen
    BY <1>5 DEF PassiveProgress
  <2> QED BY <1>2, <1>3, <2>1, Zenon DEF KeepsReferences
<1> QED BY <1>4, <1>5

LEMMA FlagsKeepReferences ==
  ASSUME NEW n \in Entry, NEW v \in BOOLEAN
  PROVE  /\ KeepsReferences([n EXCEPT !.done = v], n)
         /\ KeepsReferences([n EXCEPT !.cancel = v], n)
         /\ KeepsReferences([n EXCEPT !.inflight = v], n)
         /\ KeepsReferences([n EXCEPT !.uncertain = v], n)
         /\ KeepsReferences([n EXCEPT !.repair = v], n)
         /\ KeepsReferences([n EXCEPT !.tried = v], n)
<1>1. /\ [n EXCEPT !.done = v] \in Entry /\ [n EXCEPT !.cancel = v] \in Entry
      /\ [n EXCEPT !.inflight = v] \in Entry /\ [n EXCEPT !.uncertain = v] \in Entry
      /\ [n EXCEPT !.repair = v] \in Entry /\ [n EXCEPT !.tried = v] \in Entry
  BY FlagUpdates, Zenon
<1>2. /\ [n EXCEPT !.done = v].order = n.order /\ [n EXCEPT !.done = v].named = n.named
      /\ [n EXCEPT !.done = v].hedgeId = n.hedgeId
      /\ [n EXCEPT !.cancel = v].order = n.order /\ [n EXCEPT !.cancel = v].named = n.named
      /\ [n EXCEPT !.cancel = v].hedgeId = n.hedgeId
      /\ [n EXCEPT !.inflight = v].order = n.order /\ [n EXCEPT !.inflight = v].named = n.named
      /\ [n EXCEPT !.inflight = v].hedgeId = n.hedgeId
      /\ [n EXCEPT !.uncertain = v].order = n.order /\ [n EXCEPT !.uncertain = v].named = n.named
      /\ [n EXCEPT !.uncertain = v].hedgeId = n.hedgeId
      /\ [n EXCEPT !.repair = v].order = n.order /\ [n EXCEPT !.repair = v].named = n.named
      /\ [n EXCEPT !.repair = v].hedgeId = n.hedgeId
      /\ [n EXCEPT !.tried = v].order = n.order /\ [n EXCEPT !.tried = v].named = n.named
      /\ [n EXCEPT !.tried = v].hedgeId = n.hedgeId
  BY DEF Entry
<1> QED BY <1>1, <1>2, Zenon DEF KeepsReferences

-----------------------------------------------------------------------------
(* Where a pass goes next. *)

\* The pass goes on with an entry that refers to the same orders as n.
Follows(n) ==
  /\ KeepsReferences(e', n)
  /\ pc' \in PCs /\ cont' \in Conts /\ goal' \in Goals /\ probe' \in Probe

LEMMA NoProbeTyped == NoProbe \in Probe
BY DEF NoProbe, Nothing, Probe, Legs

LEMMA Same == ASSUME NEW n \in Entry PROVE KeepsReferences(n, n)
BY DEF KeepsReferences

LEMMA FollowsUpdated ==
  ASSUME NEW n, NEW m, KeepsReferences(m, n), Follows(m)
  PROVE  Follows(n)
BY DEF Follows, KeepsReferences

LEMMA LeaveFollows == ASSUME NEW n \in Entry, Leave(n) PROVE Follows(n)
BY NoProbeTyped DEF Leave, Follows, KeepsReferences, PCs, Conts, Goals

LEMMA AwaitFollows ==
  ASSUME NEW n \in Entry, NEW p \in PCs, NEW g \in Goals, NEW k \in Conts, Await(n, p, g, k)
  PROVE  Follows(n)
BY NoProbeTyped DEF Await, Follows, KeepsReferences

LEMMA FinalizeFollows == ASSUME NEW n \in Entry, Finalize(n) PROVE Follows(n)
BY AwaitFollows DEF Finalize, PCs, Conts, Goals

LEMMA GoOnFollows == ASSUME NEW n \in Entry, GoOn(n) PROVE Follows(n)
<1> DEFINE cancelled == [n EXCEPT !.cancel = TRUE]
<1>1. KeepsReferences(cancelled, n) /\ cancelled \in Entry
  BY FlagsKeepReferences DEF KeepsReferences
<1> HIDE DEF cancelled
<1>2. \/ Leave(n) \/ Leave(cancelled)
      \/ Await(n, "terminal", "none", "none") \/ Await(n, "cancelProgress", "none", "none")
  BY DEF GoOn, cancelled
<1>3. CASE Leave(n)
  BY <1>3, LeaveFollows
<1>4. CASE Leave(cancelled)
  BY <1>1, <1>4, LeaveFollows, FollowsUpdated
<1>5. CASE Await(n, "terminal", "none", "none")
  BY <1>5, AwaitFollows DEF PCs, Conts, Goals
<1>6. CASE Await(n, "cancelProgress", "none", "none")
  BY <1>6, AwaitFollows DEF PCs, Conts, Goals
<1> QED BY <1>2, <1>3, <1>4, <1>5, <1>6

LEMMA ResumeFollows == ASSUME NEW n \in Entry, NEW k, Resume(n, k) PROVE Follows(n)
BY GoOnFollows, LeaveFollows DEF Resume

LEMMA AbortFollows == ASSUME NEW n \in Entry, NEW k \in Conts, Abort(n, k) PROVE Follows(n)
<1> DEFINE cancelled == [n EXCEPT !.cancel = TRUE]
<1>1. KeepsReferences(cancelled, n) /\ cancelled \in Entry
  BY FlagsKeepReferences DEF KeepsReferences
<1> HIDE DEF cancelled
<1>2. \/ Await(n, "longOrders", "abort", k) \/ Await(cancelled, "abortOrder", "abort", k)
      \/ Resume(n, k)
  BY DEF Abort, cancelled
<1>3. CASE Await(n, "longOrders", "abort", k)
  BY <1>3, AwaitFollows DEF PCs, Goals
<1>4. CASE Await(cancelled, "abortOrder", "abort", k)
  <2>1. Follows(cancelled)
    BY <1>1, <1>4, AwaitFollows DEF PCs, Goals
  <2> QED BY <1>1, <2>1, FollowsUpdated
<1>5. CASE Resume(n, k)
  BY <1>5, ResumeFollows
<1> QED BY <1>2, <1>3, <1>4, <1>5

LEMMA ReleaseFollows == ASSUME NEW n \in Entry, NEW k \in Conts, Release(n, k) PROVE Follows(n)
<1>1. CASE Await(n, "longOrders", "release", k)
  BY <1>1, AwaitFollows DEF PCs, Goals
<1>2. CASE Resume(n, k)
  BY <1>2, ResumeFollows
<1> QED BY <1>1, <1>2 DEF Release

LEMMA ReadLegsFollows == ASSUME NEW n \in Entry, ReadLegs(n) PROVE Follows(n)
<1> DEFINE m == [n EXCEPT !.tried = TRUE]
<1>1. KeepsReferences(m, n) /\ m \in Entry
  BY FlagsKeepReferences DEF KeepsReferences
<1> HIDE DEF m
<1>2. Await(m, "longFill", "none", "none")
  BY DEF ReadLegs, m
<1> QED BY <1>1, <1>2, AwaitFollows, FollowsUpdated DEF PCs, Conts, Goals

LEMMA AfterHedgeFollows ==
  ASSUME NEW n \in Entry, NEW k, NEW driven \in BOOLEAN, AfterHedge(n, k, driven)
  PROVE  Follows(n)
BY FinalizeFollows, ResumeFollows DEF AfterHedge

LEMMA DriveHedgeFollows ==
  ASSUME NEW n \in Entry, NEW k \in Conts, DriveHedge(n, k)
  PROVE  Follows(n)
<1>1. AfterHedge(n, k, FALSE) \/ Abort(n, k) \/ Await(n, "hedge", "none", k)
  BY DEF DriveHedge
<1>2. CASE AfterHedge(n, k, FALSE)
  BY <1>2, AfterHedgeFollows
<1>3. CASE Abort(n, k)
  BY <1>3, AbortFollows
<1>4. CASE Await(n, "hedge", "none", k)
  BY <1>4, AwaitFollows DEF PCs, Goals
<1> QED BY <1>1, <1>2, <1>3, <1>4

LEMMA KeptFollows ==
  ASSUME NEW n \in Entry, cont \in Conts, Kept(n)
  PROVE  Follows(n)
<1>1. ReadLegs(n) \/ Abort(n, "none") \/ Resume(n, cont)
  BY DEF Kept
<1>2. CASE Abort(n, "none")
  BY <1>2, AbortFollows DEF Conts
<1> QED BY <1>1, <1>2, ReadLegsFollows, ResumeFollows

LEMMA DeferredFollows ==
  ASSUME e \in Entry, cont \in Conts, Deferred
  PROVE  Follows(e)
<1> DEFINE m == [e EXCEPT !.uncertain = TRUE]
<1>1. KeepsReferences(m, e) /\ m \in Entry
  BY FlagsKeepReferences DEF KeepsReferences
<1> HIDE DEF m
<1>2. Kept(m)
  BY DEF Deferred, m
<1> QED BY <1>1, <1>2, KeptFollows, FollowsUpdated

-----------------------------------------------------------------------------
(* What a step has to show. *)

\* TypeOK is not inductive: the hedge order asked for must have been sent, and a
\* remainder resubmitted must be one.
CallsFit ==
  /\ pc = "hedgeCheck" => hedges # <<>>
  /\ pc = "resubmit" => e.maker < Target
Inductive == TypeOK /\ CallsFit

\* The orders n names exist.
Refers(n) ==
  /\ n \in Entry /\ n.order \in DOMAIN orders /\ n.named \in DOMAIN orders
  /\ n.hedgeId \in 0..Len(hedges)

LEMMA KeptReferences ==
  ASSUME NEW n, NEW m, Refers(n), KeepsReferences(m, n)
  PROVE  Refers(m)
BY DEF Refers, KeepsReferences

LEMMA TypeFacts ==
  ASSUME Inductive
  PROVE  /\ Refers(e) /\ e \in Entry
         /\ cont \in Conts /\ goal \in Goals /\ probe \in Probe
         /\ owned \in BOOLEAN /\ open \in Nat /\ residual \in [Legs -> Nat]
         /\ orders \in Seq(Order) /\ hedges \in Seq(Nat) /\ pos \in [Legs -> Nat]
         /\ e.order \in DOMAIN orders /\ e.named \in DOMAIN orders
         /\ \A i \in DOMAIN orders : orders[i] \in Order
         /\ e.hedgeId \in 0..Len(hedges)
BY DEF Inductive, TypeOK, ControlTyped, HandoffTyped, VenueTyped, Conts, Goals, Refers

\* A step that may hand over and may change positions.
LEMMA EngineStep ==
  ASSUME Inductive, NEW n, Refers(n), Follows(n),
         HandoffTyped', pos' \in [Legs -> Nat], UNCHANGED <<orders, hedges>>
  PROVE  Inductive'
<1>1. ControlTyped'
  BY DEF ControlTyped, Follows, KeepsReferences, PCs, Conts, Goals
<1>2. VenueTyped'
  BY DEF Inductive, TypeOK, VenueTyped, Follows, KeepsReferences, Refers
<1>3. CallsFit'
  BY DEF CallsFit, Follows, PCs
<1> QED BY <1>1, <1>2, <1>3 DEF TypeOK, Inductive

\* A step of the engine that sends and hands over nothing.
LEMMA EngineOnly ==
  ASSUME Inductive, NEW n, Refers(n), Follows(n), UNCHANGED <<venue, handoff>>
  PROVE  Inductive'
<1>1. HandoffTyped' /\ pos' \in [Legs -> Nat] /\ UNCHANGED <<orders, hedges>>
  BY DEF Inductive, TypeOK, HandoffTyped, VenueTyped, handoff, venue
<1> QED BY <1>1, EngineStep

\* A step that sends a hedge order, which n may name.
LEMMA HedgeSent ==
  ASSUME Inductive, NEW f \in Nat, Execute(f), UNCHANGED handoff,
         NEW n, KeepsReferences(e', n), n.order = e.order, n.named = e.named,
         n.hedgeId \in 0..(Len(hedges) + 1),
         ControlTyped', pc' # "resubmit"
  PROVE  Inductive'
<1>1. hedges' \in Seq(Nat) /\ hedges' # <<>> /\ Len(hedges') = Len(hedges) + 1
  BY TypeFacts DEF Execute
<1>2. pos' \in [Legs -> Nat]
  <2>1. Other(e.makerLeg) \in Legs
    BY DEF Other, Legs
  <2> QED BY <2>1, TypeFacts DEF Execute
<1>3. orders' = orders
  BY DEF Execute
<1>4. VenueTyped'
  BY <1>1, <1>2, <1>3, TypeFacts DEF VenueTyped, KeepsReferences
<1>5. HandoffTyped'
  BY DEF Inductive, TypeOK, HandoffTyped, handoff
<1> QED BY <1>1, <1>4, <1>5 DEF TypeOK, CallsFit, Inductive

LEMMA OrderUpdates ==
  ASSUME NEW o \in Order
  PROVE  /\ \A v \in Nat : [o EXCEPT !.fill = v] \in Order
         /\ \A v \in BOOLEAN : [o EXCEPT !.live = v] \in Order
         /\ o.fill \in Nat /\ o.leg \in Legs
BY DEF Order

LEMMA OrderReplaced ==
  ASSUME Inductive, NEW i \in DOMAIN orders, NEW o \in Order,
         orders' = [orders EXCEPT ![i] = o], pos' \in [Legs -> Nat],
         UNCHANGED <<handoff, e, pc, cont, goal, probe, hedges>>
  PROVE  Inductive'
<1>1. orders' \in Seq(Order) /\ DOMAIN orders' = DOMAIN orders
  BY TypeFacts
<1>2. VenueTyped'
  BY <1>1, TypeFacts DEF VenueTyped
<1> QED BY <1>2 DEF Inductive, TypeOK, ControlTyped, HandoffTyped, CallsFit, handoff

LEMMA VenueSteps ==
  ASSUME Inductive, NEW i, MakerFills(i) \/ MakerEnds(i)
  PROVE  Inductive'
<1>1. i \in DOMAIN orders /\ orders[i] \in Order
  BY TypeFacts DEF MakerFills, MakerEnds
<1>2. CASE MakerFills(i)
  <2> DEFINE o == orders[i]
             f == o.fill + 1
             v == f < o.qty
             filled == [o EXCEPT !.fill = f]
             p == [filled EXCEPT !.live = v]
  <2>1. f \in Nat /\ v \in BOOLEAN
    BY <1>1, OrderUpdates
  <2>2. p \in Order
    <3> HIDE DEF f, v
    <3> QED BY <1>1, <2>1, OrderUpdates, Zenon
  <2>3. orders' = [orders EXCEPT ![i] = p]
    BY <1>2, Zenon DEF MakerFills
  <2>4. pos' \in [Legs -> Nat]
    BY <1>1, <1>2, TypeFacts, OrderUpdates DEF MakerFills
  <2> HIDE DEF p
  <2> QED BY <1>1, <1>2, <2>2, <2>3, <2>4, OrderReplaced DEF MakerFills
<1>3. CASE MakerEnds(i)
  <2>1. [orders[i] EXCEPT !.live = FALSE] \in Order
    BY <1>1, OrderUpdates
  <2>2. orders' = [orders EXCEPT ![i] = [orders[i] EXCEPT !.live = FALSE]]
    BY <1>1, <1>3 DEF MakerEnds
  <2> QED BY <1>1, <1>3, <2>1, <2>2, OrderReplaced, TypeFacts DEF MakerEnds
<1> QED BY <1>2, <1>3

-----------------------------------------------------------------------------
(* Maintenance. *)

LEMMA StartTyped == ASSUME Inductive, Start PROVE Inductive'
BY TypeFacts, AwaitFollows, EngineOnly DEF Start, PCs, Conts, Goals

LEMMA ReleasableTyped ==
  ASSUME NEW n \in Entry
  PROVE  Releasable(n) \in Int /\ MissingHedge(n) \in Nat
<1>1. MissingHedge(n) \in Nat
  BY FieldTypes, QuantityAssumption DEF MissingHedge, Most, Least
<1>2. MissingHedge(n) \div MinHedge \in Int
  BY <1>1, QuantityAssumption
<1> QED BY <1>1, <1>2, QuantityAssumption DEF Releasable

LEMMA HedgeFilledTyped ==
  ASSUME NEW n \in Entry, NEW f \in Nat, NEW id \in Nat
  PROVE  /\ HedgeFilled(n, f, id) \in Entry
         /\ HedgeFilled(n, f, id).order = n.order /\ HedgeFilled(n, f, id).named = n.named
         /\ HedgeFilled(n, f, id).hedgeId = id
<1> DEFINE h == HedgeProgress(n, n.hedge + f, id)
           p == [h EXCEPT !.inflight = FALSE]
           u == MissingHedge(p) > 0 /\ p.uncertain
           q == [p EXCEPT !.uncertain = u]
<1>1. h \in Entry /\ h.order = n.order /\ h.named = n.named /\ h.hedgeId = id
  <2>1. n.hedge + f \in Nat
    BY FieldTypes
  <2> QED BY <2>1, HedgeProgressTyped
<1>2. KeepsReferences(p, h)
  BY <1>1, FlagsKeepReferences
<1>3. p \in Entry
  BY <1>2 DEF KeepsReferences
<1>4. u \in BOOLEAN
  <2> HIDE DEF p
  <2>1. MissingHedge(p) \in Nat /\ p.uncertain \in BOOLEAN
    BY <1>3, ReleasableTyped, FieldTypes
  <2> QED BY <2>1
<1>5. KeepsReferences(q, p)
  <2> HIDE DEF p, u
  <2> QED BY <1>3, <1>4, FlagsKeepReferences
<1>6. HedgeFilled(n, f, id) = q
  BY DEF HedgeFilled
<1> HIDE DEF q, p, h
<1> QED BY <1>1, <1>2, <1>5, <1>6 DEF KeepsReferences

LEMMA HedgeAnsweredTyped == ASSUME Inductive, HedgeAnswered PROVE Inductive'
<1> DEFINE id == Len(hedges) + 1
           inflight == [e EXCEPT !.inflight = TRUE]
           unsure == [inflight EXCEPT !.uncertain = TRUE]
           u == [unsure EXCEPT !.hedgeId = id]
<1>1. id \in Nat /\ UNCHANGED handoff
  BY TypeFacts DEF HedgeAnswered
<1>2. /\ inflight \in Entry /\ inflight.hedgeId = e.hedgeId
      /\ inflight.order = e.order /\ inflight.named = e.named
  BY TypeFacts, FlagsKeepReferences DEF KeepsReferences
<1>3. u \in Entry /\ u.order = e.order /\ u.named = e.named /\ u.hedgeId = id
  <2>1. unsure \in Entry /\ unsure.order = e.order /\ unsure.named = e.named
    <3> HIDE DEF inflight
    <3> QED BY <1>2, FlagsKeepReferences DEF KeepsReferences
  <2>2. u \in Entry
    <3> HIDE DEF unsure
    <3> QED BY <1>1, <2>1, FieldUpdates
  <2>3. u.order = unsure.order /\ u.named = unsure.named /\ u.hedgeId = id
    <3> HIDE DEF unsure, id
    <3> QED BY <2>1 DEF Entry
  <2> QED BY <2>1, <2>2, <2>3
<1>4. \/ \E f \in 1..Releasable(e) :
           Execute(f) /\ AfterHedge(HedgeFilled(e, f, id), cont, TRUE)
      \/ \E f \in 0..Releasable(e) : Execute(f) /\ AfterHedge(u, cont, FALSE)
      \/ \E f \in 0..Releasable(e) : Execute(f) /\ Await(inflight, "hedgeCheck", "none", cont)
      \/ UNCHANGED venue /\ AfterHedge(e, cont, FALSE)
  BY Zenon DEF HedgeAnswered
<1> HIDE DEF inflight, u
<1>5. ASSUME NEW f \in 1..Releasable(e), Execute(f), AfterHedge(HedgeFilled(e, f, id), cont, TRUE)
      PROVE  Inductive'
  <2> DEFINE m == HedgeFilled(e, f, id)
  <2>1. f \in Nat
    BY ReleasableTyped, TypeFacts
  <2>2. m \in Entry /\ m.order = e.order /\ m.named = e.named /\ m.hedgeId = id
    BY <1>1, <2>1, HedgeFilledTyped, TypeFacts
  <2> HIDE DEF m
  <2>3. Follows(m)
    BY <1>5, <2>2, AfterHedgeFollows DEF m
  <2>4. ControlTyped' /\ pc' # "resubmit" /\ KeepsReferences(e', m)
    BY <2>3 DEF ControlTyped, Follows, KeepsReferences, PCs, Conts, Goals
  <2> QED BY <1>1, <1>5, <2>1, <2>2, <2>4, HedgeSent
<1>6. ASSUME NEW f \in 0..Releasable(e), Execute(f), AfterHedge(u, cont, FALSE)
      PROVE  Inductive'
  <2>1. f \in Nat
    BY ReleasableTyped, TypeFacts
  <2>2. Follows(u)
    BY <1>3, <1>6, AfterHedgeFollows
  <2>3. ControlTyped' /\ pc' # "resubmit" /\ KeepsReferences(e', u)
    BY <2>2 DEF ControlTyped, Follows, KeepsReferences, PCs, Conts, Goals
  <2> QED BY <1>1, <1>3, <1>6, <2>1, <2>3, HedgeSent
<1>7. ASSUME NEW f \in 0..Releasable(e), Execute(f), Await(inflight, "hedgeCheck", "none", cont)
      PROVE  Inductive'
  <2>1. f \in Nat
    BY ReleasableTyped, TypeFacts
  <2>2. ControlTyped' /\ pc' # "resubmit" /\ KeepsReferences(e', inflight)
    BY <1>2, <1>7, NoProbeTyped, TypeFacts DEF Await, ControlTyped, KeepsReferences, Conts
  <2>3. inflight.hedgeId \in 0..(Len(hedges) + 1)
    BY <1>2, TypeFacts
  <2> QED BY <1>1, <1>2, <1>7, <2>1, <2>2, <2>3, HedgeSent
<1>8. CASE UNCHANGED venue /\ AfterHedge(e, cont, FALSE)
  BY <1>1, <1>8, TypeFacts, AfterHedgeFollows, EngineOnly
<1> QED BY <1>4, <1>5, <1>6, <1>7, <1>8

LEMMA HedgeRefusedForGoodTyped == ASSUME Inductive, HedgeRefusedForGood PROVE Inductive'
<1> DEFINE r == [e EXCEPT !.repair = TRUE]
           u == [r EXCEPT !.uncertain = TRUE]
<1>1. KeepsReferences(r, e) /\ r \in Entry
  BY TypeFacts, FlagsKeepReferences DEF KeepsReferences
<1>2. KeepsReferences(u, r) /\ u \in Entry
  <2> HIDE DEF r
  <2> QED BY <1>1, FlagsKeepReferences DEF KeepsReferences
<1>3. Abort(r, cont) \/ AfterHedge(u, cont, FALSE)
  BY Zenon DEF HedgeRefusedForGood
<1> HIDE DEF r, u
<1>4. Follows(r)
  <2>1. CASE Abort(r, cont)
    BY <1>1, <2>1, AbortFollows, TypeFacts
  <2>2. CASE AfterHedge(u, cont, FALSE)
    BY <1>1, <1>2, <2>2, AfterHedgeFollows, FollowsUpdated
  <2> QED BY <1>3, <2>1, <2>2
<1> QED BY <1>1, <1>4, TypeFacts, KeptReferences, EngineOnly DEF HedgeRefusedForGood

LEMMA HedgeCheckedTyped == ASSUME Inductive, HedgeChecked PROVE Inductive'
<1> DEFINE id == Len(hedges)
           f == hedges[id]
           m == HedgeFilled(e, f, id)
<1>1. id \in Nat \ {0} /\ f \in Nat
  BY TypeFacts DEF Inductive, CallsFit, HedgeChecked
<1>2. m \in Entry /\ m.order = e.order /\ m.named = e.named /\ m.hedgeId = id
  BY <1>1, HedgeFilledTyped, TypeFacts
<1>3. Refers(m)
  BY <1>1, <1>2, TypeFacts DEF Refers
<1>4. AfterHedge(m, cont, TRUE) \/ AfterHedge(e, cont, FALSE)
  BY DEF HedgeChecked
<1>5. UNCHANGED <<venue, handoff>>
  BY DEF HedgeChecked
<1> HIDE DEF m
<1>6. CASE AfterHedge(m, cont, TRUE)
  BY <1>2, <1>3, <1>5, <1>6, AfterHedgeFollows, EngineOnly
<1>7. CASE AfterHedge(e, cont, FALSE)
  BY <1>5, <1>7, TypeFacts, AfterHedgeFollows, EngineOnly
<1> QED BY <1>4, <1>6, <1>7

LEMMA ProgressAnsweredTyped == ASSUME Inductive, ProgressAnswered PROVE Inductive'
<1> DEFINE o == orders[e.order]
           ended == ~o.live
           n == PassiveProgress(e, o.fill, ended)
<1>1. UNCHANGED <<venue, handoff>>
  BY DEF ProgressAnswered
<1>2. KeepsReferences(n, e) /\ n \in Entry
  <2>1. o.fill \in Nat /\ ended \in BOOLEAN
    BY TypeFacts, OrderUpdates
  <2> HIDE DEF o, ended
  <2> QED BY <2>1, TypeFacts, PassiveProgressTyped DEF KeepsReferences
<1>3. Leave(e) \/ GoOn(e) \/ DriveHedge(n, "progress") \/ GoOn(n)
  BY DEF ProgressAnswered
<1> HIDE DEF n
<1>4. Follows(e) \/ Follows(n)
  BY <1>2, <1>3, TypeFacts, LeaveFollows, GoOnFollows, DriveHedgeFollows DEF Conts
<1> QED BY <1>1, <1>2, <1>4, TypeFacts, KeptReferences, EngineOnly

LEMMA CancelProgressAnsweredTyped == ASSUME Inductive, CancelProgressAnswered PROVE Inductive'
<1> DEFINE n == [e EXCEPT !.done = TRUE]
<1>1. KeepsReferences(n, e) /\ n \in Entry
  BY TypeFacts, FlagsKeepReferences DEF KeepsReferences
<1>2. (Leave(e) \/ Leave(n)) /\ UNCHANGED <<venue, handoff>>
  BY DEF CancelProgressAnswered
<1> HIDE DEF n
<1> QED BY <1>1, <1>2, TypeFacts, LeaveFollows, KeptReferences, EngineOnly

LEMMA ZeroFillCycleTyped == ASSUME Inductive, ZeroFillCycle PROVE Inductive'
<1> DEFINE c == e.cycles + 1
           counted == [e EXCEPT !.cycles = c]
           waiting == [counted EXCEPT !.retry = TRUE]
           cycled == [waiting EXCEPT !.reposts = c]
           n == [cycled EXCEPT !.attempts = 0]
<1>1. c \in Nat
  BY TypeFacts, FieldTypes
<1>2. n \in Entry
  <2> HIDE DEF c
  <2> QED BY <1>1, TypeFacts, FieldUpdates, FlagUpdates, Zenon
<1>3. n.order = e.order /\ n.named = e.named /\ n.hedgeId = e.hedgeId
  BY TypeFacts DEF Entry
<1>4. Leave(n) /\ UNCHANGED <<venue, handoff>>
  BY Zenon DEF ZeroFillCycle
<1> HIDE DEF n
<1>5. Refers(n)
  BY <1>2, <1>3, TypeFacts DEF Refers
<1> QED BY <1>2, <1>4, <1>5, LeaveFollows, EngineOnly

\* A submission is tried only of a remainder.
LEMMA SubmitTyped ==
  ASSUME Inductive, NEW n, Refers(n), n.maker < Target, Submit(n), UNCHANGED <<venue, handoff>>
  PROVE  Inductive'
<1>1. CASE Leave(n)
  BY <1>1, LeaveFollows, EngineOnly DEF Refers
<1>2. CASE Await(n, "resubmit", "none", "none")
  <2>1. ControlTyped' /\ e' = n /\ pc' = "resubmit"
    BY <1>2, NoProbeTyped DEF Await, ControlTyped, Refers
  <2>2. HandoffTyped' /\ VenueTyped'
    BY <2>1 DEF Inductive, TypeOK, HandoffTyped, VenueTyped, handoff, venue, Refers
  <2> QED BY <2>1, <2>2 DEF TypeOK, Inductive, CallsFit
<1> QED BY <1>1, <1>2 DEF Submit

LEMMA NextCycleTyped ==
  ASSUME Inductive, ~HasAnyFill(e)
  PROVE  Refers(NextCycle(e)) /\ NextCycle(e).maker < Target
<1> DEFINE leg == Other(e.makerLeg)
           a == [e EXCEPT !.phase = "low"]
           b == [a EXCEPT !.makerLeg = leg]
           c == [b EXCEPT !.cycles = 0]
           d == [c EXCEPT !.reposts = 0]
           f == [d EXCEPT !.attempts = 0]
           n == [f EXCEPT !.uncertain = FALSE]
<1>1. n \in Entry
  <2>1. leg \in Legs
    BY DEF Other, Legs
  <2>2. 0 \in Nat /\ FALSE \in BOOLEAN /\ "low" \in {"high", "low", "dual"}
    OBVIOUS
  <2>3. a \in Entry
    BY TypeFacts, FlagUpdates
  <2> HIDE DEF leg
  <2>4. b \in Entry
    <3> HIDE DEF a
    <3> QED BY <2>1, <2>3, FieldUpdates
  <2>5. c \in Entry
    <3> HIDE DEF b
    <3> QED BY <2>2, <2>4, FieldUpdates
  <2>6. d \in Entry
    <3> HIDE DEF c
    <3> QED BY <2>2, <2>5, FieldUpdates
  <2>7. f \in Entry
    <3> HIDE DEF d
    <3> QED BY <2>2, <2>6, FieldUpdates
  <2> HIDE DEF f
  <2> QED BY <2>7, FlagUpdates
<1>2. n.order = e.order /\ n.named = e.named /\ n.hedgeId = e.hedgeId /\ n.maker = e.maker
  BY TypeFacts DEF Entry
<1>3. e.maker = 0
  BY TypeFacts, FieldTypes DEF HasAnyFill
<1>4. NextCycle(e) = n \/ NextCycle(e) = e
  BY Zenon DEF NextCycle
<1> HIDE DEF n
<1> QED BY <1>1, <1>2, <1>3, <1>4, QuantityAssumption, TypeFacts DEF Refers

LEMMA ZeroFillRetryTyped == ASSUME Inductive, ZeroFillRetry PROVE Inductive'
<1>1. CASE Leave(e)
  BY <1>1, TypeFacts, LeaveFollows, EngineOnly DEF ZeroFillRetry
<1>2. CASE Submit(NextCycle(e))
  BY <1>2, NextCycleTyped, SubmitTyped DEF ZeroFillRetry
<1> QED BY <1>1, <1>2 DEF ZeroFillRetry

LEMMA ZeroFillOverTyped == ASSUME Inductive, ZeroFillOver PROVE Inductive'
<1> DEFINE v == e.uncertain /\ ~Switching
           s == [e EXCEPT !.uncertain = v]
           d == [e EXCEPT !.phase = "dual"]
<1>1. v \in BOOLEAN
  BY TypeFacts, FieldTypes
<1>2. KeepsReferences(s, e)
  <2> HIDE DEF v
  <2> QED BY <1>1, TypeFacts, FlagsKeepReferences
<1>3. KeepsReferences(d, e)
  <2>1. d.order = e.order /\ d.named = e.named /\ d.hedgeId = e.hedgeId
    BY TypeFacts DEF Entry
  <2> QED BY <2>1, TypeFacts, FlagUpdates DEF KeepsReferences
<1>4. (Finalize(e) \/ Finalize(s) \/ Finalize(d)) /\ UNCHANGED <<venue, handoff>>
  BY Zenon DEF ZeroFillOver
<1> HIDE DEF s, d
<1>5. Refers(s) /\ Refers(d)
  BY <1>2, <1>3, TypeFacts, KeptReferences
<1> QED BY <1>4, <1>5, TypeFacts, FinalizeFollows, EngineOnly DEF Refers

LEMMA RemainderOrFinalizeTyped == ASSUME Inductive, RemainderOrFinalize PROVE Inductive'
<1>1. CASE e.maker < Target /\ Submit(e)
  BY <1>1, TypeFacts, SubmitTyped DEF RemainderOrFinalize
<1>2. CASE Finalize(e)
  BY <1>2, TypeFacts, FinalizeFollows, EngineOnly DEF RemainderOrFinalize
<1> QED BY <1>1, <1>2 DEF RemainderOrFinalize

LEMMA HedgeRemainderTyped == ASSUME Inductive, HedgeRemainder PROVE Inductive'
<1> DEFINE n == [e EXCEPT !.repair = TRUE]
<1>1. KeepsReferences(n, e)
  BY TypeFacts, FlagsKeepReferences
<1>2. (Finalize(n) \/ Finalize(e) \/ DriveHedge(e, "none")) /\ UNCHANGED <<venue, handoff>>
  BY Zenon DEF HedgeRemainder
<1> HIDE DEF n
<1>3. Refers(n)
  BY <1>1, TypeFacts, KeptReferences
<1>4. Follows(n) \/ Follows(e)
  BY <1>2, <1>3, TypeFacts, FinalizeFollows, DriveHedgeFollows DEF Refers, Conts
<1> QED BY <1>2, <1>3, <1>4, TypeFacts, EngineOnly

\* Client ids are typed.
LEMMA StageTyped ==
  ASSUME Inductive, NEW k \in Nat
  PROVE  Stage(k) \in ClientId
<1> DEFINE r == e.reposts + 1
           a == e.accepted + 1
<1>1. r \in Nat /\ a \in Nat /\ e.makerLeg \in Legs
  BY TypeFacts, FieldTypes
<1>2. Stage(k) = IF HasAnyFill(e) THEN [stage |-> e.makerLeg, cycle |-> r, attempt |-> k]
                 ELSE [stage |-> "maker", cycle |-> a, attempt |-> k]
  BY Zenon DEF Stage
<1> HIDE DEF r, a
<1> QED BY <1>1, <1>2 DEF ClientId

\* The entry that takes the order that lands for its own.
LEMMA AcceptedTyped ==
  ASSUME Inductive, pc = "resubmit", NEW k \in Nat
  PROVE  /\ Quantity \in Nat
         /\ Accepted(k) \in Entry
         /\ Accepted(k).order = Len(orders) + 1 /\ Accepted(k).named = Len(orders) + 1
         /\ Accepted(k).hedgeId = e.hedgeId /\ ~Accepted(k).done
<1> DEFINE id == Len(orders) + 1
           q == Quantity
           r == e.reposts + 1
           t == e.accepted + 1
           at == k + 1
           cy == e.cycles
           r0 == [e EXCEPT !.order = id]
           a == [r0 EXCEPT !.named = id]
           b == [a EXCEPT !.base = e.maker]
           c == [b EXCEPT !.qty = q]
           d == [c EXCEPT !.done = FALSE]
           f == [d EXCEPT !.cancel = FALSE]
           g == [f EXCEPT !.reposts = cy]
           n == [g EXCEPT !.attempts = at]
           x == [n EXCEPT !.reposts = r]
           w == [n EXCEPT !.retry = FALSE]
           y == [w EXCEPT !.accepted = t]
<1>1. /\ q \in Nat /\ id \in Nat /\ r \in Nat /\ cy \in Nat /\ e.maker \in Nat
      /\ t \in Nat /\ at \in Nat
  <2>1. e.maker < Target
    BY DEF Inductive, CallsFit
  <2>2. e.maker \in Nat /\ e.qty \in Nat /\ e.reposts \in Nat /\ e.cycles \in Nat
        /\ e.accepted \in Nat
    BY TypeFacts, FieldTypes
  <2>3. q \in Nat
    <3>1. Target - e.maker \in Nat
      BY <2>1, <2>2, QuantityAssumption
    <3> QED BY <2>2, <3>1 DEF Quantity
  <2>4. Len(orders) \in Nat
    BY TypeFacts
  <2> HIDE DEF q
  <2> QED BY <2>2, <2>3, <2>4
<1>2. CycleAccepted(e, id, q, at) = n
  BY Zenon DEF CycleAccepted
<1>3. Accepted(k) = x \/ Accepted(k) = y
  <2> HIDE DEF n
  <2>1. n.reposts = n.reposts
    OBVIOUS
  <2> QED BY <1>2, Zenon DEF Accepted
<1>4. /\ x.order = id /\ x.named = id /\ x.hedgeId = e.hedgeId /\ ~x.done
      /\ y.order = id /\ y.named = id /\ y.hedgeId = e.hedgeId /\ ~y.done
  <2> HIDE DEF id, q, r, cy, t, at
  <2> QED BY TypeFacts DEF Entry
<1> HIDE DEF id, q, r, cy, t, at
<1>5. a \in Entry
  <2>1. r0 \in Entry
    BY <1>1, TypeFacts, FieldUpdates
  <2> HIDE DEF r0
  <2> QED BY <1>1, <2>1, FieldUpdates
<1>6. b \in Entry
  <2> HIDE DEF a
  <2> QED BY <1>1, <1>5, FieldUpdates
<1>7. c \in Entry
  <2> HIDE DEF b
  <2> QED BY <1>1, <1>6, FieldUpdates
<1>8. d \in Entry
  <2> HIDE DEF c
  <2> QED BY <1>7, FlagUpdates
<1>9. f \in Entry
  <2> HIDE DEF d
  <2> QED BY <1>8, FlagUpdates
<1>10. g \in Entry
  <2> HIDE DEF f
  <2> QED BY <1>1, <1>9, FieldUpdates
<1>11. n \in Entry
  <2> HIDE DEF g
  <2> QED BY <1>1, <1>10, FieldUpdates
<1>12. x \in Entry /\ w \in Entry
  <2> HIDE DEF n
  <2> QED BY <1>1, <1>11, FieldUpdates, FlagUpdates
<1>13. y \in Entry
  <2> HIDE DEF w
  <2> QED BY <1>1, <1>12, FieldUpdates
<1> HIDE DEF x, y
<1> QED BY <1>1, <1>3, <1>4, <1>12, <1>13 DEF q, id

\* A submission lands, answered or not, or nothing is sent.
LEMMA Submissions ==
  ASSUME Inductive, Resubmitted
  PROVE  \/ \E k \in Nat : Land(e.makerLeg, Quantity, Stage(k), TRUE) /\ Leave(Accepted(k))
         \/ \E k \in Nat : Land(e.makerLeg, Quantity, Stage(k), FALSE) /\ Leave(e)
         \/ (Leave(e) \/ Finalize(e)) /\ orders' = orders
<1>1. FirstAttempt \in Nat
  BY TypeFacts, FieldTypes DEF FirstAttempt
<1>2. PostOnlyAttempts - 1 \in Nat
  BY QuantityAssumption
<1>3. \A k \in FirstAttempt..(PostOnlyAttempts - 1) : k \in Nat
  BY <1>1, <1>2
<1> QED BY <1>3, Zenon DEF Resubmitted

\* What reaches the book is a maker order.
LEMMA LandTyped ==
  ASSUME Inductive, NEW q \in Nat, NEW cid \in ClientId, NEW a \in BOOLEAN,
         Land(e.makerLeg, q, cid, a)
  PROVE  orders' \in Seq(Order) /\ Len(orders') = Len(orders) + 1
<1>1. [leg |-> e.makerLeg, qty |-> q, fill |-> 0, live |-> TRUE, cid |-> cid, acked |-> a]
        \in Order
  BY TypeFacts, FieldTypes DEF Order
<1> QED BY <1>1, TypeFacts DEF Land

LEMMA LandedTyped ==
  ASSUME Inductive, UNCHANGED <<handoff, hedges, pos>>,
         orders' \in Seq(Order), Len(orders') = Len(orders) + 1,
         NEW n \in Entry, n.order \in DOMAIN orders', n.named \in DOMAIN orders',
         n.hedgeId = e.hedgeId, Leave(n)
  PROVE  Inductive'
<1>1. VenueTyped'
  BY TypeFacts DEF VenueTyped, Leave
<1>2. ControlTyped' /\ pc' = "idle"
  BY NoProbeTyped DEF Leave, ControlTyped
<1>3. HandoffTyped'
  BY DEF Inductive, TypeOK, HandoffTyped, handoff
<1> QED BY <1>1, <1>2, <1>3 DEF Inductive, TypeOK, CallsFit

LEMMA ResubmittedTyped == ASSUME Inductive, Resubmitted PROVE Inductive'
<1>1. pc = "resubmit" /\ UNCHANGED <<handoff, hedges, pos>>
  BY DEF Resubmitted
<1>2. ASSUME NEW k \in Nat, NEW a \in BOOLEAN, NEW n \in {e, Accepted(k)},
             Land(e.makerLeg, Quantity, Stage(k), a), Leave(n)
      PROVE  Inductive'
  <2>1. Stage(k) \in ClientId /\ Quantity \in Nat
    BY <1>1, StageTyped, AcceptedTyped
  <2>2. orders' \in Seq(Order) /\ Len(orders') = Len(orders) + 1
    BY <1>2, <2>1, LandTyped
  <2>3. n \in Entry /\ n.hedgeId = e.hedgeId
        /\ n.order \in DOMAIN orders' /\ n.named \in DOMAIN orders'
    BY <1>1, <2>2, AcceptedTyped, TypeFacts
  <2> QED BY <1>1, <1>2, <2>2, <2>3, LandedTyped
<1>3. CASE (Leave(e) \/ Finalize(e)) /\ orders' = orders
  <2>1. UNCHANGED <<venue, handoff>>
    BY <1>1, <1>3 DEF venue
  <2> QED BY <1>3, <2>1, TypeFacts, LeaveFollows, FinalizeFollows, EngineOnly
<1> QED BY <1>2, <1>3, Submissions

-----------------------------------------------------------------------------
(* Repricing. *)

LEMMA RepriceMakerTyped == ASSUME Inductive, RepriceMaker PROVE Inductive'
BY TypeFacts, AwaitFollows, EngineOnly DEF RepriceMaker, PCs, Conts, Goals

LEMMA CancelAnsweredTyped == ASSUME Inductive, CancelAnswered PROVE Inductive'
BY TypeFacts, LeaveFollows, AwaitFollows, EngineOnly DEF CancelAnswered, PCs, Conts, Goals

LEMMA ReplacementAnsweredTyped == ASSUME Inductive, ReplacementAnswered PROVE Inductive'
<1> DEFINE id == Len(orders) + 1
           n == [e EXCEPT !.named = id]
<1>1. /\ UNCHANGED <<handoff, hedges, pos>>
      /\ \/ Land(e.makerLeg, Target, LaneId, TRUE) /\ Leave(n)
         \/ Land(e.makerLeg, Target, LaneId, FALSE) /\ Leave(e)
         \/ UNCHANGED orders /\ Leave(e)
  BY DEF ReplacementAnswered
<1>2. /\ n \in Entry
      /\ n.order = e.order /\ n.named = id /\ n.hedgeId = e.hedgeId
  <2>1. id \in Nat
    BY TypeFacts
  <2> HIDE DEF id
  <2>2. n \in Entry
    BY <2>1, TypeFacts, FieldUpdates
  <2> QED BY <2>2, TypeFacts DEF Entry
<1>3. LaneId \in ClientId /\ Target \in Nat
  BY QuantityAssumption DEF LaneId, ClientId
<1>4. ASSUME NEW a \in BOOLEAN, NEW m \in {e, n}, Land(e.makerLeg, Target, LaneId, a), Leave(m)
      PROVE  Inductive'
  <2> HIDE DEF n
  <2>1. orders' \in Seq(Order) /\ Len(orders') = Len(orders) + 1
    BY <1>3, <1>4, LandTyped
  <2>2. m \in Entry /\ m.hedgeId = e.hedgeId
        /\ m.order \in DOMAIN orders' /\ m.named \in DOMAIN orders'
    BY <1>2, <2>1, TypeFacts
  <2> QED BY <1>1, <1>4, <2>1, <2>2, LandedTyped
<1>5. CASE UNCHANGED orders /\ Leave(e)
  <2>1. UNCHANGED <<venue, handoff>>
    BY <1>1, <1>5 DEF venue
  <2> QED BY <1>5, <2>1, TypeFacts, LeaveFollows, EngineOnly
<1> QED BY <1>1, <1>4, <1>5

-----------------------------------------------------------------------------
(* Reconciliation. *)

LEMMA ReconcileTyped == ASSUME Inductive, Reconcile PROVE Inductive'
<1>1. /\ UNCHANGED <<venue, handoff>>
      /\ \/ Release(e, "none") \/ ReadLegs(e)
         \/ Await(e, "longOrders", "abandon", "none") \/ Await(e, "unresolved", "abandon", "none")
  BY DEF Reconcile
<1>2. Follows(e)
  BY <1>1, TypeFacts, ReleaseFollows, ReadLegsFollows, AwaitFollows DEF PCs, Conts, Goals
<1> QED BY <1>1, <1>2, TypeFacts, EngineOnly

LEMMA UnresolvedAnsweredTyped == ASSUME Inductive, UnresolvedAnswered PROVE Inductive'
<1>1. /\ UNCHANGED <<venue, handoff>>
      /\ Kept(e) \/ Leave(e) \/ Finalize(e) \/ Await(e, "longOrders", goal, "none")
  BY DEF UnresolvedAnswered
<1>2. Follows(e)
  BY <1>1, TypeFacts, KeptFollows, LeaveFollows, FinalizeFollows, AwaitFollows DEF PCs, Conts
<1> QED BY <1>1, <1>2, TypeFacts, EngineOnly

\* A read that only notes its answer.
LEMMA ReadTyped ==
  ASSUME Inductive, pc' \in PCs, probe' \in Probe, UNCHANGED <<e, cont, goal, venue, handoff>>
  PROVE  Inductive'
<1>1. Follows(e)
  BY TypeFacts, Same DEF Follows
<1> QED BY <1>1, TypeFacts, EngineOnly

LEMMA ProbeUpdates ==
  ASSUME NEW p \in Probe
  PROVE  /\ \A leg \in Legs, v \in Nat : [p EXCEPT !.live[leg] = v] \in Probe
         /\ \A leg \in Legs, v \in Nat : [p EXCEPT !.fill[leg] = v] \in Probe
         /\ \A live \in [Legs -> Nat] : [p EXCEPT !.live = live] \in Probe
         /\ \A b \in BOOLEAN : [p EXCEPT !.ended = b] \in Probe
         /\ \A b \in BOOLEAN : [p EXCEPT !.clean = b] \in Probe
         /\ p.live \in [Legs -> Nat] /\ p.fill \in [Legs -> Nat]
         /\ p.ended \in BOOLEAN /\ p.clean \in BOOLEAN
BY DEF Probe

LEMMA HedgeFillTyped ==
  ASSUME Inductive
  PROVE  /\ HedgeReference \in 0..Len(hedges)
         /\ HedgeReference \in DOMAIN hedges => hedges[HedgeReference] \in Nat
BY TypeFacts DEF HedgeReference

LEMMA FillReadTyped ==
  ASSUME Inductive, NEW here, NEW leg \in Legs, NEW next \in PCs, FillRead(here, leg, next)
  PROVE  Inductive'
<1> DEFINE n == [e EXCEPT !.uncertain = TRUE]
           h == hedges[HedgeReference]
           hedged == [probe EXCEPT !.fill[leg] = h]
           noted(i) == [probe EXCEPT !.fill[leg] = orders[i].fill,
                                     !.ended = ~orders[i].live /\ orders[i].fill = 0]
<1>1. /\ UNCHANGED <<venue, handoff>>
      /\ \/ Leave(e) \/ Leave(n)
         \/ pc' = next /\ UNCHANGED <<e, cont, goal, probe>>
         \/ /\ pc' = next /\ UNCHANGED <<e, cont, goal>>
            /\ \E i \in Identified(e) : probe' = noted(i)
         \/ /\ HedgeReference \in DOMAIN hedges
            /\ pc' = next /\ UNCHANGED <<e, cont, goal>> /\ probe' = hedged
  BY Zenon DEF FillRead
<1>2. Refers(n)
  BY TypeFacts, FlagsKeepReferences, KeptReferences
<1>3. ASSUME NEW i \in Identified(e) PROVE noted(i) \in Probe
  <2> DEFINE q == orders[i].fill
             ended == ~orders[i].live /\ orders[i].fill = 0
             filled == [probe EXCEPT !.fill[leg] = q]
  <2>1. q \in Nat /\ ended \in BOOLEAN
    BY TypeFacts, OrderUpdates DEF Identified
  <2>2. filled \in Probe
    <3>1. probe \in Probe
      BY TypeFacts
    <3> HIDE DEF q
    <3> QED BY <2>1, <3>1, ProbeUpdates
  <2>3. [filled EXCEPT !.ended = ended] \in Probe
    <3> HIDE DEF filled, ended
    <3> QED BY <2>1, <2>2, ProbeUpdates
  <2> QED BY <2>3, Zenon
<1>4. HedgeReference \in DOMAIN hedges => hedged \in Probe
  <2>1. HedgeReference \in DOMAIN hedges => h \in Nat
    BY HedgeFillTyped
  <2> HIDE DEF h
  <2> QED BY <2>1, TypeFacts, ProbeUpdates
<1> HIDE DEF n, noted, hedged
<1>5. CASE Leave(e) \/ Leave(n)
  BY <1>1, <1>2, <1>5, TypeFacts, LeaveFollows, EngineOnly DEF Refers
<1>6. CASE pc' = next /\ UNCHANGED <<e, cont, goal>> /\ probe' \in Probe
  BY <1>1, <1>6, ReadTyped
<1> QED BY <1>1, <1>3, <1>4, <1>5, <1>6, TypeFacts

LEMMA LongLiveTyped == ASSUME Inductive, LongLive PROVE Inductive'
<1>1. CASE Leave(e)
  BY <1>1, TypeFacts, LeaveFollows, EngineOnly DEF LongLive
<1>2. CASE probe' = [probe EXCEPT !.live["long"] = pos["long"]] /\ pc' = "shortFill"
           /\ UNCHANGED <<e, cont, goal>>
  <2>1. "long" \in Legs /\ pos["long"] \in Nat
    BY TypeFacts DEF Legs
  <2>2. probe' \in Probe
    BY <1>2, <2>1, TypeFacts, ProbeUpdates
  <2> QED BY <1>2, <2>2, ReadTyped DEF LongLive, PCs
<1> QED BY <1>1, <1>2 DEF LongLive

\* What the reads show is written back to an entry.
LEMMA RaisedTyped ==
  ASSUME NEW n, Refers(n), NEW leg, NEW q \in Nat, NEW id \in 0..Len(hedges), Len(hedges) \in Nat
  PROVE  Refers(Raised(n, leg, q, id))
<1> DEFINE m == [n EXCEPT !.maker = q]
<1>1. Refers(m)
  <2>1. m \in Entry
    BY FieldUpdates DEF Refers
  <2>2. m.order = n.order /\ m.named = n.named /\ m.hedgeId = n.hedgeId
    BY DEF Entry, Refers
  <2> HIDE DEF m
  <2> QED BY <2>1, <2>2 DEF Refers
<1>2. Refers(HedgeProgress(n, q, id))
  <2>1. n \in Entry /\ id \in Nat
    BY DEF Refers
  <2> QED BY <2>1, HedgeProgressTyped DEF Refers
<1>3. Raised(n, leg, q, id) \in {n, m, HedgeProgress(n, q, id)}
  BY DEF Raised
<1> HIDE DEF m
<1> QED BY <1>1, <1>2, <1>3

LEMMA CorrectedTyped ==
  ASSUME Inductive, NEW live
  PROVE  Refers(Corrected(e, live))
<1> DEFINE a == [e EXCEPT !.maker = 0]
           b == [a EXCEPT !.slices = 0]
           c == [b EXCEPT !.done = TRUE]
<1>1. a \in Entry
  BY TypeFacts, FieldUpdates
<1>2. b \in Entry
  <2> HIDE DEF a
  <2> QED BY <1>1, FieldUpdates
<1>3. c \in Entry
  <2> HIDE DEF b
  <2> QED BY <1>2, FlagUpdates
<1>4. c.order = e.order /\ c.named = e.named /\ c.hedgeId = e.hedgeId
  BY TypeFacts DEF Entry
<1>5. Corrected(e, live) \in {e, c}
  BY Zenon DEF Corrected
<1> HIDE DEF c
<1> QED BY <1>3, <1>4, <1>5, TypeFacts DEF Refers

LEMMA TakenTyped ==
  ASSUME Inductive, NEW live \in [Legs -> Nat]
  PROVE  Refers(Taken(live))
<1>0. Len(hedges) \in Nat
  BY TypeFacts
<1>1. ASSUME NEW n, Refers(n), NEW leg \in Legs
      PROVE  Refers(FillTaken(n, leg))
  <2>1. probe.fill[leg] \in Nat
    BY TypeFacts, ProbeUpdates
  <2> QED BY <1>0, <1>1, <2>1, HedgeFillTyped, RaisedTyped DEF FillTaken
<1>2. ASSUME NEW n, Refers(n), NEW leg \in Legs
      PROVE  Refers(PositionTaken(n, leg, live))
  <2>1. live[leg] \in Nat /\ n.hedgeId \in 0..Len(hedges)
    BY <1>2 DEF Refers
  <2> QED BY <1>0, <1>2, <2>1, RaisedTyped DEF PositionTaken
<1>3. "long" \in Legs /\ "short" \in Legs
  BY DEF Legs
<1> DEFINE a == FillTaken(Corrected(e, live), "long")
           b == FillTaken(a, "short")
           c == PositionTaken(b, "long", live)
<1>4. Refers(a)
  BY <1>1, <1>3, CorrectedTyped
<1>5. Refers(b)
  <2> HIDE DEF a
  <2> QED BY <1>1, <1>3, <1>4
<1>6. Refers(c)
  <2> HIDE DEF b
  <2> QED BY <1>2, <1>3, <1>5
<1>7. Taken(live) = PositionTaken(c, "short", live)
  BY DEF Taken
<1> HIDE DEF c
<1> QED BY <1>2, <1>3, <1>6, <1>7

LEMMA ForceTerminalFollows ==
  ASSUME NEW n \in Entry, ForceTerminal(n)
  PROVE  Follows(n)
<1>1. CASE ForceResting(n)
  <2> DEFINE s == [n EXCEPT !.cancel = TRUE]
             m(x) == [n EXCEPT !.cancel = n.cancel \/ x]
  <2>1. KeepsReferences(s, n)
    BY FlagsKeepReferences
  <2>2. ASSUME NEW x \in BOOLEAN PROVE KeepsReferences(m(x), n)
    <3> DEFINE v == n.cancel \/ x
    <3>1. v \in BOOLEAN
      BY FieldTypes
    <3> HIDE DEF v
    <3>2. KeepsReferences([n EXCEPT !.cancel = v], n)
      BY <3>1, FlagsKeepReferences
    <3> QED BY <3>2, Zenon DEF v
  <2>3. Leave(s) \/ \E x \in BOOLEAN : Finalize(m(x)) \/ Abort(m(x), "none")
    BY <1>1, Zenon DEF ForceResting
  <2> HIDE DEF s, m
  <2>4. CASE Leave(s)
    BY <2>1, <2>4, LeaveFollows, FollowsUpdated DEF KeepsReferences
  <2>5. ASSUME NEW x \in BOOLEAN, Finalize(m(x)) \/ Abort(m(x), "none")
        PROVE  Follows(n)
    <3>1. m(x) \in Entry /\ KeepsReferences(m(x), n)
      BY <2>2 DEF KeepsReferences
    <3>2. Follows(m(x))
      BY <2>5, <3>1, FinalizeFollows, AbortFollows DEF Conts
    <3> QED BY <3>1, <3>2, FollowsUpdated
  <2> QED BY <2>3, <2>4, <2>5
<1>2. CASE ForceCompleted(n)
  <2>1. \/ Await(n, "unresolved", "forced", "none") \/ Await(n, "unresolved", "ceiling", "none")
        \/ Leave(n) \/ Abort(n, "none")
    BY <1>2 DEF ForceCompleted
  <2> QED BY <2>1, AwaitFollows, LeaveFollows, AbortFollows DEF PCs, Conts, Goals
<1> QED BY <1>1, <1>2 DEF ForceTerminal

LEMMA FlatDecisionFollows ==
  ASSUME NEW n \in Entry, FlatDecision(n)
  PROVE  Follows(n)
BY FinalizeFollows, ReleaseFollows, LeaveFollows DEF FlatDecision, Conts

LEMMA ExposedDecisionFollows ==
  ASSUME NEW n \in Entry, ExposedDecision(n)
  PROVE  Follows(n)
<1> DEFINE m == [n EXCEPT !.repair = TRUE]
<1>1. KeepsReferences(m, n) /\ m \in Entry
  BY FlagsKeepReferences DEF KeepsReferences
<1>2. \/ Abort(n, "none") \/ ForceTerminal(n) \/ Finalize(m)
      \/ DriveHedge(n, "none") \/ Leave(n)
  BY Zenon DEF ExposedDecision
<1> HIDE DEF m
<1>3. CASE Finalize(m)
  BY <1>1, <1>3, FinalizeFollows, FollowsUpdated
<1>4. CASE Abort(n, "none") \/ DriveHedge(n, "none")
  BY <1>4, AbortFollows, DriveHedgeFollows DEF Conts
<1>5. CASE ForceTerminal(n) \/ Leave(n)
  BY <1>5, ForceTerminalFollows, LeaveFollows
<1> QED BY <1>2, <1>3, <1>4, <1>5

LEMMA DecideFollows ==
  ASSUME Inductive, NEW live \in [Legs -> Nat], Decide(live)
  PROVE  Follows(Taken(live))
<1> SUFFICES ASSUME NEW n, n = Taken(live) PROVE Follows(n)
  OBVIOUS
<1> DEFINE cleared == [n EXCEPT !.inflight = FALSE]
<1>1. n \in Entry
  BY TakenTyped DEF Refers
<1>2. KeepsReferences(cleared, n) /\ cleared \in Entry
  BY <1>1, FlagsKeepReferences DEF KeepsReferences
<1>3. InflightCleared(n, live) \subseteq {n, cleared}
  BY DEF InflightCleared
<1>4. \/ /\ e' = n /\ pc' = "longOrders" /\ cont' = "none" /\ goal' = "cleanup"
         /\ probe' = [NoProbe EXCEPT !.live = live]
      \/ Finalize(n) \/ ForceTerminal(n) \/ FlatDecision(n)
      \/ \E m \in InflightCleared(n, live) : ExposedDecision(m)
  BY Zenon DEF Decide
<1> HIDE DEF cleared
<1>5. CASE /\ e' = n /\ pc' = "longOrders" /\ cont' = "none" /\ goal' = "cleanup"
           /\ probe' = [NoProbe EXCEPT !.live = live]
  <2>1. probe' \in Probe
    BY <1>5, NoProbeTyped, ProbeUpdates
  <2> QED BY <1>1, <1>5, <2>1 DEF Follows, KeepsReferences, PCs, Conts, Goals
<1>6. CASE Finalize(n) \/ ForceTerminal(n) \/ FlatDecision(n)
  BY <1>1, <1>6, FinalizeFollows, ForceTerminalFollows, FlatDecisionFollows
<1>7. ASSUME NEW m \in {n, cleared}, ExposedDecision(m) PROVE Follows(n)
  <2>1. Follows(m)
    BY <1>1, <1>2, <1>7, ExposedDecisionFollows
  <2> QED BY <1>2, <1>7, <2>1, FollowsUpdated
<1> QED BY <1>3, <1>4, <1>5, <1>6, <1>7

LEMMA ShortLiveTyped == ASSUME Inductive, ShortLive PROVE Inductive'
<1> DEFINE live == [probe.live EXCEPT !["short"] = pos["short"]]
<1>1. live \in [Legs -> Nat]
  BY TypeFacts, ProbeUpdates DEF Legs
<1>2. (Leave(e) \/ Decide(live)) /\ UNCHANGED <<venue, handoff>>
  BY DEF ShortLive
<1> HIDE DEF live
<1>3. CASE Leave(e)
  BY <1>2, <1>3, TypeFacts, LeaveFollows, EngineOnly
<1>4. CASE Decide(live)
  BY <1>1, <1>2, <1>4, TakenTyped, DecideFollows, EngineOnly
<1> QED BY <1>2, <1>3, <1>4

-----------------------------------------------------------------------------
(* Release. *)

LEMMA MakerDetailsTyped == ASSUME Inductive, MakerDetails PROVE Inductive'
<1>1. pc' = "hedgeDetails" /\ UNCHANGED <<venue, handoff, cont, goal>>
  BY Zenon DEF MakerDetails
<1>2. CASE e' = e /\ probe' = NoProbe
  <2>1. Follows(e)
    BY <1>1, <1>2, NoProbeTyped, TypeFacts, Same DEF Follows, PCs
  <2> QED BY <1>1, <2>1, TypeFacts, EngineOnly
<1>3. ASSUME NEW i \in Identified(e),
             \/ e' = [e EXCEPT !.maker = orders[i].fill, !.named = i] /\ probe' = NoProbe
             \/ e' = e /\ probe' = [NoProbe EXCEPT !.ended = ~orders[i].live]
      PROVE  Inductive'
  <2> DEFINE q == orders[i].fill
             m == [e EXCEPT !.maker = q]
             n == [m EXCEPT !.named = i]
             ended == ~orders[i].live
             p == [NoProbe EXCEPT !.ended = ended]
  <2>1. i \in DOMAIN orders /\ i \in Nat
    BY TypeFacts DEF Identified
  <2>2. q \in Nat /\ ended \in BOOLEAN
    BY <2>1, TypeFacts, OrderUpdates
  <2>3. n.order = e.order /\ n.named = i /\ n.hedgeId = e.hedgeId
    BY TypeFacts DEF Entry
  <2>4. n \in Entry
    <3> HIDE DEF q
    <3>1. m \in Entry
      BY <2>2, TypeFacts, FieldUpdates
    <3> HIDE DEF m
    <3> QED BY <2>1, <3>1, FieldUpdates
  <2>5. p \in Probe
    <3> HIDE DEF ended
    <3> QED BY <2>2, NoProbeTyped, ProbeUpdates
  <2>6. e' \in {e, n} /\ probe' \in {NoProbe, p}
    BY <1>3, Zenon
  <2> HIDE DEF n, p
  <2>7. Refers(n)
    BY <2>1, <2>3, <2>4, TypeFacts DEF Refers
  <2>8. Follows(e) \/ Follows(n)
    BY <1>1, <2>4, <2>5, <2>6, NoProbeTyped, TypeFacts, Same DEF Follows, PCs
  <2> QED BY <1>1, <2>7, <2>8, TypeFacts, EngineOnly
<1> QED BY <1>2, <1>3 DEF MakerDetails

LEMMA HedgeDetailsTyped == ASSUME Inductive, HedgeDetails PROVE Inductive'
<1>1. PICK f \in {0} \cup {hedges[i] : i \in {HedgeReference} \cap DOMAIN hedges} :
        LET n == IF f > 0 THEN [e EXCEPT !.hedge = f, !.hedgeId = HedgeReference] ELSE e
        IN \/ Await(n, "longOrders", "finalize", "none")
           \/ Leave([n EXCEPT !.uncertain = TRUE])
  BY Zenon DEF HedgeDetails
<1> DEFINE id == HedgeReference
           h == [e EXCEPT !.hedge = f]
           m == [h EXCEPT !.hedgeId = id]
           n == IF f > 0 THEN m ELSE e
           u == [n EXCEPT !.uncertain = TRUE]
<1>2. f \in Nat /\ id \in Nat /\ id \in 0..Len(hedges)
  BY HedgeFillTyped, TypeFacts
<1>3. m \in Entry
  <2>1. h \in Entry
    BY <1>2, TypeFacts, FieldUpdates
  <2> HIDE DEF h, id
  <2> QED BY <1>2, <2>1, FieldUpdates
<1>4. m.order = e.order /\ m.named = e.named /\ m.hedgeId = id
  <2> HIDE DEF id
  <2> QED BY TypeFacts DEF Entry
<1>5. Refers(n)
  <2> HIDE DEF m, id
  <2> QED BY <1>2, <1>3, <1>4, TypeFacts DEF Refers
<1>6. Await(n, "longOrders", "finalize", "none") \/ Leave(u)
  BY <1>1, Zenon
<1>7. UNCHANGED <<venue, handoff>>
  BY DEF HedgeDetails
<1> HIDE DEF n
<1>8. KeepsReferences(u, n) /\ u \in Entry /\ n \in Entry
  BY <1>5, FlagsKeepReferences DEF Refers, KeepsReferences
<1> HIDE DEF u
<1>9. Follows(n)
  <2>1. CASE Await(n, "longOrders", "finalize", "none")
    BY <1>8, <2>1, AwaitFollows DEF PCs, Goals, Conts
  <2>2. CASE Leave(u)
    BY <1>8, <2>2, LeaveFollows, FollowsUpdated
  <2> QED BY <1>6, <2>1, <2>2
<1> QED BY <1>5, <1>7, <1>9, EngineOnly

LEMMA OrdersAnsweredTyped ==
  ASSUME Inductive, NEW here, NEW leg, NEW next \in PCs, OrdersAnswered(here, leg, next)
  PROVE  Inductive'
<1>1. /\ UNCHANGED <<venue, handoff>>
      /\ Deferred \/ Kept(e) \/ (pc' = next /\ UNCHANGED <<e, cont, goal, probe>>)
  BY DEF OrdersAnswered
<1>2. CASE Deferred \/ Kept(e)
  BY <1>1, <1>2, TypeFacts, DeferredFollows, KeptFollows, EngineOnly
<1>3. CASE pc' = next /\ UNCHANGED <<e, cont, goal, probe>>
  BY <1>1, <1>3, TypeFacts, ReadTyped
<1> QED BY <1>1, <1>2, <1>3

LEMMA NextAfterOrdersTyped == NextAfterOrders \in PCs
BY DEF NextAfterOrders, PCs

LEMMA LongPositionTyped == ASSUME Inductive, LongPosition PROVE Inductive'
<1> DEFINE p == [probe EXCEPT !.live["long"] = pos["long"]]
<1>1. /\ UNCHANGED <<venue, handoff>>
      /\ Deferred \/ (probe' = p /\ pc' = "shortPosition" /\ UNCHANGED <<e, cont, goal>>)
  BY DEF LongPosition
<1>2. p \in Probe
  <2>1. "long" \in Legs /\ pos["long"] \in Nat
    BY TypeFacts DEF Legs
  <2> QED BY <2>1, TypeFacts, ProbeUpdates
<1> HIDE DEF p
<1>3. CASE Deferred
  BY <1>1, <1>3, TypeFacts, DeferredFollows, EngineOnly
<1>4. CASE probe' = p /\ pc' = "shortPosition" /\ UNCHANGED <<e, cont, goal>>
  BY <1>1, <1>2, <1>4, ReadTyped DEF PCs
<1> QED BY <1>1, <1>3, <1>4

LEMMA RemoveFollows ==
  ASSUME NEW n \in Entry, NEW k, Remove(n, k)
  PROVE  Follows(n) /\ owned' = FALSE
BY ResumeFollows DEF Remove

\* What the two totals hand over is a quantity of each leg.
LEMMA ExcessTyped ==
  ASSUME NEW n \in Entry
  PROVE  Balanced(n) \in Nat /\ Excess(n) \in [Legs -> Nat]
<1>1. \A leg \in Legs : Filled(n, leg) \in Nat /\ Filled(n, Other(leg)) \in Nat
  BY FieldTypes DEF Filled
<1>2. \A leg \in Legs : Most(0, Filled(n, leg) - Filled(n, Other(leg))) \in Nat
  BY <1>1 DEF Most
<1> QED BY <1>2, FieldTypes DEF Balanced, Excess, Least

LEMMA CleanupOrKeepFollows ==
  ASSUME NEW n \in Entry, NEW live \in [Legs -> Nat], CleanupOrKeep(n, live)
  PROVE  Follows(n) /\ UNCHANGED handoff
<1>1. CASE Leave(n)
  BY <1>1, LeaveFollows DEF CleanupOrKeep
<1>2. CASE /\ e' = n /\ pc' = "cleanup" /\ cont' = "none" /\ goal' = "cleanup"
           /\ probe' = [NoProbe EXCEPT !.live = live]
  <2>1. probe' \in Probe
    BY <1>2, NoProbeTyped, ProbeUpdates
  <2> QED BY <1>2, <2>1 DEF CleanupOrKeep, Follows, KeepsReferences, PCs, Conts, Goals
<1> QED BY <1>1, <1>2 DEF CleanupOrKeep

LEMMA FinalizeOnTyped ==
  ASSUME Inductive, NEW live \in [Legs -> Nat], FinalizeOn(live)
  PROVE  Follows(e) /\ HandoffTyped'
<1> DEFINE u == [e EXCEPT !.uncertain = TRUE]
<1>1. KeepsReferences(u, e) /\ u \in Entry
  BY TypeFacts, FlagsKeepReferences DEF KeepsReferences
<1>2. \/ Remove(e, "none") /\ UNCHANGED <<open, residual>>
      \/ CleanupOrKeep(e, live) \/ CleanupOrKeep(u, live)
      \/ HandOff(Balanced(e), Excess(e))
      \/ Leave(u) /\ UNCHANGED handoff
  BY Zenon DEF FinalizeOn
<1> HIDE DEF u
<1>3. HandoffTyped
  BY DEF Inductive, TypeOK
<1>4. CASE Remove(e, "none") /\ UNCHANGED <<open, residual>>
  BY <1>3, <1>4, TypeFacts, RemoveFollows DEF HandoffTyped
<1>5. CASE CleanupOrKeep(e, live) \/ CleanupOrKeep(u, live)
  <2>1. Follows(e) /\ UNCHANGED handoff
    BY <1>1, <1>5, TypeFacts, CleanupOrKeepFollows, FollowsUpdated
  <2> QED BY <1>3, <2>1 DEF HandoffTyped, handoff
<1>6. CASE HandOff(Balanced(e), Excess(e))
  BY <1>6, ExcessTyped, TypeFacts, RemoveFollows DEF HandOff, HandoffTyped
<1>7. CASE Leave(u) /\ UNCHANGED handoff
  <2>1. Follows(e)
    BY <1>1, <1>7, TypeFacts, LeaveFollows, FollowsUpdated
  <2> QED BY <1>3, <1>7, <2>1 DEF HandoffTyped, handoff
<1> QED BY <1>2, <1>4, <1>5, <1>6, <1>7

LEMMA ReleaseOnTyped ==
  ASSUME Inductive, NEW live, ReleaseOn(live)
  PROVE  Follows(e) /\ HandoffTyped'
<1> DEFINE u == [e EXCEPT !.uncertain = TRUE]
<1>1. KeepsReferences(u, e) /\ u \in Entry
  BY TypeFacts, FlagsKeepReferences DEF KeepsReferences
<1>2. \/ Remove(e, cont) /\ UNCHANGED <<open, residual>>
      \/ Resume(u, cont) /\ UNCHANGED handoff
  BY DEF ReleaseOn
<1> HIDE DEF u
<1>3. HandoffTyped
  BY DEF Inductive, TypeOK
<1>4. CASE Remove(e, cont) /\ UNCHANGED <<open, residual>>
  BY <1>3, <1>4, TypeFacts, RemoveFollows DEF HandoffTyped
<1>5. CASE Resume(u, cont) /\ UNCHANGED handoff
  <2>1. Follows(e)
    BY <1>1, <1>5, TypeFacts, ResumeFollows, FollowsUpdated
  <2> QED BY <1>3, <1>5, <2>1 DEF HandoffTyped, handoff
<1> QED BY <1>2, <1>4, <1>5

LEMMA ShortPositionTyped == ASSUME Inductive, ShortPosition PROVE Inductive'
<1> DEFINE live == [probe.live EXCEPT !["short"] = pos["short"]]
<1>1. live \in [Legs -> Nat]
  BY TypeFacts, ProbeUpdates DEF Legs
<1>2. /\ UNCHANGED venue
      /\ \/ Deferred /\ UNCHANGED handoff
         \/ FinalizeOn(live) \/ ReleaseOn(live) \/ RecheckOn(live) \/ AbandonOn(live)
  BY DEF ShortPosition
<1> HIDE DEF live
<1>3. HandoffTyped
  BY DEF Inductive, TypeOK
<1>4. CASE Deferred /\ UNCHANGED handoff
  BY <1>2, <1>4, TypeFacts, DeferredFollows, EngineOnly
<1>5. CASE AbandonOn(live)
  <2>1. Release(e, "none") \/ Kept(e)
    BY <1>5 DEF AbandonOn
  <2>2. Follows(e) /\ UNCHANGED handoff
    BY <1>5, <2>1, TypeFacts, ReleaseFollows, KeptFollows DEF AbandonOn, Conts
  <2> QED BY <1>2, <2>2, TypeFacts, EngineOnly
<1>6. CASE FinalizeOn(live) \/ ReleaseOn(live) \/ RecheckOn(live)
  <2>1. CASE RecheckOn(live)
    <3>1. ASSUME Leave(e), UNCHANGED handoff PROVE Follows(e) /\ HandoffTyped'
      BY <1>3, <3>1, TypeFacts, LeaveFollows DEF HandoffTyped, handoff
    <3>2. ASSUME Remove(e, "none"), UNCHANGED <<open, residual>>
          PROVE  Follows(e) /\ HandoffTyped'
      BY <1>3, <3>2, TypeFacts, RemoveFollows DEF HandoffTyped
    <3>3. Follows(e) /\ HandoffTyped'
      BY <2>1, <3>1, <3>2 DEF RecheckOn
    <3> QED BY <1>2, <3>3, TypeFacts, EngineStep DEF venue
  <2>2. CASE FinalizeOn(live) \/ ReleaseOn(live)
    BY <1>1, <1>2, <2>2, FinalizeOnTyped, ReleaseOnTyped, TypeFacts, EngineStep DEF venue
  <2> QED BY <1>6, <2>1, <2>2
<1> QED BY <1>2, <1>4, <1>5, <1>6

LEMMA FlattenTyped ==
  ASSUME Inductive, NEW leg \in Legs, NEW flat, Flatten(leg, flat)
  PROVE  pos' \in [Legs -> Nat] /\ UNCHANGED <<orders, hedges>>
<1>1. PICK q \in 0..pos[leg] : pos' = [pos EXCEPT ![leg] = q]
  BY Zenon DEF Flatten
<1>2. q \in Nat
  BY TypeFacts
<1> QED BY <1>1, <1>2, TypeFacts DEF Flatten

\* The legs that are flattened.
LEMMA LegTyped == ASSUME Inductive PROVE e.makerLeg \in Legs /\ Other(e.makerLeg) \in Legs
BY TypeFacts, FieldTypes DEF Other, Legs

\* A step that changes positions and hands over nothing.
LEMMA CleanupStep ==
  ASSUME Inductive, NEW n, Refers(n), Follows(n), UNCHANGED handoff,
         NEW leg \in Legs, NEW flat, Flatten(leg, flat)
  PROVE  Inductive'
<1>1. HandoffTyped'
  BY DEF Inductive, TypeOK, HandoffTyped, handoff
<1> QED BY <1>1, FlattenTyped, EngineStep

LEMMA CleanupLegTyped == ASSUME Inductive, CleanupLeg PROVE Inductive'
<1>1. PICK leg \in Legs, flat \in BOOLEAN :
        /\ Flatten(leg, flat)
        /\ IF flat THEN Await(e, "longOrders", "recheck", "none") ELSE Leave(e)
  BY Zenon DEF CleanupLeg
<1>2. Follows(e)
  BY <1>1, TypeFacts, AwaitFollows, LeaveFollows DEF PCs, Goals, Conts
<1>3. UNCHANGED handoff
  BY DEF CleanupLeg
<1> QED BY <1>1, <1>2, <1>3, TypeFacts, CleanupStep

LEMMA AbortOrderTyped == ASSUME Inductive, AbortOrder PROVE Inductive'
<1>1. /\ UNCHANGED <<venue, handoff>>
      /\ Kept(e) \/ (pc' = "longOrders" /\ UNCHANGED <<e, cont, goal, probe>>)
  BY DEF AbortOrder
<1>2. CASE Kept(e)
  BY <1>1, <1>2, TypeFacts, KeptFollows, EngineOnly
<1>3. CASE pc' = "longOrders" /\ UNCHANGED <<e, cont, goal, probe>>
  BY <1>1, <1>3, TypeFacts, ReadTyped DEF PCs
<1> QED BY <1>1, <1>2, <1>3

LEMMA FlattenFirstTyped ==
  ASSUME Inductive, NEW here, NEW next \in PCs, FlattenFirst(here, next)
  PROVE  Inductive'
<1>1. PICK flat \in BOOLEAN :
        Flatten(e.makerLeg, flat) /\ probe' = [NoProbe EXCEPT !.clean = flat]
  BY Zenon DEF FlattenFirst
<1>2. probe' \in Probe
  BY <1>1, NoProbeTyped, ProbeUpdates
<1>3. Follows(e) /\ UNCHANGED handoff
  BY <1>2, TypeFacts DEF FlattenFirst, Follows, KeepsReferences, handoff
<1> QED BY <1>1, <1>3, TypeFacts, LegTyped, CleanupStep

LEMMA FlattenHedgeTyped == ASSUME Inductive, FlattenHedge PROVE Inductive'
<1>1. PICK flat \in BOOLEAN :
        /\ Flatten(Other(e.makerLeg), flat)
        /\ Release(e, cont) \/ Await(e, "stopMaker", "abort", cont)
  BY Zenon DEF FlattenHedge
<1>2. Follows(e)
  BY <1>1, TypeFacts, ReleaseFollows, AwaitFollows DEF PCs, Goals
<1> QED BY <1>1, <1>2, TypeFacts, LegTyped, CleanupStep DEF FlattenHedge

LEMMA StopHedgeTyped == ASSUME Inductive, StopHedge PROVE Inductive'
<1>1. PICK flat \in BOOLEAN :
        Flatten(Other(e.makerLeg), flat) /\ (Release(e, cont) \/ Kept(e))
  BY Zenon DEF StopHedge
<1>2. Follows(e)
  BY <1>1, TypeFacts, ReleaseFollows, KeptFollows
<1> QED BY <1>1, <1>2, TypeFacts, LegTyped, CleanupStep DEF StopHedge

-----------------------------------------------------------------------------
(* The theorem. *)

LEMMA InitTyped == ASSUME Init PROVE Inductive
<1>1. PICK leg \in Legs :
        /\ owned = TRUE /\ e = InitEntry(leg)
        /\ pc = "idle" /\ cont = "none" /\ goal = "none" /\ probe = NoProbe
        /\ open = 0 /\ residual = Nothing
        /\ orders = <<FirstOrder(leg)>>
        /\ hedges = <<>> /\ pos = Nothing
  BY DEF Init
<1>2. e \in Entry /\ e.order = 1 /\ e.named = 1 /\ e.hedgeId = 0
  BY <1>1, QuantityAssumption DEF InitEntry, Entry
<1>3. Nothing \in [Legs -> Nat]
  BY DEF Nothing
<1>4. FirstOrder(leg) \in Order
  BY QuantityAssumption DEF FirstOrder, Order, ClientId
<1>5. orders \in Seq(Order) /\ DOMAIN orders = 1..1 /\ hedges \in Seq(Nat) /\ Len(hedges) = 0
  BY <1>1, <1>4
<1>6. VenueTyped
  BY <1>1, <1>2, <1>3, <1>5 DEF VenueTyped
<1>7. ControlTyped /\ HandoffTyped /\ CallsFit
  BY <1>1, <1>2, <1>3, NoProbeTyped DEF ControlTyped, HandoffTyped, CallsFit
<1> QED BY <1>6, <1>7 DEF Inductive, TypeOK

LEMMA MaintenanceTyped == ASSUME Inductive, Maintenance PROVE Inductive'
BY StartTyped, ProgressAnsweredTyped, CancelProgressAnsweredTyped, HedgeAnsweredTyped,
   HedgeRefusedForGoodTyped, HedgeCheckedTyped, ZeroFillCycleTyped, ZeroFillRetryTyped,
   ZeroFillOverTyped, RemainderOrFinalizeTyped, HedgeRemainderTyped, ResubmittedTyped
   DEF Maintenance

LEMMA ReconciliationTyped == ASSUME Inductive, Reconciliation PROVE Inductive'
<1>1. ASSUME LongFill \/ ShortFill PROVE Inductive'
  <2>1. "long" \in Legs /\ "short" \in Legs /\ "longLive" \in PCs /\ "shortLive" \in PCs
    BY DEF Legs, PCs
  <2> QED BY <1>1, <2>1, FillReadTyped DEF LongFill, ShortFill
<1> QED BY <1>1, ReconcileTyped, UnresolvedAnsweredTyped, LongLiveTyped, ShortLiveTyped
        DEF Reconciliation

LEMMA SettlementTyped == ASSUME Inductive, Settlement PROVE Inductive'
<1>1. ASSUME LongOrders \/ ShortOrders PROVE Inductive'
  <2>1. "shortOrders" \in PCs
    BY DEF PCs
  <2> QED BY <1>1, <2>1, NextAfterOrdersTyped, OrdersAnsweredTyped DEF LongOrders, ShortOrders
<1>2. ASSUME FlattenMaker \/ StopMaker PROVE Inductive'
  <2>1. "flattenHedge" \in PCs /\ "stopHedge" \in PCs
    BY DEF PCs
  <2> QED BY <1>2, <2>1, FlattenFirstTyped DEF FlattenMaker, StopMaker
<1> QED BY <1>1, <1>2, MakerDetailsTyped, HedgeDetailsTyped, LongPositionTyped,
           ShortPositionTyped, CleanupLegTyped, AbortOrderTyped, FlattenHedgeTyped, StopHedgeTyped
        DEF Settlement

LEMMA NextTyped == ASSUME Inductive, [Next]_vars PROVE Inductive'
<1>1. CASE Maintenance \/ Reconciliation \/ Settlement
  BY <1>1, MaintenanceTyped, ReconciliationTyped, SettlementTyped
<1>2. CASE Venues
  BY <1>2, VenueSteps DEF Venues
<1>3. CASE UNCHANGED vars
  BY <1>3 DEF vars, Inductive, TypeOK, ControlTyped, HandoffTyped, VenueTyped, CallsFit
<1>4. CASE Repricing
  BY <1>4, RepriceMakerTyped, CancelAnsweredTyped, ReplacementAnsweredTyped DEF Repricing
<1> QED BY <1>1, <1>2, <1>3, <1>4 DEF Next, Engine

\* Whatever the target, the hedge minimum, the budgets and the bounds: no
\* quantity of a pending entry ever becomes negative - not the remainder slices
\* that hedges, reconciled positions and reconciled fills consume - and the
\* orders it names were sent.
THEOREM EntryTypeCorrect == Spec => []TypeOK
<1>1. Init => Inductive
  BY InitTyped
<1>2. Inductive /\ [Next]_vars => Inductive'
  BY NextTyped
<1>3. Inductive => TypeOK
  BY DEF Inductive
<1> QED BY <1>1, <1>2, <1>3, PTL DEF Spec

-----------------------------------------------------------------------------
(***************************************************************************)
(* Only the order the entry polls rests, of those it knows to have been    *)
(* accepted, where the maker-event lane is off.                            *)
(*                                                                         *)
(* RestingIsPolled alone is not inductive: a submission is made long after *)
(* the entry saw its order end, and reports of that end are taken over     *)
(* from three places.  What every one of them must leave is that an entry  *)
(* which takes its order for ended is right about it.                      *)
(***************************************************************************)

\* An order that ends is what a submission waits for.
Submitting == {"terminal", "resubmit"}
\* The calls of the maker-event lane.
Laning == {"laneCancel", "laneSubmit"}

DoneIsEnded == e.done => ~orders[e.order].live
OneOrder ==
  /\ e.named = e.order
  /\ RestingIsPolled
  /\ DoneIsEnded
  /\ pc \in Submitting => e.done
  /\ pc \notin Laning
  /\ probe.ended => ~orders[e.order].live

\* m says of the order what n says of it.
Twin(m, n) == m.order = n.order /\ m.named = n.named /\ m.done = n.done

\* n is right about the order.
Honest(n) ==
  /\ n.order = e.order /\ n.named = e.named
  /\ n.done => ~orders[e.order].live

\* The pass goes on with what n says of the order.
Passes(n) ==
  /\ Twin(e', n) /\ (pc' \in Submitting => n.done) /\ pc' \notin Laning
  /\ probe'.ended => probe.ended

LEMMA TwinPasses ==
  ASSUME NEW m, NEW n, Twin(m, n), Passes(m)
  PROVE  Passes(n)
BY DEF Twin, Passes

LEMMA TwinHonest ==
  ASSUME NEW m, NEW n, Twin(m, n), Honest(n)
  PROVE  Honest(m)
BY DEF Twin, Honest

LEMMA FlagsTwin ==
  ASSUME NEW n \in Entry, NEW v
  PROVE  /\ Twin([n EXCEPT !.cancel = v], n)
         /\ Twin([n EXCEPT !.inflight = v], n)
         /\ Twin([n EXCEPT !.uncertain = v], n)
         /\ Twin([n EXCEPT !.repair = v], n)
         /\ Twin([n EXCEPT !.tried = v], n)
         /\ Twin([n EXCEPT !.phase = v], n)
BY DEF Twin, Entry

\* The step of a pass that sends no maker order.
LEMMA PassKeepsOne ==
  ASSUME OneOrder, orders' = orders, NEW n, Honest(n), Passes(n)
  PROVE  OneOrder'
BY DEF OneOrder, Honest, Passes, Twin, RestingIsPolled, DoneIsEnded

LEMMA HonestEntry == ASSUME OneOrder PROVE Honest(e)
BY DEF OneOrder, Honest, DoneIsEnded

-----------------------------------------------------------------------------
(* Where a pass goes next. *)

LEMMA LeavePasses == ASSUME NEW n, Leave(n) PROVE Passes(n)
BY DEF Leave, Passes, Twin, NoProbe, Submitting, Laning

LEMMA AwaitPasses ==
  ASSUME NEW n, NEW p, NEW g, NEW k, Await(n, p, g, k),
         p \in Submitting => n.done, p \notin Laning
  PROVE  Passes(n)
BY DEF Await, Passes, Twin, NoProbe

LEMMA FinalizePasses == ASSUME NEW n, Finalize(n) PROVE Passes(n)
BY AwaitPasses DEF Finalize, Submitting, Laning

LEMMA GoOnPasses == ASSUME NEW n \in Entry, GoOn(n) PROVE Passes(n)
<1> DEFINE m == [n EXCEPT !.cancel = TRUE]
<1>1. Twin(m, n)
  BY FlagsTwin
<1> HIDE DEF m
<1>2. \/ Leave(n) \/ Leave(m)
      \/ n.done /\ Await(n, "terminal", "none", "none")
      \/ Await(n, "cancelProgress", "none", "none")
  BY DEF GoOn, m
<1> QED BY <1>1, <1>2, LeavePasses, AwaitPasses, TwinPasses DEF Submitting, Laning

LEMMA ResumePasses == ASSUME NEW n \in Entry, NEW k, Resume(n, k) PROVE Passes(n)
BY GoOnPasses, LeavePasses DEF Resume

LEMMA AbortPasses == ASSUME NEW n \in Entry, NEW k, Abort(n, k) PROVE Passes(n)
<1> DEFINE m == [n EXCEPT !.cancel = TRUE]
<1>1. Twin(m, n)
  BY FlagsTwin
<1> HIDE DEF m
<1>2. \/ Await(n, "longOrders", "abort", k) \/ Await(m, "abortOrder", "abort", k)
      \/ Resume(n, k)
  BY DEF Abort, m
<1>3. CASE Await(n, "longOrders", "abort", k)
  BY <1>3, AwaitPasses DEF Submitting, Laning
<1>4. CASE Await(m, "abortOrder", "abort", k)
  <2>1. Passes(m)
    BY <1>4, AwaitPasses DEF Submitting, Laning
  <2> QED BY <1>1, <2>1, TwinPasses
<1> QED BY <1>2, <1>3, <1>4, ResumePasses

LEMMA ReleasePasses == ASSUME NEW n \in Entry, NEW k, Release(n, k) PROVE Passes(n)
BY AwaitPasses, ResumePasses DEF Release, Submitting, Laning

LEMMA ReadLegsPasses == ASSUME NEW n \in Entry, ReadLegs(n) PROVE Passes(n)
<1> DEFINE m == [n EXCEPT !.tried = TRUE]
<1>1. Twin(m, n)
  BY FlagsTwin
<1> HIDE DEF m
<1>2. Await(m, "longFill", "none", "none")
  BY DEF ReadLegs, m
<1> QED BY <1>1, <1>2, AwaitPasses, TwinPasses DEF Submitting, Laning

LEMMA AfterHedgePasses ==
  ASSUME NEW n \in Entry, NEW k, NEW driven, AfterHedge(n, k, driven)
  PROVE  Passes(n)
BY FinalizePasses, ResumePasses DEF AfterHedge

LEMMA DriveHedgePasses ==
  ASSUME NEW n \in Entry, NEW k, DriveHedge(n, k)
  PROVE  Passes(n)
<1>1. AfterHedge(n, k, FALSE) \/ Abort(n, k) \/ Await(n, "hedge", "none", k)
  BY DEF DriveHedge
<1> QED BY <1>1, AfterHedgePasses, AbortPasses, AwaitPasses DEF Submitting, Laning

LEMMA KeptPasses == ASSUME NEW n \in Entry, Kept(n) PROVE Passes(n)
BY ReadLegsPasses, AbortPasses, ResumePasses DEF Kept

LEMMA DeferredPasses == ASSUME e \in Entry, Deferred PROVE Passes(e)
<1> DEFINE m == [e EXCEPT !.uncertain = TRUE]
<1>1. Twin(m, e)
  BY FlagsTwin
<1>2. m \in Entry
  BY FlagUpdates
<1> HIDE DEF m
<1>3. Kept(m)
  BY DEF Deferred, m
<1> QED BY <1>1, <1>2, <1>3, KeptPasses, TwinPasses
-----------------------------------------------------------------------------
(* What the entry is made of says the same of its order. *)

LEMMA HedgeProgressTwin ==
  ASSUME NEW n \in Entry, NEW h, NEW id
  PROVE  Twin(HedgeProgress(n, h, id), n)
<1> DEFINE s == SlicesAfterHedge(n, h)
           a == [n EXCEPT !.hedge = h, !.slices = s, !.hedgeId = id]
           b == [n EXCEPT !.hedgeId = id]
<1>1. Twin(a, n) /\ Twin(b, n)
  <2> HIDE DEF s
  <2> QED BY DEF Twin, Entry
<1>2. HedgeProgress(n, h, id) = a \/ HedgeProgress(n, h, id) = b
  BY Zenon DEF HedgeProgress
<1> HIDE DEF a, b
<1> QED BY <1>1, <1>2

LEMMA HedgeFilledTwin ==
  ASSUME NEW n \in Entry, NEW f \in Nat, NEW id \in Nat
  PROVE  Twin(HedgeFilled(n, f, id), n)
<1> DEFINE h == HedgeProgress(n, n.hedge + f, id)
           p == [h EXCEPT !.inflight = FALSE]
           u == MissingHedge(p) > 0 /\ p.uncertain
           q == [p EXCEPT !.uncertain = u]
<1>1. h \in Entry /\ Twin(h, n)
  <2>1. n.hedge + f \in Nat
    BY FieldTypes
  <2> QED BY <2>1, HedgeProgressTyped, HedgeProgressTwin
<1> HIDE DEF h
<1>2. p \in Entry /\ Twin(p, h)
  BY <1>1, FlagUpdates, FlagsTwin
<1>3. Twin(q, p)
  <2> HIDE DEF p, u
  <2> QED BY <1>2, FlagsTwin
<1>4. HedgeFilled(n, f, id) = q
  BY DEF HedgeFilled, h
<1> HIDE DEF q, p
<1> QED BY <1>1, <1>2, <1>3, <1>4 DEF Twin

\* The answer for the order's progress: what it says of the order is true.
LEMMA ProgressHonest ==
  ASSUME e \in Entry, NEW c \in Nat
  PROVE  Honest(PassiveProgress(e, c, ~orders[e.order].live))
<1> DEFINE t == ~orders[e.order].live
           updated == e.base + Least(c, e.qty)
           owed == e.slices + updated - e.maker
           seen == [e EXCEPT !.done = t]
           raised == [seen EXCEPT !.maker = updated, !.slices = owed]
<1>1. PassiveProgress(e, c, t) = seen \/ PassiveProgress(e, c, t) = raised
  BY Zenon DEF PassiveProgress
<1>2. seen.order = e.order /\ seen.named = e.named /\ seen.done = t
  <2> HIDE DEF t
  <2> QED BY DEF Entry
<1>3. raised.order = e.order /\ raised.named = e.named /\ raised.done = t
  <2> HIDE DEF t, updated, owed
  <2> QED BY DEF Entry
<1> HIDE DEF seen, raised
<1> QED BY <1>1, <1>2, <1>3 DEF Honest

-----------------------------------------------------------------------------
(* Maintenance. *)

LEMMA HedgeAnsweredOne ==
  ASSUME Inductive, OneOrder, HedgeAnswered
  PROVE  OneOrder'
<1> DEFINE id == Len(hedges) + 1
           inflight == [e EXCEPT !.inflight = TRUE]
           unsure == [inflight EXCEPT !.uncertain = TRUE]
           u == [unsure EXCEPT !.hedgeId = id]
<1>1. id \in Nat /\ e \in Entry /\ Honest(e)
  BY TypeFacts, HonestEntry
<1>2. Twin(inflight, e) /\ inflight \in Entry
  BY <1>1, FlagsTwin, FlagUpdates
<1>3. Twin(u, e) /\ u \in Entry
  <2>1. Twin(unsure, inflight) /\ unsure \in Entry
    <3> HIDE DEF inflight
    <3> QED BY <1>2, FlagsTwin, FlagUpdates
  <2>2. Twin(u, unsure) /\ u \in Entry
    <3> HIDE DEF unsure, id
    <3> QED BY <1>1, <2>1, FieldUpdates DEF Twin, Entry
  <2> HIDE DEF u, unsure, inflight
  <2> QED BY <1>2, <2>1, <2>2 DEF Twin
<1>4. \/ \E f \in 1..Releasable(e) :
           Execute(f) /\ AfterHedge(HedgeFilled(e, f, id), cont, TRUE)
      \/ \E f \in 0..Releasable(e) : Execute(f) /\ AfterHedge(u, cont, FALSE)
      \/ \E f \in 0..Releasable(e) : Execute(f) /\ Await(inflight, "hedgeCheck", "none", cont)
      \/ UNCHANGED venue /\ AfterHedge(e, cont, FALSE)
  BY Zenon DEF HedgeAnswered
<1> HIDE DEF inflight, u, id
<1>5. orders' = orders
  BY <1>4 DEF Execute, venue
<1>6. ASSUME NEW f \in 1..Releasable(e), AfterHedge(HedgeFilled(e, f, id), cont, TRUE)
      PROVE  Passes(e)
  <2>1. f \in Nat
    BY <1>1, ReleasableTyped
  <2>2. HedgeFilled(e, f, id) \in Entry /\ Twin(HedgeFilled(e, f, id), e)
    BY <1>1, <2>1, HedgeFilledTyped, HedgeFilledTwin
  <2> QED BY <1>6, <2>2, AfterHedgePasses, TwinPasses
<1>7. Passes(e)
  <2>1. CASE AfterHedge(u, cont, FALSE)
    BY <1>3, <2>1, AfterHedgePasses, TwinPasses
  <2>2. CASE Await(inflight, "hedgeCheck", "none", cont)
    <3>1. Passes(inflight)
      BY <2>2, AwaitPasses DEF Submitting, Laning
    <3> QED BY <1>2, <3>1, TwinPasses
  <2>3. CASE AfterHedge(e, cont, FALSE)
    BY <1>1, <2>3, AfterHedgePasses
  <2> QED BY <1>4, <1>6, <2>1, <2>2, <2>3
<1> QED BY <1>1, <1>5, <1>7, PassKeepsOne

LEMMA HedgeRefusedForGoodOne ==
  ASSUME Inductive, OneOrder, HedgeRefusedForGood
  PROVE  OneOrder'
<1> DEFINE r == [e EXCEPT !.repair = TRUE]
           u == [r EXCEPT !.uncertain = TRUE]
<1>1. e \in Entry /\ Honest(e)
  BY TypeFacts, HonestEntry
<1>2. Twin(r, e) /\ r \in Entry
  BY <1>1, FlagsTwin, FlagUpdates
<1>3. Twin(u, r) /\ u \in Entry
  <2> HIDE DEF r
  <2> QED BY <1>2, FlagsTwin, FlagUpdates
<1>4. (Abort(r, cont) \/ AfterHedge(u, cont, FALSE)) /\ orders' = orders
  BY Zenon DEF HedgeRefusedForGood, venue
<1> HIDE DEF r, u
<1>5. Passes(r)
  BY <1>2, <1>3, <1>4, AbortPasses, AfterHedgePasses, TwinPasses
<1> QED BY <1>1, <1>2, <1>4, <1>5, TwinPasses, PassKeepsOne

LEMMA HedgeCheckedOne ==
  ASSUME Inductive, OneOrder, HedgeChecked
  PROVE  OneOrder'
<1> DEFINE id == Len(hedges)
           f == hedges[id]
           m == HedgeFilled(e, f, id)
<1>1. id \in Nat /\ f \in Nat /\ e \in Entry /\ Honest(e)
  BY TypeFacts, HonestEntry DEF Inductive, CallsFit, HedgeChecked
<1>2. m \in Entry /\ Twin(m, e)
  <2> HIDE DEF id, f
  <2> QED BY <1>1, HedgeFilledTyped, HedgeFilledTwin
<1>3. (AfterHedge(m, cont, TRUE) \/ AfterHedge(e, cont, FALSE)) /\ orders' = orders
  BY DEF HedgeChecked, venue
<1> HIDE DEF m
<1>4. Passes(e)
  BY <1>1, <1>2, <1>3, AfterHedgePasses, TwinPasses
<1> QED BY <1>1, <1>3, <1>4, PassKeepsOne

LEMMA ProgressAnsweredOne ==
  ASSUME Inductive, OneOrder, ProgressAnswered
  PROVE  OneOrder'
<1> DEFINE o == orders[e.order]
           ended == ~o.live
           n == PassiveProgress(e, o.fill, ended)
<1>1. e \in Entry /\ Honest(e) /\ o.fill \in Nat /\ ended \in BOOLEAN
  BY TypeFacts, HonestEntry, OrderUpdates
<1>2. n \in Entry
  <2> HIDE DEF o, ended
  <2> QED BY <1>1, PassiveProgressTyped DEF KeepsReferences
<1>3. Honest(n)
  BY <1>1, ProgressHonest
<1>4. Leave(e) \/ GoOn(e) \/ DriveHedge(n, "progress") \/ GoOn(n)
  BY DEF ProgressAnswered
<1>5. orders' = orders
  BY DEF ProgressAnswered, venue
<1> HIDE DEF n
<1>6. Passes(e) \/ Passes(n)
  BY <1>1, <1>2, <1>4, LeavePasses, GoOnPasses, DriveHedgePasses
<1> QED BY <1>1, <1>3, <1>5, <1>6, PassKeepsOne

LEMMA CancelProgressAnsweredOne ==
  ASSUME Inductive, OneOrder, CancelProgressAnswered
  PROVE  OneOrder'
<1> DEFINE n == [e EXCEPT !.done = TRUE]
<1>1. e \in Entry /\ Honest(e)
  BY TypeFacts, HonestEntry
<1>2. n.order = e.order /\ n.named = e.named
  BY <1>1 DEF Entry
<1>3. orders' = orders
  BY DEF CancelProgressAnswered, venue
<1>4. Leave(e) \/ (~orders[e.order].live /\ Leave(n))
  BY DEF CancelProgressAnswered
<1> HIDE DEF n
<1>5. CASE Leave(e)
  BY <1>1, <1>3, <1>5, LeavePasses, PassKeepsOne
<1>6. CASE ~orders[e.order].live /\ Leave(n)
  <2>1. Honest(n)
    BY <1>2, <1>6 DEF Honest
  <2> QED BY <1>3, <1>6, <2>1, LeavePasses, PassKeepsOne
<1> QED BY <1>4, <1>5, <1>6

LEMMA ZeroFillCycleOne ==
  ASSUME Inductive, OneOrder, ZeroFillCycle
  PROVE  OneOrder'
<1> DEFINE c == e.cycles + 1
           n == [e EXCEPT !.cycles = c, !.retry = TRUE, !.reposts = c, !.attempts = 0]
<1>1. Twin(n, e)
  <2> HIDE DEF c
  <2> QED BY TypeFacts DEF Twin, Entry
<1>2. Leave(n) /\ orders' = orders
  BY Zenon DEF ZeroFillCycle, venue
<1> HIDE DEF n
<1> QED BY <1>1, <1>2, HonestEntry, TwinHonest, LeavePasses, PassKeepsOne

\* Only an entry that knows its order has ended is submitted for.
LEMMA SubmitOne ==
  ASSUME OneOrder, NEW n, Honest(n), n.done, Submit(n), orders' = orders
  PROVE  OneOrder'
<1>1. Leave(n) \/ Await(n, "resubmit", "none", "none")
  BY DEF Submit
<1> QED BY <1>1, LeavePasses, AwaitPasses, PassKeepsOne DEF Laning

LEMMA NextCycleTwin == ASSUME e \in Entry PROVE Twin(NextCycle(e), e)
<1> DEFINE leg == Other(e.makerLeg)
           n == [e EXCEPT !.phase = "low", !.makerLeg = leg,
                          !.cycles = 0, !.reposts = 0, !.attempts = 0, !.uncertain = FALSE]
<1>1. Twin(n, e)
  <2> HIDE DEF leg
  <2> QED BY DEF Twin, Entry
<1>2. NextCycle(e) = n \/ NextCycle(e) = e
  BY Zenon DEF NextCycle
<1> HIDE DEF n
<1> QED BY <1>1, <1>2 DEF Twin

LEMMA ZeroFillRetryOne ==
  ASSUME Inductive, OneOrder, ZeroFillRetry
  PROVE  OneOrder'
<1>1. Honest(e) /\ e \in Entry /\ e.done /\ Twin(NextCycle(e), e)
  BY TypeFacts, HonestEntry, NextCycleTwin DEF ZeroFillRetry, OneOrder, Submitting, Laning
<1>2. orders' = orders
  BY DEF ZeroFillRetry, venue
<1>3. Leave(e) \/ Submit(NextCycle(e))
  BY DEF ZeroFillRetry
<1>4. Honest(NextCycle(e)) /\ NextCycle(e).done
  BY <1>1, TwinHonest DEF Twin
<1> QED BY <1>1, <1>2, <1>3, <1>4, LeavePasses, PassKeepsOne, SubmitOne

LEMMA ZeroFillOverOne ==
  ASSUME Inductive, OneOrder, ZeroFillOver
  PROVE  OneOrder'
<1> DEFINE v == e.uncertain /\ ~Switching
           s == [e EXCEPT !.uncertain = v]
           d == [e EXCEPT !.phase = "dual"]
<1>1. Twin(s, e) /\ Twin(d, e)
  <2> HIDE DEF v
  <2> QED BY TypeFacts, FlagsTwin
<1>2. (Finalize(e) \/ Finalize(s) \/ Finalize(d)) /\ UNCHANGED venue
  BY Zenon DEF ZeroFillOver
<1> HIDE DEF s, d
<1>3. Passes(e) /\ Honest(e)
  BY <1>1, <1>2, HonestEntry, FinalizePasses, TwinPasses
<1> QED BY <1>2, <1>3, PassKeepsOne DEF venue

LEMMA RemainderOrFinalizeOne ==
  ASSUME Inductive, OneOrder, RemainderOrFinalize
  PROVE  OneOrder'
<1>1. Honest(e) /\ e.done
  BY HonestEntry DEF RemainderOrFinalize, OneOrder, Submitting, Laning
<1>2. (Submit(e) \/ Finalize(e)) /\ orders' = orders
  BY DEF RemainderOrFinalize, venue
<1> QED BY <1>1, <1>2, SubmitOne, FinalizePasses, PassKeepsOne

LEMMA HedgeRemainderOne ==
  ASSUME Inductive, OneOrder, HedgeRemainder
  PROVE  OneOrder'
<1> DEFINE n == [e EXCEPT !.repair = TRUE]
<1>1. Twin(n, e) /\ e \in Entry /\ Honest(e)
  BY TypeFacts, FlagsTwin, HonestEntry
<1>2. (Finalize(n) \/ Finalize(e) \/ DriveHedge(e, "none")) /\ UNCHANGED venue
  BY Zenon DEF HedgeRemainder
<1> HIDE DEF n
<1>3. Passes(e)
  BY <1>1, <1>2, FinalizePasses, DriveHedgePasses, TwinPasses
<1> QED BY <1>1, <1>2, <1>3, PassKeepsOne DEF venue

\* An order lands when the entry's own has ended.
LEMMA LandsAlone ==
  ASSUME Inductive, OneOrder, e.done, NEW q, NEW cid, NEW a \in BOOLEAN,
         Land(e.makerLeg, q, cid, a),
         probe' = NoProbe, pc' \notin Submitting \cup Laning,
         IF a THEN e'.order = Len(orders) + 1 /\ e'.named = Len(orders) + 1 /\ ~e'.done
         ELSE e' = e
  PROVE  OneOrder'
<1> DEFINE o == [leg |-> e.makerLeg, qty |-> q, fill |-> 0, live |-> TRUE, cid |-> cid,
                 acked |-> a]
<1>1. o.acked = a
  OBVIOUS
<1>2. orders' = Append(orders, o)
  BY DEF Land
<1> HIDE DEF o
<1>3. orders \in Seq(Order) /\ e.order \in DOMAIN orders
  BY TypeFacts
<1>4. /\ Len(orders') = Len(orders) + 1 /\ DOMAIN orders' = 1 .. Len(orders) + 1
      /\ \A i \in DOMAIN orders : orders'[i] = orders[i]
      /\ orders'[Len(orders) + 1] = o /\ Len(orders) \in Nat /\ DOMAIN orders = 1 .. Len(orders)
  BY <1>2, <1>3
<1>5. \A i \in DOMAIN orders : ~(orders[i].live /\ orders[i].acked)
  BY DEF OneOrder, RestingIsPolled, DoneIsEnded
<1>6. RestingIsPolled'
  BY <1>1, <1>4, <1>5 DEF RestingIsPolled
<1>7. e'.named = e'.order /\ DoneIsEnded'
  BY <1>3, <1>4 DEF OneOrder, DoneIsEnded
<1>8. ~probe'.ended
  BY DEF NoProbe
<1> QED BY <1>6, <1>7, <1>8 DEF OneOrder

LEMMA ResubmittedOne ==
  ASSUME Inductive, OneOrder, Resubmitted
  PROVE  OneOrder'
<1>1. pc = "resubmit" /\ e.done /\ Honest(e)
  BY HonestEntry DEF Resubmitted, OneOrder, Submitting, Laning
<1>2. ASSUME NEW k \in Nat, Land(e.makerLeg, Quantity, Stage(k), TRUE), Leave(Accepted(k))
      PROVE  OneOrder'
  <2>1. probe' = NoProbe /\ pc' \notin Submitting \cup Laning /\ e' = Accepted(k)
    BY <1>2 DEF Leave, Submitting, Laning
  <2>2. /\ Accepted(k).order = Len(orders) + 1 /\ Accepted(k).named = Len(orders) + 1
        /\ ~Accepted(k).done
    BY <1>1, AcceptedTyped
  <2> QED BY <1>1, <1>2, <2>1, <2>2, LandsAlone
<1>3. ASSUME NEW k \in Nat, Land(e.makerLeg, Quantity, Stage(k), FALSE), Leave(e)
      PROVE  OneOrder'
  <2>1. probe' = NoProbe /\ pc' \notin Submitting \cup Laning /\ e' = e
    BY <1>3 DEF Leave, Submitting, Laning
  <2> QED BY <1>1, <1>3, <2>1, LandsAlone
<1>4. CASE (Leave(e) \/ Finalize(e)) /\ orders' = orders
  BY <1>1, <1>4, LeavePasses, FinalizePasses, PassKeepsOne
<1> QED BY <1>2, <1>3, <1>4, Submissions
-----------------------------------------------------------------------------
(* Reconciliation. *)

LEMMA ReconcileOne == ASSUME Inductive, OneOrder, Reconcile PROVE OneOrder'
<1>1. /\ orders' = orders
      /\ \/ Release(e, "none") \/ ReadLegs(e)
         \/ Await(e, "longOrders", "abandon", "none") \/ Await(e, "unresolved", "abandon", "none")
  BY DEF Reconcile, venue
<1>2. Passes(e)
  <2>1. CASE Await(e, "longOrders", "abandon", "none") \/ Await(e, "unresolved", "abandon", "none")
    BY <2>1, AwaitPasses DEF Submitting, Laning
  <2> QED BY <1>1, <2>1, TypeFacts, ReleasePasses, ReadLegsPasses
<1> QED BY <1>1, <1>2, HonestEntry, PassKeepsOne

LEMMA UnresolvedAnsweredOne ==
  ASSUME Inductive, OneOrder, UnresolvedAnswered
  PROVE  OneOrder'
<1>1. /\ orders' = orders
      /\ Kept(e) \/ Leave(e) \/ Finalize(e) \/ Await(e, "longOrders", goal, "none")
  BY DEF UnresolvedAnswered, venue
<1>2. Passes(e)
  <2>1. CASE Await(e, "longOrders", goal, "none")
    BY <2>1, AwaitPasses DEF Submitting, Laning
  <2> QED BY <1>1, <2>1, TypeFacts, KeptPasses, LeavePasses, FinalizePasses
<1> QED BY <1>1, <1>2, HonestEntry, PassKeepsOne

\* A read that notes its answer, of the order's end a true one.
LEMMA ReadOne ==
  ASSUME OneOrder, UNCHANGED <<e, orders>>, pc' \notin Submitting \cup Laning,
         probe'.ended => ~orders[e.order].live
  PROVE  OneOrder'
BY DEF OneOrder, RestingIsPolled, DoneIsEnded

LEMMA FillReadOne ==
  ASSUME Inductive, OneOrder, NEW here, NEW leg, NEW next, next \notin Submitting \cup Laning,
         FillRead(here, leg, next)
  PROVE  OneOrder'
<1> DEFINE n == [e EXCEPT !.uncertain = TRUE]
           h == hedges[HedgeReference]
           hedged == [probe EXCEPT !.fill[leg] = h]
           over(i) == ~orders[i].live /\ orders[i].fill = 0
           noted(i) == [probe EXCEPT !.fill[leg] = orders[i].fill, !.ended = over(i)]
<1>1. orders' = orders
  BY DEF FillRead, venue
<1>2. \/ Leave(e) \/ Leave(n)
      \/ pc' = next /\ UNCHANGED <<e, cont, goal, probe>>
      \/ /\ pc' = next /\ UNCHANGED <<e, cont, goal>>
         /\ \E i \in Identified(e) : probe' = noted(i)
      \/ pc' = next /\ UNCHANGED <<e, cont, goal>> /\ probe' = hedged
  BY Zenon DEF FillRead
<1>3. Twin(n, e) /\ Honest(e)
  BY TypeFacts, FlagsTwin, HonestEntry
<1>4. hedged.ended = probe.ended
  <2> HIDE DEF h
  <2> QED BY TypeFacts DEF Probe
<1>5. ASSUME NEW i \in Identified(e) PROVE noted(i).ended => ~orders[e.order].live
  <2> DEFINE f == orders[i].fill
             o == over(i)
  <2>1. i = e.order
    BY <1>5 DEF Identified, OneOrder
  <2>2. [probe EXCEPT !.fill[leg] = f, !.ended = o].ended = o
    <3> HIDE DEF f, o
    <3> QED BY TypeFacts DEF Probe
  <2> QED BY <2>1, <2>2
<1> HIDE DEF n, hedged, noted
<1>6. CASE Leave(e) \/ Leave(n)
  BY <1>1, <1>3, <1>6, LeavePasses, TwinPasses, PassKeepsOne
<1>7. CASE pc' = next /\ UNCHANGED <<e, cont, goal, probe>>
  BY <1>1, <1>7, ReadOne DEF OneOrder
<1>8. CASE /\ pc' = next /\ UNCHANGED <<e, cont, goal>>
           /\ \E i \in Identified(e) : probe' = noted(i)
  BY <1>1, <1>5, <1>8, ReadOne
<1>9. CASE pc' = next /\ UNCHANGED <<e, cont, goal>> /\ probe' = hedged
  BY <1>1, <1>4, <1>9, ReadOne DEF OneOrder
<1> QED BY <1>2, <1>6, <1>7, <1>8, <1>9

LEMMA LongLiveOne == ASSUME Inductive, OneOrder, LongLive PROVE OneOrder'
<1> DEFINE here == pos["long"]
           p == [probe EXCEPT !.live["long"] = here]
<1>1. orders' = orders
  BY DEF LongLive, venue
<1>2. Leave(e) \/ (probe' = p /\ pc' = "shortFill" /\ UNCHANGED e)
  BY Zenon DEF LongLive
<1>3. p.ended = probe.ended
  <2> HIDE DEF here
  <2> QED BY TypeFacts DEF Probe
<1> HIDE DEF p
<1>4. CASE Leave(e)
  BY <1>1, <1>4, HonestEntry, LeavePasses, PassKeepsOne
<1>5. CASE probe' = p /\ pc' = "shortFill" /\ UNCHANGED e
  BY <1>1, <1>3, <1>5, ReadOne DEF OneOrder, Submitting, Laning
<1> QED BY <1>2, <1>4, <1>5

\* What is taken over of fills and positions says nothing of the order's end.
LEMMA RaisedTwin ==
  ASSUME NEW n \in Entry, NEW leg, NEW q \in Nat, NEW id \in Nat
  PROVE  Raised(n, leg, q, id) \in Entry /\ Twin(Raised(n, leg, q, id), n)
<1> DEFINE m == [n EXCEPT !.maker = q]
<1>1. m \in Entry /\ Twin(m, n)
  BY FieldUpdates DEF Twin, Entry
<1>2. HedgeProgress(n, q, id) \in Entry /\ Twin(HedgeProgress(n, q, id), n)
  BY HedgeProgressTyped, HedgeProgressTwin
<1>3. Raised(n, leg, q, id) \in {n, m, HedgeProgress(n, q, id)}
  BY DEF Raised
<1> HIDE DEF m
<1> QED BY <1>1, <1>2, <1>3 DEF Twin

\* An order is taken for ended when it was found to be.
LEMMA CorrectedHonest ==
  ASSUME Inductive, OneOrder, NEW live
  PROVE  Corrected(e, live) \in Entry /\ Honest(Corrected(e, live))
<1> DEFINE c == [e EXCEPT !.maker = 0, !.slices = 0, !.done = TRUE]
<1>1. Corrected(e, live) \in Entry
  BY CorrectedTyped DEF Refers
<1>2. c.order = e.order /\ c.named = e.named
  BY TypeFacts DEF Entry
<1>3. Corrected(e, live) = e \/ (probe.ended /\ Corrected(e, live) = c)
  BY Zenon DEF Corrected
<1> HIDE DEF c
<1> QED BY <1>1, <1>2, <1>3, HonestEntry DEF Honest, OneOrder

LEMMA TakenHonest ==
  ASSUME Inductive, OneOrder, NEW live \in [Legs -> Nat]
  PROVE  Taken(live) \in Entry /\ Honest(Taken(live))
<1>1. ASSUME NEW n \in Entry, Honest(n), NEW leg \in Legs
      PROVE  FillTaken(n, leg) \in Entry /\ Honest(FillTaken(n, leg))
  <2>1. probe.fill[leg] \in Nat /\ HedgeReference \in Nat
    BY TypeFacts, ProbeUpdates, HedgeFillTyped
  <2> QED BY <1>1, <2>1, RaisedTwin, TwinHonest DEF FillTaken
<1>2. ASSUME NEW n \in Entry, Honest(n), NEW leg \in Legs
      PROVE  PositionTaken(n, leg, live) \in Entry /\ Honest(PositionTaken(n, leg, live))
  <2>1. live[leg] \in Nat /\ n.hedgeId \in Nat
    BY FieldTypes
  <2> QED BY <1>2, <2>1, RaisedTwin, TwinHonest DEF PositionTaken
<1>3. "long" \in Legs /\ "short" \in Legs
  BY DEF Legs
<1> DEFINE a == FillTaken(Corrected(e, live), "long")
           b == FillTaken(a, "short")
           c == PositionTaken(b, "long", live)
<1>4. a \in Entry /\ Honest(a)
  BY <1>1, <1>3, CorrectedHonest
<1>5. b \in Entry /\ Honest(b)
  <2> HIDE DEF a
  <2> QED BY <1>1, <1>3, <1>4
<1>6. c \in Entry /\ Honest(c)
  <2> HIDE DEF b
  <2> QED BY <1>2, <1>3, <1>5
<1>7. Taken(live) = PositionTaken(c, "short", live)
  BY DEF Taken
<1> HIDE DEF c
<1> QED BY <1>2, <1>3, <1>6, <1>7
\* The decision on what was taken over leaves the order as it was taken over.
LEMMA ForceTerminalPasses ==
  ASSUME NEW n \in Entry, ForceTerminal(n)
  PROVE  Passes(n)
<1>1. CASE ForceResting(n)
  <2> DEFINE s == [n EXCEPT !.cancel = TRUE]
             m(x) == [n EXCEPT !.cancel = n.cancel \/ x]
  <2>1. Twin(s, n)
    BY FlagsTwin
  <2>2. ASSUME NEW x \in BOOLEAN PROVE m(x) \in Entry /\ Twin(m(x), n)
    <3> DEFINE v == n.cancel \/ x
    <3>1. v \in BOOLEAN
      BY FieldTypes
    <3> HIDE DEF v
    <3>2. [n EXCEPT !.cancel = v] \in Entry /\ Twin([n EXCEPT !.cancel = v], n)
      BY <3>1, FlagUpdates, FlagsTwin
    <3> QED BY <3>2, Zenon DEF v
  <2>3. Leave(s) \/ \E x \in BOOLEAN : Finalize(m(x)) \/ Abort(m(x), "none")
    BY <1>1, Zenon DEF ForceResting
  <2> HIDE DEF s, m
  <2>4. CASE Leave(s)
    BY <2>1, <2>4, LeavePasses, TwinPasses
  <2>5. ASSUME NEW x \in BOOLEAN, Finalize(m(x)) \/ Abort(m(x), "none")
        PROVE  Passes(n)
    BY <2>2, <2>5, FinalizePasses, AbortPasses, TwinPasses
  <2> QED BY <2>3, <2>4, <2>5
<1>2. CASE ForceCompleted(n)
  <2>1. \/ Await(n, "unresolved", "forced", "none") \/ Await(n, "unresolved", "ceiling", "none")
        \/ Leave(n) \/ Abort(n, "none")
    BY <1>2 DEF ForceCompleted
  <2> QED BY <2>1, AwaitPasses, LeavePasses, AbortPasses DEF Submitting, Laning
<1> QED BY <1>1, <1>2 DEF ForceTerminal

LEMMA ExposedDecisionPasses ==
  ASSUME NEW n \in Entry, ExposedDecision(n)
  PROVE  Passes(n)
<1> DEFINE m == [n EXCEPT !.repair = TRUE]
<1>1. Twin(m, n)
  BY FlagsTwin
<1>2. \/ Abort(n, "none") \/ ForceTerminal(n) \/ Finalize(m)
      \/ DriveHedge(n, "none") \/ Leave(n)
  BY Zenon DEF ExposedDecision
<1> HIDE DEF m
<1> QED BY <1>1, <1>2, FinalizePasses, TwinPasses, AbortPasses, DriveHedgePasses,
           ForceTerminalPasses, LeavePasses

LEMMA CleanupPasses ==
  ASSUME NEW n, NEW live, e' = n, pc' \notin Submitting \cup Laning,
         probe' = [NoProbe EXCEPT !.live = live]
  PROVE  Passes(n)
BY DEF Passes, Twin, NoProbe

LEMMA DecidePasses ==
  ASSUME Inductive, NEW live \in [Legs -> Nat], Decide(live)
  PROVE  Passes(Taken(live))
<1> SUFFICES ASSUME NEW n, n = Taken(live) PROVE Passes(n)
  OBVIOUS
<1> DEFINE cleared == [n EXCEPT !.inflight = FALSE]
<1>1. n \in Entry
  BY TakenTyped DEF Refers
<1>2. Twin(cleared, n) /\ cleared \in Entry
  BY <1>1, FlagsTwin, FlagUpdates
<1>3. InflightCleared(n, live) \subseteq {n, cleared}
  BY DEF InflightCleared
<1>4. \/ e' = n /\ pc' = "longOrders" /\ probe' = [NoProbe EXCEPT !.live = live]
      \/ Finalize(n) \/ ForceTerminal(n) \/ FlatDecision(n)
      \/ \E m \in InflightCleared(n, live) : ExposedDecision(m)
  BY Zenon DEF Decide
<1> HIDE DEF cleared
<1>5. CASE e' = n /\ pc' = "longOrders" /\ probe' = [NoProbe EXCEPT !.live = live]
  BY <1>5, CleanupPasses DEF Submitting, Laning
<1>6. CASE Finalize(n) \/ ForceTerminal(n) \/ FlatDecision(n)
  BY <1>1, <1>6, FinalizePasses, ForceTerminalPasses, ReleasePasses, LeavePasses
  DEF FlatDecision
<1>7. ASSUME NEW m \in {n, cleared}, ExposedDecision(m) PROVE Passes(n)
  <2>1. Passes(m)
    BY <1>1, <1>2, <1>7, ExposedDecisionPasses
  <2> QED BY <1>2, <1>7, <2>1, TwinPasses
<1> QED BY <1>3, <1>4, <1>5, <1>6, <1>7

LEMMA ShortLiveOne == ASSUME Inductive, OneOrder, ShortLive PROVE OneOrder'
<1> DEFINE live == [probe.live EXCEPT !["short"] = pos["short"]]
<1>1. live \in [Legs -> Nat]
  BY TypeFacts, ProbeUpdates DEF Legs
<1>2. (Leave(e) \/ Decide(live)) /\ UNCHANGED venue
  BY DEF ShortLive
<1> HIDE DEF live
<1>3. CASE Leave(e)
  BY <1>2, <1>3, HonestEntry, LeavePasses, PassKeepsOne DEF venue
<1>4. CASE Decide(live)
  BY <1>1, <1>2, <1>4, TakenHonest, DecidePasses, PassKeepsOne DEF venue
<1> QED BY <1>2, <1>3, <1>4

-----------------------------------------------------------------------------
(* Release. *)

LEMMA MakerDetailsOne == ASSUME Inductive, OneOrder, MakerDetails PROVE OneOrder'
<1>1. pc' = "hedgeDetails" /\ orders' = orders /\ Honest(e)
  BY HonestEntry, Zenon DEF MakerDetails, venue
<1>2. CASE e' = e /\ probe' = NoProbe
  BY <1>1, <1>2, ReadOne DEF NoProbe, Submitting, Laning
<1>3. ASSUME NEW i \in Identified(e),
             \/ e' = [e EXCEPT !.maker = orders[i].fill, !.named = i] /\ probe' = NoProbe
             \/ e' = e /\ probe' = [NoProbe EXCEPT !.ended = ~orders[i].live]
      PROVE  OneOrder'
  <2> DEFINE q == orders[i].fill
             n == [e EXCEPT !.maker = q, !.named = i]
             ended == ~orders[i].live
             p == [NoProbe EXCEPT !.ended = ended]
  <2>1. i = e.order /\ i = e.named
    BY DEF Identified, OneOrder
  <2>2. n.order = e.order /\ n.named = i /\ n.done = e.done
    <3> HIDE DEF q
    <3> QED BY TypeFacts DEF Entry
  <2>3. p.ended = ended
    <3> HIDE DEF ended
    <3> QED BY DEF NoProbe
  <2>4. (e' = n /\ probe' = NoProbe) \/ (e' = e /\ probe' = p)
    BY <1>3, Zenon
  <2> HIDE DEF n, p
  <2>5. CASE e' = n /\ probe' = NoProbe
    <3>1. Passes(e)
      BY <1>1, <2>1, <2>2, <2>5 DEF Passes, Twin, NoProbe, Submitting, Laning
    <3> QED BY <1>1, <3>1, PassKeepsOne
  <2>6. CASE e' = e /\ probe' = p
    BY <1>1, <2>1, <2>3, <2>6, ReadOne DEF Submitting, Laning
  <2> QED BY <2>4, <2>5, <2>6
<1> QED BY <1>2, <1>3 DEF MakerDetails

LEMMA HedgeDetailsOne == ASSUME Inductive, OneOrder, HedgeDetails PROVE OneOrder'
<1>1. PICK f \in {0} \cup {hedges[i] : i \in {HedgeReference} \cap DOMAIN hedges} :
        LET n == IF f > 0 THEN [e EXCEPT !.hedge = f, !.hedgeId = HedgeReference] ELSE e
        IN \/ Await(n, "longOrders", "finalize", "none")
           \/ Leave([n EXCEPT !.uncertain = TRUE])
  BY Zenon DEF HedgeDetails
<1> DEFINE id == HedgeReference
           h == [e EXCEPT !.hedge = f]
           m == [h EXCEPT !.hedgeId = id]
           n == IF f > 0 THEN m ELSE e
           u == [n EXCEPT !.uncertain = TRUE]
<1>2. f \in Nat /\ id \in Nat /\ e \in Entry /\ Honest(e)
  BY HedgeFillTyped, TypeFacts, HonestEntry
<1>3. m \in Entry
  <2>1. h \in Entry
    BY <1>2, FieldUpdates
  <2> HIDE DEF h, id
  <2> QED BY <1>2, <2>1, FieldUpdates
<1>4. Twin(m, e)
  <2> HIDE DEF id
  <2> QED BY <1>2 DEF Entry, Twin
<1>5. n \in Entry /\ Twin(n, e)
  <2> HIDE DEF m
  <2> QED BY <1>2, <1>3, <1>4 DEF Twin
<1>6. Await(n, "longOrders", "finalize", "none") \/ Leave(u)
  BY <1>1, Zenon
<1>7. orders' = orders
  BY DEF HedgeDetails, venue
<1> HIDE DEF n
<1>8. Twin(u, n)
  BY <1>5, FlagsTwin
<1> HIDE DEF u
<1>9. Passes(n)
  <2>1. CASE Await(n, "longOrders", "finalize", "none")
    BY <2>1, AwaitPasses DEF Submitting, Laning
  <2>2. CASE Leave(u)
    BY <1>8, <2>2, LeavePasses, TwinPasses
  <2> QED BY <1>6, <2>1, <2>2
<1> QED BY <1>2, <1>5, <1>7, <1>9, TwinHonest, PassKeepsOne
LEMMA OrdersAnsweredOne ==
  ASSUME Inductive, OneOrder, NEW here, NEW leg, NEW next, next \notin Submitting \cup Laning,
         OrdersAnswered(here, leg, next)
  PROVE  OneOrder'
<1>1. /\ orders' = orders
      /\ Deferred \/ Kept(e) \/ (pc' = next /\ UNCHANGED <<e, cont, goal, probe>>)
  BY DEF OrdersAnswered, venue
<1>2. CASE Deferred \/ Kept(e)
  BY <1>1, <1>2, TypeFacts, HonestEntry, DeferredPasses, KeptPasses, PassKeepsOne
<1>3. CASE pc' = next /\ UNCHANGED <<e, cont, goal, probe>>
  BY <1>1, <1>3, ReadOne DEF OneOrder
<1> QED BY <1>1, <1>2, <1>3

LEMMA LongPositionOne == ASSUME Inductive, OneOrder, LongPosition PROVE OneOrder'
<1> DEFINE here == pos["long"]
           p == [probe EXCEPT !.live["long"] = here]
<1>1. orders' = orders
  BY DEF LongPosition, venue
<1>2. Deferred \/ (probe' = p /\ pc' = "shortPosition" /\ UNCHANGED e)
  BY DEF LongPosition
<1>3. p.ended = probe.ended
  <2> HIDE DEF here
  <2> QED BY TypeFacts DEF Probe
<1> HIDE DEF p
<1>4. CASE Deferred
  BY <1>1, <1>4, TypeFacts, HonestEntry, DeferredPasses, PassKeepsOne
<1>5. CASE probe' = p /\ pc' = "shortPosition" /\ UNCHANGED e
  BY <1>1, <1>3, <1>5, ReadOne DEF OneOrder, Submitting, Laning
<1> QED BY <1>2, <1>4, <1>5

LEMMA ShortPositionOne == ASSUME Inductive, OneOrder, ShortPosition PROVE OneOrder'
<1> DEFINE live == [probe.live EXCEPT !["short"] = pos["short"]]
           u == [e EXCEPT !.uncertain = TRUE]
<1>1. orders' = orders /\ e \in Entry /\ Honest(e)
  BY TypeFacts, HonestEntry DEF ShortPosition, venue
<1>2. Twin(u, e) /\ u \in Entry
  BY <1>1, FlagsTwin, FlagUpdates
<1>3. \/ Deferred \/ FinalizeOn(live) \/ ReleaseOn(live) \/ RecheckOn(live) \/ AbandonOn(live)
  BY DEF ShortPosition
<1> HIDE DEF live
<1>4. \/ Deferred \/ Release(e, "none") \/ Kept(e)
      \/ Resume(e, "none") \/ Resume(e, cont) \/ Resume(u, cont)
      \/ CleanupOrKeep(e, live) \/ CleanupOrKeep(u, live)
      \/ Leave(e) \/ Leave(u)
  <2>1. CASE FinalizeOn(live)
    BY <2>1, Zenon DEF FinalizeOn, Remove, HandOff
  <2>2. CASE ReleaseOn(live)
    BY <2>2, Zenon DEF ReleaseOn, Remove
  <2>3. CASE RecheckOn(live) \/ AbandonOn(live)
    BY <2>3, Zenon DEF RecheckOn, AbandonOn, Remove
  <2> QED BY <1>3, <2>1, <2>2, <2>3
<1> HIDE DEF u
<1>5. ASSUME NEW n \in {e, u}, CleanupOrKeep(n, live) PROVE Passes(n)
  <2>1. \/ Leave(n)
        \/ e' = n /\ pc' = "cleanup" /\ probe' = [NoProbe EXCEPT !.live = live]
    BY <1>5 DEF CleanupOrKeep
  <2> QED BY <2>1, LeavePasses, CleanupPasses DEF Submitting, Laning
<1>6. Passes(e)
  <2>1. CASE CleanupOrKeep(e, live) \/ CleanupOrKeep(u, live)
    BY <1>2, <1>5, <2>1, TwinPasses
  <2>2. CASE \/ Deferred \/ Release(e, "none") \/ Kept(e)
             \/ Resume(e, "none") \/ Resume(e, cont) \/ Leave(e)
    BY <1>1, <2>2, DeferredPasses, ReleasePasses, KeptPasses, ResumePasses, LeavePasses
  <2>3. CASE Resume(u, cont) \/ Leave(u)
    BY <1>2, <2>3, ResumePasses, LeavePasses, TwinPasses
  <2> QED BY <1>4, <2>1, <2>2, <2>3
<1> QED BY <1>1, <1>6, PassKeepsOne

LEMMA CleanupLegOne == ASSUME Inductive, OneOrder, CleanupLeg PROVE OneOrder'
<1>1. PICK leg \in Legs, flat \in BOOLEAN :
        /\ Flatten(leg, flat)
        /\ IF flat THEN Await(e, "longOrders", "recheck", "none") ELSE Leave(e)
  BY Zenon DEF CleanupLeg
<1>2. Passes(e)
  BY <1>1, AwaitPasses, LeavePasses DEF Submitting, Laning
<1> QED BY <1>1, <1>2, HonestEntry, PassKeepsOne DEF Flatten

LEMMA AbortOrderOne == ASSUME Inductive, OneOrder, AbortOrder PROVE OneOrder'
<1>1. /\ orders' = orders
      /\ Kept(e) \/ (pc' = "longOrders" /\ UNCHANGED <<e, probe>>)
  BY DEF AbortOrder, venue
<1>2. CASE Kept(e)
  BY <1>1, <1>2, TypeFacts, HonestEntry, KeptPasses, PassKeepsOne
<1>3. CASE pc' = "longOrders" /\ UNCHANGED <<e, probe>>
  BY <1>1, <1>3, ReadOne DEF OneOrder, Submitting, Laning
<1> QED BY <1>1, <1>2, <1>3

LEMMA FlattenFirstOne ==
  ASSUME OneOrder, NEW here, NEW next, next \notin Submitting \cup Laning,
         FlattenFirst(here, next)
  PROVE  OneOrder'
<1>1. PICK flat \in BOOLEAN :
        Flatten(e.makerLeg, flat) /\ probe' = [NoProbe EXCEPT !.clean = flat]
  BY Zenon DEF FlattenFirst
<1>2. ~probe'.ended
  BY <1>1 DEF NoProbe
<1> QED BY <1>1, <1>2, ReadOne DEF FlattenFirst, Flatten

LEMMA FlattenHedgeOne == ASSUME Inductive, OneOrder, FlattenHedge PROVE OneOrder'
<1>1. PICK flat \in BOOLEAN :
        /\ Flatten(Other(e.makerLeg), flat)
        /\ Release(e, cont) \/ Await(e, "stopMaker", "abort", cont)
  BY Zenon DEF FlattenHedge
<1>2. CASE Release(e, cont)
  BY <1>1, <1>2, TypeFacts, HonestEntry, ReleasePasses, PassKeepsOne DEF Flatten
<1>3. CASE Await(e, "stopMaker", "abort", cont)
  <2>1. Passes(e)
    BY <1>3, AwaitPasses DEF Submitting, Laning
  <2> QED BY <1>1, <2>1, HonestEntry, PassKeepsOne DEF Flatten
<1> QED BY <1>1, <1>2, <1>3

LEMMA StopHedgeOne == ASSUME Inductive, OneOrder, StopHedge PROVE OneOrder'
<1>1. PICK flat \in BOOLEAN :
        Flatten(Other(e.makerLeg), flat) /\ (Release(e, cont) \/ Kept(e))
  BY Zenon DEF StopHedge
<1> QED BY <1>1, TypeFacts, HonestEntry, ReleasePasses, KeptPasses, PassKeepsOne DEF Flatten

-----------------------------------------------------------------------------
(* The venues only ever end an order. *)

LEMMA VenueOne ==
  ASSUME Inductive, OneOrder, NEW i, MakerFills(i) \/ MakerEnds(i)
  PROVE  OneOrder'
<1>1. i \in DOMAIN orders /\ orders[i].live /\ orders[i] \in Order /\ orders \in Seq(Order)
  BY TypeFacts DEF MakerFills, MakerEnds
<1>2. UNCHANGED <<e, pc, probe>>
  BY DEF MakerFills, MakerEnds
<1>3. \E o : orders' = [orders EXCEPT ![i] = o] /\ o.acked = orders[i].acked
  <2>1. CASE MakerFills(i)
    <3> DEFINE f == orders[i].fill + 1
               b == f < orders[i].qty
               o == [orders[i] EXCEPT !.fill = f, !.live = b]
    <3>1. orders' = [orders EXCEPT ![i] = o]
      BY <2>1, Zenon DEF MakerFills
    <3>2. o.acked = orders[i].acked
      <4> HIDE DEF f, b
      <4> QED BY <1>1 DEF Order
    <3> HIDE DEF o
    <3> QED BY <1>1, <3>1, <3>2 
  <2>2. CASE MakerEnds(i)
    <3> DEFINE o == [orders[i] EXCEPT !.live = FALSE]
    <3>1. orders' = [orders EXCEPT ![i] = o]
      BY <1>1, <2>2 DEF MakerEnds
    <3>2. o.acked = orders[i].acked
      BY <1>1 DEF Order
    <3> HIDE DEF o
    <3> QED BY <1>1, <3>1, <3>2 DEF OneOrder, RestingIsPolled
  <2> QED BY <2>1, <2>2
<1>4. /\ DOMAIN orders' = DOMAIN orders /\ Len(orders') = Len(orders)
      /\ \A j \in DOMAIN orders : j # i => orders'[j] = orders[j]
      /\ orders'[i].acked = orders[i].acked
  BY <1>1, <1>3
<1>5. e.order = i => ~e.done /\ ~probe.ended
  BY <1>1 DEF OneOrder, DoneIsEnded
<1>6. RestingIsPolled'
  BY <1>1, <1>2, <1>4 DEF OneOrder, RestingIsPolled
<1> QED BY <1>2, <1>4, <1>5, <1>6, TypeFacts DEF OneOrder, DoneIsEnded
-----------------------------------------------------------------------------
(* The theorem. *)

LEMMA InitOne == ASSUME Init PROVE OneOrder
<1>1. PICK leg \in Legs :
        /\ e = InitEntry(leg) /\ pc = "idle" /\ probe = NoProbe
        /\ orders = <<FirstOrder(leg)>>
  BY Zenon DEF Init
<1>2. e.order = 1 /\ e.named = 1 /\ ~e.done
  BY <1>1 DEF InitEntry
<1>3. Len(orders) = 1 /\ DOMAIN orders = {1}
  BY <1>1
<1> QED BY <1>1, <1>2, <1>3 DEF OneOrder, RestingIsPolled, DoneIsEnded, NoProbe, Submitting, Laning

LEMMA NextOne ==
  ASSUME ~LaneEnabled, Inductive, OneOrder, [Next]_vars
  PROVE  OneOrder'
<1>1. CASE Maintenance
  <2>1. CASE Start
    BY <2>1, HonestEntry, AwaitPasses, PassKeepsOne DEF Start, venue, Submitting, Laning
  <2> QED BY <1>1, <2>1, ProgressAnsweredOne, CancelProgressAnsweredOne, HedgeAnsweredOne,
             HedgeRefusedForGoodOne, HedgeCheckedOne, ZeroFillCycleOne, ZeroFillRetryOne,
             ZeroFillOverOne, RemainderOrFinalizeOne, HedgeRemainderOne, ResubmittedOne
          DEF Maintenance
<1>2. CASE Repricing
  BY <1>2 DEF Repricing, RepriceMaker, CancelAnswered, ReplacementAnswered, OneOrder, Laning
<1>3. CASE Reconciliation
  <2>1. CASE LongFill \/ ShortFill
    BY <2>1, FillReadOne DEF LongFill, ShortFill, Submitting, Laning
  <2> QED BY <1>3, <2>1, ReconcileOne, UnresolvedAnsweredOne, LongLiveOne, ShortLiveOne
          DEF Reconciliation
<1>4. CASE Settlement
  <2>1. CASE LongOrders \/ ShortOrders
    <3>1. NextAfterOrders \notin Submitting \cup Laning
      BY DEF NextAfterOrders, Submitting, Laning
    <3> QED BY <2>1, <3>1, OrdersAnsweredOne DEF LongOrders, ShortOrders, Submitting, Laning
  <2>2. CASE FlattenMaker \/ StopMaker
    BY <2>2, FlattenFirstOne DEF FlattenMaker, StopMaker, Submitting, Laning
  <2> QED BY <1>4, <2>1, <2>2, MakerDetailsOne, HedgeDetailsOne, LongPositionOne,
             ShortPositionOne, CleanupLegOne, AbortOrderOne, FlattenHedgeOne, StopHedgeOne
          DEF Settlement
<1>5. CASE Venues
  BY <1>5, VenueOne DEF Venues
<1>6. CASE UNCHANGED vars
  BY <1>6 DEF vars, OneOrder, RestingIsPolled, DoneIsEnded
<1> QED BY <1>1, <1>2, <1>3, <1>4, <1>5, <1>6 DEF Next, Engine

(* RestingIsPolled without the maker-event lane: of the maker orders of an entry
   that the engine knows to have been accepted, only the one it polls and
   cancels rests, whichever other answers are lost and whenever the venues fill
   or end an order.  The lane places orders the entry polls only later, if ever,
   so the assumption is needed. *)
THEOREM PolledOrder ==
  ASSUME ~LaneEnabled
  PROVE  Spec => []RestingIsPolled
<1>1. Init => Inductive /\ OneOrder
  BY InitTyped, InitOne
<1>2. (Inductive /\ OneOrder) /\ [Next]_vars => (Inductive /\ OneOrder)'
  BY NextTyped, NextOne
<1>3. OneOrder => RestingIsPolled
  BY DEF OneOrder
<1> QED BY <1>1, <1>2, <1>3, PTL DEF Spec

-----------------------------------------------------------------------------
(***************************************************************************)
(* Nothing live is left without a successor when a pending entry is let    *)
(* go, with the lane or without.                                           *)
(*                                                                         *)
(* NoOrphanExposure alone is not inductive.  The decision to release looks *)
(* at positions read one after the other, so what was read must still be   *)
(* there (Reads); and a removal in step 2 of a maintenance pass leaves the *)
(* pass running on an entry that is no longer owned, so what that pass may *)
(* still do must be known (StepTwo, Detached).                             *)
(***************************************************************************)

Reading == {"shortOrders", "longPosition", "shortPosition"}
Aborting == {"abortOrder", "longOrders", "shortOrders", "flattenMaker", "flattenHedge",
             "stopMaker", "stopHedge"}
Releasing == {"longOrders"} \cup Reading
Finalizing == {"makerDetails", "hedgeDetails"} \cup Releasing

\* A hedge is missing that no order can be sent for.
Stuck(n) == MissingHedge(n) > 0 /\ (Releasable(n) = 0 \/ n.repair)

\* What waits to be hedged was filled.
SlicesBacked(n) == n.slices > 0 => n.maker > 0

\* A hedge is only sent for something.
HedgeMissing == pc = "hedge" => MissingHedge(e) > 0

\* A pass that will go on after step 2 is at its hedge, or aborts an entry
\* whose hedge is stuck.
StepTwo ==
  cont = "progress" =>
    \/ pc \in {"hedge", "hedgeCheck"}
    \/ goal = "abort" /\ pc \in Aborting /\ Stuck(e)
    \/ goal = "release" /\ pc \in Releasing /\ Stuck(e)

\* What the exchange truth showed so far still holds.
Reads ==
  /\ pc \in Reading => ~LiveOrder("long")
  /\ pc \in {"longPosition", "shortPosition"} => ~LiveOrder("short")
  /\ pc = "shortPosition" => probe.live["long"] = pos["long"]

\* What may still be under way for an entry that was let go.
Gone ==
  /\ \/ pc \in {"idle", "cancelProgress"}
     \/ pc = "terminal" /\ Stuck(e)
     \/ goal = "finalize" /\ pc \in Finalizing
     \/ goal = "abort" /\ pc \in Aborting
  /\ cont = "none"
Detached == ~owned => Gone

Contained ==
  /\ Inductive /\ SlicesBacked(e) /\ HedgeMissing /\ StepTwo /\ Reads /\ Detached
  /\ NoOrphanExposure

-----------------------------------------------------------------------------
(* Entries that agree on what matters here. *)

Alike(m, n) ==
  /\ m \in Entry /\ m.maker = n.maker /\ m.hedge = n.hedge /\ m.slices = n.slices
  /\ n.repair => m.repair

LEMMA AlikeFacts ==
  ASSUME NEW n, NEW m, Alike(m, n)
  PROVE  /\ MissingHedge(m) = MissingHedge(n) /\ Releasable(m) = Releasable(n)
         /\ Stuck(n) => Stuck(m)
         /\ SlicesBacked(n) => SlicesBacked(m)
         /\ m \in Entry
BY DEF Alike, MissingHedge, Releasable, Stuck, SlicesBacked

LEMMA FlagsAlike ==
  ASSUME NEW n \in Entry, NEW v \in BOOLEAN
  PROVE  /\ Alike([n EXCEPT !.done = v], n) /\ Alike([n EXCEPT !.cancel = v], n)
         /\ Alike([n EXCEPT !.inflight = v], n) /\ Alike([n EXCEPT !.uncertain = v], n)
         /\ Alike([n EXCEPT !.repair = TRUE], n) /\ Alike([n EXCEPT !.tried = v], n)
<1>1. /\ [n EXCEPT !.done = v] \in Entry /\ [n EXCEPT !.cancel = v] \in Entry
      /\ [n EXCEPT !.inflight = v] \in Entry /\ [n EXCEPT !.uncertain = v] \in Entry
      /\ [n EXCEPT !.repair = TRUE] \in Entry /\ [n EXCEPT !.tried = v] \in Entry
  BY FlagUpdates
<1> QED BY <1>1 DEF Alike, Entry

\* A stuck hedge is one of fills.
LEMMA StuckHasFill ==
  ASSUME NEW n \in Entry, SlicesBacked(n), MissingHedge(n) > 0
  PROVE  HasAnyFill(n)
BY FieldTypes, QuantityAssumption DEF SlicesBacked, MissingHedge, HasAnyFill, Most, Least

-----------------------------------------------------------------------------
(* Where a pass goes next. *)

\* The step reads nothing on, and what it leaves behind fits the invariant.
Fit ==
  SlicesBacked(e) /\ HedgeMissing /\ StepTwo /\ pc \notin Reading

LEMMA LeaveFits ==
  ASSUME NEW n, SlicesBacked(n), Leave(n)
  PROVE  Fit' /\ Gone'
BY DEF Leave, Fit, Gone, HedgeMissing, StepTwo, SlicesBacked, Reading

LEMMA AwaitFits ==
  ASSUME NEW n, SlicesBacked(n), NEW p, p \notin Reading \cup {"hedge"}, NEW g,
         Await(n, p, g, "none")
  PROVE  Fit'
BY DEF Await, Fit, HedgeMissing, StepTwo, SlicesBacked

LEMMA FinalizeFits ==
  ASSUME NEW n, SlicesBacked(n), Finalize(n)
  PROVE  Fit' /\ Gone'
BY DEF Finalize, Await, Fit, Gone, HedgeMissing, StepTwo, SlicesBacked, Reading, Finalizing

LEMMA AbortingFits ==
  ASSUME NEW n, SlicesBacked(n), NEW p \in Aborting \ Reading, NEW k \in Conts,
         k = "progress" => Stuck(n), Await(n, p, "abort", k)
  PROVE  Fit' /\ (k = "none" => Gone')
<1>1. e' = n /\ pc' = p /\ goal' = "abort" /\ cont' = k
  BY DEF Await
<1>2. p # "hedge"
  BY DEF Aborting
<1>3. Stuck(n) => Stuck(e)'
  BY <1>1 DEF Stuck, MissingHedge, Releasable
<1>4. StepTwo'
  BY <1>1, <1>3 DEF StepTwo
<1>5. SlicesBacked(e)'
  BY <1>1 DEF SlicesBacked
<1>6. k = "none" => Gone'
  BY <1>1 DEF Gone
<1> QED BY <1>1, <1>2, <1>4, <1>5, <1>6 DEF Fit, HedgeMissing

LEMMA GoOnFits ==
  ASSUME NEW n \in Entry, SlicesBacked(n), GoOn(n)
  PROVE  Fit' /\ (Stuck(n) => Gone')
<1> DEFINE cancelled == [n EXCEPT !.cancel = TRUE]
<1>1. SlicesBacked(cancelled)
  BY FlagsAlike, AlikeFacts
<1> HIDE DEF cancelled
<1>2. \/ Leave(n) \/ Leave(cancelled)
      \/ Await(n, "terminal", "none", "none") \/ Await(n, "cancelProgress", "none", "none")
  BY DEF GoOn, cancelled
<1>3. CASE Leave(n) \/ Leave(cancelled)
  BY <1>1, <1>3, LeaveFits
<1>4. CASE Await(n, "terminal", "none", "none")
  <2>1. Fit'
    BY <1>4, AwaitFits DEF Reading
  <2>2. e' = n /\ pc' = "terminal" /\ cont' = "none"
    BY <1>4 DEF Await
  <2>3. Stuck(n) => Stuck(e)'
    BY <2>2 DEF Stuck, MissingHedge, Releasable
  <2> QED BY <2>1, <2>2, <2>3 DEF Gone
<1>5. CASE Await(n, "cancelProgress", "none", "none")
  <2>1. Fit'
    BY <1>5, AwaitFits DEF Reading
  <2> QED BY <1>5, <2>1 DEF Await, Gone
<1> QED BY <1>2, <1>3, <1>4, <1>5

LEMMA ResumeFits ==
  ASSUME NEW n \in Entry, SlicesBacked(n), NEW k, Resume(n, k)
  PROVE  Fit' /\ ((k = "progress" => Stuck(n)) => Gone')
BY GoOnFits, LeaveFits DEF Resume

LEMMA AbortFits ==
  ASSUME NEW n \in Entry, SlicesBacked(n), NEW k \in Conts, k = "progress" => Stuck(n),
         Abort(n, k)
  PROVE  Fit' /\ (k = "none" => Gone')
<1> DEFINE cancelled == [n EXCEPT !.cancel = TRUE]
<1>1. SlicesBacked(cancelled) /\ (Stuck(n) => Stuck(cancelled))
  BY FlagsAlike, AlikeFacts
<1> HIDE DEF cancelled
<1>2. \/ Await(n, "longOrders", "abort", k) \/ Await(cancelled, "abortOrder", "abort", k)
      \/ Resume(n, k)
  BY DEF Abort, cancelled
<1>3. "longOrders" \in Aborting \ Reading /\ "abortOrder" \in Aborting \ Reading
  BY DEF Aborting, Reading
<1>4. CASE Await(n, "longOrders", "abort", k)
  BY <1>3, <1>4, AbortingFits
<1>5. CASE Await(cancelled, "abortOrder", "abort", k)
  BY <1>1, <1>3, <1>5, AbortingFits
<1>6. CASE Resume(n, k)
  BY <1>6, ResumeFits
<1> QED BY <1>2, <1>4, <1>5, <1>6

LEMMA ReleaseFits ==
  ASSUME NEW n \in Entry, SlicesBacked(n), NEW k \in Conts, k = "progress" => Stuck(n),
         Release(n, k)
  PROVE  Fit' /\ (~owned => Gone')
<1>1. CASE owned
  <2>1. e' = n /\ pc' = "longOrders" /\ goal' = "release" /\ cont' = k
    BY <1>1 DEF Release, Await
  <2>2. Stuck(n) => Stuck(e)'
    BY <2>1 DEF Stuck, MissingHedge, Releasable
  <2> QED BY <1>1, <2>1, <2>2 DEF Fit, HedgeMissing, StepTwo, SlicesBacked, Reading, Releasing
<1>2. CASE ~owned
  BY <1>2, ResumeFits DEF Release
<1> QED BY <1>1, <1>2

LEMMA ReadLegsFits ==
  ASSUME NEW n \in Entry, SlicesBacked(n), ReadLegs(n)
  PROVE  Fit'
<1> DEFINE m == [n EXCEPT !.tried = TRUE]
<1>1. SlicesBacked(m)
  BY FlagsAlike, AlikeFacts
<1> HIDE DEF m
<1>2. Await(m, "longFill", "none", "none")
  BY DEF ReadLegs, m
<1> QED BY <1>1, <1>2, AwaitFits DEF Reading

LEMMA AfterHedgeFits ==
  ASSUME NEW n \in Entry, SlicesBacked(n), NEW k, NEW driven, AfterHedge(n, k, driven)
  PROVE  Fit' /\ ((k = "progress" => Stuck(n)) => Gone')
BY FinalizeFits, ResumeFits DEF AfterHedge

LEMMA DriveHedgeFits ==
  ASSUME NEW n \in Entry, SlicesBacked(n), NEW k \in Conts, DriveHedge(n, k)
  PROVE  Fit' /\ (k = "none" /\ Stuck(n) => Gone')
<1>1. \/ AfterHedge(n, k, FALSE)
      \/ MissingHedge(n) # 0 /\ Releasable(n) = 0 /\ Abort(n, k)
      \/ /\ MissingHedge(n) # 0 /\ ~n.repair /\ Releasable(n) > 0
         /\ Await(n, "hedge", "none", k)
  BY DEF DriveHedge
<1>2. CASE AfterHedge(n, k, FALSE)
  BY <1>2, AfterHedgeFits
<1>3. CASE MissingHedge(n) # 0 /\ Releasable(n) = 0 /\ Abort(n, k)
  <2>1. Stuck(n)
    BY <1>3, ReleasableTyped DEF Stuck
  <2> QED BY <1>3, <2>1, AbortFits
<1>4. CASE MissingHedge(n) # 0 /\ ~n.repair /\ Releasable(n) > 0 /\ Await(n, "hedge", "none", k)
  <2>1. ~Stuck(n)
    BY <1>4, ReleasableTyped DEF Stuck
  <2>2. e' = n /\ pc' = "hedge" /\ MissingHedge(n) > 0
    BY <1>4, ReleasableTyped DEF Await
  <2>3. MissingHedge(e)' > 0
    BY <2>2 DEF MissingHedge
  <2> QED BY <2>1, <2>2, <2>3 DEF Fit, HedgeMissing, StepTwo, SlicesBacked, Reading
<1> QED BY <1>1, <1>2, <1>3, <1>4

LEMMA KeptFits ==
  ASSUME NEW n \in Entry, SlicesBacked(n), cont = "progress" => Stuck(n), Kept(n)
  PROVE  Fit' /\ (goal \notin {"abandon", "ceiling"} => Gone')
<1>1. CASE goal = "abandon"
  BY <1>1, ReadLegsFits DEF Kept
<1>2. CASE goal = "ceiling"
  BY <1>2, AbortFits DEF Kept, Conts
<1>3. CASE goal \notin {"abandon", "ceiling"}
  BY <1>3, ResumeFits DEF Kept
<1> QED BY <1>1, <1>2, <1>3

LEMMA DeferredFits ==
  ASSUME e \in Entry, SlicesBacked(e), cont = "progress" => Stuck(e), Deferred
  PROVE  Fit' /\ (goal \notin {"abandon", "ceiling"} => Gone')
<1> DEFINE m == [e EXCEPT !.uncertain = TRUE]
<1>1. m \in Entry /\ SlicesBacked(m) /\ (Stuck(e) => Stuck(m))
  BY FlagsAlike, AlikeFacts
<1> HIDE DEF m
<1>2. Kept(m)
  BY DEF Deferred, m
<1> QED BY <1>1, <1>2, KeptFits

-----------------------------------------------------------------------------
(* What a step has to show. *)

LEMMA Facts ==
  ASSUME Contained
  PROVE  /\ Inductive /\ SlicesBacked(e) /\ e \in Entry /\ cont \in Conts
         /\ cont = "progress" =>
              \/ pc \in {"hedge", "hedgeCheck"}
              \/ goal = "abort" /\ pc \in Aborting /\ Stuck(e)
              \/ goal = "release" /\ pc \in Releasing /\ Stuck(e)
         /\ ~owned => Gone
         /\ ~owned /\ pc # "idle" /\ pc # "cancelProgress" =>
              \/ pc = "terminal" /\ HasAnyFill(e) /\ Stuck(e)
              \/ goal = "finalize" /\ pc \in Finalizing
              \/ goal = "abort" /\ pc \in Aborting
         /\ ~owned => cont = "none"
<1>1. Inductive /\ SlicesBacked(e) /\ e \in Entry /\ cont \in Conts /\ StepTwo /\ Detached
  BY TypeFacts DEF Contained
<1>2. Stuck(e) => HasAnyFill(e)
  BY <1>1, StuckHasFill DEF Stuck
<1> QED BY <1>1, <1>2 DEF StepTwo, Detached, Gone

\* The engine goes on, and no leg gets longer.
LEMMA EngineKeeps ==
  ASSUME Contained, Inductive', Fit', ~owned => Gone', UNCHANGED <<handoff, orders>>,
         \A leg \in Legs : pos'[leg] <= pos[leg]
  PROVE  Contained'
<1>1. Reads' /\ SlicesBacked(e)' /\ HedgeMissing' /\ StepTwo'
  BY DEF Fit, Reads, Reading
<1>2. Detached'
  BY DEF Detached, handoff
<1>3. NoOrphanExposure'
  <2>1. pos \in [Legs -> Nat] /\ pos' \in [Legs -> Nat] /\ open \in Nat /\ residual \in [Legs -> Nat]
    BY TypeFacts DEF Contained, Inductive, TypeOK, VenueTyped
  <2>2. owned' = owned /\ open' = open /\ residual' = residual /\ orders' = orders
    BY DEF handoff
  <2>3. ASSUME ~owned PROVE \A leg \in Legs : pos'[leg] <= open + residual[leg]
    <3>1. \A leg \in Legs : pos[leg] <= open + residual[leg]
      BY <2>3 DEF Contained, NoOrphanExposure
    <3> QED BY <2>1, <3>1
  <2> QED BY <2>2, <2>3 DEF Contained, NoOrphanExposure
<1> QED BY <1>1, <1>2, <1>3 DEF Contained

LEMMA VenueUntouched ==
  ASSUME Contained, Inductive', Fit', ~owned => Gone', UNCHANGED <<venue, handoff>>
  PROVE  Contained'
<1>1. pos' = pos /\ orders' = orders /\ pos \in [Legs -> Nat]
  BY TypeFacts DEF venue, Contained
<1>2. \A leg \in Legs : pos'[leg] <= pos[leg]
  BY <1>1
<1> QED BY <1>1, <1>2, EngineKeeps

\* An order is sent only for an entry that is owned.
LEMMA SendKeeps ==
  ASSUME Contained, Inductive', Fit', owned, UNCHANGED handoff
  PROVE  Contained'
<1>1. Reads' /\ SlicesBacked(e)' /\ HedgeMissing' /\ StepTwo'
  BY DEF Fit, Reads, Reading
<1>2. owned' = owned
  BY DEF handoff
<1> QED BY <1>1, <1>2 DEF Contained, Detached, NoOrphanExposure

\* The pcs at which an entry is known to be owned.
LEMMA OwnedAt ==
  ASSUME Contained,
         pc \in {"progress", "resubmit", "hedge", "hedgeCheck", "unresolved", "longFill",
                 "longLive", "shortFill", "shortLive", "cleanup", "laneCancel",
                 "laneSubmit"}
  PROVE  owned
BY Facts DEF Gone, Finalizing, Releasing, Reading, Aborting

-----------------------------------------------------------------------------
(* Maintenance. *)

LEMMA StartContained == ASSUME Contained, Inductive', Start PROVE Contained'
BY Facts, AwaitFits, VenueUntouched DEF Start, Reading

LEMMA PassiveProgressBacked ==
  ASSUME NEW n \in Entry, SlicesBacked(n), NEW c \in Nat, NEW t \in BOOLEAN
  PROVE  SlicesBacked(PassiveProgress(n, c, t))
<1> DEFINE updated == n.base + Least(c, n.qty)
           seen == [n EXCEPT !.done = t]
           raised == [seen EXCEPT !.maker = updated, !.slices = n.slices + updated - n.maker]
<1>1. updated \in Nat
  BY FieldTypes DEF Least
<1>2. SlicesBacked(seen)
  BY FlagsAlike, AlikeFacts
<1>3. updated > n.maker => raised.maker > 0
  <2>1. raised.maker = updated
    BY DEF Entry
  <2> QED BY <1>1, <2>1, FieldTypes
<1>4. PassiveProgress(n, c, t) = IF updated > n.maker THEN raised ELSE seen
  BY DEF PassiveProgress
<1> HIDE DEF raised, seen, updated
<1> QED BY <1>2, <1>3, <1>4 DEF SlicesBacked

LEMMA ProgressAnsweredContained ==
  ASSUME Contained, Inductive', ProgressAnswered
  PROVE  Contained'
<1> DEFINE o == orders[e.order]
           ended == ~o.live
           n == PassiveProgress(e, o.fill, ended)
<1>1. UNCHANGED <<venue, handoff>> /\ owned
  BY OwnedAt DEF ProgressAnswered
<1>2. n \in Entry /\ SlicesBacked(n)
  <2>1. o.fill \in Nat /\ ended \in BOOLEAN
    BY TypeFacts, OrderUpdates, Facts
  <2> HIDE DEF o, ended
  <2> QED BY <2>1, Facts, PassiveProgressTyped, PassiveProgressBacked DEF KeepsReferences
<1>3. Leave(e) \/ GoOn(e) \/ DriveHedge(n, "progress") \/ GoOn(n)
  BY DEF ProgressAnswered
<1> HIDE DEF n
<1>4. Fit'
  BY <1>2, <1>3, Facts, LeaveFits, GoOnFits, DriveHedgeFits DEF Conts
<1> QED BY <1>1, <1>4, VenueUntouched

LEMMA CancelProgressAnsweredContained ==
  ASSUME Contained, Inductive', CancelProgressAnswered
  PROVE  Contained'
<1> DEFINE n == [e EXCEPT !.done = TRUE]
<1>1. SlicesBacked(n)
  BY Facts, FlagsAlike, AlikeFacts
<1>2. (Leave(e) \/ Leave(n)) /\ UNCHANGED <<venue, handoff>>
  BY DEF CancelProgressAnswered
<1> HIDE DEF n
<1> QED BY <1>1, <1>2, Facts, LeaveFits, VenueUntouched

LEMMA HedgeProgressBacked ==
  ASSUME NEW n \in Entry, SlicesBacked(n), NEW h \in Nat, NEW id \in Nat
  PROVE  SlicesBacked(HedgeProgress(n, h, id))
<1> DEFINE s == SlicesAfterHedge(n, h)
           m == [n EXCEPT !.hedge = h, !.slices = s, !.hedgeId = id]
           r == [n EXCEPT !.hedgeId = id]
<1>1. m.slices = s /\ m.maker = n.maker /\ r.slices = n.slices /\ r.maker = n.maker
  BY DEF Entry
<1>2. h > n.hedge /\ s > 0 => n.maker > 0
  BY FieldTypes, QuantityAssumption DEF SlicesAfterHedge, SlicesBacked, Most, Least
<1>3. HedgeProgress(n, h, id) = IF h > n.hedge THEN m ELSE r
  BY Zenon DEF HedgeProgress
<1> HIDE DEF m, r, s
<1> QED BY <1>1, <1>2, <1>3 DEF SlicesBacked

LEMMA HedgeFilledBacked ==
  ASSUME NEW n \in Entry, SlicesBacked(n), NEW f \in Nat, NEW id \in Nat
  PROVE  SlicesBacked(HedgeFilled(n, f, id))
<1> DEFINE h == HedgeProgress(n, n.hedge + f, id)
           p == [h EXCEPT !.inflight = FALSE]
           u == MissingHedge(p) > 0 /\ p.uncertain
           q == [p EXCEPT !.uncertain = u]
<1>1. h \in Entry /\ SlicesBacked(h)
  <2>1. n.hedge + f \in Nat
    BY FieldTypes
  <2> QED BY <2>1, HedgeProgressTyped, HedgeProgressBacked
<1>2. p \in Entry /\ SlicesBacked(p)
  <2> HIDE DEF h
  <2> QED BY <1>1, FlagsAlike, AlikeFacts
<1>3. u \in BOOLEAN
  <2> HIDE DEF p
  <2>1. MissingHedge(p) \in Nat /\ p.uncertain \in BOOLEAN
    BY <1>2, ReleasableTyped, FieldTypes
  <2> QED BY <2>1
<1>4. SlicesBacked(q)
  <2> HIDE DEF p, u
  <2> QED BY <1>2, <1>3, FlagsAlike, AlikeFacts
<1>5. HedgeFilled(n, f, id) = q
  BY DEF HedgeFilled
<1> HIDE DEF q
<1> QED BY <1>4, <1>5

LEMMA HedgeAnsweredContained ==
  ASSUME Contained, Inductive', HedgeAnswered
  PROVE  Contained'
<1> DEFINE id == Len(hedges) + 1
           inflight == [e EXCEPT !.inflight = TRUE]
           unsure == [inflight EXCEPT !.uncertain = TRUE]
           u == [unsure EXCEPT !.hedgeId = id]
<1>1. owned /\ UNCHANGED handoff /\ id \in Nat
  BY OwnedAt, TypeFacts, Facts DEF HedgeAnswered
<1>2. inflight \in Entry /\ SlicesBacked(inflight)
  BY Facts, FlagsAlike, AlikeFacts
<1>3. u \in Entry /\ SlicesBacked(u)
  <2>1. unsure \in Entry /\ SlicesBacked(unsure)
    <3> HIDE DEF inflight
    <3> QED BY <1>2, FlagsAlike, AlikeFacts
  <2> HIDE DEF unsure, id
  <2>2. u \in Entry
    BY <1>1, <2>1, FieldUpdates
  <2>3. u.slices = unsure.slices /\ u.maker = unsure.maker
    BY <2>1 DEF Entry
  <2> QED BY <2>1, <2>2, <2>3 DEF SlicesBacked
<1>4. \/ \E f \in 1..Releasable(e) : AfterHedge(HedgeFilled(e, f, id), cont, TRUE)
      \/ AfterHedge(u, cont, FALSE)
      \/ Await(inflight, "hedgeCheck", "none", cont)
      \/ AfterHedge(e, cont, FALSE)
  BY Zenon DEF HedgeAnswered
<1> HIDE DEF inflight, u
<1>5. Fit'
  <2>1. ASSUME NEW f \in 1..Releasable(e), AfterHedge(HedgeFilled(e, f, id), cont, TRUE)
        PROVE  Fit'
    <3>1. f \in Nat
      BY ReleasableTyped, Facts
    <3>2. HedgeFilled(e, f, id) \in Entry /\ SlicesBacked(HedgeFilled(e, f, id))
      BY <1>1, <3>1, Facts, HedgeFilledTyped, HedgeFilledBacked
    <3> QED BY <2>1, <3>2, AfterHedgeFits
  <2>2. CASE AfterHedge(u, cont, FALSE) \/ AfterHedge(e, cont, FALSE)
    BY <1>3, <2>2, Facts, AfterHedgeFits
  <2>3. CASE Await(inflight, "hedgeCheck", "none", cont)
    BY <1>2, <2>3 DEF Await, Fit, HedgeMissing, StepTwo, SlicesBacked, Reading
  <2> QED BY <1>4, <2>1, <2>2, <2>3
<1> QED BY <1>1, <1>5, SendKeeps

LEMMA HedgeRefusedForGoodContained ==
  ASSUME Contained, Inductive', HedgeRefusedForGood
  PROVE  Contained'
<1> DEFINE r == [e EXCEPT !.repair = TRUE]
           u == [r EXCEPT !.uncertain = TRUE]
<1>1. Alike(r, e) /\ r.repair
  <2>1. Alike(r, e)
    BY Facts, FlagsAlike
  <2>2. r.repair = TRUE
    BY Facts DEF Entry
  <2> QED BY <2>1, <2>2
<1>2. r \in Entry /\ SlicesBacked(r) /\ u \in Entry /\ SlicesBacked(u)
  <2>1. r \in Entry /\ SlicesBacked(r)
    BY <1>1, Facts, AlikeFacts
  <2> HIDE DEF r
  <2> QED BY <2>1, FlagsAlike, AlikeFacts
<1>3. Stuck(r)
  BY <1>1, AlikeFacts DEF HedgeRefusedForGood, Contained, HedgeMissing, Stuck
<1>4. Abort(r, cont) \/ AfterHedge(u, cont, FALSE)
  BY Zenon DEF HedgeRefusedForGood
<1> HIDE DEF r, u
<1>5. Fit'
  BY <1>2, <1>3, <1>4, Facts, AbortFits, AfterHedgeFits
<1> QED BY <1>5, OwnedAt, VenueUntouched DEF HedgeRefusedForGood

LEMMA HedgeCheckedContained ==
  ASSUME Contained, Inductive', HedgeChecked
  PROVE  Contained'
<1> DEFINE id == Len(hedges)
           f == hedges[id]
           m == HedgeFilled(e, f, id)
<1>1. id \in Nat /\ f \in Nat
  BY TypeFacts DEF Contained, Inductive, CallsFit, HedgeChecked
<1>2. m \in Entry /\ SlicesBacked(m)
  BY <1>1, Facts, HedgeFilledTyped, HedgeFilledBacked
<1>3. AfterHedge(m, cont, TRUE) \/ AfterHedge(e, cont, FALSE)
  BY DEF HedgeChecked
<1> HIDE DEF m
<1>4. Fit'
  BY <1>2, <1>3, Facts, AfterHedgeFits
<1> QED BY <1>4, OwnedAt, VenueUntouched DEF HedgeChecked

-----------------------------------------------------------------------------
(* A cancelled order that has ended.  An entry let go is stuck here: it has
   fills, and nothing more is sent for it. *)

LEMMA OwnedAtTerminal ==
  ASSUME Contained, pc = "terminal", ~Stuck(e) \/ ~HasAnyFill(e)
  PROVE  owned
BY Facts DEF Finalizing, Releasing, Reading, Aborting

LEMMA ZeroFillCycleContained ==
  ASSUME Contained, Inductive', ZeroFillCycle
  PROVE  Contained'
<1> DEFINE n == [e EXCEPT !.cycles = @ + 1, !.retry = TRUE, !.reposts = e.cycles + 1,
                          !.attempts = 0]
<1>1. n.slices = e.slices /\ n.maker = e.maker
  BY Facts DEF Entry
<1>2. Leave(n) /\ UNCHANGED <<venue, handoff>>
  BY Zenon DEF ZeroFillCycle
<1> HIDE DEF n
<1>3. SlicesBacked(n)
  BY <1>1, Facts DEF SlicesBacked
<1> QED BY <1>2, <1>3, LeaveFits, VenueUntouched

LEMMA SubmitFits ==
  ASSUME NEW n, SlicesBacked(n), Submit(n)
  PROVE  Fit'
BY LeaveFits, AwaitFits DEF Submit, Reading

LEMMA ZeroFillRetryContained ==
  ASSUME Contained, Inductive', ZeroFillRetry
  PROVE  Contained'
<1> DEFINE n == [e EXCEPT !.phase = "low", !.makerLeg = Other(e.makerLeg),
                          !.cycles = 0, !.reposts = 0, !.attempts = 0, !.uncertain = FALSE]
<1>1. n.slices = e.slices /\ n.maker = e.maker
  BY Facts DEF Entry
<1>2. NextCycle(e) = n \/ NextCycle(e) = e
  BY Zenon DEF NextCycle
<1> HIDE DEF n
<1>3. SlicesBacked(NextCycle(e))
  BY <1>1, <1>2, Facts DEF SlicesBacked
<1>4. Fit'
  BY <1>3, Facts, LeaveFits, SubmitFits DEF ZeroFillRetry
<1> QED BY <1>4, OwnedAtTerminal, VenueUntouched DEF ZeroFillRetry

LEMMA ZeroFillOverContained ==
  ASSUME Contained, Inductive', ZeroFillOver
  PROVE  Contained'
<1> DEFINE s == [e EXCEPT !.uncertain = e.uncertain /\ ~Switching]
           d == [e EXCEPT !.phase = "dual"]
<1>1. /\ s.slices = e.slices /\ s.maker = e.maker
      /\ d.slices = e.slices /\ d.maker = e.maker
  BY Facts DEF Entry
<1>2. (Finalize(e) \/ Finalize(s) \/ Finalize(d)) /\ UNCHANGED <<venue, handoff>>
  BY Zenon DEF ZeroFillOver
<1> HIDE DEF s, d
<1>3. SlicesBacked(s) /\ SlicesBacked(d)
  BY <1>1, Facts DEF SlicesBacked
<1> QED BY <1>2, <1>3, Facts, FinalizeFits, VenueUntouched

LEMMA RemainderOrFinalizeContained ==
  ASSUME Contained, Inductive', RemainderOrFinalize
  PROVE  Contained'
<1>1. Fit'
  BY Facts, SubmitFits, FinalizeFits DEF RemainderOrFinalize
<1>2. ~Stuck(e)
  BY DEF RemainderOrFinalize, Stuck
<1> QED BY <1>1, <1>2, OwnedAtTerminal, VenueUntouched DEF RemainderOrFinalize

LEMMA HedgeRemainderContained ==
  ASSUME Contained, Inductive', HedgeRemainder
  PROVE  Contained'
<1> DEFINE n == [e EXCEPT !.repair = TRUE]
<1>1. SlicesBacked(n)
  BY Facts, FlagsAlike, AlikeFacts
<1>2. (Finalize(n) \/ Finalize(e) \/ DriveHedge(e, "none")) /\ UNCHANGED <<venue, handoff>>
  BY Zenon DEF HedgeRemainder
<1> HIDE DEF n
<1>3. Fit' /\ (Stuck(e) => Gone')
  <2>1. CASE Finalize(n) \/ Finalize(e)
    BY <1>1, <2>1, Facts, FinalizeFits
  <2>2. CASE DriveHedge(e, "none")
    BY <2>2, Facts, DriveHedgeFits DEF Conts
  <2> QED BY <1>2, <2>1, <2>2
<1> QED BY <1>2, <1>3, OwnedAtTerminal, VenueUntouched DEF HedgeRemainder

LEMMA AcceptedBacked ==
  ASSUME NEW n \in Entry, SlicesBacked(n), n = e, NEW k \in Nat
  PROVE  SlicesBacked(Accepted(k))
<1> DEFINE c == CycleAccepted(n, Len(orders) + 1, Quantity, k + 1)
           x == [c EXCEPT !.reposts = n.reposts + 1]
           y == [c EXCEPT !.retry = FALSE, !.accepted = n.accepted + 1]
<1>1. x.slices = n.slices /\ x.maker = n.maker /\ y.slices = n.slices /\ y.maker = n.maker
  BY DEF CycleAccepted, Entry
<1>2. Accepted(k) = x \/ Accepted(k) = y
  BY Zenon DEF Accepted
<1> HIDE DEF x, y
<1> QED BY <1>1, <1>2 DEF SlicesBacked

LEMMA ResubmittedContained ==
  ASSUME Contained, Inductive', Resubmitted
  PROVE  Contained'
<1>1. (\E k \in Nat : Leave(Accepted(k))) \/ Leave(e) \/ Finalize(e)
  BY Facts, Submissions
<1>2. Fit'
  BY <1>1, Facts, AcceptedBacked, LeaveFits, FinalizeFits
<1> QED BY <1>2, OwnedAt, SendKeeps DEF Resubmitted

-----------------------------------------------------------------------------
(* Repricing: only of an entry that is owned, too. *)

LEMMA RepriceMakerContained == ASSUME Contained, Inductive', RepriceMaker PROVE Contained'
BY Facts, AwaitFits, VenueUntouched DEF RepriceMaker, Reading

LEMMA CancelAnsweredContained ==
  ASSUME Contained, Inductive', CancelAnswered
  PROVE  Contained'
<1>1. Fit'
  BY Facts, LeaveFits, AwaitFits DEF CancelAnswered, Reading
<1> QED BY <1>1, OwnedAt, VenueUntouched DEF CancelAnswered

LEMMA ReplacementAnsweredContained ==
  ASSUME Contained, Inductive', ReplacementAnswered
  PROVE  Contained'
<1> DEFINE n == [e EXCEPT !.named = Len(orders) + 1]
<1>1. n.slices = e.slices /\ n.maker = e.maker
  BY Facts DEF Entry
<1>2. Leave(n) \/ Leave(e)
  BY DEF ReplacementAnswered
<1> HIDE DEF n
<1>3. Fit'
  BY <1>1, <1>2, Facts, LeaveFits DEF SlicesBacked
<1> QED BY <1>3, OwnedAt, SendKeeps DEF ReplacementAnswered

-----------------------------------------------------------------------------
(* Reconciliation: only of an entry that is owned. *)

LEMMA NotStepTwo ==
  ASSUME Contained,
         pc \in {"idle", "unresolved", "longFill", "longLive", "shortFill", "shortLive",
                 "makerDetails", "hedgeDetails", "cleanup", "terminal"}
  PROVE  cont = "none"
BY Facts DEF Aborting, Releasing, Reading, Conts

LEMMA ReconcileContained ==
  ASSUME Contained, Inductive', Reconcile
  PROVE  Contained'
<1>1. /\ UNCHANGED <<venue, handoff>> /\ owned
      /\ \/ Release(e, "none") \/ ReadLegs(e)
         \/ Await(e, "longOrders", "abandon", "none") \/ Await(e, "unresolved", "abandon", "none")
  BY DEF Reconcile
<1>2. Fit'
  BY <1>1, Facts, ReleaseFits, ReadLegsFits, AwaitFits DEF Reading, Conts
<1> QED BY <1>1, <1>2, VenueUntouched

LEMMA UnresolvedAnsweredContained ==
  ASSUME Contained, Inductive', UnresolvedAnswered
  PROVE  Contained'
<1>1. /\ UNCHANGED <<venue, handoff>> /\ pc = "unresolved"
      /\ Kept(e) \/ Leave(e) \/ Finalize(e) \/ Await(e, "longOrders", goal, "none")
  BY DEF UnresolvedAnswered
<1>2. cont = "none"
  BY <1>1, NotStepTwo
<1>3. Fit'
  BY <1>1, <1>2, Facts, KeptFits, LeaveFits, FinalizeFits, AwaitFits DEF Reading
<1> QED BY <1>1, <1>3, OwnedAt, VenueUntouched

\* Another call of the same attempt.
LEMMA GoesOn ==
  ASSUME Contained, Inductive', cont = "none", owned, NEW next,
         next \notin Reading \cup {"hedge"}, pc' = next,
         UNCHANGED <<e, cont, goal, venue, handoff>>
  PROVE  Contained'
<1>1. Fit'
  BY Facts DEF Fit, HedgeMissing, StepTwo, SlicesBacked
<1> QED BY <1>1, VenueUntouched

LEMMA FillReadContained ==
  ASSUME Contained, Inductive', NEW here \in {"longFill", "shortFill"}, NEW leg,
         NEW next, next \notin Reading \cup {"hedge"}, FillRead(here, leg, next)
  PROVE  Contained'
<1> DEFINE n == [e EXCEPT !.uncertain = TRUE]
<1>1. /\ UNCHANGED <<venue, handoff>> /\ pc = here
      /\ Leave(e) \/ Leave(n) \/ (pc' = next /\ UNCHANGED <<e, cont, goal>>)
  BY DEF FillRead
<1>2. SlicesBacked(n)
  BY Facts, FlagsAlike, AlikeFacts
<1> HIDE DEF n
<1>3. owned /\ cont = "none"
  BY <1>1, OwnedAt, NotStepTwo
<1>4. CASE Leave(e) \/ Leave(n)
  BY <1>1, <1>2, <1>4, Facts, LeaveFits, VenueUntouched
<1>5. CASE pc' = next /\ UNCHANGED <<e, cont, goal>>
  BY <1>1, <1>3, <1>5, GoesOn
<1> QED BY <1>1, <1>4, <1>5

LEMMA LongLiveContained ==
  ASSUME Contained, Inductive', LongLive
  PROVE  Contained'
<1>1. owned /\ cont = "none" /\ UNCHANGED <<venue, handoff>>
  BY OwnedAt, NotStepTwo DEF LongLive
<1>2. CASE Leave(e)
  BY <1>1, <1>2, Facts, LeaveFits, VenueUntouched
<1>3. CASE pc' = "shortFill" /\ UNCHANGED <<e, cont, goal>>
  BY <1>1, <1>3, GoesOn DEF Reading
<1> QED BY <1>2, <1>3 DEF LongLive

LEMMA RaisedBacked ==
  ASSUME NEW n \in Entry, SlicesBacked(n), NEW leg, NEW q \in Nat, NEW id \in Nat
  PROVE  SlicesBacked(Raised(n, leg, q, id))
<1> DEFINE m == [n EXCEPT !.maker = q]
<1>1. m.slices = n.slices /\ m.maker = q
  BY DEF Entry
<1>2. q > n.maker => q > 0
  BY FieldTypes
<1>3. \/ q > n.maker /\ Raised(n, leg, q, id) = m
      \/ Raised(n, leg, q, id) \in {n, HedgeProgress(n, q, id)}
  BY DEF Raised
<1> HIDE DEF m
<1> QED BY <1>1, <1>2, <1>3, HedgeProgressBacked DEF SlicesBacked

LEMMA TakenBacked ==
  ASSUME Contained, NEW live \in [Legs -> Nat]
  PROVE  SlicesBacked(Taken(live))
<1>0. Len(hedges) \in Nat /\ Inductive
  BY TypeFacts, Facts
<1> DEFINE Good(n) == Refers(n) /\ SlicesBacked(n)
<1>1. ASSUME NEW n, Good(n), NEW leg, NEW q \in Nat, NEW id \in 0..Len(hedges)
      PROVE  Good(Raised(n, leg, q, id))
  <2>1. n \in Entry /\ id \in Nat
    BY <1>0, <1>1 DEF Refers
  <2> QED BY <1>0, <1>1, <2>1, RaisedTyped, RaisedBacked
<1>2. Good(Corrected(e, live))
  <2> DEFINE c == [e EXCEPT !.maker = 0, !.slices = 0, !.done = TRUE]
  <2>1. c.slices = 0
    BY Facts DEF Entry
  <2>2. Corrected(e, live) \in {e, c}
    BY Zenon DEF Corrected
  <2> HIDE DEF c
  <2>3. SlicesBacked(Corrected(e, live))
    BY <2>1, <2>2, Facts DEF SlicesBacked
  <2> QED BY <1>0, <2>3, CorrectedTyped
<1> HIDE DEF Good
<1>3. ASSUME NEW n, Good(n), NEW leg \in Legs
      PROVE  Good(FillTaken(n, leg))
  <2>1. probe.fill[leg] \in Nat
    BY <1>0, TypeFacts, ProbeUpdates
  <2> QED BY <1>0, <1>1, <1>3, <2>1, HedgeFillTyped DEF FillTaken
<1>4. ASSUME NEW n, Good(n), NEW leg \in Legs
      PROVE  Good(PositionTaken(n, leg, live))
  <2>1. live[leg] \in Nat /\ n.hedgeId \in 0..Len(hedges)
    BY <1>4 DEF Good, Refers
  <2> QED BY <1>1, <1>4, <2>1 DEF PositionTaken
<1>5. "long" \in Legs /\ "short" \in Legs
  BY DEF Legs
<1> DEFINE a == FillTaken(Corrected(e, live), "long")
           b == FillTaken(a, "short")
           c == PositionTaken(b, "long", live)
<1>6. Good(a)
  BY <1>2, <1>3, <1>5
<1>7. Good(b)
  <2> HIDE DEF a
  <2> QED BY <1>3, <1>5, <1>6
<1>8. Good(c)
  <2> HIDE DEF b
  <2> QED BY <1>4, <1>5, <1>7
<1>9. Taken(live) = PositionTaken(c, "short", live)
  BY DEF Taken
<1> HIDE DEF c
<1>10. Good(Taken(live))
  BY <1>4, <1>5, <1>8, <1>9
<1> QED BY <1>10 DEF Good

LEMMA ForceTerminalFits ==
  ASSUME NEW n \in Entry, SlicesBacked(n), ForceTerminal(n)
  PROVE  Fit'
<1>1. CASE ForceResting(n)
  <2> DEFINE s == [n EXCEPT !.cancel = TRUE]
             m(x) == [n EXCEPT !.cancel = n.cancel \/ x]
  <2>1. SlicesBacked(s)
    BY FlagsAlike, AlikeFacts
  <2>2. ASSUME NEW x \in BOOLEAN PROVE m(x) \in Entry /\ SlicesBacked(m(x))
    <3> DEFINE v == n.cancel \/ x
    <3>1. v \in BOOLEAN
      BY FieldTypes
    <3> HIDE DEF v
    <3>2. Alike([n EXCEPT !.cancel = v], n)
      BY <3>1, FlagsAlike
    <3>3. [n EXCEPT !.cancel = v] \in Entry /\ SlicesBacked([n EXCEPT !.cancel = v])
      BY <3>2, AlikeFacts
    <3> QED BY <3>3, Zenon DEF v
  <2>3. Leave(s) \/ \E x \in BOOLEAN : Finalize(m(x)) \/ Abort(m(x), "none")
    BY <1>1, Zenon DEF ForceResting
  <2> HIDE DEF s, m
  <2>4. CASE Leave(s)
    BY <2>1, <2>4, LeaveFits
  <2>5. ASSUME NEW x \in BOOLEAN, Finalize(m(x)) \/ Abort(m(x), "none")
        PROVE  Fit'
    BY <2>2, <2>5, FinalizeFits, AbortFits DEF Conts
  <2> QED BY <2>3, <2>4, <2>5
<1>2. CASE ForceCompleted(n)
  <2>1. \/ Await(n, "unresolved", "forced", "none") \/ Await(n, "unresolved", "ceiling", "none")
        \/ Leave(n) \/ Abort(n, "none")
    BY <1>2 DEF ForceCompleted
  <2> QED BY <2>1, AwaitFits, LeaveFits, AbortFits DEF Reading, Conts
<1> QED BY <1>1, <1>2 DEF ForceTerminal

LEMMA ExposedDecisionFits ==
  ASSUME NEW n \in Entry, SlicesBacked(n), ExposedDecision(n)
  PROVE  Fit'
<1> DEFINE m == [n EXCEPT !.repair = TRUE]
<1>1. SlicesBacked(m)
  BY FlagsAlike, AlikeFacts
<1>2. \/ Abort(n, "none") \/ ForceTerminal(n) \/ Finalize(m)
      \/ DriveHedge(n, "none") \/ Leave(n)
  BY Zenon DEF ExposedDecision
<1> HIDE DEF m
<1>3. CASE Finalize(m) \/ Leave(n) \/ ForceTerminal(n)
  BY <1>1, <1>3, FinalizeFits, LeaveFits, ForceTerminalFits
<1>4. CASE Abort(n, "none") \/ DriveHedge(n, "none")
  BY <1>4, AbortFits, DriveHedgeFits DEF Conts
<1> QED BY <1>2, <1>3, <1>4

LEMMA DecideFits ==
  ASSUME Contained, NEW live \in [Legs -> Nat], Decide(live)
  PROVE  Fit'
<1> DEFINE n == Taken(live)
           cleared == [n EXCEPT !.inflight = FALSE]
<1>1. n \in Entry /\ SlicesBacked(n)
  BY TakenTyped, TakenBacked, Facts DEF Refers
<1>2. cleared \in Entry /\ SlicesBacked(cleared)
  <2> HIDE DEF n
  <2> QED BY <1>1, FlagsAlike, AlikeFacts
<1>3. InflightCleared(n, live) \subseteq {n, cleared}
  BY DEF InflightCleared
<1>4. \/ e' = n /\ pc' = "longOrders" /\ cont' = "none"
      \/ Finalize(n) \/ ForceTerminal(n) \/ FlatDecision(n)
      \/ \E m \in InflightCleared(n, live) : ExposedDecision(m)
  BY Zenon DEF Decide
<1> HIDE DEF n, cleared
<1>5. CASE e' = n /\ pc' = "longOrders" /\ cont' = "none"
  BY <1>1, <1>5 DEF Fit, HedgeMissing, StepTwo, SlicesBacked, Reading
<1>6. CASE FlatDecision(n)
  BY <1>1, <1>6, FinalizeFits, ReleaseFits, LeaveFits DEF FlatDecision, Conts
<1>7. CASE Finalize(n) \/ ForceTerminal(n)
  BY <1>1, <1>7, FinalizeFits, ForceTerminalFits
<1>8. ASSUME NEW m \in {n, cleared}, ExposedDecision(m) PROVE Fit'
  BY <1>1, <1>2, <1>8, ExposedDecisionFits
<1> QED BY <1>3, <1>4, <1>5, <1>6, <1>7, <1>8

LEMMA ShortLiveContained ==
  ASSUME Contained, Inductive', ShortLive
  PROVE  Contained'
<1> DEFINE live == [probe.live EXCEPT !["short"] = pos["short"]]
<1>1. live \in [Legs -> Nat]
  BY TypeFacts, ProbeUpdates, Facts DEF Legs
<1>2. (Leave(e) \/ Decide(live)) /\ UNCHANGED <<venue, handoff>> /\ owned
  BY OwnedAt DEF ShortLive
<1> HIDE DEF live
<1>3. Fit'
  BY <1>1, <1>2, Facts, LeaveFits, DecideFits
<1> QED BY <1>2, <1>3, VenueUntouched

-----------------------------------------------------------------------------
(* Release: fill details and the exchange truth. *)

LEMMA MakerDetailsContained ==
  ASSUME Contained, Inductive', MakerDetails
  PROVE  Contained'
<1> DEFINE n(q, i) == [e EXCEPT !.maker = q, !.named = i]
<1>1. ASSUME NEW q, NEW i PROVE n(q, i).slices = e.slices /\ n(q, i).maker = q
  BY Facts DEF Entry
<1>2. /\ pc = "makerDetails" /\ pc' = "hedgeDetails"
      /\ UNCHANGED <<venue, handoff, cont, goal>>
      /\ e' = e \/ \E q, i : q > 0 /\ e' = n(q, i)
  BY Zenon DEF MakerDetails
<1> HIDE DEF n
<1>3. SlicesBacked(e')
  BY <1>1, <1>2, Facts DEF SlicesBacked
<1>4. cont = "none" /\ (~owned => goal = "finalize")
  BY <1>2, NotStepTwo, Facts DEF Aborting
<1>5. Fit'
  BY <1>2, <1>3, <1>4 DEF Fit, HedgeMissing, StepTwo, Reading, SlicesBacked
<1>6. ~owned => Gone'
  BY <1>2, <1>4 DEF Gone, Finalizing
<1> QED BY <1>2, <1>5, <1>6, VenueUntouched

LEMMA HedgeDetailsContained ==
  ASSUME Contained, Inductive', HedgeDetails
  PROVE  Contained'
<1> DEFINE m(f) == [e EXCEPT !.hedge = f, !.hedgeId = HedgeReference]
           n(f) == IF f > 0 THEN m(f) ELSE e
           u(f) == [n(f) EXCEPT !.uncertain = TRUE]
<1>1. \E f : Await(n(f), "longOrders", "finalize", "none") \/ Leave(u(f))
  BY Zenon DEF HedgeDetails
<1>2. ASSUME NEW f PROVE SlicesBacked(n(f)) /\ SlicesBacked(u(f))
  <2>1. n(f).slices = e.slices /\ n(f).maker = e.maker
    BY Facts DEF Entry
  <2>2. u(f).slices = e.slices /\ u(f).maker = e.maker
    BY Facts DEF Entry
  <2> QED BY <2>1, <2>2, Facts DEF SlicesBacked
<1> HIDE DEF n, u
<1>3. Fit' /\ Gone'
  <2>1. ASSUME NEW f, Await(n(f), "longOrders", "finalize", "none") PROVE Fit' /\ Gone'
    <3>1. Fit'
      BY <1>2, <2>1, AwaitFits DEF Reading
    <3> QED BY <2>1, <3>1 DEF Await, Gone, Finalizing, Releasing
  <2>2. ASSUME NEW f, Leave(u(f)) PROVE Fit' /\ Gone'
    BY <1>2, <2>2, LeaveFits
  <2> QED BY <1>1, <2>1, <2>2
<1>4. UNCHANGED <<venue, handoff>>
  BY DEF HedgeDetails
<1> QED BY <1>3, <1>4, VenueUntouched

\* A step of a release or an abort that keeps the entry: what an entry that was
\* let go is asked for is neither an abandon nor a ceiling.
LEMMA KeptContained ==
  ASSUME Contained, Inductive', pc \in Finalizing \cup Aborting, Kept(e) \/ Deferred,
         UNCHANGED <<handoff, orders>>, \A leg \in Legs : pos'[leg] <= pos[leg]
  PROVE  Contained'
<1>1. cont = "progress" => Stuck(e)
  BY Facts DEF Finalizing, Aborting, Releasing, Reading
<1>2. ~owned => goal \in {"finalize", "abort"}
  BY Facts DEF Finalizing, Aborting, Releasing, Reading
<1>3. Fit' /\ (goal \notin {"abandon", "ceiling"} => Gone')
  BY <1>1, Facts, KeptFits, DeferredFits
<1> QED BY <1>2, <1>3, EngineKeeps

LEMMA PositionsKept ==
  ASSUME Contained, UNCHANGED venue
  PROVE  \A leg \in Legs : pos'[leg] <= pos[leg]
BY Facts, TypeFacts DEF venue

LEMMA LongOrdersContained ==
  ASSUME Contained, Inductive', LongOrders
  PROVE  Contained'
<1>1. CASE Deferred \/ Kept(e)
  BY <1>1, KeptContained, PositionsKept
     DEF LongOrders, OrdersAnswered, Finalizing, Releasing, venue
<1>2. CASE ~LiveOrder("long") /\ pc' = "shortOrders" /\ UNCHANGED <<e, cont, goal, probe>>
  <2>1. pc = "longOrders" /\ UNCHANGED <<venue, handoff>>
    BY DEF LongOrders, OrdersAnswered
  <2>2. Reads'
    BY <1>2, <2>1 DEF Reads, LiveOrder, venue
  <2>3. StepTwo' /\ HedgeMissing' /\ SlicesBacked(e)'
    <3>1. Stuck(e) => Stuck(e)'
      BY <1>2 DEF Stuck, MissingHedge, Releasable
    <3> QED BY <1>2, <2>1, <3>1, Facts DEF StepTwo, HedgeMissing, SlicesBacked, Aborting, Releasing, Reading
  <2>4. Detached'
    <3>1. ~owned => (goal \in {"finalize", "abort"} /\ cont = "none")
      BY <2>1, Facts
    <3> QED BY <1>2, <2>1, <3>1 DEF Detached, Gone, Finalizing, Releasing, Reading, Aborting, handoff
  <2>5. NoOrphanExposure'
    BY <2>1 DEF Contained, NoOrphanExposure, venue, handoff
  <2> QED BY <2>2, <2>3, <2>4, <2>5 DEF Contained
<1> QED BY <1>1, <1>2 DEF LongOrders, OrdersAnswered

LEMMA ShortOrdersContained ==
  ASSUME Contained, Inductive', ShortOrders
  PROVE  Contained'
<1>1. CASE Deferred \/ Kept(e)
  BY <1>1, KeptContained, PositionsKept
     DEF ShortOrders, OrdersAnswered, Finalizing, Releasing, Reading, venue
<1>2. CASE ~LiveOrder("short") /\ pc' = NextAfterOrders /\ UNCHANGED <<e, cont, goal, probe>>
  <2>1. pc = "shortOrders" /\ UNCHANGED <<venue, handoff>>
    BY DEF ShortOrders, OrdersAnswered
  <2>2. /\ goal = "abort" => pc' = "flattenMaker"
        /\ goal \notin {"abort", "cleanup"} => pc' = "longPosition"
        /\ pc' \in {"flattenMaker", "cleanup", "longPosition"}
    BY <1>2 DEF NextAfterOrders
  <2>3. Reads'
    BY <1>2, <2>1, <2>2 DEF Contained, Reads, LiveOrder, venue, Reading
  <2>4. StepTwo' /\ HedgeMissing' /\ SlicesBacked(e)'
    <3>1. Stuck(e) => Stuck(e)'
      BY <1>2 DEF Stuck, MissingHedge, Releasable
    <3> QED BY <1>2, <2>1, <2>2, <3>1, Facts
            DEF StepTwo, HedgeMissing, SlicesBacked, Aborting, Releasing, Reading
  <2>5. Detached'
    <3>1. ~owned => (goal \in {"finalize", "abort"} /\ cont = "none")
      BY <2>1, Facts
    <3> QED BY <1>2, <2>1, <2>2, <3>1
            DEF Detached, Gone, Finalizing, Releasing, Reading, Aborting, handoff
  <2>6. NoOrphanExposure'
    BY <2>1 DEF Contained, NoOrphanExposure, venue, handoff
  <2> QED BY <2>3, <2>4, <2>5, <2>6 DEF Contained
<1> QED BY <1>1, <1>2 DEF ShortOrders, OrdersAnswered

LEMMA LongPositionContained ==
  ASSUME Contained, Inductive', LongPosition
  PROVE  Contained'
<1>1. CASE Deferred
  BY <1>1, KeptContained, PositionsKept
     DEF LongPosition, Finalizing, Releasing, Reading, venue
<1>2. CASE /\ probe' = [probe EXCEPT !.live["long"] = pos["long"]]
           /\ pc' = "shortPosition" /\ UNCHANGED <<e, cont, goal>>
  <2>1. pc = "longPosition" /\ UNCHANGED <<venue, handoff>>
    BY DEF LongPosition
  <2>2. probe'.live["long"] = pos["long"]
    BY <1>2, TypeFacts, Facts DEF Probe, Legs
  <2>3. Reads'
    BY <1>2, <2>1, <2>2 DEF Contained, Reads, LiveOrder, venue, Reading
  <2>4. StepTwo' /\ HedgeMissing' /\ SlicesBacked(e)'
    <3>1. Stuck(e) => Stuck(e)'
      BY <1>2 DEF Stuck, MissingHedge, Releasable
    <3> QED BY <1>2, <2>1, <3>1, Facts
            DEF StepTwo, HedgeMissing, SlicesBacked, Aborting, Releasing, Reading
  <2>5. Detached'
    <3>1. ~owned => (goal \in {"finalize", "abort"} /\ cont = "none" /\ pc \notin Aborting)
      BY <2>1, Facts DEF Aborting
    <3>2. ~owned => goal = "finalize"
      BY <2>1, <3>1, Facts
    <3> QED BY <1>2, <2>1, <3>1, <3>2
            DEF Detached, Gone, Finalizing, Releasing, Reading, Aborting, handoff
  <2>6. NoOrphanExposure'
    BY <2>1 DEF Contained, NoOrphanExposure, venue, handoff
  <2> QED BY <2>3, <2>4, <2>5, <2>6 DEF Contained
<1> QED BY <1>1, <1>2 DEF LongPosition

-----------------------------------------------------------------------------
(* The decision. *)

\* What has to be shown of a step that hands over or removes: at the end of the
\* reads the positions are what live says, and no order of the entry is live.
LEMMA HandOffKeeps ==
  ASSUME Contained, Inductive', Fit', ~owned' => Gone', UNCHANGED venue,
         ~owned' => /\ ~LiveOrder("long") /\ ~LiveOrder("short")
                    /\ \A leg \in Legs : pos[leg] <= open' + residual'[leg]
  PROVE  Contained'
<1>1. Reads' /\ SlicesBacked(e)' /\ HedgeMissing' /\ StepTwo'
  BY DEF Fit, Reads, Reading
<1>2. orders' = orders /\ pos' = pos
  BY DEF venue
<1>3. ~owned' => \A i \in DOMAIN orders : ~orders[i].live
  <2>1. \A i \in DOMAIN orders : orders[i].leg \in Legs
    BY TypeFacts, Facts, OrderUpdates
  <2> QED BY <2>1 DEF LiveOrder, Legs
<1>4. NoOrphanExposure'
  BY <1>2, <1>3 DEF NoOrphanExposure
<1> QED BY <1>1, <1>4 DEF Contained, Detached

LEMMA LiveIsTrue ==
  ASSUME Contained, pc = "shortPosition"
  PROVE  /\ [probe.live EXCEPT !["short"] = pos["short"]] = pos
         /\ ~LiveOrder("long") /\ ~LiveOrder("short")
<1>1. probe.live["long"] = pos["long"] /\ ~LiveOrder("long") /\ ~LiveOrder("short")
  BY DEF Contained, Reads, Reading
<1>2. probe.live \in [Legs -> Nat] /\ pos \in [Legs -> Nat]
  BY TypeFacts, Facts, ProbeUpdates
<1> QED BY <1>1, <1>2 DEF Legs

LEMMA CleanupOrKeepFits ==
  ASSUME NEW n \in Entry, SlicesBacked(n), NEW live, CleanupOrKeep(n, live)
  PROVE  Fit' /\ (~owned => Gone')
<1>1. CASE Leave(n)
  BY <1>1, LeaveFits
<1>2. CASE OneLeg(live) /\ owned /\ e' = n /\ pc' = "cleanup" /\ cont' = "none"
  BY <1>2 DEF Fit, HedgeMissing, StepTwo, SlicesBacked, Reading
<1> QED BY <1>1, <1>2 DEF CleanupOrKeep

LEMMA FinalizeOnContained ==
  ASSUME Contained, Inductive', pc = "shortPosition", UNCHANGED venue, FinalizeOn(pos)
  PROVE  Contained'
<1> DEFINE u == [e EXCEPT !.uncertain = TRUE]
<1>1. u \in Entry /\ SlicesBacked(u)
  BY Facts, FlagsAlike, AlikeFacts
<1>2. pos \in [Legs -> Nat] /\ open \in Nat /\ residual \in [Legs -> Nat]
  BY TypeFacts, Facts
<1>3. \/ Remove(e, "none") /\ Flat(pos) /\ UNCHANGED <<open, residual>>
      \/ CleanupOrKeep(e, pos) \/ CleanupOrKeep(u, pos)
      \/ HandOff(Balanced(e), Excess(e)) /\ Covers(Balanced(e), Excess(e), pos)
      \/ Leave(u) /\ UNCHANGED handoff
  BY Zenon DEF FinalizeOn
<1> HIDE DEF u
<1>4. CASE Remove(e, "none") /\ Flat(pos) /\ UNCHANGED <<open, residual>>
  <2>1. Fit' /\ Gone'
    BY <1>4, Facts, ResumeFits DEF Remove
  <2>2. \A leg \in Legs : pos[leg] = 0
    BY <1>4 DEF Flat, Nothing
  <2>3. \A leg \in Legs : pos[leg] <= open' + residual'[leg]
    BY <1>2, <1>4, <2>2
  <2> QED BY <2>1, <2>3, LiveIsTrue, HandOffKeeps
<1>5. CASE CleanupOrKeep(e, pos) \/ CleanupOrKeep(u, pos)
  <2>1. Fit' /\ (~owned => Gone')
    BY <1>1, <1>5, Facts, CleanupOrKeepFits
  <2> QED BY <1>5, <2>1, VenueUntouched DEF CleanupOrKeep
<1>6. CASE HandOff(Balanced(e), Excess(e)) /\ Covers(Balanced(e), Excess(e), pos)
  <2>1. Fit' /\ Gone'
    BY <1>6, Facts, ResumeFits DEF HandOff, Remove
  <2>2. \A leg \in Legs : pos[leg] <= open' + residual'[leg]
    <3>1. Balanced(e) \in Nat /\ Excess(e) \in [Legs -> Nat]
      BY ExcessTyped, Facts
    <3>2. \A leg \in Legs : Balanced(e) + Excess(e)[leg] >= pos[leg]
      BY <1>6 DEF Covers
    <3>3. open' = Balanced(e) /\ residual' = Excess(e)
      BY <1>6 DEF HandOff
    <3> HIDE DEF Contained
    <3> QED BY <1>2, <3>1, <3>2, <3>3
  <2> QED BY <2>1, <2>2, LiveIsTrue, HandOffKeeps
<1>7. CASE Leave(u) /\ UNCHANGED handoff
  BY <1>1, <1>7, LeaveFits, VenueUntouched
<1> QED BY <1>3, <1>4, <1>5, <1>6, <1>7

LEMMA ReleaseOnContained ==
  ASSUME Contained, Inductive', pc = "shortPosition", goal = "release", UNCHANGED venue,
         ReleaseOn(pos)
  PROVE  Contained'
<1> DEFINE u == [e EXCEPT !.uncertain = TRUE]
<1>1. u \in Entry /\ SlicesBacked(u) /\ (Stuck(e) => Stuck(u))
  BY Facts, FlagsAlike, AlikeFacts
<1>2. cont = "progress" => Stuck(e)
  BY Facts
<1>3. \/ Remove(e, cont) /\ UNCHANGED <<open, residual>> /\ Covers(open, residual, pos)
      \/ Resume(u, cont) /\ UNCHANGED handoff
  BY DEF ReleaseOn
<1> HIDE DEF u
<1>4. CASE Remove(e, cont) /\ UNCHANGED <<open, residual>> /\ Covers(open, residual, pos)
  <2>1. Fit' /\ Gone'
    BY <1>2, <1>4, Facts, ResumeFits DEF Remove
  <2>2. \A leg \in Legs : pos[leg] <= open' + residual'[leg]
    BY <1>4, TypeFacts, Facts DEF Covers
  <2> QED BY <2>1, <2>2, LiveIsTrue, HandOffKeeps
<1>5. CASE Resume(u, cont) /\ UNCHANGED handoff
  BY <1>1, <1>2, <1>5, ResumeFits, VenueUntouched
<1> QED BY <1>3, <1>4, <1>5

LEMMA RecheckOnContained ==
  ASSUME Contained, Inductive', pc = "shortPosition", UNCHANGED venue, RecheckOn(pos)
  PROVE  Contained'
<1>1. CASE Flat(pos) /\ Remove(e, "none") /\ UNCHANGED <<open, residual>>
  <2>1. Fit' /\ Gone'
    BY <1>1, Facts, ResumeFits DEF Remove
  <2>2. \A leg \in Legs : pos[leg] = 0
    BY <1>1 DEF Flat, Nothing
  <2>3. \A leg \in Legs : pos[leg] <= open' + residual'[leg]
    BY <1>1, <2>2, TypeFacts, Facts
  <2> QED BY <2>1, <2>3, LiveIsTrue, HandOffKeeps
<1>2. CASE Leave(e) /\ UNCHANGED handoff
  BY <1>2, Facts, LeaveFits, VenueUntouched
<1> QED BY <1>1, <1>2 DEF RecheckOn

LEMMA ShortPositionContained ==
  ASSUME Contained, Inductive', ShortPosition
  PROVE  Contained'
<1>1. pc = "shortPosition" /\ UNCHANGED venue
  BY DEF ShortPosition
<1>2. \/ Deferred /\ UNCHANGED handoff
      \/ FinalizeOn(pos)
      \/ goal = "release" /\ ReleaseOn(pos)
      \/ RecheckOn(pos)
      \/ goal \in {"abandon", "ceiling"} /\ AbandonOn(pos)
  BY <1>1, LiveIsTrue DEF ShortPosition
<1>3. CASE Deferred /\ UNCHANGED handoff
  BY <1>1, <1>3, KeptContained, PositionsKept DEF Finalizing, Releasing, Reading, venue
<1>4. CASE FinalizeOn(pos)
  BY <1>1, <1>4, FinalizeOnContained
<1>5. CASE goal = "release" /\ ReleaseOn(pos)
  BY <1>1, <1>5, ReleaseOnContained
<1>6. CASE RecheckOn(pos)
  BY <1>1, <1>6, RecheckOnContained
<1>7. CASE goal \in {"abandon", "ceiling"} /\ AbandonOn(pos)
  <2>1. owned /\ cont = "none"
    BY <1>1, <1>7, Facts DEF Conts
  <2>2. (Release(e, "none") \/ Kept(e)) /\ UNCHANGED handoff
    BY <1>7 DEF AbandonOn
  <2>3. Fit'
    BY <2>1, <2>2, Facts, ReleaseFits, KeptFits DEF Conts
  <2> QED BY <1>1, <2>1, <2>2, <2>3, VenueUntouched
<1> QED BY <1>2, <1>3, <1>4, <1>5, <1>6, <1>7

-----------------------------------------------------------------------------
(* Reduce-only cleanup. *)

\* A cleanup never makes a leg longer.
LEMMA FlattenShortens ==
  ASSUME Contained, NEW leg \in Legs, NEW flat, Flatten(leg, flat)
  PROVE  (\A l \in Legs : pos'[l] <= pos[l]) /\ orders' = orders
<1>1. PICK q \in 0..pos[leg] : pos' = [pos EXCEPT ![leg] = q]
  BY Zenon DEF Flatten
<1>2. pos \in [Legs -> Nat]
  BY TypeFacts, Facts
<1> QED BY <1>1, <1>2 DEF Flatten

LEMMA CleanupLegContained ==
  ASSUME Contained, Inductive', CleanupLeg
  PROVE  Contained'
<1>1. PICK leg \in Legs, flat \in BOOLEAN :
        /\ Flatten(leg, flat)
        /\ IF flat THEN Await(e, "longOrders", "recheck", "none") ELSE Leave(e)
  BY Zenon DEF CleanupLeg
<1>2. Fit'
  BY <1>1, Facts, LeaveFits, AwaitFits DEF Reading
<1>3. UNCHANGED handoff /\ owned
  BY OwnedAt DEF CleanupLeg
<1> QED BY <1>1, <1>2, <1>3, FlattenShortens, EngineKeeps

\* Another call of the same abort.
LEMMA AbortGoesOn ==
  ASSUME Contained, Inductive', pc \in {"abortOrder", "flattenMaker", "stopMaker"},
         NEW next \in Aborting \ Reading, pc' = next,
         UNCHANGED <<handoff, orders, e, cont, goal>>, \A leg \in Legs : pos'[leg] <= pos[leg]
  PROVE  Contained'
<1>1. cont = "progress" => goal = "abort" /\ Stuck(e)
  BY Facts DEF Releasing, Reading
<1>2. ~owned => goal = "abort" /\ cont = "none"
  BY Facts DEF Finalizing, Releasing, Reading
<1>3. Stuck(e) => Stuck(e)'
  BY DEF Stuck, MissingHedge, Releasable
<1>4. Fit'
  BY <1>1, <1>3, Facts DEF Fit, HedgeMissing, StepTwo, SlicesBacked, Aborting
<1>5. ~owned => Gone'
  BY <1>2 DEF Gone
<1> QED BY <1>4, <1>5, EngineKeeps

LEMMA AbortOrderContained ==
  ASSUME Contained, Inductive', AbortOrder
  PROVE  Contained'
<1>1. UNCHANGED <<venue, handoff>> /\ pc = "abortOrder" /\ orders' = orders
  BY DEF AbortOrder, venue
<1>2. CASE Kept(e)
  BY <1>1, <1>2, KeptContained, PositionsKept DEF Aborting
<1>3. CASE pc' = "longOrders" /\ UNCHANGED <<e, cont, goal>>
  BY <1>1, <1>3, AbortGoesOn, PositionsKept DEF Aborting, Reading
<1> QED BY <1>2, <1>3 DEF AbortOrder

LEMMA FlattenFirstContained ==
  ASSUME Contained, Inductive', NEW here \in {"flattenMaker", "stopMaker"},
         NEW next \in Aborting \ Reading, FlattenFirst(here, next)
  PROVE  Contained'
<1>1. PICK flat \in BOOLEAN : Flatten(e.makerLeg, flat)
  BY Zenon DEF FlattenFirst
<1>2. (\A leg \in Legs : pos'[leg] <= pos[leg]) /\ orders' = orders
  BY <1>1, LegTyped, Facts, FlattenShortens
<1> QED BY <1>2, AbortGoesOn DEF FlattenFirst

LEMMA FlattenHedgeContained ==
  ASSUME Contained, Inductive', FlattenHedge
  PROVE  Contained'
<1>1. PICK flat \in BOOLEAN :
        /\ Flatten(Other(e.makerLeg), flat)
        /\ Release(e, cont) \/ Await(e, "stopMaker", "abort", cont)
  BY Zenon DEF FlattenHedge
<1>2. pc = "flattenHedge" /\ UNCHANGED handoff
  BY DEF FlattenHedge
<1>3. cont = "progress" => Stuck(e)
  BY <1>2, Facts
<1>4. ~owned => cont = "none"
  BY Facts
<1>5. "stopMaker" \in Aborting \ Reading
  BY DEF Aborting, Reading
<1>6. Fit' /\ (~owned => Gone')
  BY <1>1, <1>3, <1>4, <1>5, Facts, ReleaseFits, AbortingFits
<1> QED BY <1>1, <1>2, <1>6, LegTyped, Facts, FlattenShortens, EngineKeeps

LEMMA StopHedgeContained ==
  ASSUME Contained, Inductive', StopHedge
  PROVE  Contained'
<1>1. PICK flat \in BOOLEAN :
        Flatten(Other(e.makerLeg), flat) /\ (Release(e, cont) \/ Kept(e))
  BY Zenon DEF StopHedge
<1>2. pc = "stopHedge" /\ UNCHANGED handoff
  BY DEF StopHedge
<1>3. (\A leg \in Legs : pos'[leg] <= pos[leg]) /\ orders' = orders
  BY <1>1, LegTyped, Facts, FlattenShortens
<1>4. CASE Release(e, cont)
  <2>1. cont = "progress" => Stuck(e)
    BY <1>2, Facts
  <2> QED BY <1>2, <1>3, <1>4, <2>1, Facts, ReleaseFits, EngineKeeps
<1>5. CASE Kept(e)
  BY <1>2, <1>3, <1>5, KeptContained DEF Aborting
<1> QED BY <1>1, <1>4, <1>5

-----------------------------------------------------------------------------
(* The venues, and the theorem. *)

\* The venue only moves while an order is live: then the entry is owned.
LEMMA VenueContained ==
  ASSUME Contained, Inductive', NEW i, MakerFills(i) \/ MakerEnds(i)
  PROVE  Contained'
<1>1. /\ i \in DOMAIN orders /\ orders[i].live
      /\ UNCHANGED <<handoff, e, pc, cont, goal, probe, hedges>>
  BY DEF MakerFills, MakerEnds
<1>2. owned /\ owned' = owned
  BY <1>1 DEF Contained, NoOrphanExposure, handoff
<1>3. orders[i].leg \in Legs
  BY <1>1, TypeFacts, Facts, OrderUpdates
<1>4. ASSUME NEW leg, ~LiveOrder(leg) PROVE ~LiveOrder(leg)'
  <2>1. \A j \in DOMAIN orders' :
          /\ j \in DOMAIN orders /\ orders'[j].leg = orders[j].leg
          /\ orders'[j].live => orders[j].live
    <3>1. orders \in Seq(Order) /\ orders[i] \in Order
      BY <1>1, TypeFacts, Facts
    <3>2. PICK o : orders' = [orders EXCEPT ![i] = o] /\ o.leg = orders[i].leg
      <4>1. CASE MakerFills(i)
        <5> DEFINE o == [orders[i] EXCEPT !.fill = orders[i].fill + 1,
                                          !.live = orders[i].fill + 1 < orders[i].qty]
        <5>1. orders' = [orders EXCEPT ![i] = o]
          BY <4>1, Zenon DEF MakerFills
        <5>2. o.leg = orders[i].leg
          BY <3>1 DEF Order
        <5> HIDE DEF o
        <5> QED BY <5>1, <5>2
      <4>2. CASE MakerEnds(i)
        <5> DEFINE o == [orders[i] EXCEPT !.live = FALSE]
        <5>1. orders' = [orders EXCEPT ![i] = o]
          BY <3>1, <4>2 DEF MakerEnds
        <5>2. o.leg = orders[i].leg
          BY <3>1 DEF Order
        <5> HIDE DEF o
        <5> QED BY <5>1, <5>2
      <4> QED BY <4>1, <4>2
    <3> QED BY <1>1, <3>1, <3>2
  <2> QED BY <1>4, <2>1 DEF LiveOrder
<1>5. pc # "shortPosition"
  BY <1>1, <1>3 DEF Contained, Reads, Reading, LiveOrder, Legs
<1>6. Reads'
  BY <1>1, <1>4, <1>5 DEF Contained, Reads
<1>7. SlicesBacked(e)' /\ HedgeMissing' /\ StepTwo'
  <2>1. Stuck(e) => Stuck(e)'
    BY <1>1 DEF Stuck, MissingHedge, Releasable
  <2>2. MissingHedge(e)' = MissingHedge(e)
    BY <1>1 DEF MissingHedge
  <2> QED BY <1>1, <2>1, <2>2 DEF Contained, SlicesBacked, HedgeMissing, StepTwo
<1> QED BY <1>2, <1>6, <1>7 DEF Contained, Detached, NoOrphanExposure

LEMMA InitContained == ASSUME Init PROVE Contained
<1>1. /\ owned = TRUE /\ pc = "idle" /\ cont = "none" /\ e.slices = 0
  BY DEF Init, InitEntry
<1> QED BY <1>1, InitTyped DEF Contained, SlicesBacked, HedgeMissing, StepTwo, Reads, Reading,
                            Detached, NoOrphanExposure

LEMMA MaintenanceContained == ASSUME Contained, Inductive', Maintenance PROVE Contained'
BY StartContained, ProgressAnsweredContained, CancelProgressAnsweredContained,
   HedgeAnsweredContained, HedgeRefusedForGoodContained, HedgeCheckedContained,
   ZeroFillCycleContained, ZeroFillRetryContained, ZeroFillOverContained,
   RemainderOrFinalizeContained, HedgeRemainderContained, ResubmittedContained
   DEF Maintenance

LEMMA ReconciliationContained == ASSUME Contained, Inductive', Reconciliation PROVE Contained'
<1>1. ASSUME LongFill \/ ShortFill PROVE Contained'
  <2>1. {"longLive", "shortLive"} \cap (Reading \cup {"hedge"}) = {}
    BY DEF Reading
  <2> QED BY <1>1, <2>1, FillReadContained DEF LongFill, ShortFill
<1> QED BY <1>1, ReconcileContained, UnresolvedAnsweredContained, LongLiveContained,
           ShortLiveContained
        DEF Reconciliation

LEMMA SettlementContained == ASSUME Contained, Inductive', Settlement PROVE Contained'
<1>1. ASSUME FlattenMaker \/ StopMaker PROVE Contained'
  <2>1. "flattenHedge" \in Aborting \ Reading /\ "stopHedge" \in Aborting \ Reading
    BY DEF Aborting, Reading
  <2> QED BY <1>1, <2>1, FlattenFirstContained DEF FlattenMaker, StopMaker
<1> QED BY <1>1, MakerDetailsContained, HedgeDetailsContained, LongOrdersContained,
           ShortOrdersContained, LongPositionContained, ShortPositionContained,
           CleanupLegContained, AbortOrderContained, FlattenHedgeContained, StopHedgeContained
        DEF Settlement

LEMMA StutterContained ==
  ASSUME Contained, Inductive', UNCHANGED vars
  PROVE  Contained'
<1>1. /\ owned' = owned /\ e' = e /\ pc' = pc /\ cont' = cont /\ goal' = goal
      /\ probe' = probe /\ open' = open /\ residual' = residual
      /\ orders' = orders /\ pos' = pos
  BY DEF vars
<1> QED BY <1>1 DEF Contained, SlicesBacked, HedgeMissing, StepTwo, Reads, Detached, Gone,
                    Stuck, MissingHedge, Releasable, LiveOrder, NoOrphanExposure

LEMMA NextContained == Contained /\ [Next]_vars => Contained'
<1> SUFFICES ASSUME Contained, [Next]_vars PROVE Contained'
  OBVIOUS
<1>1. Inductive'
  BY NextTyped, Facts
<1>2. CASE Engine
  BY <1>1, <1>2, MaintenanceContained, RepriceMakerContained, CancelAnsweredContained,
     ReplacementAnsweredContained, ReconciliationContained, SettlementContained
     DEF Engine, Repricing
<1>3. CASE Venues
  BY <1>1, <1>3, VenueContained DEF Venues
<1>4. CASE UNCHANGED vars
  BY <1>1, <1>4, StutterContained
<1> QED BY <1>2, <1>3, <1>4 DEF Next

\* Whatever way a pending entry is let go - finalized, released, abandoned,
\* aborted, cleaned up - for every target, hedge minimum, budget and bound:
\* no maker order of it is live, and what its venues hold is covered by the
\* position or the residual task that took its place, then and ever after.
THEOREM ExposureHandedOver == Spec => []NoOrphanExposure
<1>1. Init => Contained
  BY InitContained
<1>2. Contained /\ [Next]_vars => Contained'
  BY NextContained
<1>3. Contained => NoOrphanExposure
  BY DEF Contained
<1> QED BY <1>1, <1>2, <1>3, PTL DEF Spec

\* What a position is published for.
LEMMA PublishedByFinalize ==
  ASSUME Contained, [Next]_vars, open' # open
  PROVE  pc = "shortPosition" /\ UNCHANGED venue /\ FinalizeOn(pos)
<1>1. ShortPosition
  BY DEF Next, vars, Engine, Venues, Maintenance, Repricing, Reconciliation, Settlement,
         handoff, RepriceMaker, CancelAnswered, ReplacementAnswered,
         Start, ProgressAnswered, CancelProgressAnswered, HedgeAnswered, HedgeRefusedForGood,
         HedgeChecked, ZeroFillCycle, ZeroFillRetry, ZeroFillOver, RemainderOrFinalize,
         HedgeRemainder, Resubmitted, Reconcile, UnresolvedAnswered, LongFill, ShortFill,
         FillRead, LongLive, ShortLive, MakerDetails, HedgeDetails, LongOrders, ShortOrders,
         OrdersAnswered, LongPosition, CleanupLeg, AbortOrder, FlattenMaker, StopMaker,
         FlattenFirst, FlattenHedge, StopHedge, MakerFills, MakerEnds
<1>2. pc = "shortPosition" /\ UNCHANGED venue
  BY <1>1 DEF ShortPosition
<1> QED BY <1>1, <1>2, LiveIsTrue
        DEF ShortPosition, ReleaseOn, RecheckOn, AbandonOn, handoff

\* A published open position is backed on both venues: the matched quantity
\* that finalization hands over is never more than either position, whatever
\* the entry counted.
THEOREM PublicationBacked == Spec => PublishedIsBacked
<1>1. Init => Contained
  BY InitContained
<1>2. Contained /\ [Next]_vars => Contained'
  BY NextContained
<1>3. Contained /\ [Next]_vars => [open' > open => \A leg \in Legs : open' <= pos[leg]]_vars
  <2> SUFFICES ASSUME Contained, [Next]_vars, open' > open
               PROVE  \A leg \in Legs : open' <= pos[leg]
    OBVIOUS
  <2>1. open \in Nat /\ pos \in [Legs -> Nat] /\ e \in Entry
    BY TypeFacts, Facts
  <2>2. open' # open
    <3>1. open' \in Nat
      BY NextTyped, Facts DEF Inductive, TypeOK, HandoffTyped
    <3> QED BY <2>1, <3>1
  <2>3. FinalizeOn(pos)
    BY <2>2, PublishedByFinalize
  <2>4. ~(Balanced(e) > Least(pos["long"], pos["short"])) /\ open' = Balanced(e)
    BY <2>2, <2>3 DEF FinalizeOn, CleanupOrKeep, HandOff, handoff
  <2>5. pos["long"] \in Nat /\ pos["short"] \in Nat /\ Balanced(e) \in Nat
    BY <2>1, ExcessTyped DEF Legs
  <2>6. Balanced(e) <= pos["long"] /\ Balanced(e) <= pos["short"]
    BY <2>4, <2>5 DEF Least
  <2> QED BY <2>4, <2>6 DEF Legs
<1> QED BY <1>1, <1>2, <1>3, PTL DEF Spec, PublishedIsBacked

-----------------------------------------------------------------------------
(***************************************************************************)
(* The maker moves to the other leg only when nothing is left behind,      *)
(* where the maker-event lane is off.                                      *)
(*                                                                         *)
(* An entry without a hedge knows at least whether its order filled: it    *)
(* counts nothing that it does not owe to that order (Clean).  The orders  *)
(* acknowledged before it filled nothing, and while it has no fill either, *)
(* what a leg holds is due to an order whose answer was lost (Untouched).  *)
(***************************************************************************)

\* What the entry's order filled.
FillOf(n) == orders[n.order].fill
\* Of the orders that were acknowledged the entry's own is the only one to fill.
OthersEmpty ==
  \A i \in DOMAIN orders : orders[i].acked /\ i # e.order => orders[i].fill = 0
Explained == \A leg \in Legs : pos[leg] = 0 \/ Unanswered(leg)

Clean(n) ==
  /\ n.base = 0 /\ n.qty > 0
  /\ FillOf(n) = 0 => n.maker = 0
  /\ n.maker = 0 => n.slices = 0 /\ ~n.inflight /\ (n.cancel /\ n.done => FillOf(n) = 0)
  /\ n.retry => n.maker = 0 /\ n.cancel /\ n.done

Unhedged ==
  /\ Clean(e)
  /\ OthersEmpty
  /\ FillOf(e) = 0 => Explained
  /\ pc = "resubmit" => e.retry
  /\ pc \in {"hedge", "hedgeCheck"} => e.maker > 0
  /\ goal # "ceiling"
\* The answers a pass has collected say of the fill what is true.
ReadsFill ==
  /\ probe.fill[e.makerLeg] > 0 => FillOf(e) > 0
  /\ probe.ended => FillOf(e) = 0
Cancels ==
  /\ pc = "cancelProgress" => ~e.cancel
  /\ pc = "terminal" => e.cancel /\ e.done
Untouched == (e.hedge = 0 => Unhedged) /\ ReadsFill /\ Cancels

\* n is still the entry of this maker leg and this order, and as clean.
Core(n) ==
  /\ n \in Entry /\ n.order = e.order /\ n.makerLeg = e.makerLeg
  /\ n.hedge = 0 => e.hedge = 0 /\ Clean(n)

Special == {"resubmit", "hedge", "hedgeCheck", "cancelProgress", "terminal"}

\* The pass goes on, or ends, with such an entry.
Proceeds ==
  /\ Core(e')
  /\ \A leg \in Legs : probe'.fill[leg] = 0
  /\ ~probe'.ended
  /\ pc' # "resubmit"
  /\ pc' = "cancelProgress" => ~e'.cancel
  /\ pc' = "terminal" => e'.cancel /\ e'.done
  /\ e'.hedge = 0 => goal' # "ceiling" /\ (pc' \in {"hedge", "hedgeCheck"} => e'.maker > 0)

Stays == Untouched' /\ e'.makerLeg = e.makerLeg

LEMMA ProceedsStay ==
  ASSUME Untouched, Proceeds, orders' = orders,
         e'.hedge = 0 /\ FillOf(e) = 0 => Explained'
  PROVE  Stays
<1>1. e'.makerLeg \in Legs
  BY FieldTypes DEF Proceeds, Core
<1>2. FillOf(e)' = FillOf(e)
  BY DEF FillOf, Proceeds, Core
<1>3. e'.hedge = 0 => Clean(e)' /\ OthersEmpty'
  BY DEF Proceeds, Core, Clean, FillOf, OthersEmpty, Untouched, Unhedged
<1>4. ReadsFill' /\ Cancels'
  BY <1>1 DEF Proceeds, ReadsFill, Cancels
<1>5. e'.hedge = 0 => Unhedged'
  BY <1>2, <1>3 DEF Proceeds, Unhedged
<1> QED BY <1>4, <1>5 DEF Stays, Untouched, Proceeds, Core

\* No position moves.
LEMMA ProceedsStill ==
  ASSUME Untouched, Proceeds, orders' = orders, pos' = pos
  PROVE  Stays
<1>1. Explained' = Explained
  BY DEF Explained, Unanswered
<1> QED BY <1>1, ProceedsStay DEF Untouched, Unhedged, Proceeds, Core

\* An answer is noted.
LEMMA NotedStay ==
  ASSUME Untouched, UNCHANGED <<e, orders, pos>>, goal' = goal, pc' \notin Special, ReadsFill'
  PROVE  Stays
<1>1. Explained' = Explained /\ OthersEmpty' = OthersEmpty
  BY DEF Explained, OthersEmpty, Unanswered
<1> QED BY <1>1 DEF Untouched, Unhedged, Clean, FillOf, ReadsFill, Cancels, Stays, Special

LEMMA SameFill ==
  ASSUME Untouched, UNCHANGED <<e, orders>>,
         probe'.fill[e.makerLeg] = probe.fill[e.makerLeg], probe'.ended = probe.ended
  PROVE  ReadsFill'
BY DEF Untouched, ReadsFill, FillOf

LEMMA BlankFill ==
  ASSUME e' \in Entry, \A leg \in Legs : probe'.fill[leg] = 0, ~probe'.ended
  PROVE  ReadsFill'
BY FieldTypes DEF ReadsFill

LEMMA EntryCore == ASSUME Inductive, Untouched PROVE Core(e)
BY TypeFacts DEF Core, Untouched, Unhedged

-----------------------------------------------------------------------------
(* Entries that are as clean. *)

AsClean(m, n) ==
  /\ m.order = n.order /\ m.makerLeg = n.makerLeg /\ m.base = n.base /\ m.qty = n.qty
  /\ m.maker = n.maker /\ m.hedge = n.hedge /\ m.slices = n.slices
  /\ m.inflight = n.inflight /\ m.cancel = n.cancel /\ m.done = n.done /\ m.retry = n.retry

LEMMA AsCleanCore ==
  ASSUME NEW m \in Entry, NEW n, AsClean(m, n), Core(n)
  PROVE  Core(m)
BY DEF AsClean, Core, Clean, FillOf

LEMMA FlagsCore ==
  ASSUME NEW n, Core(n)
  PROVE  /\ \A v \in BOOLEAN : Core([n EXCEPT !.uncertain = v])
         /\ \A v \in BOOLEAN : Core([n EXCEPT !.repair = v])
         /\ \A v \in BOOLEAN : Core([n EXCEPT !.tried = v])
         /\ \A v \in Nat : Core([n EXCEPT !.hedgeId = v])
         /\ Core([n EXCEPT !.phase = "dual"])
<1>1. n \in Entry
  BY DEF Core
<1>2. ASSUME NEW v \in BOOLEAN, NEW m, m = [n EXCEPT !.uncertain = v] PROVE Core(m)
  <2>1. m \in Entry
    BY <1>2, <1>1, FlagUpdates
  <2>2. AsClean(m, n)
    BY <1>2, <1>1 DEF AsClean, Entry
  <2> QED BY <2>1, <2>2, AsCleanCore
<1>3. ASSUME NEW v \in BOOLEAN, NEW m, m = [n EXCEPT !.repair = v] PROVE Core(m)
  <2>1. m \in Entry
    BY <1>3, <1>1, FlagUpdates
  <2>2. AsClean(m, n)
    BY <1>3, <1>1 DEF AsClean, Entry
  <2> QED BY <2>1, <2>2, AsCleanCore
<1>4. ASSUME NEW v \in BOOLEAN, NEW m, m = [n EXCEPT !.tried = v] PROVE Core(m)
  <2>1. m \in Entry
    BY <1>4, <1>1, FlagUpdates
  <2>2. AsClean(m, n)
    BY <1>4, <1>1 DEF AsClean, Entry
  <2> QED BY <2>1, <2>2, AsCleanCore
<1>5. ASSUME NEW v \in Nat, NEW m, m = [n EXCEPT !.hedgeId = v] PROVE Core(m)
  <2>1. m \in Entry
    BY <1>5, <1>1, FieldUpdates
  <2>2. AsClean(m, n)
    BY <1>5, <1>1 DEF AsClean, Entry
  <2> QED BY <2>1, <2>2, AsCleanCore
<1>6. ASSUME NEW m, m = [n EXCEPT !.phase = "dual"] PROVE Core(m)
  <2>1. m \in Entry
    BY <1>6, <1>1, FlagUpdates
  <2>2. AsClean(m, n)
    BY <1>6, <1>1 DEF AsClean, Entry
  <2> QED BY <2>1, <2>2, AsCleanCore
<1> QED BY <1>2, <1>3, <1>4, <1>5, <1>6

\* A hedge order was executed: nothing is claimed of the entry any more.
LEMMA HedgedCore ==
  ASSUME NEW n \in Entry, n.order = e.order, n.makerLeg = e.makerLeg, n.hedge > 0
  PROVE  Core(n)
BY DEF Core

\* An entry may be aborted that counts a fill or has not seen its order end.
Abortable(n) == n.hedge = 0 => n.maker > 0 \/ ~n.done

LEMMA CancelCore ==
  ASSUME NEW n, Core(n), Abortable(n)
  PROVE  Core([n EXCEPT !.cancel = TRUE])
<1> DEFINE m == [n EXCEPT !.cancel = TRUE]
<1>1. n \in Entry
  BY DEF Core
<1>2. m \in Entry
  BY <1>1, FlagUpdates
<1>3. /\ m.order = n.order /\ m.makerLeg = n.makerLeg /\ m.base = n.base /\ m.qty = n.qty
      /\ m.maker = n.maker /\ m.hedge = n.hedge /\ m.slices = n.slices
      /\ m.inflight = n.inflight /\ m.done = n.done /\ m.retry = n.retry
      /\ m.phase = n.phase /\ m.cycles = n.cycles /\ m.cancel
  BY <1>1 DEF Entry
<1> HIDE DEF m
<1>4. n.maker \in Nat
  BY <1>1, FieldTypes
<1>5. ASSUME n.hedge = 0 PROVE Clean(m)
  <2>1. FillOf(m) = FillOf(n)
    BY <1>3 DEF FillOf
  <2>2. Clean(n) /\ (n.maker > 0 \/ ~n.done)
    BY <1>5 DEF Core, Abortable
  <2> QED BY <1>3, <1>4, <2>1, <2>2 DEF Clean
<1>6. Core(m)
  BY <1>2, <1>3, <1>5 DEF Core
<1> QED BY <1>6 DEF m

-----------------------------------------------------------------------------
(* Where a pass goes next. *)

LEMMA LeaveProceeds == ASSUME NEW n, Core(n), Leave(n) PROVE Proceeds
BY DEF Leave, Proceeds, NoProbe, Nothing

LEMMA AwaitProceeds ==
  ASSUME NEW n, Core(n), NEW p, p \notin Special, NEW g, NEW k, Await(n, p, g, k),
         n.hedge = 0 => g # "ceiling"
  PROVE  Proceeds
BY DEF Await, Proceeds, NoProbe, Nothing, Special

LEMMA FinalizeProceeds == ASSUME NEW n, Core(n), Finalize(n) PROVE Proceeds
BY AwaitProceeds DEF Finalize, Special

LEMMA GoOnProceeds == ASSUME NEW n, Core(n), GoOn(n) PROVE Proceeds
<1> DEFINE m == [n EXCEPT !.cancel = TRUE]
<1>1. \/ Leave(n)
      \/ n.cancel /\ n.done /\ Await(n, "terminal", "none", "none")
      \/ ~n.cancel /\ ~n.done /\ Leave(m)
      \/ ~n.cancel /\ Await(n, "cancelProgress", "none", "none")
  BY DEF GoOn
<1>2. ~n.done => Core(m)
  BY CancelCore DEF Abortable
<1> HIDE DEF m
<1>3. CASE Leave(n) \/ (~n.done /\ Leave(m))
  BY <1>2, <1>3, LeaveProceeds
<1>4. CASE n.cancel /\ n.done /\ Await(n, "terminal", "none", "none")
  BY <1>4 DEF Await, Proceeds, NoProbe, Nothing
<1>5. CASE ~n.cancel /\ Await(n, "cancelProgress", "none", "none")
  BY <1>5 DEF Await, Proceeds, NoProbe, Nothing
<1> QED BY <1>1, <1>3, <1>4, <1>5

LEMMA ResumeProceeds == ASSUME NEW n, Core(n), NEW k, Resume(n, k) PROVE Proceeds
BY GoOnProceeds, LeaveProceeds DEF Resume

LEMMA AbortProceeds ==
  ASSUME NEW n, Core(n), Abortable(n), NEW k, Abort(n, k)
  PROVE  Proceeds
<1> DEFINE m == [n EXCEPT !.cancel = TRUE]
<1>1. \/ Await(n, "longOrders", "abort", k) \/ Await(m, "abortOrder", "abort", k)
      \/ Resume(n, k)
  BY DEF Abort
<1>2. Core(m)
  BY CancelCore
<1> HIDE DEF m
<1> QED BY <1>1, <1>2, AwaitProceeds, ResumeProceeds DEF Special

LEMMA ReleaseProceeds == ASSUME NEW n, Core(n), NEW k, Release(n, k) PROVE Proceeds
BY AwaitProceeds, ResumeProceeds DEF Release, Special

LEMMA ReadLegsProceeds == ASSUME NEW n, Core(n), ReadLegs(n) PROVE Proceeds
<1> DEFINE m == [n EXCEPT !.tried = TRUE]
<1>1. Core(m)
  BY FlagsCore
<1>2. Await(m, "longFill", "none", "none")
  BY DEF ReadLegs
<1> HIDE DEF m
<1> QED BY <1>1, <1>2, AwaitProceeds DEF Special

LEMMA AfterHedgeProceeds ==
  ASSUME NEW n, Core(n), NEW k, NEW driven, AfterHedge(n, k, driven)
  PROVE  Proceeds
BY FinalizeProceeds, ResumeProceeds DEF AfterHedge

\* What is missing beside no hedge at all is a fill the entry counts.
LEMMA MissingMeansMaker ==
  ASSUME NEW n, Core(n), n.hedge = 0, MissingHedge(n) > 0
  PROVE  n.maker > 0
<1>1. n.maker \in Nat /\ n.slices \in Nat /\ (n.maker = 0 => n.slices = 0)
  BY FieldTypes DEF Core, Clean
<1> QED BY <1>1, QuantityAssumption DEF MissingHedge, Most, Least

LEMMA DriveHedgeProceeds ==
  ASSUME NEW n, Core(n), NEW k, DriveHedge(n, k)
  PROVE  Proceeds
<1>1. \/ AfterHedge(n, k, FALSE)
      \/ MissingHedge(n) # 0 /\ Abort(n, k)
      \/ MissingHedge(n) # 0 /\ Await(n, "hedge", "none", k)
  BY DEF DriveHedge
<1>2. MissingHedge(n) # 0 /\ n.hedge = 0 => n.maker > 0
  <2>1. MissingHedge(n) \in Nat
    BY ReleasableTyped DEF Core
  <2> QED BY <2>1, MissingMeansMaker
<1>3. CASE AfterHedge(n, k, FALSE)
  BY <1>3, AfterHedgeProceeds
<1>4. CASE MissingHedge(n) # 0 /\ Abort(n, k)
  BY <1>2, <1>4, AbortProceeds DEF Abortable
<1>5. CASE MissingHedge(n) # 0 /\ Await(n, "hedge", "none", k)
  BY <1>2, <1>5 DEF Await, Proceeds, NoProbe, Nothing
<1> QED BY <1>1, <1>3, <1>4, <1>5

\* The hard ceiling is only reached with a hedge.
LEMMA KeptProceeds ==
  ASSUME Untouched, NEW n, Core(n), Kept(n)
  PROVE  Proceeds
<1>1. CASE goal = "abandon" /\ ReadLegs(n)
  BY <1>1, ReadLegsProceeds
<1>2. CASE goal = "ceiling" /\ Abort(n, "none")
  <2>1. n.hedge # 0
    BY <1>2 DEF Untouched, Unhedged, Core
  <2> QED BY <1>2, <2>1, AbortProceeds DEF Abortable
<1>3. CASE Resume(n, cont)
  BY <1>3, ResumeProceeds
<1> QED BY <1>1, <1>2, <1>3 DEF Kept

LEMMA DeferredProceeds == ASSUME Inductive, Untouched, Deferred PROVE Proceeds
<1> DEFINE m == [e EXCEPT !.uncertain = TRUE]
<1>1. Core(m)
  BY EntryCore, FlagsCore
<1>2. Kept(m)
  BY DEF Deferred
<1> HIDE DEF m
<1> QED BY <1>1, <1>2, KeptProceeds

-----------------------------------------------------------------------------
(* What the entry is made of. *)

LEMMA HedgeProgressCore ==
  ASSUME NEW n, Core(n), NEW h \in Nat, NEW id \in Nat
  PROVE  Core(HedgeProgress(n, h, id))
<1> DEFINE s == SlicesAfterHedge(n, h)
           a == [n EXCEPT !.hedge = h, !.slices = s, !.hedgeId = id]
           b == [n EXCEPT !.hedgeId = id]
<1>1. n \in Entry /\ n.hedge \in Nat
  BY FieldTypes DEF Core
<1>2. CASE h > n.hedge
  <2>1. HedgeProgress(n, h, id) = a
    BY <1>2, Zenon DEF HedgeProgress
  <2>2. a.order = n.order /\ a.makerLeg = n.makerLeg /\ a.hedge = h
    <3> HIDE DEF s
    <3> QED BY <1>1 DEF Entry
  <2>3. HedgeProgress(n, h, id) \in Entry
    BY <1>1, HedgeProgressTyped
  <2> HIDE DEF a
  <2> QED BY <1>1, <1>2, <2>1, <2>2, <2>3, HedgedCore DEF Core
<1>3. CASE ~(h > n.hedge)
  <2>1. HedgeProgress(n, h, id) = b
    BY <1>3, Zenon DEF HedgeProgress
  <2>2. Core(b)
    BY FlagsCore
  <2> HIDE DEF b
  <2> QED BY <2>1, <2>2
<1> QED BY <1>2, <1>3

LEMMA HedgeFilledCore ==
  ASSUME NEW n, Core(n), NEW f \in Nat, f > 0, NEW id \in Nat
  PROVE  Core(HedgeFilled(n, f, id))
<1> DEFINE t == n.hedge + f
           s == SlicesAfterHedge(n, t)
           h == [n EXCEPT !.hedge = t, !.slices = s, !.hedgeId = id]
           p == [h EXCEPT !.inflight = FALSE]
           u == MissingHedge(p) > 0 /\ p.uncertain
           q == [p EXCEPT !.uncertain = u]
<1>1. n \in Entry /\ n.hedge \in Nat /\ t > n.hedge
  BY FieldTypes DEF Core
<1>2. HedgeProgress(n, t, id) = h
  BY <1>1, Zenon DEF HedgeProgress
<1>3. HedgeFilled(n, f, id) = q
  BY <1>2, Zenon DEF HedgeFilled
<1>4. q.order = n.order /\ q.makerLeg = n.makerLeg /\ q.hedge = t
  <2>1. h.order = n.order /\ h.makerLeg = n.makerLeg /\ h.hedge = t
    <3> HIDE DEF s, t
    <3> QED BY <1>1 DEF Entry
  <2>2. p.order = h.order /\ p.makerLeg = h.makerLeg /\ p.hedge = h.hedge
    <3> HIDE DEF h
    <3> QED OBVIOUS
  <2>3. q.order = p.order /\ q.makerLeg = p.makerLeg /\ q.hedge = p.hedge
    <3> HIDE DEF p, u
    <3> QED OBVIOUS
  <2> HIDE DEF h, p, q
  <2> QED BY <2>1, <2>2, <2>3
<1>5. HedgeFilled(n, f, id) \in Entry
  BY <1>1, HedgeFilledTyped
<1> HIDE DEF q
<1> QED BY <1>1, <1>3, <1>4, <1>5, HedgedCore DEF Core

\* What the order reports of its fill is what it filled.
LEMMA ProgressCore ==
  ASSUME Inductive, OneOrder, Untouched
  PROVE  Core(PassiveProgress(e, FillOf(e), ~orders[e.order].live))
<1> DEFINE c == FillOf(e)
           t == ~orders[e.order].live
           updated == e.base + Least(c, e.qty)
           owed == e.slices + updated - e.maker
           seen == [e EXCEPT !.done = t]
           raised == [e EXCEPT !.done = t, !.maker = updated, !.slices = owed]
           n == PassiveProgress(e, c, t)
<1>1. e \in Entry /\ c \in Nat /\ t \in BOOLEAN
  BY TypeFacts, OrderUpdates DEF FillOf
<1>2. n \in Entry
  <2> HIDE DEF c, t
  <2> QED BY <1>1, PassiveProgressTyped DEF KeepsReferences
<1>3. IF updated > e.maker THEN n = raised ELSE n = seen
  BY Zenon DEF PassiveProgress
<1>4. /\ seen.order = e.order /\ seen.makerLeg = e.makerLeg /\ seen.hedge = e.hedge
      /\ seen.base = e.base /\ seen.qty = e.qty /\ seen.maker = e.maker
      /\ seen.slices = e.slices /\ seen.inflight = e.inflight /\ seen.cancel = e.cancel
      /\ seen.retry = e.retry /\ seen.phase = e.phase /\ seen.cycles = e.cycles
      /\ seen.done = t
  <2> HIDE DEF t
  <2> QED BY <1>1 DEF Entry
<1>5. /\ raised.order = e.order /\ raised.makerLeg = e.makerLeg /\ raised.hedge = e.hedge
      /\ raised.base = e.base /\ raised.qty = e.qty /\ raised.maker = updated
      /\ raised.retry = e.retry /\ raised.phase = e.phase /\ raised.cycles = e.cycles
  <2> HIDE DEF t, updated, owed
  <2> QED BY <1>1 DEF Entry
<1>6. e.done => t
  BY DEF OneOrder, DoneIsEnded
<1>7. e.maker \in Nat /\ e.qty \in Nat
  BY <1>1, FieldTypes
<1> HIDE DEF seen, raised, n
<1>8. ASSUME e.hedge = 0 PROVE Clean(n)
  <2>1. Clean(e) /\ updated = Least(c, e.qty)
    <3>1. Clean(e)
      BY <1>8 DEF Untouched, Unhedged
    <3> QED BY <1>1, <1>7, <3>1 DEF Clean, Least
  <2>2. (c = 0 => updated = 0) /\ (updated = 0 => c = 0)
    BY <1>1, <1>7, <2>1 DEF Clean, Least
  <2>3. n.order = e.order /\ n.phase = e.phase /\ n.cycles = e.cycles /\ n.retry = e.retry
    BY <1>3, <1>4, <1>5
  <2>4. FillOf(n) = c
    BY <2>3 DEF FillOf
  <2>5. updated \in Nat
    BY <1>1, <1>7, <2>1 DEF Least
  <2> HIDE DEF c, t, updated
  <2>6. CASE updated > e.maker
    <3>1. updated > 0 /\ c # 0 /\ ~e.retry
      BY <1>7, <2>1, <2>2, <2>4, <2>5, <2>6 DEF Clean, FillOf, c
    <3> QED BY <1>3, <1>5, <2>1, <2>3, <2>4, <2>6, <3>1 DEF Clean
  <2>7. CASE ~(updated > e.maker)
    <3>1. e.maker = 0 => c = 0
      BY <1>7, <2>2, <2>5, <2>7
    <3>2. c = 0 => e.maker = 0
      BY <2>1 DEF Clean, c
    <3> QED BY <1>3, <1>4, <1>6, <2>1, <2>3, <2>4, <2>7, <3>1, <3>2 DEF Clean
  <2> QED BY <2>6, <2>7
<1>9. n.order = e.order /\ n.makerLeg = e.makerLeg /\ n.hedge = e.hedge
  BY <1>3, <1>4, <1>5
<1>10. Core(n)
  BY <1>2, <1>8, <1>9 DEF Core
<1> QED BY <1>10 DEF n

-----------------------------------------------------------------------------
(* Maintenance. *)

LEMMA StartStays == ASSUME Inductive, Untouched, Start PROVE Stays
<1>1. Await(e, "progress", "none", "none") /\ orders' = orders /\ pos' = pos
  BY DEF Start, venue
<1>2. Proceeds
  BY <1>1, EntryCore, AwaitProceeds DEF Special
<1> QED BY <1>1, <1>2, ProceedsStill

LEMMA HedgeAnsweredStays ==
  ASSUME Inductive, Untouched, HedgeAnswered
  PROVE  Stays
<1> DEFINE id == Len(hedges) + 1
           m == [e EXCEPT !.inflight = TRUE]
           v == [e EXCEPT !.inflight = TRUE, !.uncertain = TRUE, !.hedgeId = id]
           unsure == [m EXCEPT !.uncertain = TRUE]
           u == [unsure EXCEPT !.hedgeId = id]
<1>1. id \in Nat /\ Core(e) /\ e \in Entry
  BY TypeFacts, EntryCore
<1>2. e.hedge = 0 => e.maker > 0 /\ Clean(e) /\ FillOf(e) # 0
  <2>1. e.hedge = 0 => e.maker > 0 /\ Clean(e)
    BY DEF Untouched, Unhedged, HedgeAnswered
  <2> QED BY <2>1 DEF Clean
<1>3. Core(m) /\ (m.hedge = 0 => m.maker > 0)
  <2>1. /\ m.order = e.order /\ m.makerLeg = e.makerLeg /\ m.base = e.base /\ m.qty = e.qty
        /\ m.maker = e.maker /\ m.hedge = e.hedge /\ m.slices = e.slices
        /\ m.cancel = e.cancel /\ m.done = e.done /\ m.retry = e.retry
        /\ m.phase = e.phase /\ m.cycles = e.cycles
    BY <1>1 DEF Entry
  <2>2. m \in Entry
    BY <1>1, FlagUpdates
  <2> HIDE DEF m
  <2>3. FillOf(m) = FillOf(e)
    BY <2>1 DEF FillOf
  <2>4. e.hedge = 0 => Clean(m)
    BY <1>2, <2>1, <2>3 DEF Clean
  <2> QED BY <1>2, <2>1, <2>2, <2>4 DEF Core
<1>4. Core(u)
  <2>1. Core(unsure)
    <3> HIDE DEF m
    <3> QED BY <1>3, FlagsCore
  <2> HIDE DEF unsure, id
  <2> QED BY <1>1, <2>1, FlagsCore
<1>5. \/ \E f \in 1..Releasable(e) :
           Execute(f) /\ AfterHedge(HedgeFilled(e, f, id), cont, TRUE)
      \/ \E f \in 0..Releasable(e) : Execute(f) /\ AfterHedge(u, cont, FALSE)
      \/ \E f \in 0..Releasable(e) : Execute(f) /\ Await(m, "hedgeCheck", "none", cont)
      \/ UNCHANGED venue /\ AfterHedge(e, cont, FALSE)
  BY Zenon DEF HedgeAnswered
<1> HIDE DEF m, u, id, unsure
<1>6. orders' = orders
  BY <1>5 DEF Execute, venue
<1>7. ASSUME NEW f \in 1..Releasable(e), AfterHedge(HedgeFilled(e, f, id), cont, TRUE)
      PROVE  Proceeds
  <2>1. f \in Nat /\ f > 0
    BY <1>1, ReleasableTyped
  <2> QED BY <1>1, <1>7, <2>1, HedgeFilledCore, AfterHedgeProceeds
<1>8. ASSUME Await(m, "hedgeCheck", "none", cont) PROVE Proceeds
  BY <1>3, <1>8 DEF Await, Proceeds, NoProbe, Nothing
<1>9. Proceeds
  BY <1>1, <1>4, <1>5, <1>7, <1>8, AfterHedgeProceeds
<1> QED BY <1>2, <1>6, <1>9, ProceedsStay DEF Proceeds, Core

LEMMA HedgeRefusedForGoodStays ==
  ASSUME Inductive, Untouched, HedgeRefusedForGood
  PROVE  Stays
<1> DEFINE r == [e EXCEPT !.repair = TRUE]
           u == [r EXCEPT !.uncertain = TRUE]
<1>1. Core(r)
  BY EntryCore, FlagsCore
<1>2. r.hedge = e.hedge /\ r.maker = e.maker
  BY TypeFacts DEF Entry
<1>3. Core(u)
  <2> HIDE DEF r
  <2> QED BY <1>1, FlagsCore
<1>4. (Abort(r, cont) \/ AfterHedge(u, cont, FALSE)) /\ orders' = orders /\ pos' = pos
  BY Zenon DEF HedgeRefusedForGood, venue
<1> HIDE DEF r, u
<1>5. Abortable(r)
  BY <1>2 DEF Abortable, Untouched, Unhedged, HedgeRefusedForGood
<1>6. Proceeds
  BY <1>1, <1>3, <1>4, <1>5, AbortProceeds, AfterHedgeProceeds
<1> QED BY <1>4, <1>6, ProceedsStill

LEMMA HedgeCheckedStays ==
  ASSUME Inductive, Untouched, HedgeChecked
  PROVE  Stays
<1> DEFINE id == Len(hedges)
           f == hedges[id]
<1>1. id \in Nat /\ f \in Nat /\ Core(e)
  BY TypeFacts, EntryCore DEF Inductive, CallsFit, HedgeChecked
<1>2. /\ (f > 0 /\ AfterHedge(HedgeFilled(e, f, id), cont, TRUE)) \/ AfterHedge(e, cont, FALSE)
      /\ orders' = orders /\ pos' = pos
  BY DEF HedgeChecked, venue
<1> HIDE DEF f, id
<1>3. Proceeds
  BY <1>1, <1>2, HedgeFilledCore, AfterHedgeProceeds
<1> QED BY <1>2, <1>3, ProceedsStill

LEMMA ProgressAnsweredStays ==
  ASSUME Inductive, OneOrder, Untouched, ProgressAnswered
  PROVE  Stays
<1> DEFINE n == PassiveProgress(e, FillOf(e), ~orders[e.order].live)
<1>1. Core(n) /\ Core(e)
  BY ProgressCore, EntryCore
<1>2. /\ Leave(e) \/ GoOn(e) \/ DriveHedge(n, "progress") \/ GoOn(n)
      /\ orders' = orders /\ pos' = pos
  BY DEF ProgressAnswered, venue, FillOf
<1> HIDE DEF n
<1>3. Proceeds
  BY <1>1, <1>2, LeaveProceeds, GoOnProceeds, DriveHedgeProceeds
<1> QED BY <1>2, <1>3, ProceedsStill

LEMMA CancelProgressAnsweredStays ==
  ASSUME Inductive, Untouched, CancelProgressAnswered
  PROVE  Stays
<1> DEFINE m == [e EXCEPT !.done = TRUE]
<1>1. Core(e) /\ e \in Entry /\ ~e.cancel
  BY TypeFacts, EntryCore DEF CancelProgressAnswered, Untouched, Cancels
<1>2. m \in Entry
  BY <1>1, FlagUpdates
<1>3. /\ m.order = e.order /\ m.makerLeg = e.makerLeg /\ m.base = e.base /\ m.qty = e.qty
      /\ m.maker = e.maker /\ m.hedge = e.hedge /\ m.slices = e.slices
      /\ m.inflight = e.inflight /\ m.cancel = e.cancel /\ m.retry = e.retry
      /\ m.phase = e.phase /\ m.cycles = e.cycles
  BY <1>1 DEF Entry
<1>4. (Leave(e) \/ Leave(m)) /\ orders' = orders /\ pos' = pos
  BY DEF CancelProgressAnswered, venue
<1> HIDE DEF m
<1>5. FillOf(m) = FillOf(e)
  BY <1>3 DEF FillOf
<1>6. Core(m)
  BY <1>1, <1>2, <1>3, <1>5 DEF Core, Clean
<1>7. Proceeds
  BY <1>1, <1>4, <1>6, LeaveProceeds
<1> QED BY <1>4, <1>7, ProceedsStill

LEMMA ZeroFillCycleStays ==
  ASSUME Inductive, Untouched, ZeroFillCycle
  PROVE  Stays
<1> DEFINE c == e.cycles + 1
           m == [e EXCEPT !.cycles = c, !.retry = TRUE, !.reposts = c, !.attempts = 0]
<1>1. e \in Entry /\ Core(e) /\ e.cancel /\ e.done /\ ~e.retry /\ e.maker = 0 /\ e.hedge = 0
  BY TypeFacts, EntryCore, FieldTypes DEF ZeroFillCycle, Untouched, Cancels, HasAnyFill
<1>2. m \in Entry
  <2> DEFINE a == [e EXCEPT !.cycles = c]
             b == [a EXCEPT !.retry = TRUE]
             d == [b EXCEPT !.reposts = c]
  <2>1. c \in Nat
    BY <1>1, FieldTypes
  <2>2. a \in Entry
    <3> HIDE DEF c
    <3> QED BY <1>1, <2>1, FieldUpdates
  <2>3. b \in Entry
    <3> HIDE DEF a
    <3> QED BY <2>2, FlagUpdates
  <2>4. d \in Entry
    <3> HIDE DEF b, c
    <3> QED BY <2>1, <2>3, FieldUpdates
  <2>5. m = [d EXCEPT !.attempts = 0]
    OBVIOUS
  <2> HIDE DEF d, m
  <2> QED BY <2>4, <2>5, FieldUpdates
<1>3. /\ m.order = e.order /\ m.makerLeg = e.makerLeg /\ m.base = e.base /\ m.qty = e.qty
      /\ m.maker = e.maker /\ m.hedge = e.hedge /\ m.slices = e.slices
      /\ m.inflight = e.inflight /\ m.cancel = e.cancel /\ m.done = e.done /\ m.retry
  <2> HIDE DEF c
  <2> QED BY <1>1 DEF Entry
<1>4. Leave(m) /\ orders' = orders /\ pos' = pos
  BY Zenon DEF ZeroFillCycle, venue
<1> HIDE DEF m
<1>5. FillOf(m) = FillOf(e)
  BY <1>3 DEF FillOf
<1>6. Core(m)
  BY <1>1, <1>2, <1>3, <1>5 DEF Core, Clean
<1>7. Proceeds
  BY <1>4, <1>6, LeaveProceeds
<1> QED BY <1>4, <1>7, ProceedsStill

\* An entry that asks for another zero-fill cycle was left with nothing.
LEMMA RetryIsEmpty ==
  ASSUME Inductive, Untouched, e.hedge = 0, e.retry
  PROVE  /\ e.maker = 0 /\ e.cancel /\ e.done /\ FillOf(e) = 0 /\ Clean(e)
         /\ OthersEmpty /\ Explained
BY DEF Untouched, Unhedged, Clean

\* The next cycle is submitted, perhaps on the other leg.
LEMMA CycleSubmitted ==
  ASSUME Inductive, Untouched, e.hedge = 0, e.retry, NEW n, n = NextCycle(e),
         Leave(n) \/ Await(n, "resubmit", "none", "none"),
         orders' = orders, pos' = pos
  PROVE  Untouched'
<1>1. e \in Entry
  BY TypeFacts
<1>2. /\ n.order = e.order /\ n.base = e.base /\ n.qty = e.qty /\ n.maker = e.maker
      /\ n.hedge = e.hedge /\ n.slices = e.slices /\ n.inflight = e.inflight
      /\ n.cancel = e.cancel /\ n.done = e.done /\ n.retry = e.retry
  <2> DEFINE leg == Other(e.makerLeg)
             m == [e EXCEPT !.phase = "low", !.makerLeg = leg,
                            !.cycles = 0, !.reposts = 0, !.attempts = 0, !.uncertain = FALSE]
  <2>1. n = m \/ n = e
    BY Zenon DEF NextCycle
  <2>2. /\ m.order = e.order /\ m.base = e.base /\ m.qty = e.qty /\ m.maker = e.maker
        /\ m.hedge = e.hedge /\ m.slices = e.slices /\ m.inflight = e.inflight
        /\ m.cancel = e.cancel /\ m.done = e.done /\ m.retry = e.retry
    <3> HIDE DEF leg
    <3> QED BY <1>1 DEF Entry
  <2> HIDE DEF m
  <2> QED BY <2>1, <2>2
<1>3. e' = n /\ probe' = NoProbe /\ goal' = "none" /\ pc' \in {"idle", "resubmit"}
  BY DEF Leave, Await
<1>4. n \in Entry
  <2>1. ~HasAnyFill(e)
    BY <1>1, FieldTypes, RetryIsEmpty DEF HasAnyFill
  <2> QED BY <2>1, NextCycleTyped DEF Refers
<1>5. FillOf(e)' = FillOf(n)
  BY <1>3 DEF FillOf
<1>6. FillOf(n) = FillOf(e)
  BY <1>2 DEF FillOf
<1>7. Clean(e)'
  BY <1>2, <1>3, <1>5, <1>6, RetryIsEmpty DEF Clean
<1>8. Explained' /\ OthersEmpty'
  BY <1>2, <1>3, RetryIsEmpty DEF Explained, OthersEmpty, Unanswered
<1>9. Unhedged'
  BY <1>2, <1>3, <1>5, <1>6, <1>7, <1>8, RetryIsEmpty DEF Unhedged
<1>10. ReadsFill' /\ Cancels'
  BY <1>3, <1>4, FieldTypes DEF ReadsFill, Cancels, NoProbe, Nothing
<1> QED BY <1>9, <1>10 DEF Untouched

LEMMA ZeroFillRetryStays ==
  ASSUME Inductive, Untouched, ZeroFillRetry
  PROVE  Untouched'
<1>1. e \in Entry /\ Core(e) /\ e.retry /\ e.hedge = 0
  BY TypeFacts, EntryCore, FieldTypes DEF ZeroFillRetry, HasAnyFill
<1>2. orders' = orders /\ pos' = pos
  BY DEF ZeroFillRetry, venue
<1>3. Leave(e) \/ Submit(NextCycle(e))
  BY DEF ZeroFillRetry
<1>4. CASE Leave(e)
  <2>1. Proceeds
    BY <1>1, <1>4, LeaveProceeds
  <2> QED BY <1>2, <2>1, ProceedsStill DEF Stays
<1>5. CASE Submit(NextCycle(e))
  <2>1. PICK n : n = NextCycle(e)
    OBVIOUS
  <2>2. Leave(n) \/ Await(n, "resubmit", "none", "none")
    BY <1>5, <2>1 DEF Submit
  <2> QED BY <1>1, <1>2, <2>1, <2>2, CycleSubmitted
<1> QED BY <1>3, <1>4, <1>5

LEMMA ZeroFillOverStays ==
  ASSUME Inductive, Untouched, ZeroFillOver
  PROVE  Stays
<1> DEFINE v == e.uncertain /\ ~Switching
           s == [e EXCEPT !.uncertain = v]
           d == [e EXCEPT !.phase = "dual"]
<1>1. Core(e) /\ v \in BOOLEAN
  BY TypeFacts, EntryCore, FieldTypes
<1>2. Core(s) /\ Core(d)
  <2> HIDE DEF v
  <2> QED BY <1>1, FlagsCore
<1>3. (Finalize(e) \/ Finalize(s) \/ Finalize(d)) /\ orders' = orders /\ pos' = pos
  BY Zenon DEF ZeroFillOver, venue
<1> HIDE DEF s, d
<1>4. Proceeds
  BY <1>1, <1>2, <1>3, FinalizeProceeds
<1> QED BY <1>3, <1>4, ProceedsStill

LEMMA RemainderOrFinalizeStays ==
  ASSUME Inductive, Untouched, RemainderOrFinalize
  PROVE  Stays
<1>1. Core(e) /\ e \in Entry
  BY TypeFacts, EntryCore
<1>2. (Submit(e) \/ Finalize(e)) /\ orders' = orders /\ pos' = pos
  BY DEF RemainderOrFinalize, venue
<1>3. e.hedge > 0
  <2>1. e.hedge \in Nat /\ e.maker \in Nat /\ e.slices \in Nat
    BY <1>1, FieldTypes
  <2> QED BY <2>1, QuantityAssumption
      DEF RemainderOrFinalize, HasAnyFill, MissingHedge, Most, Least
<1>4. CASE Leave(e) \/ Finalize(e)
  <2>1. Proceeds
    BY <1>1, <1>4, LeaveProceeds, FinalizeProceeds
  <2> QED BY <1>2, <2>1, ProceedsStill
<1>5. CASE Await(e, "resubmit", "none", "none")
  <2>1. e' = e /\ pc' = "resubmit" /\ probe' = NoProbe
    BY <1>5 DEF Await
  <2>2. ReadsFill' /\ Cancels'
    BY <1>1, <2>1, FieldTypes DEF ReadsFill, Cancels, NoProbe, Nothing
  <2> QED BY <1>3, <2>1, <2>2 DEF Stays, Untouched
<1> QED BY <1>2, <1>4, <1>5 DEF Submit

LEMMA HedgeRemainderStays ==
  ASSUME Inductive, Untouched, HedgeRemainder
  PROVE  Stays
<1> DEFINE r == [e EXCEPT !.repair = TRUE]
<1>1. Core(e) /\ Core(r)
  BY EntryCore, FlagsCore
<1>2. (Finalize(r) \/ Finalize(e) \/ DriveHedge(e, "none")) /\ orders' = orders /\ pos' = pos
  BY Zenon DEF HedgeRemainder, venue
<1> HIDE DEF r
<1>3. Proceeds
  BY <1>1, <1>2, FinalizeProceeds, DriveHedgeProceeds
<1> QED BY <1>2, <1>3, ProceedsStill

\* An order lands: nothing else changes on the venues.
LEMMA LandedExplained ==
  ASSUME Inductive, NEW q, NEW cid, NEW a, Land(e.makerLeg, q, cid, a), pos' = pos
  PROVE  /\ Explained => Explained'
         /\ \A i \in DOMAIN orders : i \in DOMAIN orders' /\ orders'[i] = orders[i]
         /\ DOMAIN orders' = DOMAIN orders \cup {Len(orders) + 1}
         /\ orders'[Len(orders) + 1].fill = 0
         /\ orders'[Len(orders) + 1].acked = a
<1> DEFINE o == [leg |-> e.makerLeg, qty |-> q, fill |-> 0, live |-> TRUE, cid |-> cid,
                 acked |-> a]
           id == Len(orders) + 1
<1>1. orders \in Seq(Order)
  BY TypeFacts
<1>2. orders' = Append(orders, o) /\ o.fill = 0 /\ o.acked = a
  BY DEF Land
<1> HIDE DEF o
<1>3. /\ DOMAIN orders' = 1..id /\ DOMAIN orders = 1..Len(orders) /\ Len(orders) \in Nat
      /\ \A i \in DOMAIN orders : orders'[i] = orders[i]
      /\ orders'[id] = o
  BY <1>1, <1>2
<1>4. /\ \A i \in DOMAIN orders : i \in DOMAIN orders' /\ orders'[i] = orders[i]
      /\ DOMAIN orders' = DOMAIN orders \cup {id}
  BY <1>3
<1>5. Explained => Explained'
  BY <1>4 DEF Explained, Unanswered
<1> QED BY <1>2, <1>3, <1>4, <1>5

\* The entry's next order lands.
LEMMA AcceptedStays ==
  ASSUME Inductive, Untouched, pc = "resubmit", NEW k \in Nat,
         NEW q, q = Quantity, Land(e.makerLeg, q, Stage(k), TRUE),
         Leave(Accepted(k)), pos' = pos
  PROVE  Stays
<1> DEFINE id == Len(orders) + 1
           r == e.reposts + 1
           t == e.accepted + 1
           at == k + 1
           cy == e.cycles
           n == [e EXCEPT !.order = id, !.named = id, !.base = e.maker, !.qty = q, !.done = FALSE,
                          !.cancel = FALSE, !.reposts = cy, !.attempts = at]
           x == [n EXCEPT !.reposts = r]
           y == [n EXCEPT !.retry = FALSE, !.accepted = t]
<1>1. e \in Entry /\ orders \in Seq(Order) /\ e.order \in DOMAIN orders
  BY TypeFacts
<1>2. /\ x.makerLeg = e.makerLeg /\ x.hedge = e.hedge /\ y.makerLeg = e.makerLeg
      /\ y.hedge = e.hedge /\ y.order = id /\ y.base = e.maker /\ y.qty = q
      /\ y.maker = e.maker /\ y.slices = e.slices /\ y.inflight = e.inflight
      /\ ~y.cancel /\ ~y.done /\ ~y.retry
  <2> HIDE DEF id, r, cy, t, at
  <2> QED BY <1>1 DEF Entry
<1>3. IF HasAnyFill(e) THEN Accepted(k) = x ELSE Accepted(k) = y
  <2>1. CycleAccepted(e, id, q, at) = n
    BY Zenon DEF CycleAccepted
  <2> HIDE DEF n, id, r, t, at
  <2> QED BY <2>1, Zenon DEF Accepted, id, r, t, at
<1>4. e' = Accepted(k) /\ Accepted(k) \in Entry
      /\ probe' = NoProbe /\ goal' = "none" /\ pc' = "idle"
  BY AcceptedTyped DEF Leave
<1> HIDE DEF n, x, y
<1>5. e' \in Entry /\ e'.makerLeg = e.makerLeg /\ e'.hedge = e.hedge
  BY <1>2, <1>3, <1>4
<1>6. ReadsFill' /\ Cancels'
  BY <1>4, <1>5, FieldTypes DEF ReadsFill, Cancels, NoProbe, Nothing
<1>7. ASSUME e.hedge = 0 PROVE Unhedged'
  <2>1. e.retry
    BY <1>7 DEF Untouched, Unhedged
  <2>2. /\ Clean(e) /\ e.maker = 0 /\ FillOf(e) = 0 /\ ~HasAnyFill(e)
        /\ OthersEmpty /\ Explained
    BY <1>7, <2>1, RetryIsEmpty DEF HasAnyFill
  <2>3. q = e.qty /\ q > 0 /\ e' = y
    BY <1>3, <1>4, <2>2 DEF Quantity, Clean
  <2>4. FillOf(e)' = 0 /\ Explained' /\ e'.order = id
    BY <1>2, <2>2, <2>3, LandedExplained DEF FillOf
  <2>5. OthersEmpty'
    <3>1. /\ \A i \in DOMAIN orders : i \in DOMAIN orders' /\ orders'[i] = orders[i]
          /\ DOMAIN orders' = DOMAIN orders \cup {id}
          /\ orders'[id].fill = 0
      BY LandedExplained
    <3>2. \A i \in DOMAIN orders : orders[i].acked => orders[i].fill = 0
      BY <2>2 DEF OthersEmpty, FillOf
    <3> HIDE DEF id
    <3> QED BY <3>1, <3>2 DEF OthersEmpty
  <2>6. Clean(e)'
    BY <1>2, <2>2, <2>3, <2>4 DEF Clean
  <2> QED BY <1>4, <2>4, <2>5, <2>6 DEF Unhedged
<1> QED BY <1>5, <1>6, <1>7 DEF Stays, Untouched

\* An order lands of which the entry is told nothing.
LEMMA LostStays ==
  ASSUME Inductive, Untouched, pc = "resubmit", NEW q, NEW cid,
         Land(e.makerLeg, q, cid, FALSE), Leave(e), pos' = pos
  PROVE  Stays
<1>1. e' = e /\ e \in Entry /\ probe' = NoProbe /\ goal' = "none" /\ pc' = "idle"
      /\ e.order \in DOMAIN orders
  BY TypeFacts DEF Leave
<1>2. ReadsFill' /\ Cancels'
  BY <1>1, FieldTypes DEF ReadsFill, Cancels, NoProbe, Nothing
<1>3. FillOf(e)' = FillOf(e)
  BY <1>1, LandedExplained DEF FillOf
<1>4. e.hedge = 0 => Clean(e)'
  BY <1>1, <1>3 DEF Untouched, Unhedged, Clean
<1>5. ASSUME e.hedge = 0 PROVE OthersEmpty'
  <2>1. OthersEmpty
    BY <1>5 DEF Untouched, Unhedged
  <2>2. /\ \A i \in DOMAIN orders : i \in DOMAIN orders' /\ orders'[i] = orders[i]
        /\ DOMAIN orders' = DOMAIN orders \cup {Len(orders) + 1}
        /\ orders'[Len(orders) + 1].fill = 0
    BY LandedExplained
  <2> QED BY <1>1, <2>1, <2>2 DEF OthersEmpty
<1>6. e.hedge = 0 => Unhedged'
  BY <1>1, <1>3, <1>4, <1>5, LandedExplained DEF Untouched, Unhedged
<1> QED BY <1>1, <1>2, <1>6 DEF Stays, Untouched

LEMMA ResubmittedStays ==
  ASSUME Inductive, Untouched, Resubmitted
  PROVE  Stays
<1>1. pc = "resubmit" /\ pos' = pos /\ Core(e)
  BY EntryCore DEF Resubmitted
<1>2. CASE \E k \in Nat : Land(e.makerLeg, Quantity, Stage(k), TRUE) /\ Leave(Accepted(k))
  BY <1>1, <1>2, AcceptedStays
<1>3. CASE \E k \in Nat : Land(e.makerLeg, Quantity, Stage(k), FALSE) /\ Leave(e)
  BY <1>1, <1>3, LostStays
<1>4. CASE (Leave(e) \/ Finalize(e)) /\ orders' = orders
  <2>1. Proceeds
    BY <1>1, <1>4, LeaveProceeds, FinalizeProceeds
  <2> QED BY <1>1, <1>4, <2>1, ProceedsStill
<1> QED BY <1>2, <1>3, <1>4, Submissions

-----------------------------------------------------------------------------
(* Reconciliation. *)

LEMMA ReconcileStays == ASSUME Inductive, Untouched, Reconcile PROVE Stays
<1>1. /\ orders' = orders /\ pos' = pos
      /\ \/ Release(e, "none") \/ ReadLegs(e)
         \/ Await(e, "longOrders", "abandon", "none") \/ Await(e, "unresolved", "abandon", "none")
  BY DEF Reconcile, venue
<1>2. Proceeds
  BY <1>1, EntryCore, ReleaseProceeds, ReadLegsProceeds, AwaitProceeds DEF Special
<1> QED BY <1>1, <1>2, ProceedsStill

LEMMA UnresolvedAnsweredStays ==
  ASSUME Inductive, Untouched, UnresolvedAnswered
  PROVE  Stays
<1>1. /\ orders' = orders /\ pos' = pos
      /\ Kept(e) \/ Leave(e) \/ Finalize(e) \/ Await(e, "longOrders", goal, "none")
  BY DEF UnresolvedAnswered, venue
<1>2. e.hedge = 0 => goal # "ceiling"
  BY DEF Untouched, Unhedged
<1>3. Proceeds
  BY <1>1, <1>2, EntryCore, KeptProceeds, LeaveProceeds, FinalizeProceeds, AwaitProceeds
  DEF Special
<1> QED BY <1>1, <1>3, ProceedsStill

LEMMA FillReadStays ==
  ASSUME Inductive, OneOrder, Untouched, NEW here, NEW leg \in Legs, NEW next, next \notin Special,
         FillRead(here, leg, next)
  PROVE  Stays
<1> DEFINE u == [e EXCEPT !.uncertain = TRUE]
           h == hedges[HedgeReference]
           hedged == [probe EXCEPT !.fill[leg] = h]
           over(i) == ~orders[i].live /\ orders[i].fill = 0
           noted(i) == [probe EXCEPT !.fill[leg] = orders[i].fill, !.ended = over(i)]
<1>1. orders' = orders /\ pos' = pos
  BY DEF FillRead, venue
<1>2. \/ Leave(e) \/ Leave(u)
      \/ pc' = next /\ UNCHANGED <<e, cont, goal, probe>>
      \/ /\ leg = e.makerLeg /\ pc' = next /\ UNCHANGED <<e, cont, goal>>
         /\ \E i \in Identified(e) : probe' = noted(i)
      \/ leg # e.makerLeg /\ pc' = next /\ UNCHANGED <<e, cont, goal>> /\ probe' = hedged
  BY Zenon DEF FillRead
<1>3. Core(e) /\ Core(u) /\ e \in Entry /\ probe \in Probe /\ e.makerLeg \in Legs
  BY TypeFacts, EntryCore, FlagsCore, FieldTypes
<1>4. leg # e.makerLeg => hedged.ended = probe.ended
                          /\ hedged.fill[e.makerLeg] = probe.fill[e.makerLeg]
  <2> HIDE DEF h
  <2> QED BY <1>3 DEF Probe
<1>5. ASSUME NEW i \in Identified(e), leg = e.makerLeg
      PROVE  /\ noted(i).fill[e.makerLeg] = FillOf(e)
             /\ noted(i).ended => FillOf(e) = 0
  <2> DEFINE f == orders[i].fill
             o == over(i)
  <2>1. f = FillOf(e) /\ (o => f = 0)
    BY <1>5 DEF Identified, OneOrder, FillOf
  <2>2. [probe EXCEPT !.fill[leg] = f, !.ended = o].ended = o
        /\ [probe EXCEPT !.fill[leg] = f, !.ended = o].fill[leg] = f
    <3> HIDE DEF f, o
    <3> QED BY <1>3 DEF Probe
  <2> QED BY <1>5, <2>1, <2>2
<1> HIDE DEF u, hedged, noted
<1>6. CASE Leave(e) \/ Leave(u)
  <2>1. Proceeds
    BY <1>3, <1>6, LeaveProceeds
  <2> QED BY <1>1, <2>1, ProceedsStill
<1>7. CASE pc' = next /\ UNCHANGED <<e, cont, goal, probe>>
  <2>1. ReadsFill'
    BY <1>1, <1>7, SameFill
  <2> QED BY <1>1, <1>7, <2>1, NotedStay
<1>8. CASE /\ leg = e.makerLeg /\ pc' = next /\ UNCHANGED <<e, cont, goal>>
           /\ \E i \in Identified(e) : probe' = noted(i)
  <2>1. ReadsFill'
    BY <1>1, <1>5, <1>8 DEF ReadsFill, FillOf
  <2> QED BY <1>1, <1>8, <2>1, NotedStay
<1>9. CASE leg # e.makerLeg /\ pc' = next /\ UNCHANGED <<e, cont, goal>> /\ probe' = hedged
  <2>1. ReadsFill'
    BY <1>1, <1>4, <1>9, SameFill
  <2> QED BY <1>1, <1>9, <2>1, NotedStay
<1> QED BY <1>2, <1>6, <1>7, <1>8, <1>9

LEMMA LongLiveStays == ASSUME Inductive, Untouched, LongLive PROVE Stays
<1> DEFINE here == pos["long"]
           p == [probe EXCEPT !.live["long"] = here]
<1>1. orders' = orders /\ pos' = pos
  BY DEF LongLive, venue
<1>2. Leave(e) \/ (probe' = p /\ pc' = "shortFill" /\ UNCHANGED <<e, goal>>)
  BY Zenon DEF LongLive
<1>3. p.ended = probe.ended /\ p.fill = probe.fill
  <2> HIDE DEF here
  <2> QED BY TypeFacts DEF Probe
<1> HIDE DEF p
<1>4. CASE Leave(e)
  <2>1. Proceeds
    BY <1>4, EntryCore, LeaveProceeds
  <2> QED BY <1>1, <2>1, ProceedsStill
<1>5. CASE probe' = p /\ pc' = "shortFill" /\ UNCHANGED <<e, goal>>
  <2>1. ReadsFill'
    BY <1>1, <1>3, <1>5, SameFill
  <2> QED BY <1>1, <1>5, <2>1, NotedStay DEF Special
<1> QED BY <1>2, <1>4, <1>5

\* What is taken over of a fill or a position is owed to the order, or hedged.
LEMMA RaisedCore ==
  ASSUME NEW n, Core(n), NEW leg, NEW q \in Nat, NEW id \in Nat,
         leg = e.makerLeg /\ q > 0 => FillOf(e) > 0
  PROVE  Core(Raised(n, leg, q, id))
<1> DEFINE m == [n EXCEPT !.maker = q]
<1>1. n \in Entry /\ n.makerLeg = e.makerLeg /\ n.order = e.order /\ n.maker \in Nat
  BY FieldTypes DEF Core
<1>2. /\ m.order = n.order /\ m.makerLeg = n.makerLeg /\ m.base = n.base /\ m.qty = n.qty
      /\ m.hedge = n.hedge /\ m.maker = q /\ m.retry = n.retry
      /\ m.phase = n.phase /\ m.cycles = n.cycles
  BY <1>1 DEF Entry
<1>3. m \in Entry
  BY <1>1, FieldUpdates
<1>4. \/ Raised(n, leg, q, id) = n
      \/ leg = n.makerLeg /\ q > n.maker /\ Raised(n, leg, q, id) = m
      \/ Raised(n, leg, q, id) = HedgeProgress(n, q, id)
  BY DEF Raised
<1> HIDE DEF m
<1>5. ASSUME leg = n.makerLeg, q > n.maker PROVE Core(m)
  <2>1. FillOf(e) > 0 /\ q > 0
    BY <1>1, <1>5
  <2>2. FillOf(m) = FillOf(e) /\ FillOf(n) = FillOf(e)
    BY <1>1, <1>2 DEF FillOf
  <2>3. n.hedge = 0 => Clean(m)
    BY <1>2, <2>1, <2>2 DEF Core, Clean
  <2> QED BY <1>1, <1>2, <1>3, <2>3 DEF Core
<1> QED BY <1>4, <1>5, HedgeProgressCore

\* An end without a fill takes nothing from an entry without a hedge.
LEMMA CorrectedCore ==
  ASSUME Inductive, Untouched, NEW live
  PROVE  Core(Corrected(e, live))
<1> DEFINE c == [e EXCEPT !.maker = 0, !.slices = 0, !.done = TRUE]
<1>1. Core(e) /\ e \in Entry
  BY EntryCore, TypeFacts
<1>2. Corrected(e, live) \in Entry
  BY CorrectedTyped DEF Refers
<1>3. c.order = e.order /\ c.makerLeg = e.makerLeg /\ c.hedge = e.hedge
  BY <1>1 DEF Entry
<1>4. \/ Corrected(e, live) = e
      \/ probe.ended /\ (e.maker > 0 \/ e.slices > 0) /\ Corrected(e, live) = c
  BY Zenon DEF Corrected
<1> HIDE DEF c
<1>5. probe.ended /\ (e.maker > 0 \/ e.slices > 0) => e.hedge > 0
  <2>1. e.hedge \in Nat /\ e.maker \in Nat /\ e.slices \in Nat
    BY <1>1, FieldTypes
  <2> QED BY <2>1 DEF Untouched, Unhedged, ReadsFill, Clean
<1> QED BY <1>1, <1>2, <1>3, <1>4, <1>5, HedgedCore

LEMMA TakenCore ==
  ASSUME Inductive, Untouched, NEW live \in [Legs -> Nat]
  PROVE  Core(Taken(live))
<1>1. ASSUME NEW n, Core(n), NEW leg \in Legs PROVE Core(FillTaken(n, leg))
  <2>1. probe.fill[leg] \in Nat /\ HedgeReference \in Nat
    BY TypeFacts, ProbeUpdates, HedgeFillTyped
  <2>2. leg = e.makerLeg /\ probe.fill[leg] > 0 => FillOf(e) > 0
    BY DEF Untouched, ReadsFill
  <2> QED BY <1>1, <2>1, <2>2, RaisedCore DEF FillTaken
<1>2. ASSUME NEW n, Core(n), NEW leg \in Legs PROVE Core(PositionTaken(n, leg, live))
  <2>1. live[leg] \in Nat /\ n.hedgeId \in Nat /\ n.makerLeg = e.makerLeg
    BY <1>2, FieldTypes DEF Core
  <2>2. CASE leg = n.makerLeg /\ probe.fill[leg] = 0
    BY <1>2, <2>2 DEF PositionTaken
  <2>3. CASE ~(leg = n.makerLeg /\ probe.fill[leg] = 0)
    <3>1. leg = e.makerLeg => FillOf(e) > 0
      <4>1. probe.fill[leg] \in Nat
        BY TypeFacts, ProbeUpdates
      <4> QED BY <2>1, <2>3, <4>1 DEF Untouched, ReadsFill
    <3> QED BY <1>2, <2>1, <2>3, <3>1, RaisedCore DEF PositionTaken
  <2> QED BY <2>2, <2>3
<1>3. "long" \in Legs /\ "short" \in Legs
  BY DEF Legs
<1> DEFINE a == FillTaken(Corrected(e, live), "long")
           b == FillTaken(a, "short")
           c == PositionTaken(b, "long", live)
<1>4. Core(a)
  BY <1>1, <1>3, CorrectedCore
<1>5. Core(b)
  <2> HIDE DEF a
  <2> QED BY <1>1, <1>3, <1>4
<1>6. Core(c)
  <2> HIDE DEF b
  <2> QED BY <1>2, <1>3, <1>5
<1>7. Taken(live) = PositionTaken(c, "short", live)
  BY DEF Taken
<1> HIDE DEF c
<1> QED BY <1>2, <1>3, <1>6, <1>7

\* An entry that has filled nothing but has seen its order end is complete: the
\* hard ceiling finds an entry with a hedge.
LEMMA ForceTerminalProceeds ==
  ASSUME NEW n, Core(n), ForceTerminal(n), ~(MissingHedge(n) = 0 /\ MakerCompleted(n))
  PROVE  Proceeds
<1>1. n \in Entry /\ n.hedge \in Nat /\ n.maker \in Nat /\ n.slices \in Nat
  BY FieldTypes DEF Core
<1>2. CASE ForceResting(n)
  <2> DEFINE s == [n EXCEPT !.cancel = TRUE]
             m(x) == [n EXCEPT !.cancel = n.cancel \/ x]
  <2>1. ~n.done
    BY <1>2 DEF ForceResting, MakerCompleted
  <2>2. Core(s) /\ s.done = n.done
    BY <1>1, <2>1, CancelCore DEF Abortable, Entry
  <2>3. ASSUME NEW x \in BOOLEAN PROVE Core(m(x)) /\ ~m(x).done
    <3>1. CASE n.cancel \/ x
      <4>1. m(x) = s
        BY <3>1
      <4> QED BY <2>1, <2>2, <4>1, Zenon
    <3>2. CASE ~(n.cancel \/ x)
      <4>1. (n.cancel \/ x) = n.cancel
        BY <1>1, <3>2, FieldTypes
      <4>2. [n EXCEPT !.cancel = n.cancel] = n
        BY <1>1 DEF Entry
      <4> QED BY <2>1, <4>1, <4>2
    <3> QED BY <3>1, <3>2
  <2>4. Leave(s) \/ \E x \in BOOLEAN : Finalize(m(x)) \/ Abort(m(x), "none")
    BY <1>2, Zenon DEF ForceResting
  <2> HIDE DEF s, m
  <2>5. CASE Leave(s)
    BY <2>2, <2>5, LeaveProceeds
  <2>6. ASSUME NEW x \in BOOLEAN, Finalize(m(x)) \/ Abort(m(x), "none")
        PROVE  Proceeds
    BY <2>3, <2>6, FinalizeProceeds, AbortProceeds DEF Abortable
  <2> QED BY <2>4, <2>5, <2>6
<1>3. CASE ForceCompleted(n)
  <2>1. \/ Await(n, "unresolved", "forced", "none")
        \/ ~HasAnyFill(n) /\ Await(n, "unresolved", "ceiling", "none")
        \/ Leave(n) \/ (HasAnyFill(n) /\ Abort(n, "none"))
    BY <1>3 DEF ForceCompleted
  <2>2. HasAnyFill(n)
    <3>1. SUFFICES ASSUME ~HasAnyFill(n) PROVE MissingHedge(n) = 0
      BY <1>3 DEF ForceCompleted
    <3>2. n.hedge = 0 /\ n.maker = 0 /\ n.slices = 0
      BY <1>1, <3>1 DEF HasAnyFill, Core, Clean
    <3> QED BY <3>2, QuantityAssumption DEF MissingHedge, Most, Least
  <2>3. Abortable(n)
    BY <1>1, <2>2 DEF HasAnyFill, Abortable
  <2> QED BY <2>1, <2>2, <2>3, AwaitProceeds, LeaveProceeds, AbortProceeds DEF Special
<1> QED BY <1>2, <1>3 DEF ForceTerminal

LEMMA ExposedDecisionProceeds ==
  ASSUME NEW n, Core(n), ExposedDecision(n), ~(MissingHedge(n) = 0 /\ MakerCompleted(n))
  PROVE  Proceeds
<1> DEFINE m == [n EXCEPT !.repair = TRUE]
<1>1. Core(m)
  BY FlagsCore
<1>2. \/ n.inflight /\ Abort(n, "none")
      \/ ForceTerminal(n) \/ Finalize(m) \/ DriveHedge(n, "none") \/ Leave(n)
  BY Zenon DEF ExposedDecision
<1> HIDE DEF m
<1>3. n.inflight => Abortable(n)
  <2>1. n.maker \in Nat
    BY FieldTypes DEF Core
  <2> QED BY <2>1 DEF Core, Clean, Abortable
<1> QED BY <1>1, <1>2, <1>3, FinalizeProceeds, AbortProceeds, DriveHedgeProceeds,
           ForceTerminalProceeds, LeaveProceeds

LEMMA CleanupProceeds ==
  ASSUME NEW n, Core(n), NEW live, e' = n, pc' \notin Special, goal' # "ceiling",
         probe' = [NoProbe EXCEPT !.live = live]
  PROVE  Proceeds
BY DEF Proceeds, NoProbe, Nothing, Special

\* A hedge the reads deny is no longer in flight.
LEMMA ClearedCore ==
  ASSUME NEW n, Core(n), NEW m, m = [n EXCEPT !.inflight = FALSE]
  PROVE  /\ Core(m)
         /\ MissingHedge(m) = MissingHedge(n) /\ MakerCompleted(m) = MakerCompleted(n)
<1>1. n \in Entry
  BY DEF Core
<1>2. /\ m.order = n.order /\ m.makerLeg = n.makerLeg /\ m.base = n.base /\ m.qty = n.qty
      /\ m.maker = n.maker /\ m.hedge = n.hedge /\ m.slices = n.slices
      /\ ~m.inflight /\ m.cancel = n.cancel /\ m.done = n.done /\ m.retry = n.retry
      /\ m.phase = n.phase /\ m.cycles = n.cycles
  BY <1>1 DEF Entry
<1>3. m \in Entry
  BY <1>1, FlagUpdates
<1>4. FillOf(m) = FillOf(n)
  BY <1>2 DEF FillOf
<1>5. n.hedge = 0 => Clean(m)
  BY <1>2, <1>4 DEF Core, Clean
<1>6. MissingHedge(m) = MissingHedge(n)
  BY <1>2 DEF MissingHedge
<1>7. MakerCompleted(m) = MakerCompleted(n)
  BY <1>2 DEF MakerCompleted
<1> QED BY <1>2, <1>3, <1>5, <1>6, <1>7 DEF Core

LEMMA DecideProceeds ==
  ASSUME Inductive, Untouched, NEW live \in [Legs -> Nat], Decide(live)
  PROVE  Proceeds
<1>1. PICK n : n = Taken(live)
  OBVIOUS
<1>2. PICK m : m = [n EXCEPT !.inflight = FALSE]
  OBVIOUS
<1>3. Core(n)
  BY <1>1, TakenCore
<1>4. InflightCleared(n, live) \subseteq {n, m}
  BY <1>2 DEF InflightCleared
<1> DEFINE complete == MissingHedge(n) = 0 /\ MakerCompleted(n)
<1>5. \/ /\ e' = n /\ pc' = "longOrders" /\ goal' = "cleanup"
         /\ probe' = [NoProbe EXCEPT !.live = live]
      \/ Finalize(n)
      \/ /\ ~complete
         /\ ForceTerminal(n) \/ FlatDecision(n)
            \/ \E k \in InflightCleared(n, live) : ExposedDecision(k)
  BY <1>1, Zenon DEF Decide
<1> HIDE DEF complete
<1>6. CASE /\ e' = n /\ pc' = "longOrders" /\ goal' = "cleanup"
           /\ probe' = [NoProbe EXCEPT !.live = live]
  BY <1>3, <1>6, CleanupProceeds DEF Special
<1>7. CASE Finalize(n) \/ FlatDecision(n)
  BY <1>3, <1>7, FinalizeProceeds, ReleaseProceeds, LeaveProceeds DEF FlatDecision
<1>8. CASE ~complete /\ ForceTerminal(n)
  BY <1>3, <1>8, ForceTerminalProceeds DEF complete
<1>9. ASSUME ~complete, NEW k \in {n, m}, ExposedDecision(k) PROVE Proceeds
  BY <1>2, <1>3, <1>9, ClearedCore, ExposedDecisionProceeds DEF complete
<1> QED BY <1>4, <1>5, <1>6, <1>7, <1>8, <1>9

LEMMA ShortLiveStays == ASSUME Inductive, Untouched, ShortLive PROVE Stays
<1> DEFINE live == [probe.live EXCEPT !["short"] = pos["short"]]
<1>1. live \in [Legs -> Nat]
  BY TypeFacts, ProbeUpdates DEF Legs
<1>2. (Leave(e) \/ Decide(live)) /\ orders' = orders /\ pos' = pos
  BY DEF ShortLive, venue
<1> HIDE DEF live
<1>3. Proceeds
  BY <1>1, <1>2, EntryCore, LeaveProceeds, DecideProceeds
<1> QED BY <1>2, <1>3, ProceedsStill

-----------------------------------------------------------------------------
(* Release. *)

LEMMA MakerDetailsStays == ASSUME Inductive, OneOrder, Untouched, MakerDetails PROVE Stays
<1>1. /\ pc' = "hedgeDetails" /\ goal' = goal /\ orders' = orders /\ pos' = pos
      /\ Core(e) /\ e \in Entry /\ e.makerLeg \in Legs
  BY TypeFacts, EntryCore, FieldTypes, Zenon DEF MakerDetails, venue
<1>2. CASE e' = e /\ probe' = NoProbe
  <2>1. ReadsFill'
    BY <1>1, <1>2, BlankFill DEF NoProbe, Nothing
  <2> QED BY <1>1, <1>2, <2>1, NotedStay DEF Special
<1>3. ASSUME NEW i \in Identified(e),
             \/ /\ orders[i].fill > 0
                /\ e' = [e EXCEPT !.maker = orders[i].fill, !.named = i] /\ probe' = NoProbe
             \/ /\ orders[i].fill = 0
                /\ e' = e /\ probe' = [NoProbe EXCEPT !.ended = ~orders[i].live]
      PROVE  Stays
  <2> DEFINE q == orders[i].fill
             k == [e EXCEPT !.maker = q]
             m == [k EXCEPT !.named = i]
             ended == ~orders[i].live
             p == [NoProbe EXCEPT !.ended = ended]
  <2>1. i = e.order /\ i \in DOMAIN orders /\ i \in Nat
    BY TypeFacts DEF Identified, OneOrder
  <2>2. q = FillOf(e) /\ q \in Nat
    BY <2>1, TypeFacts, OrderUpdates DEF FillOf
  <2>3. /\ m.order = e.order /\ m.makerLeg = e.makerLeg /\ m.base = e.base /\ m.qty = e.qty
        /\ m.maker = q /\ m.hedge = e.hedge /\ m.retry = e.retry
        /\ m.phase = e.phase /\ m.cycles = e.cycles
    <3> HIDE DEF q
    <3> QED BY <1>1 DEF Entry
  <2>4. m \in Entry
    <3>1. k \in Entry
      <4> HIDE DEF q
      <4> QED BY <1>1, <2>2, FieldUpdates
    <3> HIDE DEF k
    <3> QED BY <2>1, <3>1, FieldUpdates
  <2>5. p.fill = Nothing
    <3> HIDE DEF ended
    <3> QED BY DEF NoProbe
  <2>6. (q > 0 /\ e' = m /\ probe' = NoProbe) \/ (q = 0 /\ e' = e /\ probe' = p)
    BY <1>3, Zenon
  <2> HIDE DEF m, k, p, q
  <2>7. CASE q > 0 /\ e' = m /\ probe' = NoProbe
    <3>1. FillOf(m) = FillOf(e)
      BY <2>3 DEF FillOf
    <3>2. e.hedge = 0 => Clean(m)
      BY <1>1, <2>2, <2>3, <2>7, <3>1 DEF Core, Clean
    <3>3. Core(m)
      BY <2>3, <2>4, <3>2 DEF Core
    <3>4. m.hedge = 0 => goal # "ceiling"
      BY <2>3 DEF Untouched, Unhedged
    <3>5. Proceeds
      BY <1>1, <2>7, <3>3, <3>4 DEF Proceeds, NoProbe, Nothing
    <3> QED BY <1>1, <3>5, ProceedsStill
  <2>8. CASE q = 0 /\ e' = e /\ probe' = p
    <3>1. ReadsFill'
      BY <1>1, <2>2, <2>5, <2>8 DEF ReadsFill, FillOf, Nothing
    <3> QED BY <1>1, <2>8, <3>1, NotedStay DEF Special
  <2> QED BY <2>6, <2>7, <2>8
<1> QED BY <1>2, <1>3 DEF MakerDetails

LEMMA HedgeDetailsStays == ASSUME Inductive, Untouched, HedgeDetails PROVE Stays
<1>1. PICK f \in {0} \cup {hedges[i] : i \in {HedgeReference} \cap DOMAIN hedges} :
        LET n == IF f > 0 THEN [e EXCEPT !.hedge = f, !.hedgeId = HedgeReference] ELSE e
        IN \/ Await(n, "longOrders", "finalize", "none")
           \/ Leave([n EXCEPT !.uncertain = TRUE])
  BY Zenon DEF HedgeDetails
<1> DEFINE id == HedgeReference
           h == [e EXCEPT !.hedge = f]
           m == [h EXCEPT !.hedgeId = id]
           n == IF f > 0 THEN m ELSE e
           u == [n EXCEPT !.uncertain = TRUE]
<1>2. f \in Nat /\ id \in Nat /\ Core(e) /\ e \in Entry
  BY HedgeFillTyped, TypeFacts, EntryCore
<1>3. f > 0 => Core(m)
  <2>1. h \in Entry
    BY <1>2, FieldUpdates
  <2>2. m \in Entry
    <3> HIDE DEF h, id
    <3> QED BY <1>2, <2>1, FieldUpdates
  <2>3. m.order = e.order /\ m.makerLeg = e.makerLeg /\ m.hedge = f
    <3> HIDE DEF id
    <3> QED BY <1>2 DEF Entry
  <2> HIDE DEF m
  <2> QED BY <1>2, <2>2, <2>3, HedgedCore
<1>4. Core(n)
  <2> HIDE DEF m
  <2> QED BY <1>2, <1>3
<1>5. Await(n, "longOrders", "finalize", "none") \/ Leave(u)
  BY <1>1, Zenon
<1>6. orders' = orders /\ pos' = pos
  BY DEF HedgeDetails, venue
<1> HIDE DEF n
<1>7. Core(u)
  BY <1>4, FlagsCore
<1> HIDE DEF u
<1>8. Proceeds
  BY <1>4, <1>5, <1>7, AwaitProceeds, LeaveProceeds DEF Special
<1> QED BY <1>6, <1>8, ProceedsStill

LEMMA OrdersAnsweredStays ==
  ASSUME Inductive, Untouched, NEW here, NEW leg, NEW next, next \notin Special,
         OrdersAnswered(here, leg, next)
  PROVE  Stays
<1>1. /\ orders' = orders /\ pos' = pos
      /\ Deferred \/ Kept(e) \/ (pc' = next /\ UNCHANGED <<e, cont, goal, probe>>)
  BY DEF OrdersAnswered, venue
<1>2. CASE Deferred \/ Kept(e)
  <2>1. Proceeds
    BY <1>2, EntryCore, DeferredProceeds, KeptProceeds
  <2> QED BY <1>1, <2>1, ProceedsStill
<1>3. CASE pc' = next /\ UNCHANGED <<e, cont, goal, probe>>
  <2>1. ReadsFill'
    BY <1>1, <1>3, SameFill
  <2> QED BY <1>1, <1>3, <2>1, NotedStay
<1> QED BY <1>1, <1>2, <1>3

LEMMA LongPositionStays == ASSUME Inductive, Untouched, LongPosition PROVE Stays
<1> DEFINE here == pos["long"]
           p == [probe EXCEPT !.live["long"] = here]
<1>1. orders' = orders /\ pos' = pos
  BY DEF LongPosition, venue
<1>2. Deferred \/ (probe' = p /\ pc' = "shortPosition" /\ UNCHANGED <<e, goal>>)
  BY DEF LongPosition
<1>3. p.ended = probe.ended /\ p.fill = probe.fill
  <2> HIDE DEF here
  <2> QED BY TypeFacts DEF Probe
<1> HIDE DEF p
<1>4. CASE Deferred
  BY <1>1, <1>4, DeferredProceeds, ProceedsStill
<1>5. CASE probe' = p /\ pc' = "shortPosition" /\ UNCHANGED <<e, goal>>
  <2>1. ReadsFill'
    BY <1>1, <1>3, <1>5, SameFill
  <2> QED BY <1>1, <1>5, <2>1, NotedStay DEF Special
<1> QED BY <1>2, <1>4, <1>5

LEMMA ShortPositionStays == ASSUME Inductive, Untouched, ShortPosition PROVE Stays
<1> DEFINE live == [probe.live EXCEPT !["short"] = pos["short"]]
           u == [e EXCEPT !.uncertain = TRUE]
<1>1. orders' = orders /\ pos' = pos
  BY DEF ShortPosition, venue
<1>2. Core(u) /\ Core(e)
  BY EntryCore, FlagsCore
<1>3. \/ Deferred \/ FinalizeOn(live) \/ ReleaseOn(live) \/ RecheckOn(live) \/ AbandonOn(live)
  BY DEF ShortPosition
<1> HIDE DEF live
<1>4. \/ Deferred \/ Release(e, "none") \/ Kept(e)
      \/ Resume(e, "none") \/ Resume(e, cont) \/ Resume(u, cont)
      \/ CleanupOrKeep(e, live) \/ CleanupOrKeep(u, live)
      \/ Leave(e) \/ Leave(u)
  <2>1. CASE FinalizeOn(live)
    BY <2>1, Zenon DEF FinalizeOn, Remove, HandOff
  <2>2. CASE ReleaseOn(live)
    BY <2>2, Zenon DEF ReleaseOn, Remove
  <2>3. CASE RecheckOn(live) \/ AbandonOn(live)
    BY <2>3, Zenon DEF RecheckOn, AbandonOn, Remove
  <2> QED BY <1>3, <2>1, <2>2, <2>3
<1> HIDE DEF u
<1>5. ASSUME NEW n \in {e, u}, CleanupOrKeep(n, live) PROVE Proceeds
  <2>1. \/ Leave(n)
        \/ /\ e' = n /\ pc' = "cleanup" /\ goal' = "cleanup"
           /\ probe' = [NoProbe EXCEPT !.live = live]
    BY <1>5 DEF CleanupOrKeep
  <2> QED BY <1>2, <2>1, LeaveProceeds, CleanupProceeds DEF Special
<1>6. Proceeds
  BY <1>2, <1>4, <1>5, DeferredProceeds, ReleaseProceeds, KeptProceeds, ResumeProceeds,
     LeaveProceeds
<1> QED BY <1>1, <1>6, ProceedsStill

\* A flatten only takes from a position.
LEMMA FlattenEmpty ==
  ASSUME Inductive, Untouched, NEW leg \in Legs, NEW flat, Flatten(leg, flat)
  PROVE  orders' = orders /\ (Explained => Explained')
<1>1. PICK q \in 0..pos[leg] : pos' = [pos EXCEPT ![leg] = q]
  BY DEF Flatten
<1>2. pos \in [Legs -> Nat] /\ orders' = orders
  BY TypeFacts DEF Flatten
<1>3. (pos[leg] = 0 => pos'[leg] = 0) /\ \A o \in Legs : o # leg => pos'[o] = pos[o]
  BY <1>1, <1>2
<1>4. \A o \in Legs : Unanswered(o)' = Unanswered(o)
  BY <1>2 DEF Unanswered
<1> QED BY <1>2, <1>3, <1>4 DEF Explained

LEMMA FlattenProceeds ==
  ASSUME Inductive, Untouched, NEW leg \in Legs, NEW flat, Flatten(leg, flat), Proceeds
  PROVE  Stays
<1>1. e'.hedge = 0 => e.hedge = 0
  BY DEF Proceeds, Core
<1> QED BY <1>1, FlattenEmpty, ProceedsStay DEF Untouched, Unhedged

LEMMA CleanupLegStays == ASSUME Inductive, Untouched, CleanupLeg PROVE Stays
<1>1. PICK leg \in Legs, flat \in BOOLEAN :
        /\ Flatten(leg, flat)
        /\ IF flat THEN Await(e, "longOrders", "recheck", "none") ELSE Leave(e)
  BY Zenon DEF CleanupLeg
<1>2. Proceeds
  BY <1>1, EntryCore, AwaitProceeds, LeaveProceeds DEF Special
<1> QED BY <1>1, <1>2, FlattenProceeds

LEMMA AbortOrderStays == ASSUME Inductive, Untouched, AbortOrder PROVE Stays
<1>1. /\ orders' = orders /\ pos' = pos
      /\ Kept(e) \/ (pc' = "longOrders" /\ UNCHANGED <<e, goal, probe>>)
  BY DEF AbortOrder, venue
<1>2. CASE Kept(e)
  <2>1. Proceeds
    BY <1>2, EntryCore, KeptProceeds
  <2> QED BY <1>1, <2>1, ProceedsStill
<1>3. CASE pc' = "longOrders" /\ UNCHANGED <<e, goal, probe>>
  <2>1. ReadsFill'
    BY <1>1, <1>3, SameFill
  <2> QED BY <1>1, <1>3, <2>1, NotedStay DEF Special
<1> QED BY <1>1, <1>2, <1>3

LEMMA FlattenFirstStays ==
  ASSUME Inductive, Untouched, NEW here, NEW next, next \notin Special, FlattenFirst(here, next)
  PROVE  Stays
<1>1. PICK flat \in BOOLEAN :
        Flatten(e.makerLeg, flat) /\ probe' = [NoProbe EXCEPT !.clean = flat]
  BY Zenon DEF FlattenFirst
<1>2. pc' = next /\ e' = e /\ goal' = goal
  BY DEF FlattenFirst
<1>3. probe'.fill = Nothing /\ ~probe'.ended
  BY <1>1 DEF NoProbe
<1>4. Core(e) /\ (e.hedge = 0 => goal # "ceiling")
  BY EntryCore DEF Untouched, Unhedged
<1>5. Proceeds
  BY <1>2, <1>3, <1>4 DEF Proceeds, Special, Nothing
<1> QED BY <1>1, <1>5, LegTyped, FlattenProceeds

LEMMA FlattenHedgeStays == ASSUME Inductive, Untouched, FlattenHedge PROVE Stays
<1>1. PICK flat \in BOOLEAN :
        /\ Flatten(Other(e.makerLeg), flat)
        /\ Release(e, cont) \/ Await(e, "stopMaker", "abort", cont)
  BY Zenon DEF FlattenHedge
<1>2. Proceeds
  BY <1>1, EntryCore, ReleaseProceeds, AwaitProceeds DEF Special
<1> QED BY <1>1, <1>2, LegTyped, FlattenProceeds

LEMMA StopHedgeStays == ASSUME Inductive, Untouched, StopHedge PROVE Stays
<1>1. PICK flat \in BOOLEAN :
        Flatten(Other(e.makerLeg), flat) /\ (Release(e, cont) \/ Kept(e))
  BY Zenon DEF StopHedge
<1>2. Proceeds
  BY <1>1, EntryCore, ReleaseProceeds, KeptProceeds
<1> QED BY <1>1, <1>2, LegTyped, FlattenProceeds

-----------------------------------------------------------------------------
(* The venues: only a live order fills, which is the entry's or one whose    *)
(* answer was lost.                                                          *)

\* What a step of the venues does to an order.
LEMMA VenueStep ==
  ASSUME Inductive, NEW i, MakerFills(i) \/ MakerEnds(i)
  PROVE  /\ i \in DOMAIN orders /\ orders[i].live /\ orders[i].fill \in Nat
         /\ DOMAIN orders' = DOMAIN orders
         /\ \A j \in DOMAIN orders : j # i => orders'[j] = orders[j]
         /\ orders'[i].leg = orders[i].leg /\ orders'[i].acked = orders[i].acked
         /\ \/ /\ orders'[i].fill = orders[i].fill + 1
               /\ \A leg \in Legs : leg # orders[i].leg => pos'[leg] = pos[leg]
            \/ orders'[i].fill = orders[i].fill /\ pos' = pos
<1>1. /\ i \in DOMAIN orders /\ orders[i].live /\ orders[i] \in Order
      /\ orders \in Seq(Order) /\ pos \in [Legs -> Nat]
  BY TypeFacts DEF MakerFills, MakerEnds
<1>2. orders[i].fill \in Nat
  BY <1>1, OrderUpdates
<1>3. CASE MakerFills(i)
  <2> DEFINE f == orders[i].fill + 1
             b == f < orders[i].qty
             o == [orders[i] EXCEPT !.fill = f, !.live = b]
             at == orders[i].leg
             more == pos[at] + 1
  <2>1. orders' = [orders EXCEPT ![i] = o]
    BY <1>3, Zenon DEF MakerFills
  <2>2. o.leg = orders[i].leg /\ o.acked = orders[i].acked /\ o.fill = f
    <3> HIDE DEF f, b
    <3> QED BY <1>1 DEF Order
  <2>3. pos' = [pos EXCEPT ![at] = more]
    BY <1>3 DEF MakerFills
  <2> HIDE DEF o, more
  <2>4. \A leg \in Legs : leg # at => pos'[leg] = pos[leg]
    BY <1>1, <2>3
  <2> QED BY <1>1, <1>2, <2>1, <2>2, <2>4
<1>4. CASE MakerEnds(i)
  <2> DEFINE o == [orders[i] EXCEPT !.live = FALSE]
  <2>1. orders' = [orders EXCEPT ![i] = o] /\ pos' = pos
    BY <1>1, <1>4 DEF MakerEnds
  <2>2. o.leg = orders[i].leg /\ o.acked = orders[i].acked /\ o.fill = orders[i].fill
    BY <1>1 DEF Order
  <2> HIDE DEF o
  <2> QED BY <1>1, <1>2, <2>1, <2>2
<1> QED BY <1>3, <1>4

\* An order that has filled stays one.
LEMMA UnansweredStays ==
  ASSUME Inductive, NEW i, MakerFills(i) \/ MakerEnds(i), NEW leg, Unanswered(leg)
  PROVE  Unanswered(leg)'
<1>1. PICK j \in DOMAIN orders : orders[j].leg = leg /\ ~orders[j].acked /\ orders[j].fill > 0
  BY DEF Unanswered
<1>2. j \in DOMAIN orders' /\ orders'[j].leg = leg /\ ~orders'[j].acked
  BY <1>1, VenueStep
<1>3. orders'[j].fill > 0
  BY <1>1, VenueStep
<1> QED BY <1>2, <1>3 DEF Unanswered

LEMMA VenueStays ==
  ASSUME Inductive, OneOrder, Untouched, NEW i, MakerFills(i) \/ MakerEnds(i)
  PROVE  Stays
<1>1. UNCHANGED <<e, pc, goal, probe>>
  BY DEF MakerFills, MakerEnds
<1>2. /\ i \in DOMAIN orders /\ orders[i].live /\ orders[i].fill \in Nat
      /\ e.order \in DOMAIN orders
  BY VenueStep, TypeFacts
<1>3. CASE i = e.order
  <2>1. ~e.done /\ ~probe.ended
    BY <1>2, <1>3 DEF OneOrder, DoneIsEnded
  <2>2. FillOf(e)' = orders'[i].fill /\ FillOf(e) = orders[i].fill
    BY <1>1, <1>3 DEF FillOf
  <2>3. e.hedge = 0 => OthersEmpty'
    BY <1>1, <1>3, VenueStep DEF Untouched, Unhedged, OthersEmpty
  <2>4. CASE orders'[i].fill = orders[i].fill + 1
    <3>1. FillOf(e)' > 0
      BY <1>2, <2>2, <2>4
    <3>2. e.hedge = 0 => Clean(e)'
      BY <1>1, <2>1, <3>1 DEF Untouched, Unhedged, Clean
    <3>3. e.hedge = 0 => Unhedged'
      BY <1>1, <2>3, <3>1, <3>2 DEF Untouched, Unhedged
    <3>4. ReadsFill' /\ Cancels'
      BY <1>1, <2>1, <3>1 DEF Untouched, ReadsFill, Cancels
    <3> QED BY <1>1, <3>3, <3>4 DEF Stays, Untouched
  <2>5. CASE orders'[i].fill = orders[i].fill /\ pos' = pos
    <3>1. FillOf(e)' = FillOf(e)
      BY <2>2, <2>5
    <3>2. e.hedge = 0 => Clean(e)'
      BY <1>1, <3>1 DEF Untouched, Unhedged, Clean
    <3>3. Explained => Explained'
      BY <2>5, UnansweredStays DEF Explained
    <3> QED BY <1>1, <2>3, <3>1, <3>2, <3>3
            DEF Stays, Untouched, Unhedged, ReadsFill, Cancels
  <2> QED BY <2>4, <2>5, VenueStep
<1>4. CASE i # e.order
  <2>1. ~orders[i].acked
    BY <1>2, <1>4 DEF OneOrder, RestingIsPolled
  <2>2. FillOf(e)' = FillOf(e)
    BY <1>1, <1>2, <1>4, VenueStep DEF FillOf
  <2>3. e.hedge = 0 => Clean(e)' /\ OthersEmpty'
    <3>1. e.hedge = 0 => OthersEmpty'
      BY <1>1, <2>1, VenueStep DEF Untouched, Unhedged, OthersEmpty
    <3> QED BY <1>1, <2>2, <3>1 DEF Untouched, Unhedged, Clean
  <2>4. Explained => Explained'
    <3>1. CASE orders'[i].fill = orders[i].fill + 1
      <4>1. ASSUME NEW leg \in Legs, leg = orders[i].leg
            PROVE  Unanswered(leg)'
        <5>1. orders'[i].fill > 0
          BY <1>2, <3>1
        <5> QED BY <2>1, <4>1, <5>1, VenueStep DEF Unanswered
      <4>2. \A leg \in Legs : leg # orders[i].leg => pos'[leg] = pos[leg]
        BY <1>2, <3>1, VenueStep
      <4>3. ASSUME Explained, NEW leg \in Legs
            PROVE  pos'[leg] = 0 \/ Unanswered(leg)'
        <5>1. CASE leg = orders[i].leg
          BY <4>1, <5>1
        <5>2. CASE leg # orders[i].leg /\ pos[leg] = 0
          BY <4>2, <5>2
        <5>3. CASE Unanswered(leg)
          BY <5>3, UnansweredStays
        <5> QED BY <4>3, <5>1, <5>2, <5>3 DEF Explained
      <4> QED BY <4>3 DEF Explained
    <3>2. CASE orders'[i].fill = orders[i].fill /\ pos' = pos
      BY <3>2, UnansweredStays DEF Explained
    <3> QED BY <3>1, <3>2, VenueStep
  <2> QED BY <1>1, <2>2, <2>3, <2>4
          DEF Stays, Untouched, Unhedged, ReadsFill, Cancels
<1> QED BY <1>3, <1>4

-----------------------------------------------------------------------------
(* The theorem. *)

LEMMA InitUntouched == ASSUME Init PROVE Untouched
<1>1. PICK leg \in Legs :
        /\ e = InitEntry(leg) /\ pc = "idle" /\ probe = NoProbe /\ goal = "none"
        /\ orders = <<FirstOrder(leg)>> /\ pos = Nothing
  BY Zenon DEF Init
<1>2. /\ e.order = 1 /\ e.base = 0 /\ e.qty = Target /\ e.maker = 0 /\ e.slices = 0
      /\ ~e.inflight /\ ~e.cancel /\ ~e.retry /\ e.makerLeg = leg
  BY <1>1 DEF InitEntry
<1>3. FillOf(e) = 0 /\ OthersEmpty /\ Explained
  BY <1>1, <1>2 DEF FillOf, FirstOrder, OthersEmpty, Explained, Nothing
<1>4. Clean(e)
  BY <1>2, <1>3, QuantityAssumption DEF Clean
<1> QED BY <1>1, <1>2, <1>3, <1>4
        DEF Untouched, Unhedged, ReadsFill, Cancels, NoProbe, Nothing

LEMMA NextUntouched ==
  ASSUME ~LaneEnabled, Inductive, OneOrder, Untouched, [Next]_vars
  PROVE  Untouched' /\ (ZeroFillRetry \/ e'.makerLeg = e.makerLeg)
<1>1. CASE Maintenance
  BY <1>1, StartStays, ProgressAnsweredStays, CancelProgressAnsweredStays, HedgeAnsweredStays,
     HedgeRefusedForGoodStays, HedgeCheckedStays, ZeroFillCycleStays, ZeroFillRetryStays,
     ZeroFillOverStays, RemainderOrFinalizeStays, HedgeRemainderStays, ResubmittedStays
  DEF Maintenance, Stays
<1>2. CASE Repricing
  BY <1>2 DEF Repricing, RepriceMaker, CancelAnswered, ReplacementAnswered, OneOrder, Laning
<1>3. CASE Reconciliation
  <2>1. CASE LongFill \/ ShortFill
    BY <2>1, FillReadStays DEF LongFill, ShortFill, Special, Legs, Stays
  <2> QED BY <1>3, <2>1, ReconcileStays, UnresolvedAnsweredStays, LongLiveStays, ShortLiveStays
          DEF Reconciliation, Stays
<1>4. CASE Settlement
  <2>1. CASE LongOrders \/ ShortOrders
    <3>1. NextAfterOrders \notin Special /\ "shortOrders" \notin Special
      BY DEF NextAfterOrders, Special
    <3> QED BY <2>1, <3>1, OrdersAnsweredStays DEF LongOrders, ShortOrders, Stays
  <2>2. CASE FlattenMaker \/ StopMaker
    BY <2>2, FlattenFirstStays DEF FlattenMaker, StopMaker, Special, Stays
  <2> QED BY <1>4, <2>1, <2>2, MakerDetailsStays, HedgeDetailsStays, LongPositionStays,
             ShortPositionStays, CleanupLegStays, AbortOrderStays, FlattenHedgeStays,
             StopHedgeStays
          DEF Settlement, Stays
<1>5. CASE Venues
  BY <1>5, VenueStays DEF Venues, Stays
<1>6. CASE UNCHANGED vars
  BY <1>6 DEF vars, Untouched, Unhedged, Clean, FillOf, OthersEmpty, Explained, Unanswered,
              ReadsFill, Cancels
<1> QED BY <1>1, <1>2, <1>3, <1>4, <1>5, <1>6 DEF Next, Engine

\* The one step that moves the maker to the other leg.
LEMMA SwitchSafe ==
  ASSUME Inductive, OneOrder, Untouched, ZeroFillRetry
  PROVE  /\ \A i \in DOMAIN orders : orders[i].acked => ~orders[i].live /\ orders[i].fill = 0
         /\ \A leg \in Legs : pos[leg] = 0 \/ Unanswered(leg)
<1>1. e.hedge = 0 /\ e.retry
  BY TypeFacts, FieldTypes DEF ZeroFillRetry, HasAnyFill
<1>2. e.done /\ FillOf(e) = 0 /\ OthersEmpty /\ Explained
  BY <1>1, RetryIsEmpty
<1>3. \A i \in DOMAIN orders : orders[i].acked => ~orders[i].live
  BY <1>2 DEF OneOrder, RestingIsPolled, DoneIsEnded
<1>4. \A i \in DOMAIN orders : orders[i].acked => orders[i].fill = 0
  BY <1>2 DEF OthersEmpty, FillOf
<1> QED BY <1>2, <1>3, <1>4 DEF Explained

(* LegSwitchSafe without the maker-event lane: when the zero-fill cycles of the
   first phase are spent and the maker moves to the other leg, every order that
   was acknowledged has ended without a fill, and what a venue holds comes from an
   order whose answer was lost.  The code looks at its own records only
   (_pending_zero_fill_terminal_is_confirmed): the order cancelled and ended, no
   fill counted, no hedge in flight.  That they are enough for the orders it knows
   of is the theorem. *)
THEOREM LegSwitchLeavesNothingKnown ==
  ASSUME ~LaneEnabled
  PROVE  Spec => LegSwitchSafe
<1> DEFINE All == Inductive /\ OneOrder /\ Untouched
<1>1. Init => All
  BY InitTyped, InitOne, InitUntouched
<1>2. All /\ [Next]_vars => All'
  BY NextTyped, NextOne, NextUntouched
<1>3. All /\ [Next]_vars =>
        [e'.makerLeg # e.makerLeg =>
           /\ \A i \in DOMAIN orders :
                orders[i].acked => ~orders[i].live /\ orders[i].fill = 0
           /\ \A leg \in Legs : pos[leg] = 0 \/ Unanswered(leg)]_vars
  BY NextUntouched, SwitchSafe
<1> QED BY <1>1, <1>2, <1>3, PTL DEF Spec, LegSwitchSafe

=============================================================================
