------------------------------ MODULE LaneProofs ------------------------------
(***************************************************************************)
(* The run loop, and the passive close that one of its lanes drives.       *)
(*                                                                         *)
(* 1. Housekeeping is never away for longer than a poll interval and a     *)
(* round of lanes, whatever the lanes take and however they fail.          *)
(* The argument follows the full tick.  After housekeeping it is due within *)
(* PollMs; as long as it is not due, the time since housekeeping and the   *)
(* time until it is due add up to PollMs at most (Waiting).  An iteration   *)
(* that begins before it is due runs at most two lanes, the maker-event lane *)
(* and the snapshot, or it has a tick and with it housekeeping.  So the     *)
(* iteration that serves the full tick begins at most two lanes late, and   *)
(* eight lanes come before housekeeping.                                    *)
(*                                                                         *)
(* 2. At most one maker order of a passive close rests.  An order is named *)
(* in the record and in the journal before it is sent, under the number it *)
(* will have.  So a resting order is the one that the record names, and    *)
(* also the one that a restart would restore: what is sent next is sent    *)
(* only when the record names none, or when the code took the order it     *)
(* names to be dead, and that is what guessed remembers when it was not.   *)
(*                                                                         *)
(* 3. What is recorded of a passive close covers what the venues hold.     *)
(* The argument is a balance (Covers): a leg of the position is what the   *)
(* venue holds of it, what the close counted as closed, what the order     *)
(* that it watches executed beyond that, and the hedges that it has not    *)
(* counted.  A venue that executes moves quantity within that sum; a pass  *)
(* that counts a fill does, too.  The same holds of what a restart would   *)
(* restore, with the record of the journal and the position of the         *)
(* snapshot, and so a crash starts from a balance again.  Two facts keep   *)
(* the sum honest: a hedge of a chunk on a leg is one, and is counted once *)
(* unless twice remembers that it was not; and an order belongs to the     *)
(* chunk and leg that it was claimed for, so that what the record counts   *)
(* of it is not counted of another one.  The invariant says of which chunk *)
(* and leg by a function (home) that no state has: it is quantified.  From *)
(* the same facts every hedge has an order on the other leg that executed  *)
(* as much, and no order has two.                                          *)
(***************************************************************************)
EXTENDS RunLoop, PassiveCloseLifecycle, FiniteSetTheorems, WellFoundedInduction, TLAPS

-----------------------------------------------------------------------------
(* The run loop.                                                           *)

Longest == Max(LaneMs)

\* Where housekeeping stands in an iteration, and the maker-event lane.
Housekeeping == 9
MakerEvent == 7

FullDue == "full_tick" \in turn.due

\* The full tick is due in time, or it became due while `late' lanes ran.
Fits(away, left, late) ==
    \/ left > 0 /\ away + left <= PollMs
    \/ left = 0 /\ away <= PollMs - 1 + late
Waiting(late) == Fits(unsupervised, due["full_tick"], late)

\* An iteration on its way to housekeeping, one that has none, and one after it.
Towards ==
    /\ pc \in 1..Housekeeping
    /\ Periodic
    /\ IF FullDue
       THEN unsupervised <= PollMs + 2 * Longest + (pc - 1) * Longest
       ELSE unsupervised <= PollMs - 1 + (pc - 1) * Longest

Without ==
    /\ pc \in 1..(Asleep - 1)
    /\ ~Periodic
    /\ pc <= MakerEvent => unsupervised + due["full_tick"] <= PollMs /\ due["full_tick"] > 0
    /\ pc > MakerEvent => Waiting(Longest)

Past == pc = Asleep - 1 /\ Periodic /\ unsupervised = 0

TimesOK ==
    /\ pc \in 0..Asleep
    /\ due \in [Ticks -> Nat] /\ due["full_tick"] <= PollMs
    /\ turn.due \subseteq Ticks
    /\ unsupervised \in Nat

InTime ==
    /\ TimesOK
    /\ pc = 0 => unsupervised <= SupervisionMs
    /\ pc \in DOMAIN Order => Towards \/ Without \/ Past
    /\ pc = Asleep => Waiting(2 * Longest)
-----------------------------------------------------------------------------
\* The lanes that decide anything have these places.
LEMMA Places ==
  /\ DOMAIN Order = 1..10 /\ Asleep = 11 /\ Len(Order) = 10
  /\ pc \in 1..10 => /\ (Here = "full_tick") <=> (pc = 1)
                     /\ (Here = "active_positions") <=> (pc = 2)
                     /\ (Here = "maker_event") <=> (pc = 7)
                     /\ (Here = "housekeeping") <=> (pc = 9)
                     /\ (Here = "snapshot") <=> (pc = 10)
<1>1. DOMAIN Order = 1..10 /\ Len(Order) = 10
  BY DEF Order
<1>2. ASSUME pc \in 1..10
      PROVE  /\ (Here = "full_tick") <=> (pc = 1)
             /\ (Here = "active_positions") <=> (pc = 2)
             /\ (Here = "maker_event") <=> (pc = 7)
             /\ (Here = "housekeeping") <=> (pc = 9)
             /\ (Here = "snapshot") <=> (pc = 10)
  BY <1>2 DEF Here, Order
<1> QED BY <1>1, <1>2 DEF Asleep

\* The time limit of a lane.
LEMMA LongestLane ==
  /\ Longest \in Nat
  /\ \A ms \in LaneMs : ms \in Nat /\ ms <= Longest
  /\ Longest' = Longest
  /\ SupervisionMs = PollMs + 10 * Longest /\ SupervisionMs \in Nat
<1>1. Longest \in LaneMs /\ \A ms \in LaneMs : ms <= Longest
  BY LaneAssumption DEF Longest, Max
<1>2. SupervisionMs = PollMs + 10 * Longest
  BY Places DEF SupervisionMs, Longest
<1>3. Longest' = Longest
  BY DEF Longest, Max
<1> QED BY <1>1, <1>2, <1>3, LaneAssumption, PollAssumption

\* A set of numbers with one more has a least one if it had one before.
LEMMA LeastOfMore ==
  ASSUME NEW S \in SUBSET Nat, NEW x \in Nat, NEW least \in S, \A y \in S : least <= y
  PROVE  \E m \in S \cup {x} : \A y \in S \cup {x} : m <= y
<1>1. CASE least <= x
  BY <1>1
<1>2. CASE ~(least <= x)
  BY <1>2
<1> QED BY <1>1, <1>2

\* _runtime_loop_sleep_ms sleeps no longer than until the full tick is due.
LEMMA SleepsUntilDue ==
  ASSUME TimesOK, NEW fast \in BOOLEAN
  PROVE  SleepMs(fast) \in Nat /\ SleepMs(fast) <= AtLeast(1, due["full_tick"])
<1> DEFINE A == {AtLeast(1, due["full_tick"]), IntervalOf("active_positions")}
           B == IF turn.enabled THEN {AtLeast(1, due["active_positions"])} ELSE {}
           C == IF fast THEN {MakerWakeMs} ELSE {}
<1>1. /\ AtLeast(1, due["full_tick"]) \in Nat /\ AtLeast(1, due["active_positions"]) \in Nat
      /\ IntervalOf("active_positions") \in Nat /\ MakerWakeMs \in Nat
  BY PollAssumption DEF TimesOK, Ticks, AtLeast, IntervalOf
<1>2. \E m \in A : \A y \in A : m <= y
  BY <1>1
<1>3. \E m \in A \cup B : \A y \in A \cup B : m <= y
  <2>1. CASE turn.enabled
    BY <1>1, <1>2, <2>1, LeastOfMore
  <2>2. CASE ~turn.enabled
    BY <1>2, <2>2
  <2> QED BY <2>1, <2>2
<1>4. \E m \in A \cup B \cup C : \A y \in A \cup B \cup C : m <= y
  <2>1. CASE fast
    <3>1. A \cup B \in SUBSET Nat
      BY <1>1
    <3> HIDE DEF A, B
    <3>2. C = {MakerWakeMs}
      BY <2>1
    <3> QED BY <1>1, <1>3, <3>1, <3>2, LeastOfMore
  <2>2. CASE ~fast
    BY <1>3, <2>2
  <2> QED BY <2>1, <2>2
<1>5. A \cup B \cup C \in SUBSET Nat
  BY <1>1
<1>6. SleepMs(fast) = Min(A \cup B \cup C)
  BY DEF SleepMs
<1>7. AtLeast(1, due["full_tick"]) \in A \cup B \cup C
  OBVIOUS
<1> HIDE DEF A, B, C
<1> QED BY <1>4, <1>5, <1>6, <1>7 DEF Min

\* A lane, and a sleep, while the full tick is not due; and the end of the wait.
LEMMA LaneFits ==
  ASSUME NEW u \in Nat, NEW d \in Nat, NEW late \in Nat, NEW ms \in Nat, NEW later \in Nat,
         NEW v \in Nat, v <= u + ms, late + ms <= later, Fits(u, d, late)
  PROVE  Fits(v, Later(d, ms), later)
<1>1. PollMs \in Nat /\ PollMs > 0
  BY PollAssumption
<1>2. Later(d, ms) = 0 \/ Later(d, ms) = d - ms
  BY DEF Later
<1>3. d <= ms => Later(d, ms) = 0
  BY DEF Later
<1> QED BY <1>1, <1>2, <1>3 DEF Fits

LEMMA FitsBound ==
  ASSUME NEW u \in Nat, NEW d \in Nat, NEW late \in Nat, Fits(u, d, late)
  PROVE  u <= PollMs + late
<1>1. PollMs \in Nat /\ PollMs > 0
  BY PollAssumption
<1> QED BY <1>1 DEF Fits

LEMMA LaneFromDue ==
  ASSUME NEW u \in Nat, NEW d \in Nat, NEW ms \in Nat, NEW most \in Nat, NEW v \in Nat,
         v <= u + ms, ms <= most, u + d <= PollMs, d > 0
  PROVE  Fits(v, Later(d, ms), most)
<1>1. PollMs \in Nat /\ PollMs > 0
  BY PollAssumption
<1> QED BY <1>1 DEF Fits, Later

LEMMA SleepFits ==
  ASSUME NEW u \in Nat, NEW d \in Nat, NEW late \in Nat, NEW ms \in Nat,
         NEW v \in Nat, v <= u + ms, ms <= AtLeast(1, d), Fits(u, d, late)
  PROVE  \/ Later(d, ms) = 0 /\ v <= PollMs + late
         \/ Later(d, ms) > 0 /\ v + Later(d, ms) <= PollMs
<1>1. PollMs \in Nat /\ PollMs > 0
  BY PollAssumption
<1> QED BY <1>1 DEF Fits, Later, AtLeast

-----------------------------------------------------------------------------
LEMMA InitInTime == ASSUME LoopInit PROVE InTime
<1>1. turn.due \subseteq Ticks /\ FullDue
  BY DEF LoopInit, Begun, FullDue, Ticks
<1> QED
  BY <1>1, Places, LongestLane, PollAssumption
  DEF LoopInit, InTime, TimesOK, Towards, Periodic, FullDue, Housekeeping, Ticks

\* What of an iteration the beginning decides.
LEMMA BeginsInTime ==
  ASSUME TimesOK', pc' = 1, NEW b, NEW a, turn' = Begun(due', b, a),
         \/ due'["full_tick"] = 0 /\ unsupervised' <= PollMs + 2 * Longest
         \/ due'["full_tick"] > 0 /\ unsupervised' + due'["full_tick"] <= PollMs
  PROVE  InTime'
<1>1. /\ FullDue' <=> due'["full_tick"] = 0
      /\ Periodic' <=> turn'.due # {}
  BY DEF Begun, FullDue, Ticks, Periodic
<1>2. due'["full_tick"] \in Nat /\ unsupervised' \in Nat
  BY DEF TimesOK, Ticks
<1>3. CASE due'["full_tick"] = 0
  <2>1. Towards'
    BY <1>1, <1>2, <1>3, LongestLane, PollAssumption DEF Towards, FullDue, Housekeeping
  <2> QED BY <2>1, Places DEF InTime
<1>4. CASE due'["full_tick"] > 0
  <2>1. Towards' \/ Without'
    BY <1>1, <1>2, <1>4, LongestLane, PollAssumption, Places
    DEF Towards, Without, FullDue, Housekeeping, MakerEvent
  <2> QED BY <2>1, Places DEF InTime
<1> QED BY <1>2, <1>3, <1>4

LEMMA SleepInTime == ASSUME InTime, Sleep PROVE InTime'
<1>1. PICK fast \in BOOLEAN : due' = Left(due, SleepMs(fast)) /\ Elapse(SleepMs(fast))
  BY DEF Sleep
<1> DEFINE s == SleepMs(fast)
<1>2. s \in Nat /\ s <= AtLeast(1, due["full_tick"])
  BY SleepsUntilDue DEF InTime
<1> HIDE DEF s
<1>3. /\ due["full_tick"] \in Nat /\ unsupervised \in Nat
      /\ due \in [Ticks -> Nat] /\ "full_tick" \in Ticks
  BY DEF InTime, TimesOK, Ticks
<1>4. due' \in [Ticks -> Nat] /\ due'["full_tick"] = Later(due["full_tick"], s)
  BY <1>1, <1>2, <1>3 DEF Left, Later, s
<1>5. unsupervised' \in Nat /\ unsupervised' <= unsupervised + s
  BY <1>1, <1>2, <1>3, LongestLane DEF Elapse, AtMost, s
<1>6. Waiting(2 * Longest)
  BY DEF Sleep, InTime
<1>7. turn' = Begun(due', backoff', active) /\ pc' = 1
  BY DEF Sleep
<1>8. turn'.due \subseteq Ticks /\ due'["full_tick"] <= PollMs
  <2>1. turn'.due \subseteq Ticks
    BY <1>7 DEF Begun
  <2>2. due["full_tick"] <= PollMs
    BY DEF InTime, TimesOK
  <2> QED BY <1>2, <1>3, <1>4, <2>1, <2>2, PollAssumption DEF Later
<1>9. TimesOK'
  BY <1>4, <1>5, <1>7, <1>8, Places DEF TimesOK
<1>10. \/ due'["full_tick"] = 0 /\ unsupervised' <= PollMs + 2 * Longest
       \/ due'["full_tick"] > 0 /\ unsupervised' + due'["full_tick"] <= PollMs
  <2>1. 2 * Longest \in Nat
    BY LongestLane
  <2> QED BY <1>2, <1>3, <1>4, <1>5, <1>6, <2>1, SleepFits DEF Waiting
<1> QED BY <1>7, <1>9, <1>10, BeginsInTime

LEMMA RestartedInTime == ASSUME InTime, Restarted PROVE InTime'
<1>1. pc' = 1 /\ turn' = Begun(due', backoff', active) /\ unsupervised' = 0
  BY DEF Restarted
<1>2. due' \in [Ticks -> Nat] /\ due'["full_tick"] = 0
  BY DEF Restarted, Ticks
<1>3. TimesOK'
  BY <1>1, <1>2, Places, PollAssumption DEF TimesOK, Begun
<1> QED BY <1>1, <1>2, <1>3, BeginsInTime, LongestLane, PollAssumption

LEMMA WithoutInTime ==
  ASSUME Without, unsupervised \in Nat, due["full_tick"] \in Nat, pc \in 1..10
  PROVE  unsupervised <= SupervisionMs
<1>1. unsupervised + due["full_tick"] <= PollMs \/ Waiting(Longest)
  BY DEF Without, MakerEvent
<1>2. unsupervised <= PollMs + Longest
  <2>1. CASE Waiting(Longest)
    BY <2>1, FitsBound, LongestLane DEF Waiting
  <2> QED BY <1>1, <2>1, LongestLane, PollAssumption
<1> QED BY <1>2, LongestLane, PollAssumption

\* An exception leaves the loop within the time as well.
LEMMA LeavesLoopInTime == ASSUME InTime, LeavesLoop PROVE InTime'
<1>1. pc \in 1..10 /\ pc' = 0
  BY Places DEF LeavesLoop, InIteration
<1>2. UNCHANGED <<due, turn, unsupervised>>
  BY DEF LeavesLoop
<1>3. TimesOK'
  BY <1>1, <1>2, Places DEF InTime, TimesOK
<1>4. unsupervised \in Nat /\ due["full_tick"] \in Nat
  BY DEF InTime, TimesOK, Ticks
<1>5. (pc - 1) * Longest <= 8 * Longest \/ pc = 10
  <2>1. CASE pc = 10
    BY <2>1
  <2>2. CASE pc \in {1, 2, 3, 4, 5, 6, 7, 8, 9}
    BY <2>2, LongestLane
  <2> QED BY <1>1, <2>1, <2>2
<1>6. unsupervised <= SupervisionMs
  <2>1. CASE Towards
    <3>1. pc # 10
      BY <2>1 DEF Towards, Housekeeping
    <3>2. (pc - 1) * Longest \in Nat
      BY <1>1, LongestLane
    <3> QED BY <1>4, <1>5, <2>1, <3>1, <3>2, LongestLane, PollAssumption DEF Towards
  <2>2. CASE Without
    BY <1>1, <1>4, <2>2, WithoutInTime
  <2>3. CASE Past
    BY <2>3, LongestLane DEF Past
  <2> QED BY <1>1, <2>1, <2>2, <2>3, Places DEF InTime
<1> QED BY <1>1, <1>2, <1>3, <1>6, Places DEF InTime

-----------------------------------------------------------------------------
\* A lane that took ms, or was passed over.
Passes(ms) ==
    /\ pc \in 1..10 /\ pc' = pc + 1 /\ turn' = turn
    /\ due' \in [Ticks -> Nat] /\ due'["full_tick"] <= PollMs
    /\ pc > 2 \/ ~Periodic => due'["full_tick"] = Later(due["full_tick"], ms)
    /\ unsupervised' \in Nat
    /\ IF pc = Housekeeping /\ Periodic THEN unsupervised' = 0
       ELSE unsupervised' <= unsupervised + ms
    /\ ms # 0 => \/ Periodic \/ pc \in {MakerEvent, Asleep - 1}

\* The next place, by what the iteration is at.
LEMMA PassesInTime == ASSUME InTime, NEW ms \in 0..Longest, Passes(ms) PROVE InTime'
<1>1. /\ pc \in 1..10 /\ Asleep = 11 /\ ms \in Nat /\ ms <= Longest /\ Longest \in Nat
      /\ PollMs \in Nat /\ PollMs > 0
  BY LongestLane, Places, PollAssumption DEF Passes
<1>2. TimesOK'
  BY <1>1 DEF Passes, InTime, TimesOK
<1>3. unsupervised \in Nat /\ due["full_tick"] \in Nat /\ due'["full_tick"] \in Nat
  BY DEF InTime, TimesOK, Ticks, Passes
<1>4. Periodic' = Periodic /\ FullDue' = FullDue
  BY DEF Passes, Periodic, FullDue
<1>5. CASE Towards /\ pc < Housekeeping
  <2> DEFINE before == (pc - 1) * Longest
  <2>1. before \in Nat /\ (pc' - 1) * Longest = before + Longest
    BY <1>1 DEF Passes
  <2>2. unsupervised' \in Nat /\ unsupervised' <= unsupervised + Longest
    BY <1>1, <1>3, <1>5 DEF Passes, Housekeeping
  <2>3. /\ FullDue => unsupervised <= PollMs + 2 * Longest + before
        /\ ~FullDue => unsupervised <= PollMs - 1 + before
    BY <1>5 DEF Towards
  <2> HIDE DEF before
  <2>4. Towards'
    BY <1>1, <1>3, <1>4, <1>5, <2>1, <2>2, <2>3 DEF Passes, Towards, Housekeeping
  <2> QED BY <1>1, <1>2, <1>5, <2>4, Places DEF Passes, InTime, Housekeeping
<1>6. CASE Towards /\ pc = Housekeeping
  <2>1. Past'
    BY <1>1, <1>4, <1>6 DEF Passes, Towards, Past, Housekeeping
  <2> QED BY <1>1, <1>2, <1>6, <2>1, Places DEF Passes, InTime, Housekeeping
<1>7. CASE Without
  <2>1. due'["full_tick"] = Later(due["full_tick"], ms) /\ unsupervised' <= unsupervised + ms
    BY <1>7 DEF Passes, Without
  <2>2. CASE pc < MakerEvent
    <3>1. ms = 0
      BY <1>1, <1>7, <2>2 DEF Passes, Without, MakerEvent
    <3>2. Without'
      BY <1>1, <1>3, <1>4, <1>7, <2>1, <2>2, <3>1 DEF Passes, Without, MakerEvent, Later
    <3> QED BY <1>1, <1>2, <2>2, <3>2, Places DEF Passes, InTime, MakerEvent
  <2>3. CASE pc = MakerEvent
    <3>1. Waiting(Longest)'
      <4>1. unsupervised + due["full_tick"] <= PollMs /\ due["full_tick"] > 0
        BY <1>7, <2>3 DEF Without
      <4>2. unsupervised' \in Nat
        BY DEF Passes
      <4>3. Fits(unsupervised', due'["full_tick"], Longest)
        BY <1>1, <1>3, <2>1, <4>1, <4>2, LaneFromDue
      <4> QED BY <4>3, LongestLane DEF Waiting, Fits
    <3>2. Without'
      BY <1>1, <1>4, <1>7, <2>3, <3>1 DEF Passes, Without, MakerEvent
    <3> QED BY <1>1, <1>2, <2>3, <3>2, Places DEF Passes, InTime, MakerEvent
  <2>4. CASE pc > MakerEvent /\ pc < 10
    <3>1. ms = 0
      BY <1>1, <1>7, <2>4 DEF Passes, Without, MakerEvent
    <3>2. Waiting(Longest)'
      <4>1. Waiting(Longest)
        BY <1>7, <2>4 DEF Without
      <4>2. unsupervised' \in Nat
        BY DEF Passes
      <4>3. Fits(unsupervised', due'["full_tick"], Longest)
        BY <1>1, <1>3, <2>1, <3>1, <4>1, <4>2, LaneFits, LongestLane DEF Waiting
      <4> QED BY <4>3, LongestLane DEF Waiting, Fits
    <3>3. Without'
      BY <1>1, <1>4, <1>7, <2>4, <3>2 DEF Passes, Without, MakerEvent
    <3> QED BY <1>1, <1>2, <2>4, <3>3, Places DEF Passes, InTime, MakerEvent
  <2>5. CASE pc = 10
    <3>1. Waiting(Longest)
      BY <1>7, <2>5 DEF Without, MakerEvent
    <3>2. Waiting(2 * Longest)'
      <4>1. unsupervised' \in Nat
        BY <1>1 DEF Passes
      <4>2. Fits(unsupervised', due'["full_tick"], 2 * Longest)
        <5> DEFINE later == 2 * Longest
        <5>1. later \in Nat /\ Longest + ms <= later
          BY <1>1
        <5>2. Fits(unsupervised, due["full_tick"], Longest)
          BY <3>1 DEF Waiting
        <5> HIDE DEF later
        <5>3. Fits(unsupervised', Later(due["full_tick"], ms), later)
          BY <1>1, <1>3, <2>1, <4>1, <5>1, <5>2, LaneFits
        <5> QED BY <2>1, <5>3 DEF later
      <4> QED BY <4>1, <4>2, LongestLane DEF Waiting, Fits
    <3> QED BY <1>1, <1>2, <2>5, <3>2, Places DEF Passes, InTime
  <2> QED BY <1>1, <2>2, <2>3, <2>4, <2>5 DEF MakerEvent
<1>8. CASE Past
  <2>1. pc = 10 /\ unsupervised' <= Longest
    BY <1>1, <1>3, <1>8 DEF Past, Passes, Housekeeping
  <2>2. Waiting(2 * Longest)'
    <3>1. due'["full_tick"] = Later(due["full_tick"], ms) /\ unsupervised' <= ms
      BY <1>1, <1>3, <1>8, <2>1 DEF Past, Passes, Housekeeping
    <3>2. due["full_tick"] <= PollMs
      BY DEF InTime, TimesOK
    <3>3. Fits(0, due["full_tick"], Longest)
      BY <1>1, <1>3, <3>2, PollAssumption DEF Fits
    <3>4. unsupervised' \in Nat /\ unsupervised' <= 0 + ms
      BY <1>1, <3>1 DEF Passes
    <3>5. Fits(unsupervised', due'["full_tick"], 2 * Longest)
      <4>1. 2 * Longest \in Nat /\ Longest + ms <= 2 * Longest /\ 0 \in Nat
        BY <1>1
      <4> QED BY <1>1, <1>3, <3>1, <3>3, <3>4, <4>1, LaneFits
    <3> QED BY <3>4, <3>5, LongestLane DEF Waiting, Fits
  <2> QED BY <1>1, <1>2, <2>1, <2>2, Places DEF Passes, InTime
<1> QED BY <1>1, <1>5, <1>6, <1>7, <1>8, Places DEF InTime, Towards, Housekeeping

\* What becomes of the timers when the lane at pc has taken ms.
LEMMA DueAfterLane ==
  ASSUME InTime, pc \in 1..10, NEW ms \in Nat
  PROVE  /\ DueAfter(ms) \in [Ticks -> Nat]
         /\ DueAfter(ms)["full_tick"] = IF pc = 1 THEN PollMs
                                        ELSE Later(due["full_tick"], ms)
         /\ DueAfter(ms)["full_tick"] <= PollMs
<1>1. /\ due["full_tick"] \in Nat /\ due["active_positions"] \in Nat
      /\ due["full_tick"] <= PollMs
  BY DEF InTime, TimesOK, Ticks
<1>2. IntervalOf("full_tick") = PollMs /\ IntervalOf("active_positions") \in Nat
  BY PollAssumption DEF IntervalOf
<1> QED BY <1>1, <1>2, Places, PollAssumption DEF DueAfter, Later, Ticks

LEMMA SkipInTime == ASSUME InTime, Skip PROVE InTime'
<1>1. pc \in 1..10 /\ unsupervised \in Nat /\ unsupervised' = unsupervised
  BY Places DEF Skip, InIteration, InTime, TimesOK
<1>2. due' = DueAfter(0) \/ due' = due
  BY DEF Skip
<1>3. ~(pc = Housekeeping /\ Periodic)
  BY <1>1, Places DEF Skip, Runs, TakesPart, Housekeeping, Ticks
<1>4. due \in [Ticks -> Nat] /\ due["full_tick"] \in Nat /\ due["full_tick"] <= PollMs
  BY DEF InTime, TimesOK, Ticks
<1>5. /\ due' \in [Ticks -> Nat] /\ due'["full_tick"] <= PollMs
      /\ pc # 1 => due'["full_tick"] = Later(due["full_tick"], 0)
  BY <1>1, <1>2, <1>4, DueAfterLane DEF Later
<1>6. ASSUME ~Periodic PROVE due'["full_tick"] = Later(due["full_tick"], 0)
  <2>1. CASE pc = 1
    BY <1>1, <1>4, <1>6, <2>1, Places DEF Skip, TakesPart, Ticks, Periodic, Later
  <2> QED BY <1>5, <2>1
<1>7. Passes(0)
  BY <1>1, <1>3, <1>5, <1>6 DEF Passes, Skip
<1> QED BY <1>7, PassesInTime, LongestLane

\* Every lane that runs, whether it succeeds or fails.
LEMMA EndsInTime ==
  ASSUME InTime, NEW ms \in LaneMs, Ends(ms), pc' = pc + 1,
         IF Here = "housekeeping" THEN unsupervised' = 0 ELSE Elapse(ms)
  PROVE  InTime'
<1>1. pc \in 1..10 /\ unsupervised \in Nat /\ ms \in Nat /\ ms <= Longest /\ Longest \in Nat
  BY Places, LongestLane DEF Ends, InIteration, InTime, TimesOK
<1>2. /\ due' \in [Ticks -> Nat] /\ due'["full_tick"] <= PollMs
      /\ pc # 1 => due'["full_tick"] = Later(due["full_tick"], ms)
  BY <1>1, DueAfterLane DEF Ends
<1>3. pc = 1 => Periodic
  BY <1>1, Places DEF Ends, Runs, TakesPart, Ticks, Periodic
<1>4. Periodic \/ pc \in {MakerEvent, Asleep - 1}
  BY <1>1, Places DEF Ends, Runs, TakesPart, Ticks, Periodic, MakerEvent
<1>5. /\ unsupervised' \in Nat
      /\ IF pc = Housekeeping /\ Periodic THEN unsupervised' = 0
         ELSE unsupervised' <= unsupervised + ms
  BY <1>1, LongestLane, Places DEF Elapse, AtMost, Housekeeping
<1>6. Passes(ms)
  BY <1>1, <1>2, <1>3, <1>4, <1>5 DEF Passes, Ends
<1> QED BY <1>1, <1>6, PassesInTime

LEMMA NextInTime == ASSUME InTime, [LoopNext]_loopVars PROVE InTime'
<1>1. CASE Skip
  BY <1>1, SkipInTime
<1>2. CASE Succeeds
  BY <1>2, EndsInTime DEF Succeeds, NextPlace
<1>3. ASSUME NEW l \in Backed, Fails(l) PROVE InTime'
  <2>1. Here # "housekeeping"
    BY <1>3 DEF Fails, Backed, Ticks
  <2> QED BY <1>3, <2>1, EndsInTime DEF Fails, NextPlace
<1>4. CASE LeavesLoop
  BY <1>4, LeavesLoopInTime
<1>5. CASE Restarted
  BY <1>5, RestartedInTime
<1>6. CASE Sleep
  BY <1>6, SleepInTime
<1>7. CASE UNCHANGED loopVars
  BY <1>7 DEF loopVars, InTime, TimesOK, Towards, Without, Past, Waiting, Periodic, FullDue
<1> QED BY <1>1, <1>2, <1>3, <1>4, <1>5, <1>6, <1>7 DEF LoopNext

\* Wherever the loop is, the time since housekeeping is within the bound.
LEMMA InTimeIsEnough == ASSUME InTime PROVE SupervisedInTime
<1>1. unsupervised \in Nat /\ due["full_tick"] \in Nat /\ pc \in 0..11
  BY Places DEF InTime, TimesOK, Ticks
<1>2. CASE pc \in 1..10
  <2>1. CASE Towards
    <3>1. pc \in {1, 2, 3, 4, 5, 6, 7, 8, 9}
      BY <1>1, <2>1 DEF Towards, Housekeeping
    <3>2. (pc - 1) * Longest <= 8 * Longest /\ (pc - 1) * Longest \in Nat
      BY <3>1, LongestLane
    <3> QED BY <1>1, <2>1, <3>2, LongestLane, PollAssumption DEF Towards, SupervisedInTime
  <2>2. CASE Without
    BY <1>1, <1>2, <2>2, WithoutInTime DEF SupervisedInTime
  <2>3. CASE Past
    BY <2>3, LongestLane DEF Past, SupervisedInTime
  <2> QED BY <1>2, <2>1, <2>2, <2>3, Places DEF InTime
<1>3. CASE pc = 11
  BY <1>1, <1>3, LongestLane, PollAssumption, Places DEF InTime, Waiting, Fits, SupervisedInTime
<1>4. CASE pc = 0
  BY <1>4 DEF InTime, SupervisedInTime
<1> QED BY <1>1, <1>2, <1>3, <1>4

\* For all intervals, backoffs and time limits of lanes: supervision and
\* reconciliation (the housekeeping of run_loop) run again within a poll
\* interval and one round of lanes, whatever fails.
THEOREM SupervisionInTime == LoopSpec => []SupervisedInTime
<1>1. LoopInit => InTime
  BY InitInTime
<1>2. InTime /\ [LoopNext]_loopVars => InTime'
  BY NextInTime
<1>3. InTime => SupervisedInTime
  BY InTimeIsEnough
<1> QED BY <1>1, <1>2, <1>3, PTL DEF LoopSpec

-----------------------------------------------------------------------------
(* The passive close: the inductive invariant.                             *)

\* The orders of the venue, the record of the close, and where the pass is.
OrderFields == {"leg", "asked", "done", "rests", "known"}
Orders(s) ==
    /\ s \in Seq(Range(s))
    /\ \A i \in DOMAIN s : DOMAIN s[i] = OrderFields /\ s[i].rests \in BOOLEAN

\* The record names at most the newest order, and while one is on its way the next.
Named == IF step = "submit" THEN Len(makers) + 1 ELSE Len(makers)
Record(p) == DOMAIN p = DOMAIN Fresh /\ p.cid \in 0..Named
Watches(p) == p # NoClose => \A i \in DOMAIN makers : makers[i].rests => i = p.cid

Records ==
    /\ Orders(makers)
    /\ pending = NoClose \/ Record(pending)
    /\ DOMAIN saved = {"pending", "book", "open", "residual"}
    /\ saved.pending = NoClose \/ Record(saved.pending)
    /\ started \in BOOLEAN /\ guessed \in BOOLEAN

\* A close that was never registered has sent nothing; a pass has a record; an
\* order on its way is claimed in the record and in the journal.
Stages ==
    /\ step \notin {"idle", "end"} => Exists
    /\ ~started => /\ step = "idle" /\ makers = <<>>
                   /\ pending = NoClose /\ saved.pending = NoClose
    /\ step = "submit" => /\ pending.cid = Len(makers) + 1
                          /\ saved.pending # NoClose /\ saved.pending.cid = Len(makers) + 1

OneRests == \A i, j \in DOMAIN makers : makers[i].rests /\ makers[j].rests => i = j

\* What rests is what the record names, and what a restart would name.
Inductive ==
    /\ Records /\ Stages
    /\ ~guessed => OneRests /\ Watches(pending) /\ Watches(saved.pending)

-----------------------------------------------------------------------------
(* The orders of the venue.                                                *)

\* An order is added at the end; no other step of the venue adds one or lets one
\* rest again.
LEMMA IsOrders ==
  ASSUME NEW s, Orders(s)
  PROVE  Len(s) \in Nat /\ DOMAIN s = 1..Len(s)
  BY DEF Orders

LEMMA SameLength ==
  ASSUME NEW n \in Nat, NEW t, t = [i \in 1..n |-> t[i]]
  PROVE  t \in Seq(Range(t)) /\ Len(t) = n
<1>1. t \in [1..n -> Range(t)]
  BY DEF Range
<1> QED BY <1>1

LEMMA IsFunction == ASSUME NEW S, NEW s \in Seq(S) PROVE s = [i \in 1..Len(s) |-> s[i]]
  OBVIOUS

LEMMA OneMore ==
  ASSUME NEW s, Orders(s), NEW e, DOMAIN e = OrderFields, e.rests \in BOOLEAN
  PROVE  /\ Orders(Append(s, e))
         /\ Len(Append(s, e)) = Len(s) + 1
         /\ \A i \in DOMAIN s : Append(s, e)[i] = s[i]
         /\ Append(s, e)[Len(s) + 1] = e
<1> DEFINE S == Range(s) \cup {e}
           t == Append(s, e)
<1>1. s \in Seq(S) /\ e \in S
  BY DEF Orders
<1>2. t \in Seq(S) /\ Len(t) = Len(s) + 1 /\ t[Len(s) + 1] = e
      /\ \A i \in 1..Len(s) : t[i] = s[i]
  BY <1>1
<1>3. Len(s) \in Nat /\ DOMAIN s = 1..Len(s) /\ DOMAIN t = 1..(Len(s) + 1)
  BY <1>1, <1>2
<1>4. t \in Seq(Range(t))
  <2>1. t = [i \in 1..(Len(s) + 1) |-> t[i]]
    BY <1>2, IsFunction
  <2> QED BY <2>1, <1>3, SameLength
<1>5. \A i \in DOMAIN t : i \in DOMAIN s \/ i = Len(s) + 1
  BY <1>3
<1>6. Orders(t)
  BY <1>2, <1>3, <1>4, <1>5 DEF Orders
<1> QED BY <1>2, <1>3, <1>6

\* no order comes, none rests again
Fades(s, t) ==
    /\ Orders(t) /\ Len(t) = Len(s) /\ DOMAIN t = DOMAIN s
    /\ \A i \in DOMAIN s : t[i].rests => s[i].rests

LEMMA FadesByFields ==
  ASSUME NEW s, Orders(s), NEW t, t = [i \in DOMAIN s |-> t[i]],
         \A i \in DOMAIN s : DOMAIN t[i] = OrderFields /\ t[i].rests \in BOOLEAN
                             /\ (t[i].rests => s[i].rests)
  PROVE  Fades(s, t)
<1>1. Len(s) \in Nat /\ DOMAIN s = 1..Len(s)
  BY IsOrders
<1>2. t \in Seq(Range(t)) /\ Len(t) = Len(s)
  BY <1>1, SameLength
<1>3. DOMAIN t = DOMAIN s
  OBVIOUS
<1> QED BY <1>2, <1>3 DEF Fades, Orders

LEMMA FadesNot == ASSUME NEW s, Orders(s) PROVE Fades(s, s)
  BY DEF Fades

LEMMA SettledFades ==
  ASSUME NEW s, Orders(s)
  PROVE  Fades(s, Settled(s))
<1> DEFINE t == Settled(s)
<1>1. t = [i \in DOMAIN s |-> t[i]]
  BY DEF Settled
<1>2. ASSUME NEW i \in DOMAIN s
      PROVE  DOMAIN t[i] = OrderFields /\ t[i].rests \in BOOLEAN /\ (t[i].rests => s[i].rests)
  <2>1. DOMAIN s[i] = OrderFields /\ s[i].rests \in BOOLEAN
    BY DEF Orders
  <2>2. t[i] = [s[i] EXCEPT !.rests = @ /\ s[i].done < s[i].asked /\ held'[s[i].leg] > 0]
    BY DEF Settled
  <2>3. t[i].rests = (s[i].rests /\ s[i].done < s[i].asked /\ held'[s[i].leg] > 0)
    BY <2>1, <2>2 DEF OrderFields
  <2> QED BY <2>1, <2>2, <2>3
<1> QED BY <1>1, <1>2, FadesByFields

LEMMA FilledFades ==
  ASSUME NEW s, Orders(s), NEW k \in DOMAIN s, NEW x
  PROVE  Fades(s, Settled([s EXCEPT ![k].done = @ + x]))
<1> DEFINE u == [s EXCEPT ![k].done = @ + x]
<1>1. u = [i \in DOMAIN s |-> u[i]]
  OBVIOUS
<1>2. ASSUME NEW i \in DOMAIN s
      PROVE  DOMAIN u[i] = OrderFields /\ u[i].rests \in BOOLEAN /\ (u[i].rests => s[i].rests)
  <2>1. DOMAIN s[i] = OrderFields /\ s[i].rests \in BOOLEAN
    BY DEF Orders
  <2>2. u[i] = s[i] \/ u[i] = [s[i] EXCEPT !.done = @ + x]
    OBVIOUS
  <2> QED BY <2>1, <2>2 DEF OrderFields
<1>3. Fades(s, u)
  BY <1>1, <1>2, FadesByFields
<1>4. Fades(u, Settled(u))
  BY <1>3, SettledFades DEF Fades
<1> QED BY <1>3, <1>4 DEF Fades

LEMMA EndedFades ==
  ASSUME NEW s, Orders(s), NEW k
  PROVE  Fades(s, [s EXCEPT ![k].rests = FALSE])
<1> DEFINE u == [s EXCEPT ![k].rests = FALSE]
<1>1. u = [i \in DOMAIN s |-> u[i]]
  OBVIOUS
<1>2. ASSUME NEW i \in DOMAIN s
      PROVE  DOMAIN u[i] = OrderFields /\ u[i].rests \in BOOLEAN /\ (u[i].rests => s[i].rests)
  <2>1. DOMAIN s[i] = OrderFields /\ s[i].rests \in BOOLEAN
    BY DEF Orders
  <2>2. u[i] = s[i] \/ u[i] = [s[i] EXCEPT !.rests = FALSE]
    OBVIOUS
  <2> QED BY <2>1, <2>2 DEF OrderFields
<1> QED BY <1>1, <1>2, FadesByFields

-----------------------------------------------------------------------------
(* What a step does to the record and to what a restart restores.          *)

\* the record still names the order it named, or the next one
Like(p) == DOMAIN p = DOMAIN Fresh /\ p.cid = pending.cid
Bare(p) == DOMAIN p = DOMAIN Fresh /\ p.cid = 0
NamesNext(p) == DOMAIN p = DOMAIN Fresh /\ p.cid = Len(makers) + 1
NoneRests == \A i \in DOMAIN makers : ~makers[i].rests
SavedFields == {"pending", "book", "open", "residual"}
SavedLike ==
    \/ saved' = saved
    \/ DOMAIN saved' = SavedFields /\ (saved'.pending = NoClose \/ Like(saved'.pending))

LEMMA NotNone == ASSUME NEW p, DOMAIN p = DOMAIN Fresh PROVE p # NoClose
<1>1. "cid" \in DOMAIN p /\ "cid" \notin DOMAIN NoClose
  BY DEF Fresh, NoClose
<1> QED BY <1>1

LEMMA PendingLike == ASSUME Inductive, Exists PROVE Like(pending)
  BY DEF Inductive, Records, Record, Exists, Like

\* A step within a pass that sends nothing.
LEMMA Carried ==
  ASSUME Inductive, Exists, step # "submit", step' # "submit",
         Fades(makers, makers'), started' = started,
         guessed' \in BOOLEAN, guessed => guessed',
         \/ pending' = NoClose /\ step' \in {"idle", "end"}
         \/ Like(pending')
         \/ Bare(pending') /\ (~guessed' => NoneRests'),
         SavedLike
  PROVE  Inductive'
<1>1. Len(makers) \in Nat /\ DOMAIN makers = 1..Len(makers) /\ Orders(makers)
  BY IsOrders DEF Inductive, Records
<1>2. Orders(makers') /\ Len(makers') = Len(makers) /\ DOMAIN makers' = DOMAIN makers
      /\ \A i \in DOMAIN makers : makers'[i].rests => makers[i].rests
  BY DEF Fades
<1>3. Named = Len(makers) /\ Named' = Len(makers)
  BY <1>2 DEF Named
<1>4. pending # NoClose /\ DOMAIN pending = DOMAIN Fresh /\ pending.cid \in 0..Len(makers)
  BY <1>3 DEF Inductive, Records, Record, Exists
<1>5. started /\ started'
  BY <1>4 DEF Inductive, Records, Stages
<1>6. pending' = NoClose \/ Record(pending)'
  BY <1>1, <1>3, <1>4 DEF Like, Bare, Record
<1>7. /\ DOMAIN saved' = SavedFields
      /\ saved'.pending = NoClose \/ Record(saved.pending)'
  <2>1. CASE saved' = saved
    BY <2>1, <1>3 DEF Inductive, Records, Record, SavedFields
  <2>2. CASE saved' # saved
    BY <2>2, <1>1, <1>3, <1>4 DEF SavedLike, Like, Record
  <2> QED BY <2>1, <2>2
<1>8. Records'
  BY <1>2, <1>5, <1>6, <1>7 DEF Records, SavedFields
<1>9. Stages'
  <2>1. step' \notin {"idle", "end"} => pending' # NoClose
    BY NotNone DEF Like, Bare
  <2> QED BY <2>1, <1>5 DEF Stages, Exists
<1>10. ASSUME ~guessed' PROVE OneRests' /\ Watches(pending)' /\ Watches(saved.pending)'
  <2>1. OneRests /\ Watches(pending) /\ Watches(saved.pending)
    BY <1>10 DEF Inductive
  <2>2. OneRests'
    BY <2>1, <1>2 DEF OneRests
  <2>3. \A i \in DOMAIN makers' : makers'[i].rests => i = pending.cid
    BY <2>1, <1>2, <1>4 DEF Watches
  <2>4. Watches(pending)'
    BY <2>3, <1>2, <1>10 DEF Like, Watches, NoneRests
  <2>5. Watches(saved.pending)'
    <3>1. CASE saved' = saved
      BY <3>1, <2>1, <1>2 DEF Watches
    <3>2. CASE saved' # saved
      BY <3>2, <2>3, <1>2 DEF SavedLike, Like, Watches
    <3> QED BY <3>1, <3>2
  <2> QED BY <2>2, <2>4, <2>5
<1> QED BY <1>8, <1>9, <1>10 DEF Inductive

\* A claim: nothing rests, as far as the code knows, and the next order is
\* named in the record and in the journal.
LEMMA Claimed ==
  ASSUME Inductive, Exists, step' = "submit", Orders(makers'), started' = started,
         guessed' \in BOOLEAN, ~guessed' => NoneRests',
         NamesNext(pending)', DOMAIN saved = SavedFields, Claim(pending')
  PROVE  Inductive'
<1>1. Len(makers') \in Nat /\ DOMAIN makers' = 1..Len(makers')
  BY IsOrders
<1>2. Named' = Len(makers') + 1
  BY DEF Named
<1>3. DOMAIN pending' = DOMAIN Fresh /\ pending'.cid = Len(makers') + 1 /\ pending' # NoClose
  BY NotNone DEF NamesNext
<1>4. DOMAIN saved' = SavedFields /\ saved'.pending = pending'
  BY DEF Claim, SavedFields
<1>5. Record(pending)' /\ Record(saved.pending)'
  BY <1>1, <1>2, <1>3, <1>4 DEF Record
<1>6. started
  BY DEF Inductive, Stages, Records, Exists
<1>7. Records' /\ Stages'
  BY <1>3, <1>4, <1>5, <1>6 DEF Records, Stages, Exists, SavedFields
<1>8. ASSUME ~guessed' PROVE OneRests' /\ Watches(pending)' /\ Watches(saved.pending)'
  BY <1>8 DEF NoneRests, OneRests, Watches
<1> QED BY <1>7, <1>8 DEF Inductive

\* The order that was on its way is at the venue, or was refused there.
LEMMA Answered ==
  ASSUME Inductive, step = "submit", step' # "submit",
         NEW e, DOMAIN e = OrderFields, e.rests \in BOOLEAN, makers' = Append(makers, e),
         started' = started, guessed' = guessed, saved' = saved,
         \/ pending' = NoClose /\ step' \in {"idle", "end"}
         \/ NamesNext(pending')
  PROVE  Inductive'
<1>1. Len(makers) \in Nat /\ DOMAIN makers = 1..Len(makers) /\ Orders(makers)
  BY IsOrders DEF Inductive, Records
<1>2. /\ Orders(makers') /\ Len(makers') = Len(makers) + 1
      /\ \A i \in DOMAIN makers : makers'[i] = makers[i]
  BY <1>1, OneMore
<1>3. DOMAIN makers' = 1..(Len(makers) + 1)
  BY <1>2, IsOrders
<1>4. Named = Len(makers) + 1 /\ Named' = Len(makers) + 1
  BY <1>2 DEF Named
<1>5. started /\ pending.cid = Len(makers) + 1
      /\ saved.pending # NoClose /\ saved.pending.cid = Len(makers) + 1
  BY DEF Inductive, Records, Stages
<1>6. pending' = NoClose \/ Record(pending)'
  BY <1>1, <1>4 DEF NamesNext, Record
<1>7. Records'
  BY <1>2, <1>4, <1>5, <1>6 DEF Inductive, Records, Record
<1>8. Stages'
  <2>1. step' \notin {"idle", "end"} => pending' # NoClose
    BY NotNone DEF NamesNext
  <2> QED BY <2>1, <1>5 DEF Stages, Exists
<1>9. ASSUME ~guessed' PROVE OneRests' /\ Watches(pending)' /\ Watches(saved.pending)'
  <2>1. Watches(pending) /\ pending # NoClose
    BY <1>9 DEF Inductive, Stages, Exists
  <2>2. \A i \in DOMAIN makers : ~makers[i].rests
    BY <2>1, <1>1, <1>5 DEF Watches
  <2>3. \A i \in DOMAIN makers' : makers'[i].rests => i = Len(makers) + 1
    BY <2>2, <1>1, <1>2, <1>3
  <2> QED BY <2>3, <1>5 DEF OneRests, Watches, NamesNext
<1> QED BY <1>7, <1>8, <1>9 DEF Inductive

-----------------------------------------------------------------------------
(* What the steps do to the record.                                        *)

LEMMA LikeTaker == ASSUME NEW p, Like(p) PROVE Like(Taker(p))
  BY DEF Like, Taker, Fresh

LEMMA LikeApplied == ASSUME Like(pending), NEW done PROVE Like(Applied(done))
  BY DEF Like, Applied, Fresh

LEMMA LikeRecorded == ASSUME Like(pending), NEW x PROVE Like(Recorded(pending, x))
  BY DEF Like, Recorded, Fresh

LEMMA LikeClosed ==
  ASSUME Like(pending), NEW l, NEW x
  PROVE  Like([pending EXCEPT !.closed[l] = @ + x])
  BY DEF Like, Fresh

\* The record is dropped with the pass, or it is as it was.
Keeps == \/ pending' = NoClose /\ step' \in {"idle", "end"}
         \/ Like(pending')

LEMMA ClearOrKeeps == ASSUME NEW p, Like(p), ClearOr(p) PROVE Keeps /\ step' = "end"
  BY DEF ClearOr, Clear, EndPass, Keeps

LEMMA OtherLegKeeps == ASSUME NEW p, Like(p), OtherLeg(p) PROVE Keeps /\ step' = "onesided"
  BY DEF OtherLeg, Keeps

\* A step within a pass that leaves the orders of the venue alone.
LEMMA Kept ==
  ASSUME Inductive, Exists, step # "submit", step' # "submit",
         Fades(makers, makers'), started' = started, guessed' = guessed, Keeps, SavedLike
  PROVE  Inductive'
  BY Carried DEF Inductive, Records, Keeps

LEMMA MakersStay == ASSUME Inductive, makers' = makers PROVE Fades(makers, makers')
  BY FadesNot DEF Inductive, Records

LEMMA MakersSettle ==
  ASSUME Inductive, makers' = Settled(makers) PROVE Fades(makers, makers')
  BY SettledFades DEF Inductive, Records

LEMMA SavedNot == ASSUME saved' = saved PROVE SavedLike
  BY DEF SavedLike

LEMMA ClaimLike ==
  ASSUME Inductive, NEW p, Like(p), Claim(p) PROVE SavedLike /\ Like(pending')
  BY DEF Claim, SavedLike, SavedFields, Inductive, Records

-----------------------------------------------------------------------------
(* The steps of the maker order.                                           *)

LEMMA OpenMakerStep == ASSUME Inductive, OpenMaker PROVE Inductive'
<1>1. Exists /\ step = "drive" /\ pending.cid = 0 /\ makers' = makers
      /\ started' = started /\ guessed' = guessed
  BY DEF OpenMaker, Working, HasIds, fixed, venueVars, history
<1>2. Like(pending) /\ Fades(makers, makers') /\ Len(makers) \in Nat
  BY <1>1, PendingLike, MakersStay, IsOrders DEF Inductive, Records
<1>3. CASE Claim([pending EXCEPT !.cid = Len(makers) + 1]) /\ step' = "submit"
  <2>1. NamesNext(pending)'
    BY <1>1, <1>2, <1>3 DEF Claim, NamesNext, Like, Fresh
  <2>2. ~guessed' => NoneRests'
    BY <1>1, <1>2 DEF Inductive, Watches, Exists, NoneRests, Orders, Records
  <2>3. Claim(pending')
    BY <1>3 DEF Claim
  <2> QED BY <1>1, <1>3, <2>1, <2>2, <2>3, Claimed DEF Inductive, Records, SavedFields
<1>4. CASE ClearOr(pending) /\ UNCHANGED saved
  BY <1>1, <1>2, <1>4, ClearOrKeeps, SavedNot, Kept
<1>5. CASE OtherLeg(pending) /\ UNCHANGED saved
  BY <1>1, <1>2, <1>5, OtherLegKeeps, SavedNot, Kept
<1> QED BY <1>3, <1>4, <1>5 DEF OpenMaker

LEMMA NoMakerStep == ASSUME Inductive, NoMaker PROVE Inductive'
<1>1. Exists /\ step = "drive" /\ step' = "end" /\ makers' = makers /\ saved' = saved
      /\ started' = started /\ guessed' = guessed /\ pending' \in {pending, Taker(pending)}
  BY DEF NoMaker, Working, EndPass, fixed, venueVars, history
<1>2. Keeps
  BY <1>1, PendingLike, LikeTaker DEF Keeps
<1> QED BY <1>1, <1>2, MakersStay, SavedNot, Kept

LEMMA NamedThen ==
  ASSUME Inductive, step = "submit"
  PROVE  Exists /\ Like(pending) /\ NamesNext(pending)
<1>1. Exists /\ pending.cid = Len(makers) + 1
  BY DEF Inductive, Stages
<1> QED BY <1>1, PendingLike DEF Like, NamesNext

LEMMA LikeNamesNext ==
  ASSUME Inductive, step = "submit", NEW p, Like(p) PROVE NamesNext(p)
  BY NamedThen DEF Like, NamesNext

LEMMA Accepts ==
  ASSUME NEW l, NEW q
  PROVE  \E e : Accept(l, q) = Append(makers, e) /\ DOMAIN e = OrderFields /\ e.rests \in BOOLEAN
<1> DEFINE a == [leg |-> l, asked |-> q, done |-> 0, rests |-> held[l] > 0, known |-> TRUE]
<1>1. Accept(l, q) = Append(makers, a) /\ DOMAIN a = OrderFields /\ a.rests \in BOOLEAN
  BY DEF Accept, OrderFields
<1> QED BY <1>1

LEMMA Vanishes ==
  ASSUME NEW l, NEW q
  PROVE  \E e : /\ Vanish(l, q) = Append(makers, e) /\ DOMAIN e = OrderFields
                /\ e.rests \in BOOLEAN /\ e.rests = FALSE
<1> DEFINE v == [leg |-> l, asked |-> q, done |-> 0, rests |-> FALSE, known |-> FALSE]
<1>1. Vanish(l, q) = Append(makers, v) /\ DOMAIN v = OrderFields /\ v.rests = FALSE
  BY DEF Vanish, OrderFields
<1> QED BY <1>1

LEMMA MakerAcceptedStep == ASSUME Inductive, MakerAccepted PROVE Inductive'
<1>1. step = "submit" /\ started' = started /\ guessed' = guessed /\ saved' = saved
      /\ makers' = Accept(ask.leg, ask.quantity)
      /\ pending' = [pending EXCEPT !.order = Len(makers) + 1]
      /\ step' \in {"drive", "zero"}
  BY DEF MakerAccepted, SubmitGoesOn, Goto, fixed, history
<1>2. PICK e : makers' = Append(makers, e) /\ DOMAIN e = OrderFields /\ e.rests \in BOOLEAN
  BY <1>1, Accepts
<1>3. NamesNext(pending')
  BY <1>1, NamedThen DEF NamesNext, Fresh
<1> QED BY <1>1, <1>2, <1>3, Answered

LEMMA MakerUnansweredStep == ASSUME Inductive, MakerUnanswered PROVE Inductive'
<1>1. step = "submit" /\ started' = started /\ guessed' = guessed /\ saved' = saved
      /\ makers' \in {Accept(ask.leg, ask.quantity), Vanish(ask.leg, ask.quantity)}
      /\ pending' = pending /\ step' \in {"end", "zero"}
  BY DEF MakerUnanswered, SubmitFails, EndPass, Goto, fixed, history
<1>2. PICK e : makers' = Append(makers, e) /\ DOMAIN e = OrderFields /\ e.rests \in BOOLEAN
  <2>1. CASE makers' = Accept(ask.leg, ask.quantity)
    BY <2>1, Accepts
  <2>2. CASE makers' = Vanish(ask.leg, ask.quantity)
    BY <2>2, Vanishes
  <2> QED BY <1>1, <2>1, <2>2
<1> QED BY <1>1, <1>2, NamedThen, Answered

LEMMA MakerRefusedStep == ASSUME Inductive, MakerRefused PROVE Inductive'
<1>1. step = "submit" /\ started' = started /\ guessed' = guessed /\ saved' = saved
      /\ makers' = Vanish(ask.leg, ask.quantity)
  BY DEF MakerRefused, fixed, history
<1>2. PICK e : makers' = Append(makers, e) /\ DOMAIN e = OrderFields /\ e.rests \in BOOLEAN
  BY <1>1, Vanishes
<1>3. Like(Taker(pending))
  BY <1>1, NamedThen, LikeTaker
<1>4. Keeps /\ step' # "submit"
  <2>1. CASE pending' = Taker(pending) /\ SubmitFails
    BY <2>1, <1>3 DEF Keeps, SubmitFails, EndPass, Goto
  <2>2. CASE OtherLeg(Taker(pending))
    BY <2>2, <1>3, OtherLegKeeps
  <2>3. CASE ClearOr(Taker(pending))
    BY <2>3, <1>3, ClearOrKeeps
  <2> QED BY <2>1, <2>2, <2>3 DEF MakerRefused
<1>5. (pending' = NoClose /\ step' \in {"idle", "end"}) \/ NamesNext(pending')
  BY <1>1, <1>4, LikeNamesNext DEF Keeps
<1> QED BY <1>1, <1>2, <1>4, <1>5, Answered

LEMMA MakerRequotedStep == ASSUME Inductive, MakerRequoted PROVE Inductive'
<1>1. step = "submit" /\ step' = "submit" /\ started' = started /\ guessed' = guessed
      /\ makers' = Vanish(ask.leg, ask.quantity)
      /\ Claim([pending EXCEPT !.cid = Len(makers) + 2])
  BY DEF MakerRequoted, fixed, history
<1>2. PICK e : /\ makers' = Append(makers, e) /\ DOMAIN e = OrderFields
               /\ e.rests \in BOOLEAN /\ e.rests = FALSE
  <2>1. makers' = Vanish(ask.leg, ask.quantity)
    BY <1>1
  <2> QED BY <2>1, Vanishes
<1>3. Exists /\ Like(pending) /\ NamesNext(pending)
  BY <1>1, NamedThen
<1>4. Len(makers) \in Nat /\ DOMAIN makers = 1..Len(makers) /\ Orders(makers)
  BY IsOrders DEF Inductive, Records
<1>5. /\ Orders(makers') /\ Len(makers') = Len(makers) + 1
      /\ \A i \in DOMAIN makers : makers'[i] = makers[i]
      /\ makers'[Len(makers) + 1] = e
  <2>1. makers' = Append(makers, e) /\ DOMAIN e = OrderFields /\ e.rests \in BOOLEAN
    BY <1>2
  <2> QED BY <2>1, <1>4, OneMore
<1>6. DOMAIN makers' = 1..(Len(makers) + 1)
  BY <1>5, IsOrders
<1>7. NamesNext(pending)'
  BY <1>1, <1>3, <1>4, <1>5 DEF Claim, NamesNext, Fresh
<1>8. ~guessed' => NoneRests'
  <2>1. ~guessed => \A i \in DOMAIN makers : ~makers[i].rests
    BY <1>3, <1>4 DEF Inductive, Watches, NamesNext, Exists
  <2> QED BY <2>1, <1>1, <1>2, <1>4, <1>5, <1>6 DEF NoneRests
<1>9. Claim(pending')
  BY <1>1 DEF Claim
<1> QED BY <1>1, <1>3, <1>5, <1>7, <1>8, <1>9, Claimed DEF Inductive, Records, SavedFields

LEMMA PollSteps ==
  ASSUME Inductive, PollNothing \/ PollResting \/ PollFilled PROVE Inductive'
<1>1. Exists /\ step = "drive" /\ makers' = makers /\ saved' = saved
      /\ started' = started /\ guessed' = guessed
  BY DEF PollNothing, PollResting, PollFilled, Working, fixed, venueVars, history
<1>2. Like(pending)
  BY <1>1, PendingLike
<1>3. pending' = pending \/ \E done : pending' = Applied(done)
  BY DEF PollNothing, PollResting, PollFilled
<1>4. Keeps
  BY <1>2, <1>3, LikeApplied DEF Keeps
<1>5. step' # "submit"
  BY DEF PollNothing, PollResting, PollFilled, EndPass, Onwards
<1> QED BY <1>1, <1>4, <1>5, MakersStay, SavedNot, Kept

LEMMA PollEndedStep == ASSUME Inductive, PollEnded PROVE Inductive'
<1> DEFINE p == Applied(makers[Watched].done)
<1>1. Exists /\ step = "drive" /\ makers' = makers /\ saved' = saved /\ started' = started
  BY DEF PollEnded, Working, fixed, venueVars
<1>2. Like(p)
  BY <1>1, PendingLike, LikeApplied
<1>3. Fades(makers, makers') /\ SavedLike
  BY <1>1, MakersStay, SavedNot
<1>4. \/ pending' = p /\ EndPass /\ guessed' = guessed
      \/ ClearOr(p) /\ guessed' = guessed
      \/ OtherLeg(p) /\ guessed' = guessed
      \/ /\ pending' = [p EXCEPT !.order = 0, !.cid = 0] /\ Onwards("gap")
         /\ guessed' = (guessed \/ Rests(pending.cid))
  BY DEF PollEnded
<1> HIDE DEF p
<1>5. CASE pending' = p /\ EndPass /\ guessed' = guessed
  BY <1>1, <1>2, <1>3, <1>5, Kept DEF Keeps, EndPass
<1>6. CASE ClearOr(p) /\ guessed' = guessed
  BY <1>1, <1>2, <1>3, <1>6, ClearOrKeeps, Kept
<1>7. CASE OtherLeg(p) /\ guessed' = guessed
  BY <1>1, <1>2, <1>3, <1>7, OtherLegKeeps, Kept
<1>8. CASE /\ pending' = [p EXCEPT !.order = 0, !.cid = 0] /\ Onwards("gap")
           /\ guessed' = (guessed \/ Rests(pending.cid))
  <2>1. Bare(pending') /\ step' = "gap"
    BY <1>2, <1>8 DEF Like, Bare, Fresh, Onwards
  <2>2. guessed' \in BOOLEAN /\ (guessed => guessed')
    BY <1>8 DEF Inductive, Records
  <2>3. ~guessed' => NoneRests'
    BY <1>1, <1>8 DEF Inductive, Watches, Exists, NoneRests, Rests
  <2> QED BY <1>1, <1>3, <2>1, <2>2, <2>3, Carried
<1> QED BY <1>4, <1>5, <1>6, <1>7, <1>8

-----------------------------------------------------------------------------
(* The steps of the hedge.                                                 *)

\* a hedge is sent or asked for; only a new id changes the record
LEMMA HedgeKeeps ==
  ASSUME Inductive, Exists, NEW q, NEW next, Hedge(q, next)
  PROVE  Keeps /\ SavedLike /\ step' # "submit"
<1>1. Like(pending)
  BY PendingLike
<1>2. CASE UNCHANGED <<pending, saved>>
  BY <1>1, <1>2, SavedNot DEF Keeps, Hedge, SendHedge, AskHedge
<1>3. CASE Claim([pending EXCEPT !.claimed = @ \cup {HedgeId}])
  <2>1. Like([pending EXCEPT !.claimed = @ \cup {HedgeId}])
    BY <1>1 DEF Like, Fresh
  <2> QED BY <1>3, <2>1, ClaimLike DEF Keeps, Hedge, SendHedge, AskHedge
<1> QED BY <1>2, <1>3 DEF Hedge, SendHedge, AskHedge

LEMMA GapSteps == ASSUME Inductive, MakerFilled \/ MindTheGap PROVE Inductive'
<1>1. step \in {"filled", "gap"} /\ makers' = makers
      /\ started' = started /\ guessed' = guessed
  BY DEF MakerFilled, MindTheGap, fixed, venueVars, history
<1>2. Exists
  BY <1>1 DEF Inductive, Stages
<1>3. Like(pending) /\ Like(Taker(pending))
  BY <1>2, PendingLike, LikeTaker
<1>4. \/ \E q, next : Hedge(q, next)
      \/ /\ pending' \in {pending, Taker(pending)} /\ saved' = saved
         /\ step' \in {"compensate", "hedged", "end"}
  <2>1. CASE MakerFilled
    BY <2>1 DEF MakerFilled, Compensate
  <2>2. CASE MindTheGap
    BY <2>2 DEF MindTheGap, Compensate, EndPass
  <2> QED BY <2>1, <2>2
<1>5. Keeps /\ SavedLike /\ step' # "submit"
  BY <1>2, <1>3, <1>4, HedgeKeeps, SavedNot DEF Keeps
<1> QED BY <1>1, <1>2, <1>5, MakersStay, Kept

\* The answers to a hedge and to the question for it.
HedgeAnswers == HedgeAnswered \/ HedgeSlow \/ HedgeUnanswered \/ HedgeRefused
                \/ HedgeReconciled \/ DuplicateUnknown

LEMMA HedgeAnswerSteps == ASSUME Inductive, HedgeAnswers PROVE Inductive'
<1>1. step \in {"hedge", "reconcile"} /\ saved' = saved
      /\ started' = started /\ guessed' = guessed
  BY DEF HedgeAnswers, HedgeAnswered, HedgeSlow, HedgeUnanswered, HedgeRefused,
         HedgeReconciled, DuplicateUnknown, Hedging, fixed, history
<1>2. Exists
  BY <1>1 DEF Inductive, Stages
<1>3. Like(pending)
  BY <1>2, PendingLike
<1>4. makers' = makers \/ makers' = Settled(makers)
  BY DEF HedgeAnswers, HedgeAnswered, HedgeSlow, HedgeUnanswered, HedgeRefused,
         HedgeReconciled, DuplicateUnknown, FillHedge, venueVars
<1>5. \/ pending' = pending \/ pending' = [pending EXCEPT !.gap = TRUE]
      \/ \E x : pending' = Recorded(pending, x)
  BY DEF HedgeAnswers, HedgeAnswered, HedgeSlow, HedgeUnanswered, HedgeRefused,
         HedgeReconciled, DuplicateUnknown
<1>6. Like([pending EXCEPT !.gap = TRUE])
  BY <1>3 DEF Like, Fresh
<1>7. Keeps
  BY <1>3, <1>5, <1>6, LikeRecorded DEF Keeps
<1>8. step' # "submit"
  BY DEF HedgeAnswers, HedgeAnswered, HedgeSlow, HedgeUnanswered, HedgeRefused,
         HedgeReconciled, DuplicateUnknown, Hedged
<1> QED BY <1>1, <1>2, <1>4, <1>7, <1>8, MakersStay, MakersSettle, SavedNot, Kept

LEMMA DuplicateKnownStep == ASSUME Inductive, DuplicateKnown PROVE Inductive'
<1>1. step = "hedge" /\ makers' = makers /\ started' = started /\ guessed' = guessed
  BY DEF DuplicateKnown, Hedging, fixed, venueVars
<1>2. Exists
  BY <1>1 DEF Inductive, Stages
<1>3. \E q : LET p == IF q > 0 THEN Recorded(pending, q) ELSE pending
             IN  \/ pending' = p /\ saved' = saved /\ step' = "hedged"
                 \/ Claim(p) /\ step' = "retry"
  BY DEF DuplicateKnown, Hedged
<1>4. PICK p : Like(p) /\ \/ pending' = p /\ saved' = saved /\ step' = "hedged"
                          \/ Claim(p) /\ step' = "retry"
  BY <1>2, <1>3, PendingLike, LikeRecorded
<1>5. Keeps /\ SavedLike /\ step' # "submit"
  BY <1>4, ClaimLike, SavedNot DEF Keeps
<1> QED BY <1>1, <1>2, <1>5, MakersStay, Kept

LEMMA RetryAnsweredStep == ASSUME Inductive, RetryAnswered PROVE Inductive'
<1>1. step = "retry" /\ saved' = saved /\ makers' = Settled(makers)
      /\ started' = started /\ guessed' = guessed /\ step' = "hedged"
  BY DEF RetryAnswered, Hedged, fixed, history
<1>2. Exists
  BY <1>1 DEF Inductive, Stages
<1>3. \/ pending' = pending
      \/ \E x : pending' = [pending EXCEPT !.hedge = @ + x, !.closed[HedgeLeg] = @ + x]
  BY DEF RetryAnswered
<1>4. Keeps
  BY <1>2, <1>3, PendingLike DEF Keeps, Like, Fresh
<1> QED BY <1>1, <1>2, <1>4, MakersSettle, SavedNot, Kept

-----------------------------------------------------------------------------
(* The rest of a round.                                                    *)

\* A step that forgets the order: it counts as guessed when one rests.
Forgets == /\ Bare(pending') /\ saved' = saved /\ step' = "drive"
           /\ guessed' = (guessed \/ \E i \in DOMAIN makers : makers[i].rests)

LEMMA ForgetsStep ==
  ASSUME Inductive, Exists, step # "submit", makers' = makers, started' = started, Forgets
  PROVE  Inductive'
<1>1. guessed' \in BOOLEAN /\ (guessed => guessed')
  BY DEF Inductive, Records, Forgets
<1>2. ~guessed' => NoneRests'
  BY DEF Forgets, NoneRests
<1> QED BY <1>1, <1>2, MakersStay, SavedNot, Carried DEF Forgets

LEMMA AdvanceStep ==
  ASSUME Inductive, Exists, step # "submit", makers' = makers, started' = started, Advance
  PROVE  Inductive'
<1>1. CASE Finalize /\ guessed' = guessed
  <2>1. Keeps /\ step' # "submit"
    BY <1>1 DEF Finalize, Keeps, EndPass
  <2>2. SavedLike
    BY <1>1 DEF Finalize, SavedLike, SavedFields
  <2> QED BY <1>1, <2>1, <2>2, MakersStay, Kept
<1>2. CASE ~(Finalize /\ guessed' = guessed)
  <2>1. pending' = [pending EXCEPT !.phase = "high", !.leg = "long", !.order = 0, !.cid = 0,
                                   !.maker = 0, !.hedge = 0, !.chunk = @ + 1, !.zero = 0]
    BY <1>2 DEF Advance
  <2>2. Bare(pending')
    BY <2>1, PendingLike DEF Like, Bare, Fresh
  <2>3. Forgets
    BY <1>2, <2>2 DEF Advance, Forgets, Goto
  <2> QED BY <2>3, ForgetsStep
<1> QED BY <1>1, <1>2

LEMMA AfterSteps == ASSUME Inductive, AfterFilled \/ AfterGap PROVE Inductive'
<1>1. step = "hedged" /\ makers' = makers /\ started' = started
  BY DEF AfterFilled, AfterGap, fixed, venueVars
<1>2. Exists
  BY <1>1 DEF Inductive, Stages
<1>3. Like(pending) /\ Like(Taker(pending))
  BY <1>2, PendingLike, LikeTaker
<1>4. CASE Advance
  BY <1>1, <1>2, <1>4, AdvanceStep
<1>5. CASE ~Advance
  <2>1. /\ saved' = saved /\ guessed' = guessed
        /\ \/ ClearOr(pending) \/ ClearOr(Taker(pending))
           \/ pending' \in {pending, Taker(pending)} /\ step' \in {"end", "drive", "maintain"}
    <3>1. CASE AfterFilled
      BY <1>5, <3>1 DEF AfterFilled, EndPass
    <3>2. CASE AfterGap
      BY <1>5, <3>2 DEF AfterGap, EndPass, Goto
    <3> QED BY <3>1, <3>2
  <2>2. Keeps /\ step' # "submit"
    BY <2>1, <1>3, ClearOrKeeps DEF Keeps
  <2> QED BY <1>1, <1>2, <2>1, <2>2, MakersStay, SavedNot, Kept
<1> QED BY <1>4, <1>5

LEMMA HoldStep == ASSUME Inductive, Hold PROVE Inductive'
<1>1. step = "maintain" /\ step' = "zero" /\ makers' = makers /\ saved' = saved
      /\ started' = started /\ guessed' = guessed /\ pending' = pending
  BY DEF Hold, Goto, fixed, venueVars, history
<1>2. Exists
  BY <1>1 DEF Inductive, Stages
<1>3. Keeps
  BY <1>1, <1>2, PendingLike DEF Keeps
<1> QED BY <1>1, <1>2, <1>3, MakersStay, SavedNot, Kept

LEMMA AmendFailsStep == ASSUME Inductive, AmendFails PROVE Inductive'
<1>1. step = "maintain" /\ step' = "drive" /\ makers' = makers /\ saved' = saved
      /\ started' = started /\ guessed' = guessed
      /\ pending' = Applied(makers[pending.order].done)
  BY DEF AmendFails, Goto, fixed, venueVars, history
<1>2. Exists
  BY <1>1 DEF Inductive, Stages
<1>3. Keeps
  BY <1>1, <1>2, PendingLike, LikeApplied DEF Keeps
<1> QED BY <1>1, <1>2, <1>3, MakersStay, SavedNot, Kept

LEMMA ReplaceStep == ASSUME Inductive, Replace PROVE Inductive'
<1>1. step = "maintain" /\ started' = started
      /\ makers' \in {makers, [makers EXCEPT ![pending.order].rests = FALSE]}
  BY DEF Replace, fixed
<1>2. Exists /\ Like(pending)
  BY <1>1, PendingLike DEF Inductive, Stages
<1>3. Fades(makers, makers')
  <2>1. CASE makers' = makers
    BY <2>1, MakersStay
  <2>2. CASE makers' = [makers EXCEPT ![pending.order].rests = FALSE]
    <3>1. Orders(makers)
      BY DEF Inductive, Records
    <3>2. Fades(makers, [makers EXCEPT ![pending.order].rests = FALSE])
      BY <3>1, EndedFades
    <3> QED BY <2>2, <3>2
  <2> QED BY <1>1, <2>1, <2>2
<1>4. CASE Goto("zero") /\ UNCHANGED <<pending, saved, guessed>>
  BY <1>1, <1>2, <1>3, <1>4, SavedNot, Kept DEF Keeps, Goto
<1>5. CASE /\ guessed' = (guessed \/ \E i \in DOMAIN makers' : makers'[i].rests)
           /\ Claim([pending EXCEPT !.cid = Len(makers) + 1]) /\ step' = "submit"
  <2>1. guessed' \in BOOLEAN /\ (~guessed' => NoneRests')
    BY <1>5 DEF Inductive, Records, NoneRests
  <2>2. Orders(makers') /\ Len(makers') = Len(makers)
    BY <1>3 DEF Fades
  <2>3. NamesNext(pending)'
    BY <1>2, <1>5, <2>2 DEF Claim, NamesNext, Like, Fresh
  <2>4. Claim(pending')
    BY <1>5 DEF Claim
  <2> QED BY <1>1, <1>2, <1>5, <2>1, <2>2, <2>3, <2>4, Claimed DEF Inductive, Records, SavedFields
<1> QED BY <1>4, <1>5 DEF Replace

LEMMA ZeroFillStep == ASSUME Inductive, ZeroFill PROVE Inductive'
<1>1. step = "zero" /\ makers' = makers /\ saved' = saved /\ started' = started
  BY DEF ZeroFill, fixed, venueVars
<1>2. Exists /\ Like(pending) /\ Like(Taker(pending))
  BY <1>1, PendingLike, LikeTaker DEF Inductive, Stages
<1>3. \/ /\ guessed' = guessed /\ step' \in {"end", "fallback"}
         /\ pending' \in {[pending EXCEPT !.zero = @ + 1], Taker(pending)}
      \/ /\ pending' = [pending EXCEPT !.phase = "low", !.leg = "short", !.zero = 0,
                                        !.order = 0, !.cid = 0, !.maker = 0, !.hedge = 0]
         /\ guessed' = (guessed \/ \E i \in DOMAIN makers : makers[i].rests)
         /\ step' = "drive"
  BY DEF ZeroFill, EndPass, Goto
<1>4. CASE /\ guessed' = guessed /\ step' \in {"end", "fallback"}
           /\ pending' \in {[pending EXCEPT !.zero = @ + 1], Taker(pending)}
  <2>1. Like([pending EXCEPT !.zero = @ + 1])
    BY <1>2 DEF Like, Fresh
  <2>2. Keeps
    BY <1>2, <1>4, <2>1 DEF Keeps
  <2> QED BY <1>1, <1>2, <1>4, <2>2, MakersStay, SavedNot, Kept
<1>5. CASE /\ pending' = [pending EXCEPT !.phase = "low", !.leg = "short", !.zero = 0,
                                         !.order = 0, !.cid = 0, !.maker = 0, !.hedge = 0]
           /\ guessed' = (guessed \/ \E i \in DOMAIN makers : makers[i].rests)
           /\ step' = "drive"
  <2>1. Bare(pending')
    BY <1>2, <1>5 DEF Like, Bare, Fresh
  <2> QED BY <1>1, <1>2, <1>5, <2>1, ForgetsStep DEF Forgets
<1> QED BY <1>3, <1>4, <1>5

-----------------------------------------------------------------------------
(* The steps of the fallback.                                              *)

LEMMA FallbackSends ==
  ASSUME Inductive, DriveTaker \/ FallbackNothing \/ FallbackLive \/ FallbackBlind \/ FallbackHedged
  PROVE  Inductive'
<1>1. step \in {"drive", "fallback", "hedged"} /\ makers' = makers
      /\ started' = started /\ guessed' = guessed
  BY DEF DriveTaker, TakerPhase, FallbackNothing, FallbackLive, FallbackBlind, FallbackHedged,
         fixed, venueVars, history
<1>2. Exists /\ Like(pending)
  BY <1>1, PendingLike DEF Inductive, Stages
<1>3. \/ \E q, next : Hedge(q, next)
      \/ saved' = saved /\ ClearOr(pending)
      \/ saved' = saved /\ pending' = NoClose /\ step' = "end"
      \/ /\ saved' = saved /\ pending' = pending
         /\ step' \in {"fallback", "end", "compensate", "onesided", "aggressive"}
  <2>1. CASE DriveTaker \/ FallbackNothing
    BY <2>1 DEF DriveTaker, FallbackNothing, Goto, EndPass
  <2>2. CASE FallbackLive
    BY <2>2 DEF FallbackLive, Clear, EndPass, Onesided, Aggressive
  <2>3. CASE FallbackBlind
    BY <2>3 DEF FallbackBlind, EndPass, Aggressive
  <2>4. CASE FallbackHedged
    BY <2>4 DEF FallbackHedged, EndPass, Aggressive
  <2> QED BY <2>1, <2>2, <2>3, <2>4
<1>4. Keeps /\ SavedLike /\ step' # "submit"
  BY <1>2, <1>3, HedgeKeeps, ClearOrKeeps, SavedNot DEF Keeps
<1> QED BY <1>1, <1>2, <1>4, MakersStay, Kept

LEMMA FallbackAnswers ==
  ASSUME Inductive, \/ FlattenAnswered \/ FlattenUnanswered \/ AggressiveAnswered
                    \/ AggressiveUnknown \/ CompensateFlat \/ CompensateFails
  PROVE  Inductive'
<1>1. step \in {"onesided", "aggressive", "compensate"} /\ makers' = Settled(makers)
      /\ started' = started /\ guessed' = guessed
  BY DEF FlattenAnswered, FlattenUnanswered, AggressiveAnswered, AggressiveUnknown, CompensateFlat,
         CompensateFails, Fills, FillsBoth, fixed, history
<1>2. Exists /\ Like(pending) /\ Like(Taker(pending))
  BY <1>1, PendingLike, LikeTaker DEF Inductive, Stages
<1>3. \/ pending' = NoClose /\ step' = "end"
      \/ /\ step' \in {"end", "aggressive", "check", "compensate"}
         /\ \/ pending' \in {pending, Taker(pending)}
            \/ \E x : pending' = [pending EXCEPT !.closed[ask.leg] = @ + x]
  <2>1. CASE FlattenAnswered
    BY <2>1 DEF FlattenAnswered, Goto
  <2>2. CASE FlattenUnanswered
    BY <2>2 DEF FlattenUnanswered, Goto, EndPass
  <2>3. CASE AggressiveAnswered \/ AggressiveUnknown
    BY <2>3 DEF AggressiveAnswered, AggressiveUnknown, Goto, EndPass
  <2>4. CASE CompensateFlat \/ CompensateFails
    BY <2>4 DEF CompensateFlat, CompensateFails, Clear, EndPass
  <2> QED BY <2>1, <2>2, <2>3, <2>4
<1>4. saved' = saved \/ saved' = [saved EXCEPT !.pending = pending]
  BY DEF FlattenAnswered, FlattenUnanswered, AggressiveAnswered, AggressiveUnknown, CompensateFlat,
         CompensateFails, fixed
<1>5. Keeps /\ step' # "submit"
  BY <1>2, <1>3, LikeClosed DEF Keeps
<1>6. SavedLike
  BY <1>2, <1>4 DEF SavedLike, SavedFields, Inductive, Records
<1> QED BY <1>1, <1>2, <1>5, <1>6, MakersSettle, Kept

LEMMA CheckStep == ASSUME Inductive, Check PROVE Inductive'
<1>1. step = "check" /\ makers' = makers /\ saved' = saved /\ ClearOr(pending)
      /\ started' = started /\ guessed' = guessed
  BY DEF Check, fixed, venueVars, history
<1>2. Exists /\ Like(pending)
  BY <1>1, PendingLike DEF Inductive, Stages
<1> QED BY <1>1, <1>2, ClearOrKeeps, MakersStay, SavedNot, Kept

-----------------------------------------------------------------------------
(* The lane, the snapshot, a crash, and the venue on its own.              *)

LEMMA StartStep == ASSUME Inductive, Start PROVE Inductive'
<1>1. step = "idle" /\ ~started /\ started' = TRUE /\ pending' = Fresh /\ step' = "drive"
      /\ saved' = [saved EXCEPT !.pending = Fresh] /\ makers' = makers /\ guessed' = guessed
  BY DEF Start, Goto, venueVars, history
<1>2. makers = <<>> /\ Orders(makers) /\ DOMAIN saved = SavedFields /\ guessed \in BOOLEAN
  BY <1>1 DEF Inductive, Records, Stages, SavedFields
<1>3. Len(makers) = 0 /\ DOMAIN makers = {}
  BY <1>2, IsOrders
<1>4. Fresh.cid = 0 /\ Fresh # NoClose
  BY NotNone DEF Fresh
<1>5. DOMAIN saved' = SavedFields /\ saved'.pending = Fresh
  BY <1>1, <1>2 DEF SavedFields
<1>6. Records'
  BY <1>1, <1>2, <1>3, <1>4, <1>5 DEF Records, Record, Named, SavedFields
<1>7. Stages'
  BY <1>1, <1>4 DEF Stages, Exists
<1>8. OneRests' /\ Watches(pending)' /\ Watches(saved.pending)'
  BY <1>1, <1>3 DEF OneRests, Watches
<1> QED BY <1>6, <1>7, <1>8 DEF Inductive

LEMMA TickStep == ASSUME Inductive, Tick PROVE Inductive'
<1>1. step = "idle" /\ Exists /\ makers' = makers /\ saved' = saved
      /\ started' = started /\ guessed' = guessed
  BY DEF Tick, fixed, venueVars, history
<1>2. Like(pending) /\ Like(Taker(pending))
  BY <1>1, PendingLike, LikeTaker
<1>3. Keeps /\ step' # "submit"
  BY <1>2 DEF Tick, Clear, EndPass, Armed, Goto, Keeps
<1> QED BY <1>1, <1>3, MakersStay, SavedNot, Kept

LEMMA SaveStep == ASSUME Inductive, Save PROVE Inductive'
<1>1. step = "end" /\ step' = "idle" /\ makers' = makers /\ pending' = pending
      /\ saved' = Current /\ started' = started /\ guessed' = guessed
  BY DEF Save, fixed, venueVars, history
<1>2. DOMAIN saved' = {"pending", "book", "open", "residual"} /\ saved'.pending = pending
  BY <1>1 DEF Current
<1>3. started
  BY <1>1 DEF Inductive, Records, Stages
<1>4. Records'
  BY <1>1, <1>2 DEF Inductive, Records, Record, Named
<1>5. Stages'
  BY <1>1, <1>3 DEF Stages
<1>6. ~guessed' => OneRests' /\ Watches(pending)' /\ Watches(saved.pending)'
  BY <1>1, <1>2 DEF Inductive, OneRests, Watches
<1> QED BY <1>4, <1>5, <1>6 DEF Inductive

\* Steps outside a pass, and those of the venue: the record stays.
LEMMA Outside ==
  ASSUME Inductive, Fades(makers, makers'), pending' \in {pending, saved.pending},
         saved' = saved, started' = started, guessed' = guessed, step # "submit",
         \/ pending' = pending /\ step' = step
         \/ step' = "idle"
  PROVE  Inductive'
<1>1. /\ Orders(makers) /\ Orders(makers') /\ Len(makers') = Len(makers)
      /\ DOMAIN makers' = DOMAIN makers
      /\ \A i \in DOMAIN makers : makers'[i].rests => makers[i].rests
  BY DEF Fades, Inductive, Records
<1>2. Records'
  BY <1>1 DEF Inductive, Records, Record, Named
<1>3. makers = <<>> => makers' = <<>>
  <2>1. ASSUME makers = <<>> PROVE makers' = <<>>
    <3>1. Len(makers') = 0 /\ makers' \in Seq(Range(makers'))
      BY <1>1, <2>1 DEF Orders
    <3> QED BY <3>1
  <2> QED BY <2>1
<1>4. Stages'
  BY <1>3 DEF Inductive, Stages, Exists
<1>5. ASSUME ~guessed' PROVE OneRests' /\ Watches(pending)' /\ Watches(saved.pending)'
  <2>1. OneRests /\ Watches(pending) /\ Watches(saved.pending)
    BY <1>5 DEF Inductive
  <2> QED BY <1>1, <2>1 DEF OneRests, Watches
<1> QED BY <1>2, <1>4, <1>5 DEF Inductive

\* An order on its way may have arrived when the process crashes.
LEMMA CrashStep == ASSUME Inductive, Crash PROVE Inductive'
<1>1. pending' = saved.pending /\ saved' = saved /\ step' = "idle"
      /\ started' = started /\ guessed' = guessed /\ InFlight
  BY DEF Crash, history
<1>2. CASE step = "submit"
  <2>1. \/ makers' = Vanish(ask.leg, ask.quantity) \/ makers' = Accept(ask.leg, ask.quantity)
    BY <1>1, <1>2 DEF InFlight
  <2>2. PICK e : makers' = Append(makers, e) /\ DOMAIN e = OrderFields /\ e.rests \in BOOLEAN
    <3>1. CASE makers' = Accept(ask.leg, ask.quantity)
      BY <3>1, Accepts
    <3>2. CASE makers' = Vanish(ask.leg, ask.quantity)
      BY <3>2, Vanishes
    <3> QED BY <2>1, <3>1, <3>2
  <2>3. NamesNext(pending')
    BY <1>1, <1>2 DEF Inductive, Stages, Records, Record, NamesNext
  <2> QED BY <1>1, <1>2, <2>2, <2>3, Answered
<1>3. CASE step # "submit"
  <2>1. makers' = makers \/ makers' = Settled(makers)
    BY <1>1, <1>3 DEF InFlight, FillHedge, Fills, FillsBoth
  <2> QED BY <1>1, <1>3, <2>1, MakersStay, MakersSettle, Outside
<1> QED BY <1>2, <1>3

\* An order that is on its way is not at the venue yet.
LEMMA VenueStep ==
  ASSUME Inductive, Fades(makers, makers'), pending' = pending, saved' = saved, step' = step,
         started' = started, guessed' = guessed
  PROVE  Inductive'
<1>1. CASE step # "submit"
  BY <1>1, Outside
<1>2. CASE step = "submit"
  <2>1. /\ Orders(makers') /\ Len(makers') = Len(makers) /\ DOMAIN makers' = DOMAIN makers
        /\ \A i \in DOMAIN makers : makers'[i].rests => makers[i].rests
    BY DEF Fades
  <2>2. started
    BY <1>2 DEF Inductive, Records, Stages
  <2>3. Records'
    BY <2>1 DEF Inductive, Records, Record, Named
  <2>4. Stages'
    BY <1>2, <2>1, <2>2 DEF Inductive, Stages, Exists
  <2>5. ASSUME ~guessed' PROVE OneRests' /\ Watches(pending)' /\ Watches(saved.pending)'
    <3>1. OneRests /\ Watches(pending) /\ Watches(saved.pending)
      BY <2>5 DEF Inductive
    <3> QED BY <2>1, <3>1 DEF OneRests, Watches
  <2> QED BY <2>3, <2>4, <2>5 DEF Inductive
<1> QED BY <1>1, <1>2

LEMMA VenueSteps == ASSUME Inductive, Venue PROVE Inductive'
<1>1. pending' = pending /\ saved' = saved /\ step' = step /\ started' = started
      /\ guessed' = guessed
  BY DEF Venue, MakerFills, MakerDies, fixed, history
<1>2. Orders(makers)
  BY DEF Inductive, Records
<1>3. Fades(makers, makers')
  <2>1. CASE MakerFills
    <3>1. PICK i \in DOMAIN makers : \E x : makers' = Settled([makers EXCEPT ![i].done = @ + x])
      BY <2>1 DEF MakerFills
    <3> QED BY <1>2, <3>1, FilledFades
  <2>2. CASE MakerDies
    <3>1. PICK i : makers' = [makers EXCEPT ![i].rests = FALSE]
      BY <2>2 DEF MakerDies
    <3>2. Fades(makers, [makers EXCEPT ![i].rests = FALSE])
      BY <1>2, EndedFades
    <3> QED BY <3>1, <3>2
  <2> QED BY <2>1, <2>2 DEF Venue
<1> QED BY <1>1, <1>3, VenueStep

LEMMA InitInductive == Init => Inductive
<1> SUFFICES ASSUME Init PROVE Inductive
  OBVIOUS
<1>1. makers = <<>> /\ pending = NoClose /\ step = "idle" /\ started = FALSE /\ guessed = FALSE
      /\ DOMAIN saved = {"pending", "book", "open", "residual"} /\ saved.pending = NoClose
  BY DEF Init
<1>2. Len(makers) = 0 /\ DOMAIN makers = {} /\ makers \in Seq(Range(makers))
  BY <1>1
<1> QED BY <1>1, <1>2 DEF Inductive, Records, Stages, Orders, OneRests, Watches

LEMMA NextInductive == Inductive /\ [Next]_vars => Inductive'
<1> SUFFICES ASSUME Inductive, [Next]_vars PROVE Inductive'
  OBVIOUS
<1>1. CASE MakerStep
  BY <1>1, OpenMakerStep, NoMakerStep, MakerAcceptedStep, MakerUnansweredStep, MakerRefusedStep,
     MakerRequotedStep, PollSteps, PollEndedStep DEF MakerStep
<1>2. CASE HedgeStep
  BY <1>2, GapSteps, HedgeAnswerSteps, DuplicateKnownStep, RetryAnsweredStep
  DEF HedgeStep, HedgeAnswers
<1>3. CASE RoundStep
  BY <1>3, AfterSteps, HoldStep, AmendFailsStep, ReplaceStep, ZeroFillStep DEF RoundStep
<1>4. CASE DriveTaker \/ FallbackStep
  BY <1>4, FallbackSends, FallbackAnswers, CheckStep DEF FallbackStep
<1>5. CASE Start \/ Tick \/ Save \/ Crash \/ Venue
  BY <1>5, StartStep, TickStep, SaveStep, CrashStep, VenueSteps
<1>6. CASE DeadlinePasses \/ UNCHANGED vars
  <2>1. pending' = pending /\ saved' = saved /\ step' = step /\ started' = started
        /\ guessed' = guessed /\ makers' = makers
    BY <1>6 DEF DeadlinePasses, vars, venueVars, history
  <2> QED BY <2>1, MakersStay, VenueStep
<1> QED BY <1>1, <1>2, <1>3, <1>4, <1>5, <1>6 DEF Next, PassStep

LEMMA RestsAlone ==
  ASSUME OneRests
  PROVE  Cardinality({i \in DOMAIN makers : makers[i].rests}) <= 1
<1> DEFINE R == {i \in DOMAIN makers : makers[i].rests}
<1>1. CASE R = {}
  BY <1>1, FS_EmptySet
<1>2. CASE R # {}
  <2>1. PICK i \in R : R = {i}
    BY <1>2 DEF OneRests
  <2> QED BY <2>1, FS_Singleton
<1> QED BY <1>1, <1>2

\* Over every crash between claim, submission and answer of submit_passive_order,
\* every cancel and replacement of _maintain_maker_order and every change of leg
\* or chunk, at most one maker order of the close rests, as long as the code did
\* not let one go that may still rest.
THEOREM OneOrderRests == Spec => []OneCloseOrder
<1>1. Inductive => OneCloseOrder
  BY RestsAlone DEF Inductive, OneCloseOrder
<1> QED BY <1>1, InitInductive, NextInductive, PTL DEF Spec

-----------------------------------------------------------------------------
(* Sums over finite sets: what they are when an element comes or goes, and *)
(* when every element has a counterpart in another set.                    *)

Pick(s) == CHOOSE x \in s : TRUE

\* g sums F over every subset of S, an element at a time, as MapThenSumSet does.
Adds(F, S, g) ==
    g = [s \in SUBSET S |-> IF s = {} THEN 0 ELSE F[Pick(s)] + g[s \ {Pick(s)}]]
SumOf(F, S) == (CHOOSE g : Adds(F, S, g))[S]

\* Induction over the naturals for a set of them.
LEMMA Reached ==
  ASSUME NEW G \in SUBSET Nat, 0 \in G, \A n \in G : n + 1 \in G
  PROVE  \A n \in Nat : n \in G
<1> SUFFICES ASSUME Nat \ G # {} PROVE FALSE
  OBVIOUS
<1>1. \E x \in Nat \ G : \A y \in Nat \ G : <<y, x>> \notin OpToRel(<, Nat)
  BY NatLessThanWellFounded, WFMin
<1>2. PICK x \in Nat \ G : \A y \in Nat \ G : <<y, x>> \notin OpToRel(<, Nat)
  BY <1>1
<1>3. x # 0 /\ x - 1 \in Nat
  <2>1. x \in Nat /\ x \notin G
    BY <1>2
  <2>2. x # 0
    BY <2>1
  <2> QED BY <2>1, <2>2
<1>4. <<x - 1, x>> \in OpToRel(<, Nat)
  BY <1>3 DEF OpToRel
<1>5. x - 1 \in G
  BY <1>2, <1>3, <1>4
<1>6. (x - 1) + 1 \in G
  BY <1>5
<1>7. x \in Nat /\ x \notin G
  BY <1>2
<1>8. (x - 1) + 1 = x
  BY <1>7
<1> QED BY <1>6, <1>7, <1>8

Small(S, n) == {s \in SUBSET S : Cardinality(s) <= n}
AddsTo(F, S, n, g) ==
    g = [s \in Small(S, n) |-> IF s = {} THEN 0 ELSE F[Pick(s)] + g[s \ {Pick(s)}]]

LEMMA Smaller ==
  ASSUME NEW S, IsFiniteSet(S), NEW s \in SUBSET S
  PROVE  /\ IsFiniteSet(s) /\ Cardinality(s) \in Nat
         /\ s # {} => /\ Pick(s) \in s /\ s \ {Pick(s)} \in SUBSET S
                      /\ Cardinality(s \ {Pick(s)}) = Cardinality(s) - 1
                      /\ Cardinality(s) > 0
<1>1. IsFiniteSet(s) /\ Cardinality(s) \in Nat
  BY FS_Subset, FS_CardinalityType
<1>2. s # {} => Pick(s) \in s
  BY DEF Pick
<1>3. s # {} => Cardinality(s \ {Pick(s)}) = Cardinality(s) - 1 /\ Cardinality(s) # 0
  BY <1>1, <1>2, FS_RemoveElement, FS_EmptySet
<1> QED BY <1>1, <1>2, <1>3

LEMMA NoneSmall ==
  ASSUME NEW S, IsFiniteSet(S), NEW s \in SUBSET S, Cardinality(s) = 0
  PROVE  s = {}
<1>1. IsFiniteSet(s)
  BY FS_Subset
<1> QED BY <1>1, FS_EmptySet

LEMMA AddsExist ==
  ASSUME NEW F, NEW S, IsFiniteSet(S)
  PROVE  \E g : Adds(F, S, g)
<1> DEFINE G == {n \in Nat : \E g : AddsTo(F, S, n, g)}
<1>1. 0 \in G
  <2>1. ASSUME NEW s \in Small(S, 0) PROVE s = {}
    <3>1. s \in SUBSET S /\ Cardinality(s) <= 0
      BY DEF Small
    <3>2. s # {} => Cardinality(s) > 0 /\ Cardinality(s) \in Nat
      BY <3>1, Smaller
    <3> QED BY <3>1, <3>2
  <2> DEFINE g == [s \in Small(S, 0) |-> 0]
  <2>2. AddsTo(F, S, 0, g)
    BY <2>1 DEF AddsTo
  <2> QED BY <2>2
<1>2. ASSUME NEW n \in G PROVE n + 1 \in G
  <2>1. PICK g : AddsTo(F, S, n, g)
    OBVIOUS
  <2> DEFINE h == [s \in Small(S, n + 1) |->
                     IF s = {} THEN 0 ELSE F[Pick(s)] + g[s \ {Pick(s)}]]
  <2>2. ASSUME NEW s \in Small(S, n + 1), s # {} PROVE s \ {Pick(s)} \in Small(S, n)
    <3>1. s \in SUBSET S /\ Cardinality(s) <= n + 1
      BY DEF Small
    <3>2. s \ {Pick(s)} \in SUBSET S /\ Cardinality(s \ {Pick(s)}) = Cardinality(s) - 1
          /\ Cardinality(s) \in Nat
      BY <3>1, <2>2, Smaller
    <3> QED BY <3>1, <3>2 DEF Small
  <2>3. ASSUME NEW s \in Small(S, n) PROVE s \in Small(S, n + 1)
    <3>1. s \in SUBSET S /\ Cardinality(s) <= n /\ Cardinality(s) \in Nat
      BY Smaller DEF Small
    <3> QED BY <3>1 DEF Small
  <2>4. \A s \in Small(S, n) : h[s] = g[s]
    BY <2>1, <2>3 DEF AddsTo
  <2>5. h = [s \in Small(S, n + 1) |-> IF s = {} THEN 0 ELSE F[Pick(s)] + h[s \ {Pick(s)}]]
    BY <2>2, <2>4
  <2>6. AddsTo(F, S, n + 1, h)
    BY <2>5 DEF AddsTo
  <2> QED BY <2>6
<1>3. Cardinality(S) \in G
  <2> HIDE DEF G
  <2>1. G \in SUBSET Nat
    BY DEF G
  <2> QED BY <2>1, <1>1, <1>2, Reached, FS_CardinalityType
<1>4. Small(S, Cardinality(S)) = SUBSET S
  BY FS_Subset DEF Small
<1> QED BY <1>3, <1>4 DEF AddsTo, Adds

\* the sum does not depend on the set it is taken from
LEMMA AddsUnique ==
  ASSUME NEW F, NEW E, NEW S, IsFiniteSet(S), NEW T \in SUBSET S, \A x \in T : F[x] = E[x],
         NEW g, Adds(F, S, g), NEW h, Adds(E, T, h)
  PROVE  g[T] = h[T]
<1> DEFINE G == {n \in Nat : \A s \in SUBSET T : Cardinality(s) = n => g[s] = h[s]}
<1>1. \A s \in SUBSET T : s \in SUBSET S
  OBVIOUS
<1>2. ASSUME NEW s \in SUBSET T
      PROVE  /\ g[s] = IF s = {} THEN 0 ELSE F[Pick(s)] + g[s \ {Pick(s)}]
             /\ h[s] = IF s = {} THEN 0 ELSE E[Pick(s)] + h[s \ {Pick(s)}]
  <2>1. s \in SUBSET S
    BY <1>1
  <2>2. g[s] = IF s = {} THEN 0 ELSE F[Pick(s)] + g[s \ {Pick(s)}]
    BY <2>1 DEF Adds
  <2>3. h[s] = IF s = {} THEN 0 ELSE E[Pick(s)] + h[s \ {Pick(s)}]
    BY DEF Adds
  <2> QED BY <2>2, <2>3
<1>3. IsFiniteSet(T)
  BY FS_Subset
<1>4. 0 \in G
  <2>1. ASSUME NEW s \in SUBSET T, Cardinality(s) = 0 PROVE g[s] = h[s]
    <3>1. s = {}
      BY <2>1, <1>3, NoneSmall
    <3> QED BY <1>2, <3>1
  <2> QED BY <2>1
<1>5. ASSUME NEW n \in G PROVE n + 1 \in G
  <2>1. ASSUME NEW s \in SUBSET T, Cardinality(s) = n + 1 PROVE g[s] = h[s]
    <3>1. s # {}
      BY <2>1, <1>3, FS_EmptySet
    <3>2. Pick(s) \in s /\ s \ {Pick(s)} \in SUBSET T /\ Cardinality(s \ {Pick(s)}) = n
      BY <3>1, <2>1, <1>3, Smaller
    <3>3. g[s \ {Pick(s)}] = h[s \ {Pick(s)}] /\ F[Pick(s)] = E[Pick(s)]
      BY <3>2
    <3>4. /\ g[s] = F[Pick(s)] + g[s \ {Pick(s)}]
          /\ h[s] = E[Pick(s)] + h[s \ {Pick(s)}]
      BY <1>2, <3>1
    <3> QED BY <3>3, <3>4
  <2> QED BY <2>1
<1>6. Cardinality(T) \in G
  <2> HIDE DEF G
  <2>1. G \in SUBSET Nat
    BY DEF G
  <2> QED BY <2>1, <1>3, <1>4, <1>5, Reached, FS_CardinalityType
<1> QED BY <1>6

\* Whatever sums F gives the sum.
LEMMA SumIs ==
  ASSUME NEW F, NEW S, IsFiniteSet(S), NEW g, Adds(F, S, g)
  PROVE  SumOf(F, S) = g[S]
<1> DEFINE h == CHOOSE f : Adds(F, S, f)
<1>1. Adds(F, S, h)
  OBVIOUS
<1>2. g[S] = h[S]
  <2> HIDE DEF h
  <2> QED BY <1>1, AddsUnique
<1> QED BY <1>2 DEF SumOf

\* Functions that agree on a set have the same sum over it.
LEMMA SumSame ==
  ASSUME NEW F, NEW E, NEW S, IsFiniteSet(S), \A x \in S : F[x] = E[x]
  PROVE  SumOf(F, S) = SumOf(E, S)
<1>1. PICK g : Adds(F, S, g)
  BY AddsExist
<1>2. PICK h : Adds(E, S, h)
  BY AddsExist
<1>3. g[S] = h[S]
  BY <1>1, <1>2, AddsUnique
<1> QED BY <1>1, <1>2, <1>3, SumIs

LEMMA SumOfNone == ASSUME NEW F PROVE SumOf(F, {}) = 0
<1>1. PICK g : Adds(F, {}, g)
  BY AddsExist, FS_EmptySet
<1>2. SumOf(F, {}) = g[{}]
  BY <1>1, SumIs, FS_EmptySet
<1>3. g[{}] = 0
  BY <1>1 DEF Adds
<1> QED BY <1>2, <1>3

LEMMA SumFromPick ==
  ASSUME NEW F, NEW S, IsFiniteSet(S), S # {}
  PROVE  SumOf(F, S) = F[Pick(S)] + SumOf(F, S \ {Pick(S)})
<1> DEFINE T == S \ {Pick(S)}
<1>1. PICK g : Adds(F, S, g)
  BY AddsExist
<1>2. IsFiniteSet(T) /\ T \in SUBSET S
  BY FS_RemoveElement
<1>3. PICK h : Adds(F, T, h)
  BY <1>2, AddsExist
<1>4. SumOf(F, S) = g[S] /\ SumOf(F, T) = h[T] /\ g[T] = h[T]
  <2> HIDE DEF T
  <2>1. g[T] = h[T]
    BY <1>1, <1>2, <1>3, AddsUnique
  <2> QED BY <1>1, <1>2, <1>3, <2>1, SumIs
<1>5. g[S] = F[Pick(S)] + g[T]
  BY <1>1 DEF Adds
<1> QED BY <1>4, <1>5

LEMMA SumType ==
  ASSUME NEW F, NEW S, IsFiniteSet(S), \A x \in S : F[x] \in Nat
  PROVE  SumOf(F, S) \in Nat
<1> DEFINE G == {n \in Nat : \A s \in SUBSET S : Cardinality(s) = n => SumOf(F, s) \in Nat}
<1>1. 0 \in G
  <2>1. ASSUME NEW s \in SUBSET S, Cardinality(s) = 0 PROVE s = {}
    BY <2>1, NoneSmall
  <2>2. ASSUME NEW s \in SUBSET S, Cardinality(s) = 0 PROVE SumOf(F, s) = 0
    BY <2>1, <2>2, SumOfNone
  <2> QED BY <2>2
<1>2. ASSUME NEW n \in G PROVE n + 1 \in G
  <2>1. ASSUME NEW s \in SUBSET S, Cardinality(s) = n + 1 PROVE SumOf(F, s) \in Nat
    <3>1. s # {} /\ IsFiniteSet(s)
      <4>1. IsFiniteSet(s)
        BY Smaller
      <4> QED BY <2>1, <4>1, FS_EmptySet
    <3>2. s \ {Pick(s)} \in SUBSET S /\ Cardinality(s \ {Pick(s)}) = n /\ Pick(s) \in S
      BY <3>1, <2>1, Smaller
    <3>3. SumOf(F, s \ {Pick(s)}) \in Nat
      BY <3>2
    <3>4. SumOf(F, s) = F[Pick(s)] + SumOf(F, s \ {Pick(s)})
      BY <3>1, SumFromPick
    <3> QED BY <3>2, <3>3, <3>4
  <2> QED BY <2>1
<1>3. Cardinality(S) \in G
  <2> HIDE DEF G
  <2>1. G \in SUBSET Nat
    BY DEF G
  <2> QED BY <2>1, <1>1, <1>2, Reached, FS_CardinalityType
<1> QED BY <1>3

\* A summand can be taken out first.
LEMMA SumWithout ==
  ASSUME NEW F, NEW S, IsFiniteSet(S), \A x \in S : F[x] \in Nat, NEW y \in S
  PROVE  SumOf(F, S) = F[y] + SumOf(F, S \ {y})
<1> DEFINE G == {n \in Nat : \A s \in SUBSET S : Cardinality(s) = n =>
                   \A x \in s : SumOf(F, s) = F[x] + SumOf(F, s \ {x})}
<1>1. 0 \in G
  <2>1. ASSUME NEW s \in SUBSET S, Cardinality(s) = 0 PROVE s = {}
    BY <2>1, NoneSmall
  <2> QED BY <2>1
<1>2. ASSUME NEW n \in G PROVE n + 1 \in G
  <2>1. ASSUME NEW s \in SUBSET S, Cardinality(s) = n + 1, NEW x \in s
        PROVE  SumOf(F, s) = F[x] + SumOf(F, s \ {x})
    <3> DEFINE c == Pick(s)
    <3>1. s # {} /\ IsFiniteSet(s) /\ c \in s
      BY <2>1, Smaller
    <3>2. SumOf(F, s) = F[c] + SumOf(F, s \ {c})
      BY <3>1, SumFromPick
    <3>3. CASE x = c
      BY <3>2, <3>3
    <3>4. CASE x # c
      <4>1. /\ s \ {c} \in SUBSET S /\ Cardinality(s \ {c}) = n /\ x \in s \ {c}
            /\ s \ {x} \in SUBSET S /\ Cardinality(s \ {x}) = n /\ c \in s \ {x}
        <5>1. Cardinality(s \ {c}) = (n + 1) - 1 /\ Cardinality(s \ {x}) = (n + 1) - 1
          <6>1. Cardinality(s \ {c}) = Cardinality(s) - 1
            BY <3>1, FS_RemoveElement
          <6>2. Cardinality(s \ {x}) = Cardinality(s) - 1
            BY <2>1, <3>1, FS_RemoveElement
          <6> QED BY <2>1, <6>1, <6>2
        <5>2. (n + 1) - 1 = n
          OBVIOUS
        <5> QED BY <2>1, <3>1, <3>4, <5>1, <5>2
      <4>2. SumOf(F, s \ {c}) = F[x] + SumOf(F, (s \ {c}) \ {x})
        BY <4>1
      <4>3. SumOf(F, s \ {x}) = F[c] + SumOf(F, (s \ {x}) \ {c})
        BY <4>1
      <4>4. (s \ {x}) \ {c} = (s \ {c}) \ {x}
        OBVIOUS
      <4>5. SumOf(F, (s \ {c}) \ {x}) \in Nat
        <5>1. IsFiniteSet((s \ {c}) \ {x})
          BY <3>1, FS_RemoveElement
        <5> QED BY <5>1, SumType
      <4>6. F[x] \in Nat /\ F[c] \in Nat
        BY <3>1
      <4> DEFINE r == SumOf(F, (s \ {c}) \ {x})
      <4>7. SumOf(F, s) = F[c] + (F[x] + r) /\ F[x] + SumOf(F, s \ {x}) = F[x] + (F[c] + r)
        BY <3>2, <4>2, <4>3, <4>4
      <4> HIDE DEF r
      <4>8. r \in Nat
        BY <4>5 DEF r
      <4> QED BY <4>6, <4>7, <4>8
    <3> QED BY <3>3, <3>4
  <2> QED BY <2>1
<1>3. Cardinality(S) \in G
  <2> HIDE DEF G
  <2>1. G \in SUBSET Nat
    BY DEF G
  <2> QED BY <2>1, <1>1, <1>2, Reached, FS_CardinalityType
<1> QED BY <1>3

\* A summand more.
LEMMA SumWith ==
  ASSUME NEW F, NEW S, IsFiniteSet(S), \A x \in S : F[x] \in Nat, NEW y, y \notin S,
         F[y] \in Nat
  PROVE  IsFiniteSet(S \cup {y}) /\ SumOf(F, S \cup {y}) = F[y] + SumOf(F, S)
<1> DEFINE T == S \cup {y}
<1>1. IsFiniteSet(T) /\ y \in T /\ T \ {y} = S
  BY FS_AddElement
<1>2. \A x \in T : F[x] \in Nat
  OBVIOUS
<1> HIDE DEF T
<1>3. SumOf(F, T) = F[y] + SumOf(F, T \ {y})
  BY <1>1, <1>2, SumWithout
<1> QED BY <1>1, <1>3 DEF T

\* A sum is no more than another when each of its summands has one of its own
\* there that is no less.
LEMMA SumWithin ==
  ASSUME NEW F, NEW S, IsFiniteSet(S), \A x \in S : F[x] \in Nat,
         NEW E, NEW T, IsFiniteSet(T), \A y \in T : E[y] \in Nat,
         NEW m, \A x \in S : F[x] > 0 => m[x] \in T /\ F[x] <= E[m[x]],
         \A w, x \in S : F[w] > 0 /\ F[x] > 0 /\ m[w] = m[x] => w = x
  PROVE  SumOf(F, S) <= SumOf(E, T)
<1> DEFINE Has(s, t) == \A x \in s : F[x] > 0 => m[x] \in t
           G == {n \in Nat : \A s \in SUBSET S : \A t \in SUBSET T :
                   Cardinality(s) = n /\ Has(s, t) => SumOf(F, s) <= SumOf(E, t)}
<1>1. ASSUME NEW s \in SUBSET S PROVE IsFiniteSet(s) /\ SumOf(F, s) \in Nat
  <2>1. IsFiniteSet(s)
    BY FS_Subset
  <2> QED BY <2>1, SumType
<1>2. ASSUME NEW t \in SUBSET T PROVE IsFiniteSet(t) /\ SumOf(E, t) \in Nat
  <2>1. IsFiniteSet(t)
    BY FS_Subset
  <2> QED BY <2>1, SumType
<1>3. 0 \in G
  <2>1. ASSUME NEW s \in SUBSET S, NEW t \in SUBSET T, Cardinality(s) = 0
        PROVE  SumOf(F, s) <= SumOf(E, t)
    <3>1. s = {}
      BY <2>1, NoneSmall
    <3>2. SumOf(F, s) = 0
      BY <3>1, SumOfNone
    <3> QED BY <3>2, <1>2
  <2> QED BY <2>1
<1>4. ASSUME NEW n \in G PROVE n + 1 \in G
  <2>1. ASSUME NEW s \in SUBSET S, NEW t \in SUBSET T, Cardinality(s) = n + 1, Has(s, t)
        PROVE  SumOf(F, s) <= SumOf(E, t)
    <3> DEFINE c == Pick(s)
               r == s \ {c}
    <3>1. s # {}
      BY <2>1, <1>1, FS_EmptySet
    <3>2. c \in s /\ r \in SUBSET S /\ Cardinality(r) = n
      BY <3>1, <2>1, Smaller
    <3>3. c \in S /\ F[c] \in Nat
      BY <3>2
    <3>4. SumOf(F, s) = F[c] + SumOf(F, r)
      BY <3>1, <1>1, SumFromPick
    <3>5. \A x \in r : x \in s /\ x # c
      OBVIOUS
    <3> HIDE DEF c, r
    <3>6. CASE F[c] = 0
      <4>1. Has(r, t)
        BY <2>1, <3>5
      <4>2. SumOf(F, r) <= SumOf(E, t)
        BY <3>2, <4>1
      <4> QED BY <3>4, <3>6, <4>2, <3>2, <1>1, <1>2
    <3>7. CASE F[c] > 0
      <4> DEFINE y == m[c]
      <4>1. y \in t /\ F[c] <= E[y]
        BY <2>1, <3>2, <3>3, <3>7
      <4>2. Has(r, t \ {y})
        <5>1. ASSUME NEW x \in r, F[x] > 0 PROVE m[x] \in t \ {y}
          <6>1. x \in S /\ x # c /\ m[x] \in t
            BY <2>1, <3>5, <5>1
          <6> QED BY <6>1, <3>3, <3>7, <5>1
        <5> QED BY <5>1
      <4> HIDE DEF y
      <4>3. SumOf(F, r) <= SumOf(E, t \ {y})
        BY <3>2, <4>2
      <4>4. SumOf(E, t) = E[y] + SumOf(E, t \ {y})
        BY <1>2, <4>1, SumWithout
      <4>5. SumOf(E, t \ {y}) \in Nat /\ SumOf(F, r) \in Nat /\ E[y] \in Nat
        BY <1>1, <1>2, <3>2, <4>1
      <4> QED BY <3>3, <3>4, <4>1, <4>3, <4>4, <4>5
    <3> QED BY <3>3, <3>6, <3>7
  <2> QED BY <2>1
<1>5. Cardinality(S) \in G
  <2> HIDE DEF G
  <2>1. G \in SUBSET Nat
    BY DEF G
  <2> QED BY <2>1, <1>3, <1>4, Reached, FS_CardinalityType
<1>6. Has(S, T)
  OBVIOUS
<1> QED BY <1>5, <1>6

-----------------------------------------------------------------------------
(* The balance of the passive close.                                       *)

\* What the hedges of a set executed.
Done(S) == MapThenSumSet(LAMBDA h : h.done, S)
Dones(S) == [h \in S |-> h.done]

AddsDone(S, f) ==
    f = [s \in SUBSET S |-> IF s = {} THEN 0
                            ELSE (CHOOSE x \in s : TRUE).done + f[s \ {CHOOSE x \in s : TRUE}]]

LEMMA DoneIs == ASSUME NEW S, IsFiniteSet(S) PROVE Done(S) = SumOf(Dones(S), S)
<1> DEFINE F == Dones(S)
           iter == CHOOSE f : AddsDone(S, f)
<1>1. ASSUME NEW s \in SUBSET S, s # {} PROVE F[CHOOSE x \in s : TRUE] = (CHOOSE x \in s : TRUE).done
  <2>1. (CHOOSE x \in s : TRUE) \in S
    BY <1>1
  <2> QED BY <2>1 DEF Dones
<1>2. PICK g : Adds(F, S, g)
  BY AddsExist
<1> HIDE DEF F
<1>3. ASSUME NEW f PROVE Adds(F, S, f) <=> AddsDone(S, f)
  BY <1>1 DEF Adds, AddsDone, Pick
<1>4. AddsDone(S, iter)
  <2>1. \E f : AddsDone(S, f)
    BY <1>2, <1>3
  <2> QED BY <2>1
<1>5. Done(S) = iter[S]
  BY DEF Done, MapThenSumSet, MapThenFoldSet, AddsDone
<1>6. SumOf(F, S) = iter[S]
  <2> HIDE DEF iter
  <2>1. Adds(F, S, iter)
    BY <1>3, <1>4
  <2> QED BY <2>1, SumIs
<1> QED BY <1>5, <1>6 DEF F

LEMMA DoneOfNone == Done({}) = 0
  BY DoneIs, SumOfNone, FS_EmptySet

LEMMA DoneType ==
  ASSUME NEW S, IsFiniteSet(S), \A h \in S : h.done \in Nat
  PROVE  Done(S) \in Nat
<1>1. \A h \in S : Dones(S)[h] \in Nat
  BY DEF Dones
<1>2. SumOf(Dones(S), S) \in Nat
  BY <1>1, SumType
<1> QED BY <1>2, DoneIs

LEMMA DoneWith ==
  ASSUME NEW S, IsFiniteSet(S), \A h \in S : h.done \in Nat, NEW y, y \notin S, y.done \in Nat
  PROVE  Done(S \cup {y}) = y.done + Done(S)
<1> DEFINE T == S \cup {y}
           F == Dones(T)
<1>1. IsFiniteSet(T)
  BY FS_AddElement
<1>2. (\A h \in S : F[h] = h.done) /\ F[y] = y.done
  BY DEF Dones
<1>3. \A h \in S : F[h] = Dones(S)[h]
  BY <1>2 DEF Dones
<1> HIDE DEF F
<1>4. SumOf(F, S) = SumOf(Dones(S), S)
  BY <1>3, SumSame
<1>5. SumOf(F, T) = F[y] + SumOf(F, S)
  BY <1>2, SumWith
<1>6. Done(T) = SumOf(F, T)
  BY <1>1, DoneIs DEF F
<1>7. Done(S) = SumOf(Dones(S), S)
  BY DoneIs
<1> QED BY <1>2, <1>4, <1>5, <1>6, <1>7

\* The hedge of a chunk on a leg, and the chunk and leg that a record works on.
Id(h) == [leg |-> h.leg, chunk |-> h.chunk]
Home(p) == [leg |-> p.leg, chunk |-> p.chunk]
Homes == [leg : Legs, chunk : Nat]

\* The order whose fills a record counts next, what of them it has not counted,
\* and the hedges that it has not counted.
Seen(p) == IF p.order # 0 THEN p.order ELSE p.cid
Unseen(ms, p, l) ==
    IF p.leg = l /\ Seen(p) \in DOMAIN ms THEN Less(ms[Seen(p)].done, p.maker) ELSE 0
Unread(hs, p, l) == {h \in hs : h.leg = l /\ Id(h) \notin p.counted}

\* What the record may say of a leg: what the venue holds, what was counted as
\* closed, and what may yet be counted.
Owes(hd, ms, hs, p, l) ==
    hd[l] + p.closed[l] + Unseen(ms, p, l) + Done(Unread(hs, p, l))
Covers(b, hd, ms, hs, p) ==
    \A l \in Legs : b[l] >= IF p = NoClose THEN hd[l] ELSE Owes(hd, ms, hs, p, l)

\* home says for which chunk and leg each order was claimed.
Reaches(home, ms, id, n) == \E i \in DOMAIN ms : home[i] = id /\ ms[i].done >= n

\* A record that is there counts no more in a chunk than it counted as closed,
\* names orders of its own chunk and leg, and counts a fill of one of them.
Good(home, ms, p) ==
    \/ p = NoClose
    \/ /\ DOMAIN p = DOMAIN Fresh
       /\ p.leg \in Legs /\ p.chunk \in Nat /\ p.chunk > 0 /\ p.cid \in Nat
       /\ p.maker \in Nat /\ p.hedge \in Nat /\ p.closed \in [Legs -> Nat]
       /\ p.maker <= p.closed[p.leg] /\ p.hedge <= p.closed[Other(p.leg)]
       /\ p.order \in Nat /\ p.order <= Len(ms)
       /\ p.order # 0 => home[p.order] = Home(p)
       /\ p.cid # 0 => home[p.cid] = Home(p)
       /\ p.maker > 0 => Reaches(home, ms, Home(p), p.maker)

\* A hedge that was counted is at the venue.
Counts(hs, p) == p # NoClose => \A id \in p.counted : \E h \in hs : Id(h) = id

\* The venues: one hedge of a chunk on a leg, covered by an order of that chunk
\* on the other leg.
Venues(home, hd, ms, hs) ==
    /\ hd \in [Legs -> Nat]
    /\ Len(ms) \in Nat /\ DOMAIN ms = 1..Len(ms)
    /\ \A i \in DOMAIN ms : /\ ms[i].leg = home[i].leg
                            /\ ms[i].done \in Nat /\ ms[i].asked \in Nat
    /\ IsFiniteSet(hs)
    /\ \A h \in hs : h.leg \in Legs /\ h.done \in Nat
    /\ \A g, h \in hs : Id(g) = Id(h) => g = h
    /\ \A h \in hs : h.done > 0 =>
          Reaches(home, ms, [leg |-> Other(h.leg), chunk |-> h.chunk], h.done)

\* The quantities of a position: no leg exceeds what both closed in common left
\* of it, and a position that is gone has none.
Sizes == {"matched", "long", "short"}
Widest(b, there) ==
    /\ b \in [Sizes -> Nat]
    /\ \A l \in Legs : b[l] <= b.matched
    /\ ~there => b.matched = 0

\* The order on its way, as far as what it executes depends on it.
Sent ==
    /\ setup.plan \in Seq(Nat \ {0})
    /\ ask.leg \in Legs /\ ask.quantity \in Int /\ total \in Nat /\ gained \in Nat
    /\ step = "submit" => ask.leg = pending.leg /\ ask.quantity \in Nat
    /\ step = "hedge" => ask.quantity <= pending.maker
    /\ step = "filled" => gained <= pending.maker
    /\ ~started => hedges = {}

\* What is recorded covers what the venues hold, now and after a restart.
Books(home) ==
    /\ home \in [Nat -> Homes]
    /\ Venues(home, held, makers, hedges)
    /\ Good(home, makers, pending) /\ Good(home, makers, saved.pending)
    /\ Counts(hedges, pending) /\ Counts(hedges, saved.pending)
    /\ Widest(book, open) /\ Widest(saved.book, saved.open)
    /\ \A l \in Legs : book[l] <= saved.book[l]
    /\ twice \in BOOLEAN
    /\ ~twice => /\ Covers(book, held, makers, hedges, pending)
                 /\ Covers(saved.book, held, makers, hedges, saved.pending)
    /\ Sent

-----------------------------------------------------------------------------
(* What the venues do.                                                     *)

LEMMA LegsApart == /\ \A l \in Legs : Other(l) \in Legs /\ Other(l) # l /\ Other(Other(l)) = l
                   /\ \A l, k \in Legs : k = l \/ k = Other(l)
  BY DEF Legs, Other

LEMMA LessIs ==
  ASSUME NEW a \in Nat, NEW b \in Nat
  PROVE  Less(a, b) \in Nat /\ Less(a, b) >= a - b /\ (a <= b => Less(a, b) = 0)
         /\ (a > b => Less(a, b) = a - b)
  BY DEF Less

LEMMA UnreadIs ==
  ASSUME NEW home, NEW hd, NEW ms, NEW hs, Venues(home, hd, ms, hs), NEW p, NEW l
  PROVE  IsFiniteSet(Unread(hs, p, l)) /\ Done(Unread(hs, p, l)) \in Nat
<1> DEFINE U == Unread(hs, p, l)
<1>1. IsFiniteSet(hs) /\ U \subseteq hs /\ \A h \in hs : h.done \in Nat
  BY DEF Venues, Unread
<1>2. IsFiniteSet(U) /\ \A h \in U : h.done \in Nat
  BY <1>1, FS_Subset
<1> HIDE DEF U
<1>3. Done(U) \in Nat
  BY <1>2, DoneType
<1> QED BY <1>2, <1>3 DEF U

LEMMA UnseenIs ==
  ASSUME NEW home, NEW hd, NEW ms, NEW hs, Venues(home, hd, ms, hs),
         NEW p, p # NoClose, Good(home, ms, p), NEW l
  PROVE  /\ Unseen(ms, p, l) \in Nat
         /\ Seen(p) \in DOMAIN ms => ms[Seen(p)].leg = p.leg /\ ms[Seen(p)].done \in Nat
<1>1. p.maker \in Nat
  BY DEF Good
<1>2. Seen(p) \in DOMAIN ms => ms[Seen(p)].done \in Nat
  BY DEF Venues
<1>3. Seen(p) \in DOMAIN ms => ms[Seen(p)].leg = p.leg
  <2>1. SUFFICES ASSUME Seen(p) \in DOMAIN ms PROVE ms[Seen(p)].leg = p.leg
    OBVIOUS
  <2>2. Seen(p) # 0
    BY <2>1 DEF Venues
  <2>3. home[Seen(p)] = Home(p)
    BY <2>2 DEF Seen, Good
  <2> QED BY <2>1, <2>3 DEF Venues, Home
<1> QED BY <1>1, <1>2, <1>3, LessIs DEF Unseen

LEMMA OwesIs ==
  ASSUME NEW home, NEW hd, NEW ms, NEW hs, Venues(home, hd, ms, hs),
         NEW p, p # NoClose, Good(home, ms, p), NEW l \in Legs
  PROVE  /\ hd[l] \in Nat /\ p.closed[l] \in Nat
         /\ Owes(hd, ms, hs, p, l) \in Nat /\ Owes(hd, ms, hs, p, l) >= hd[l] + p.closed[l]
<1>1. hd[l] \in Nat /\ p.closed[l] \in Nat
  BY DEF Venues, Good
<1>2. Unseen(ms, p, l) \in Nat /\ Done(Unread(hs, p, l)) \in Nat
  BY UnseenIs, UnreadIs
<1> QED BY <1>1, <1>2 DEF Owes

\* What is owed on no leg rises: what covered it still does.
LEMMA CoversLess ==
  ASSUME NEW home,
         NEW hd, NEW ms, NEW hs, Venues(home, hd, ms, hs),
         NEW hd2, NEW ms2, NEW hs2, Venues(home, hd2, ms2, hs2),
         NEW b \in [Sizes -> Nat],
         NEW p, Good(home, ms, p), Covers(b, hd, ms, hs, p),
         NEW q, Good(home, ms2, q),
         \A l \in Legs : IF p = NoClose THEN q = NoClose /\ hd2[l] <= hd[l]
                         ELSE IF q = NoClose THEN hd2[l] <= hd[l]
                         ELSE Owes(hd2, ms2, hs2, q, l) <= Owes(hd, ms, hs, p, l)
  PROVE  Covers(b, hd2, ms2, hs2, q)
<1> SUFFICES ASSUME NEW l \in Legs
             PROVE  b[l] >= IF q = NoClose THEN hd2[l] ELSE Owes(hd2, ms2, hs2, q, l)
  BY DEF Covers
<1>1. b[l] \in Nat /\ hd[l] \in Nat /\ hd2[l] \in Nat
  BY DEF Venues, Legs, Sizes
<1>2. CASE p = NoClose
  BY <1>1, <1>2 DEF Covers
<1>3. CASE p # NoClose /\ q = NoClose
  <2>1. b[l] >= Owes(hd, ms, hs, p, l)
    BY <1>3 DEF Covers
  <2>2. Owes(hd, ms, hs, p, l) \in Nat /\ p.closed[l] \in Nat
        /\ Owes(hd, ms, hs, p, l) >= hd[l] + p.closed[l]
    BY <1>3, OwesIs
  <2> QED BY <1>1, <1>3, <2>1, <2>2
<1>4. CASE p # NoClose /\ q # NoClose
  <2>1. b[l] >= Owes(hd, ms, hs, p, l)
    BY <1>4 DEF Covers
  <2>2. Owes(hd, ms, hs, p, l) \in Nat /\ Owes(hd2, ms2, hs2, q, l) \in Nat
    BY <1>4, OwesIs
  <2> QED BY <1>1, <1>4, <2>1, <2>2
<1> QED BY <1>2, <1>3, <1>4

\* Orders come at the end, and what they executed does not fall.
Longer(ms, ms2) ==
    /\ Len(ms) <= Len(ms2) /\ DOMAIN ms \subseteq DOMAIN ms2
    /\ \A i \in DOMAIN ms : ms2[i].done \in Nat /\ ms[i].done <= ms2[i].done

LEMMA ReachesLasts ==
  ASSUME NEW home, NEW ms, NEW ms2, Longer(ms, ms2), \A i \in DOMAIN ms : ms[i].done \in Nat,
         NEW id, NEW n \in Nat, Reaches(home, ms, id, n)
  PROVE  Reaches(home, ms2, id, n)
  BY DEF Longer, Reaches

LEMMA GoodLasts ==
  ASSUME NEW home, NEW ms, NEW ms2, Longer(ms, ms2), \A i \in DOMAIN ms : ms[i].done \in Nat,
         Len(ms) \in Nat, Len(ms2) \in Nat, NEW p, Good(home, ms, p)
  PROVE  Good(home, ms2, p)
<1>1. CASE p = NoClose
  BY <1>1 DEF Good
<1>2. CASE p # NoClose
  <2>1. p.maker \in Nat /\ (p.maker > 0 => Reaches(home, ms2, Home(p), p.maker))
    BY <1>2, ReachesLasts DEF Good
  <2>2. p.order \in Nat /\ p.order <= Len(ms2)
    BY <1>2 DEF Good, Longer
  <2> QED BY <1>2, <2>1, <2>2 DEF Good
<1> QED BY <1>1, <1>2

LEMMA LessGrows ==
  ASSUME NEW a \in Nat, NEW c \in Nat, a <= c, NEW m \in Nat, NEW x \in Nat, NEW y \in Nat,
         y <= x, y + c <= x + a
  PROVE  y + Less(c, m) <= x + Less(a, m) /\ Less(a, m) \in Nat /\ Less(c, m) \in Nat
  BY DEF Less

\* Orders fill or end: what an order executes, its leg loses.
Fill(hd, ms, hd2, ms2) ==
    /\ hd2 \in [Legs -> Nat] /\ \A l \in Legs : hd2[l] <= hd[l]
    /\ Len(ms2) = Len(ms) /\ DOMAIN ms2 = DOMAIN ms
    /\ \A i \in DOMAIN ms : /\ ms2[i].leg = ms[i].leg /\ ms2[i].asked = ms[i].asked
                            /\ ms2[i].done \in Nat /\ ms[i].done <= ms2[i].done
                            /\ hd2[ms[i].leg] + ms2[i].done <= hd[ms[i].leg] + ms[i].done

\* A record that was sound is, and one that covered what the venues held does.
Holds(home, hd, ms, hs, hd2, ms2) ==
    /\ Venues(home, hd2, ms2, hs)
    /\ \A p : Good(home, ms, p) => Good(home, ms2, p)
    /\ \A b \in [Sizes -> Nat] : \A p :
          Good(home, ms, p) /\ Covers(b, hd, ms, hs, p) => Covers(b, hd2, ms2, hs, p)

LEMMA FillsLast ==
  ASSUME NEW home, NEW hd, NEW ms, NEW hs, Venues(home, hd, ms, hs),
         NEW hd2, NEW ms2, Fill(hd, ms, hd2, ms2)
  PROVE  Holds(home, hd, ms, hs, hd2, ms2)
<1>1. Longer(ms, ms2) /\ \A i \in DOMAIN ms : ms[i].done \in Nat
  BY DEF Longer, Venues, Fill
<1>2. Len(ms) \in Nat /\ Len(ms2) \in Nat /\ hd2 \in [Legs -> Nat]
  BY DEF Venues, Fill
<1>3. ASSUME NEW h \in hs, h.done > 0
      PROVE  Reaches(home, ms2, [leg |-> Other(h.leg), chunk |-> h.chunk], h.done)
  BY <1>1, <1>3, ReachesLasts DEF Venues
<1>4. Venues(home, hd2, ms2, hs)
  BY <1>2, <1>3 DEF Venues, Fill
<1>5. ASSUME NEW p, Good(home, ms, p) PROVE Good(home, ms2, p)
  BY <1>1, <1>2, <1>5, GoodLasts
<1>6. ASSUME NEW b \in [Sizes -> Nat], NEW p, Good(home, ms, p), Covers(b, hd, ms, hs, p)
      PROVE  Covers(b, hd2, ms2, hs, p)
  <2>1. ASSUME NEW l \in Legs, p # NoClose
        PROVE  Owes(hd2, ms2, hs, p, l) <= Owes(hd, ms, hs, p, l)
    <3>1. /\ hd[l] \in Nat /\ hd2[l] \in Nat /\ hd2[l] <= hd[l]
          /\ p.closed[l] \in Nat /\ p.maker \in Nat /\ Done(Unread(hs, p, l)) \in Nat
      BY <1>2, <1>6, <2>1, UnreadIs DEF Venues, Good, Fill
    <3>2. hd2[l] + Unseen(ms2, p, l) <= hd[l] + Unseen(ms, p, l)
          /\ Unseen(ms, p, l) \in Nat /\ Unseen(ms2, p, l) \in Nat
      <4>1. CASE p.leg = l /\ Seen(p) \in DOMAIN ms
        <5> DEFINE a == ms[Seen(p)].done
                   c == ms2[Seen(p)].done
        <5>1. ms[Seen(p)].leg = l
          <6>1. Seen(p) \in DOMAIN ms => ms[Seen(p)].leg = p.leg /\ ms[Seen(p)].done \in Nat
            BY <1>6, <2>1, UnseenIs
          <6> QED BY <6>1, <4>1
        <5>2. a \in Nat /\ c \in Nat /\ a <= c /\ hd2[l] + c <= hd[l] + a
          BY <4>1, <5>1, <1>1 DEF Fill
        <5>3. Unseen(ms, p, l) = Less(a, p.maker) /\ Unseen(ms2, p, l) = Less(c, p.maker)
          BY <4>1 DEF Unseen, Fill
        <5>4. /\ hd2[l] + Less(c, p.maker) <= hd[l] + Less(a, p.maker)
              /\ Less(a, p.maker) \in Nat /\ Less(c, p.maker) \in Nat
          <6> HIDE DEF a, c
          <6> QED BY <3>1, <5>2, LessGrows
        <5> QED BY <5>3, <5>4
      <4>2. CASE ~(p.leg = l /\ Seen(p) \in DOMAIN ms)
        <5>1. Unseen(ms, p, l) = 0 /\ Unseen(ms2, p, l) = 0
          BY <4>2 DEF Unseen, Fill
        <5> QED BY <5>1, <3>1
      <4> QED BY <4>1, <4>2
    <3> QED BY <3>1, <3>2 DEF Owes
  <2>2. Good(home, ms2, p)
    BY <1>5, <1>6
  <2>3. \A l \in Legs : IF p = NoClose THEN p = NoClose /\ hd2[l] <= hd[l]
                        ELSE IF p = NoClose THEN hd2[l] <= hd[l]
                        ELSE Owes(hd2, ms2, hs, p, l) <= Owes(hd, ms, hs, p, l)
    BY <2>1 DEF Fill
  <2> QED BY <1>4, <1>6, <2>2, <2>3, CoversLess
<1> QED BY <1>4, <1>5, <1>6 DEF Holds

\* An order comes to the venue where it was claimed for, and nothing is executed.
LEMMA OrderLasts ==
  ASSUME NEW home,
         NEW hd, NEW ms, NEW hs, Venues(home, hd, ms, hs),
         NEW ms2, Len(ms2) = Len(ms) + 1, DOMAIN ms2 = 1..(Len(ms) + 1),
         \A i \in DOMAIN ms : ms2[i] = ms[i],
         ms2[Len(ms) + 1].leg = home[Len(ms) + 1].leg,
         ms2[Len(ms) + 1].done = 0, ms2[Len(ms) + 1].asked \in Nat
  PROVE  /\ Longer(ms, ms2) /\ Venues(home, hd, ms2, hs)
         /\ \A p : Good(home, ms, p) => Good(home, ms2, p)
         /\ \A b \in [Sizes -> Nat] : \A p :
               Good(home, ms, p) /\ Covers(b, hd, ms, hs, p) => Covers(b, hd, ms2, hs, p)
<1>1. Len(ms) \in Nat /\ DOMAIN ms = 1..Len(ms) /\ \A i \in DOMAIN ms : ms[i].done \in Nat
  BY DEF Venues
<1>2. Longer(ms, ms2) /\ Len(ms2) \in Nat
  BY <1>1 DEF Longer
<1>3. ASSUME NEW h \in hs, h.done > 0
      PROVE  Reaches(home, ms2, [leg |-> Other(h.leg), chunk |-> h.chunk], h.done)
  BY <1>1, <1>2, <1>3, ReachesLasts DEF Venues
<1>4. Venues(home, hd, ms2, hs)
  <2>1. ASSUME NEW i \in DOMAIN ms2
        PROVE  ms2[i].leg = home[i].leg /\ ms2[i].done \in Nat /\ ms2[i].asked \in Nat
    <3>1. CASE i \in DOMAIN ms
      BY <3>1 DEF Venues
    <3>2. CASE i = Len(ms) + 1
      BY <3>2
    <3> QED BY <1>1, <2>1, <3>1, <3>2
  <2> QED BY <1>1, <1>2, <1>3, <2>1 DEF Venues
<1>5. ASSUME NEW p, Good(home, ms, p) PROVE Good(home, ms2, p)
  BY <1>1, <1>2, <1>5, GoodLasts
<1>6. ASSUME NEW b \in [Sizes -> Nat], NEW p, Good(home, ms, p), Covers(b, hd, ms, hs, p)
      PROVE  Covers(b, hd, ms2, hs, p)
  <2>1. ASSUME NEW l \in Legs, p # NoClose
        PROVE  Owes(hd, ms2, hs, p, l) <= Owes(hd, ms, hs, p, l)
    <3>1. Unseen(ms2, p, l) = Unseen(ms, p, l)
      <4>1. CASE Seen(p) \in DOMAIN ms
        BY <4>1, <1>2 DEF Unseen, Longer
      <4>2. CASE Seen(p) = Len(ms) + 1
        <5>1. Seen(p) \notin DOMAIN ms /\ p.maker \in Nat
          BY <4>2, <1>1, <1>6, <2>1 DEF Good
        <5>2. Less(0, p.maker) = 0
          BY <5>1 DEF Less
        <5> QED BY <4>2, <5>1, <5>2 DEF Unseen
      <4>3. CASE Seen(p) \notin DOMAIN ms2
        BY <4>3, <1>2 DEF Unseen, Longer
      <4> QED BY <1>1, <4>1, <4>2, <4>3
    <3>2. Owes(hd, ms2, hs, p, l) = Owes(hd, ms, hs, p, l)
      BY <3>1 DEF Owes
    <3>3. Owes(hd, ms, hs, p, l) \in Nat
      BY <1>6, <2>1, OwesIs
    <3> QED BY <3>2, <3>3
  <2>2. Good(home, ms2, p) /\ \A l \in Legs : hd[l] \in Nat
    BY <1>5, <1>6 DEF Venues
  <2> QED BY <1>4, <1>6, <2>1, <2>2, CoversLess
<1> QED BY <1>2, <1>4, <1>5, <1>6

\* A hedge of a chunk that had none on its leg, within what the orders of the
\* chunk executed on the other leg.
LEMMA HedgeLasts ==
  ASSUME NEW home,
         NEW hd, NEW ms, NEW hs, Venues(home, hd, ms, hs),
         NEW h, h.leg \in Legs, h.done \in Nat, h.done <= hd[h.leg],
         \A g \in hs : Id(g) # Id(h),
         h.done > 0 => Reaches(home, ms, [leg |-> Other(h.leg), chunk |-> h.chunk], h.done),
         NEW hd2, hd2 = [hd EXCEPT ![h.leg] = @ - h.done]
  PROVE  /\ Venues(home, hd2, ms, hs \cup {h})
         /\ \A b \in [Sizes -> Nat] : \A p :
               Good(home, ms, p) /\ Covers(b, hd, ms, hs, p)
                  => Covers(b, hd2, ms, hs \cup {h}, p)
<1> DEFINE hs2 == hs \cup {h}
<1>1. hd \in [Legs -> Nat] /\ hd2 \in [Legs -> Nat]
      /\ hd2[h.leg] = hd[h.leg] - h.done /\ \A l \in Legs : l # h.leg => hd2[l] = hd[l]
  BY DEF Venues
<1>2. IsFiniteSet(hs2) /\ h \notin hs
  BY FS_AddElement DEF Venues
<1>3. \A g \in hs2 : g \in hs \/ g = h
  OBVIOUS
<1>4. Venues(home, hd2, ms, hs2)
  <2>1. \A g \in hs2 : g.leg \in Legs /\ g.done \in Nat
    BY <1>3 DEF Venues
  <2>2. \A f, g \in hs2 : Id(f) = Id(g) => f = g
    BY <1>3 DEF Venues
  <2>3. \A g \in hs2 : g.done > 0 =>
           Reaches(home, ms, [leg |-> Other(g.leg), chunk |-> g.chunk], g.done)
    BY <1>3 DEF Venues
  <2> HIDE DEF hs2
  <2> QED BY <1>1, <1>2, <2>1, <2>2, <2>3 DEF Venues
<1>5. ASSUME NEW b \in [Sizes -> Nat], NEW p, Good(home, ms, p), Covers(b, hd, ms, hs, p)
      PROVE  Covers(b, hd2, ms, hs2, p)
  <2>1. ASSUME NEW l \in Legs, p # NoClose
        PROVE  Owes(hd2, ms, hs2, p, l) <= Owes(hd, ms, hs, p, l)
    <3> DEFINE U == Unread(hs, p, l)
    <3>1. IsFiniteSet(U) /\ Done(U) \in Nat /\ \A g \in U : g.done \in Nat
      <4>1. IsFiniteSet(Unread(hs, p, l)) /\ Done(Unread(hs, p, l)) \in Nat
        BY UnreadIs
      <4> QED BY <4>1 DEF Unread, Venues
    <3>2. hd2[l] + Done(Unread(hs2, p, l)) <= hd[l] + Done(U)
          /\ hd2[l] \in Nat /\ hd[l] \in Nat /\ Done(Unread(hs2, p, l)) \in Nat
      <4>1. CASE l = h.leg /\ Id(h) \notin p.counted
        <5>1. Unread(hs2, p, l) = U \cup {h}
          BY <4>1 DEF Unread
        <5>2. Done(U \cup {h}) = h.done + Done(U)
          <6>1. h \notin U
            BY <1>2 DEF Unread
          <6> HIDE DEF U
          <6> QED BY <3>1, <6>1, DoneWith
        <5>3. hd2[l] + (h.done + Done(U)) <= hd[l] + Done(U) /\ h.done + Done(U) \in Nat
          BY <4>1, <1>1, <3>1
        <5> QED BY <5>1, <5>2, <5>3, <1>1
      <4>2. CASE ~(l = h.leg /\ Id(h) \notin p.counted)
        <5>1. Unread(hs2, p, l) = U
          BY <4>2 DEF Unread
        <5>2. hd2[l] <= hd[l] /\ hd2[l] \in Nat /\ hd[l] \in Nat
          BY <1>1
        <5> QED BY <5>1, <5>2, <3>1
      <4> QED BY <4>1, <4>2
    <3>3. p.closed[l] \in Nat /\ Unseen(ms, p, l) \in Nat
      <4>1. Unseen(ms, p, l) \in Nat
        BY <1>5, <2>1, UnseenIs
      <4> QED BY <1>5, <2>1, <4>1 DEF Good
    <3> QED BY <3>1, <3>2, <3>3 DEF Owes
  <2>2. \A l \in Legs : hd2[l] <= hd[l]
    BY <1>1
  <2>3. \A l \in Legs : IF p = NoClose THEN p = NoClose /\ hd2[l] <= hd[l]
                        ELSE IF p = NoClose THEN hd2[l] <= hd[l]
                        ELSE Owes(hd2, ms, hs2, p, l) <= Owes(hd, ms, hs, p, l)
    BY <2>1, <2>2
  <2>4. Good(home, ms, p) /\ Covers(b, hd, ms, hs, p)
    BY <1>5
  <2> HIDE DEF hs2
  <2> QED BY <1>4, <2>3, <2>4, CoversLess, ZenonT(60)
<1> QED BY <1>4, <1>5

-----------------------------------------------------------------------------
(* What a pass does to the record, at venues that stay.                    *)

\* The record is as sound as it was and owes no more.
Eases(home, p, q) ==
    /\ Good(home, makers', q) /\ q # NoClose /\ Counts(hedges', q)
    /\ ~twice' => \A l \in Legs : Owes(held', makers', hedges', q, l) <= Owes(held', makers', hedges', p, l)

\* Only what the balance does not read changed.
Alike(p, q) ==
    /\ DOMAIN q = DOMAIN Fresh
    /\ q.leg = p.leg /\ q.chunk = p.chunk /\ q.order = p.order /\ q.cid = p.cid
    /\ q.maker = p.maker /\ q.hedge = p.hedge /\ q.closed = p.closed /\ q.counted = p.counted

LEMMA AlikeSame ==
  ASSUME NEW home, NEW hd, NEW ms, NEW hs, Venues(home, hd, ms, hs),
         NEW p, p # NoClose, Good(home, ms, p), NEW q, Alike(p, q)
  PROVE  Good(home, ms, q) /\ q # NoClose /\ \A l \in Legs : Owes(hd, ms, hs, q, l) <= Owes(hd, ms, hs, p, l)
<1>1. Home(q) = Home(p) /\ Seen(q) = Seen(p) /\ q # NoClose
  BY NotNone DEF Alike, Home, Seen
<1>2. Good(home, ms, q)
  BY <1>1 DEF Good, Alike
<1>3. ASSUME NEW l \in Legs PROVE Owes(hd, ms, hs, q, l) <= Owes(hd, ms, hs, p, l)
  <2>1. Owes(hd, ms, hs, q, l) = Owes(hd, ms, hs, p, l)
    BY <1>1 DEF Owes, Unseen, Unread, Alike
  <2>2. Owes(hd, ms, hs, p, l) \in Nat
    BY OwesIs
  <2> QED BY <2>1, <2>2
<1> QED BY <1>1, <1>2, <1>3

\* Another order is named, of which nothing is executed yet, or none.
LEMMA RenamedSame ==
  ASSUME NEW home, NEW hd, NEW ms, NEW hs, Venues(home, hd, ms, hs),
         NEW p, p # NoClose, Good(home, ms, p),
         NEW q, DOMAIN q = DOMAIN Fresh, q.leg = p.leg, q.chunk = p.chunk, q.maker = p.maker,
         q.hedge = p.hedge, q.closed = p.closed, q.counted = p.counted,
         q.order \in Nat, q.order <= Len(ms), q.cid \in Nat,
         q.order # 0 => home[q.order] = Home(p), q.cid # 0 => home[q.cid] = Home(p),
         Seen(q) = Seen(p) \/ Seen(q) \notin DOMAIN ms \/ ms[Seen(q)].done = 0
  PROVE  Good(home, ms, q) /\ q # NoClose /\ \A l \in Legs : Owes(hd, ms, hs, q, l) <= Owes(hd, ms, hs, p, l)
<1>1. Home(q) = Home(p) /\ q # NoClose
  BY NotNone DEF Home
<1>2. Good(home, ms, q)
  BY <1>1 DEF Good
<1>3. ASSUME NEW l \in Legs PROVE Owes(hd, ms, hs, q, l) <= Owes(hd, ms, hs, p, l)
  <2>1. Unseen(ms, p, l) \in Nat
    BY UnseenIs
  <2>2. Unseen(ms, q, l) = 0 \/ Unseen(ms, q, l) = Unseen(ms, p, l)
    <3>1. p.maker \in Nat
      BY DEF Good
    <3>2. Less(0, p.maker) = 0
      BY <3>1 DEF Less
    <3> QED BY <3>2 DEF Unseen
  <2>3. Unread(hs, q, l) = Unread(hs, p, l)
    BY DEF Unread
  <2>4. hd[l] \in Nat /\ p.closed[l] \in Nat /\ Done(Unread(hs, p, l)) \in Nat
    BY UnreadIs DEF Good, Venues
  <2> QED BY <2>1, <2>2, <2>3, <2>4 DEF Owes
<1> QED BY <1>1, <1>2, <1>3

\* Another leg or chunk is begun: nothing of it was counted.
LEMMA ResetSame ==
  ASSUME NEW home, NEW hd, NEW ms, NEW hs, Venues(home, hd, ms, hs),
         NEW p, p # NoClose, Good(home, ms, p),
         NEW q, DOMAIN q = DOMAIN Fresh, q.leg \in Legs, q.chunk \in Nat, q.chunk > 0,
         q.order = 0, q.cid = 0, q.maker = 0, q.hedge = 0,
         q.closed = p.closed, q.counted = p.counted
  PROVE  Good(home, ms, q) /\ q # NoClose /\ \A l \in Legs : Owes(hd, ms, hs, q, l) <= Owes(hd, ms, hs, p, l)
<1>1. q # NoClose
  BY NotNone
<1>2. Good(home, ms, q)
  <2>1. p.closed \in [Legs -> Nat] /\ Len(ms) \in Nat
    BY DEF Good, Venues
  <2>2. q.closed[q.leg] \in Nat /\ q.closed[Other(q.leg)] \in Nat
    BY <2>1, LegsApart
  <2> QED BY <2>1, <2>2 DEF Good
<1>3. ASSUME NEW l \in Legs PROVE Owes(hd, ms, hs, q, l) <= Owes(hd, ms, hs, p, l)
  <2>1. Unseen(ms, p, l) \in Nat
    BY UnseenIs
  <2>2. Unseen(ms, q, l) = 0
    <3>1. Seen(q) \notin DOMAIN ms
      BY DEF Venues, Seen
    <3> QED BY <3>1 DEF Unseen
  <2>3. Unread(hs, q, l) = Unread(hs, p, l)
    BY DEF Unread
  <2>4. hd[l] \in Nat /\ p.closed[l] \in Nat /\ Done(Unread(hs, p, l)) \in Nat
    BY UnreadIs DEF Good, Venues
  <2> QED BY <2>1, <2>2, <2>3, <2>4 DEF Owes
<1> QED BY <1>1, <1>2, <1>3

\* The fills of the order that is watched are counted.
LEMMA AppliedSame ==
  ASSUME NEW home, NEW hd, NEW ms, NEW hs, Venues(home, hd, ms, hs),
         NEW p, p # NoClose, Good(home, ms, p), Seen(p) \in DOMAIN ms,
         NEW n, n = Greater(p.maker, ms[Seen(p)].done),
         NEW q, q = [p EXCEPT !.maker = n, !.closed[p.leg] = @ + (n - p.maker)]
  PROVE  /\ Good(home, ms, q) /\ q # NoClose
         /\ \A l \in Legs : Owes(hd, ms, hs, q, l) <= Owes(hd, ms, hs, p, l)
<1> DEFINE d == ms[Seen(p)].done
           c == p.closed
<1>1. d \in Nat /\ ms[Seen(p)].leg = p.leg
  <2>1. Seen(p) \in DOMAIN ms => ms[Seen(p)].leg = p.leg /\ ms[Seen(p)].done \in Nat
    BY UnseenIs
  <2> QED BY <2>1
<1>2. DOMAIN p = DOMAIN Fresh /\ p.leg \in Legs /\ c \in [Legs -> Nat] /\ p.maker \in Nat
      /\ p.hedge \in Nat /\ Other(p.leg) \in Legs /\ Other(p.leg) # p.leg
      /\ p.maker <= c[p.leg] /\ p.hedge <= c[Other(p.leg)]
  BY LegsApart DEF Good
<1>3. /\ DOMAIN q = DOMAIN Fresh /\ q.leg = p.leg /\ q.chunk = p.chunk /\ q.order = p.order
      /\ q.cid = p.cid /\ q.maker = n /\ q.hedge = p.hedge /\ q.counted = p.counted
      /\ q.closed = [c EXCEPT ![p.leg] = @ + (n - p.maker)]
  BY <1>2 DEF Fresh
<1>4. n \in Nat /\ n >= p.maker /\ n - p.maker = Less(d, p.maker) /\ (n = p.maker \/ n = d)
  BY <1>1, <1>2 DEF Greater, Less
<1>5. /\ q.closed \in [Legs -> Nat] /\ q.closed[p.leg] = c[p.leg] + (n - p.maker)
      /\ \A l \in Legs : l # p.leg => q.closed[l] = c[l]
  BY <1>2, <1>3, <1>4
<1>6. Home(q) = Home(p) /\ Seen(q) = Seen(p) /\ q # NoClose
  BY <1>3, NotNone DEF Home, Seen
<1>7. q.maker > 0 => Reaches(home, ms, Home(q), q.maker)
  <2>1. CASE n = p.maker
    BY <1>3, <1>6, <2>1 DEF Good
  <2>2. CASE n = d /\ n > 0
    <3>1. home[Seen(p)] = Home(p)
      <4>1. Seen(p) # 0
        BY DEF Venues
      <4> QED BY <4>1 DEF Good, Seen
    <3> QED BY <1>1, <1>3, <1>6, <2>2, <3>1 DEF Reaches
  <2> QED BY <1>3, <1>4, <2>1, <2>2
<1>8. Good(home, ms, q)
  BY <1>2, <1>3, <1>4, <1>5, <1>6, <1>7 DEF Good
<1>9. ASSUME NEW l \in Legs PROVE Owes(hd, ms, hs, q, l) <= Owes(hd, ms, hs, p, l)
  <2>1. Unread(hs, q, l) = Unread(hs, p, l) /\ Done(Unread(hs, p, l)) \in Nat
    <3>1. Unread(hs, q, l) = Unread(hs, p, l)
      BY <1>3 DEF Unread
    <3> QED BY <3>1, UnreadIs
  <2>2. hd[l] \in Nat /\ c[l] \in Nat
    BY <1>2 DEF Venues
  <2>3. CASE l = p.leg
    <3>1. Unseen(ms, p, l) = n - p.maker
      BY <1>4, <2>3 DEF Unseen
    <3>2. Unseen(ms, q, l) = 0
      <4>1. Less(d, n) = 0
        BY <1>1, <1>2, <1>4 DEF Less
      <4> QED BY <1>3, <1>6, <2>3, <4>1 DEF Unseen
    <3> QED BY <1>2, <1>4, <1>5, <2>1, <2>2, <2>3, <3>1, <3>2 DEF Owes
  <2>4. CASE l # p.leg
    <3>1. Unseen(ms, p, l) = 0 /\ Unseen(ms, q, l) = 0
      BY <1>3, <2>4 DEF Unseen
    <3> QED BY <1>5, <2>1, <2>2, <2>4, <3>1 DEF Owes
  <2> QED BY <2>3, <2>4
<1> QED BY <1>6, <1>8, <1>9

\* The fill of the hedge of the chunk is counted.
Across(p) == [leg |-> Other(p.leg), chunk |-> p.chunk]
Uncounted(hs, p, x) == Across(p) \notin p.counted /\ \E h \in hs : Id(h) = Across(p) /\ h.done = x

LEMMA RecordedSame ==
  ASSUME NEW home, NEW hd, NEW ms, NEW hs, Venues(home, hd, ms, hs),
         NEW p, p # NoClose, Good(home, ms, p), NEW x \in Nat,
         NEW q, DOMAIN q = DOMAIN Fresh, q.leg = p.leg, q.chunk = p.chunk, q.order = p.order,
         q.cid = p.cid, q.maker = p.maker, q.hedge = p.hedge + x,
         q.counted = (IF x = 0 THEN p.counted ELSE p.counted \cup {Across(p)}),
         q.closed = [p.closed EXCEPT ![Other(p.leg)] = @ + x]
  PROVE  /\ Good(home, ms, q) /\ q # NoClose
         /\ x = 0 \/ Uncounted(hs, p, x)
               => \A l \in Legs : Owes(hd, ms, hs, q, l) <= Owes(hd, ms, hs, p, l)
<1> DEFINE o == Other(p.leg)
           id == Across(p)
           c == p.closed
<1>1. DOMAIN p = DOMAIN Fresh /\ p.leg \in Legs /\ c \in [Legs -> Nat] /\ p.maker \in Nat
      /\ p.hedge \in Nat /\ o \in Legs /\ o # p.leg
      /\ p.maker <= c[p.leg] /\ p.hedge <= c[o]
  BY LegsApart DEF Good
<1>2. /\ DOMAIN q = DOMAIN Fresh /\ q.leg = p.leg /\ q.chunk = p.chunk /\ q.order = p.order
      /\ q.cid = p.cid /\ q.maker = p.maker /\ q.hedge = p.hedge + x
      /\ q.counted = IF x = 0 THEN p.counted ELSE p.counted \cup {id}
      /\ q.closed = [c EXCEPT ![o] = @ + x]
  OBVIOUS
<1>3. /\ q.closed \in [Legs -> Nat] /\ q.closed[o] = c[o] + x
      /\ \A l \in Legs : l # o => q.closed[l] = c[l]
  BY <1>1, <1>2
<1>4. Home(q) = Home(p) /\ Seen(q) = Seen(p) /\ q # NoClose
  BY <1>2, NotNone DEF Home, Seen
<1>5. Good(home, ms, q)
  <2>1. q.hedge \in Nat /\ q.hedge <= q.closed[o] /\ q.maker <= q.closed[p.leg]
    BY <1>1, <1>2, <1>3
  <2> QED BY <1>1, <1>2, <1>3, <1>4, <2>1 DEF Good
<1>6. ASSUME x = 0 \/ Uncounted(hs, p, x),
             NEW l \in Legs
      PROVE  Owes(hd, ms, hs, q, l) <= Owes(hd, ms, hs, p, l)
  <2>1. Unseen(ms, q, l) = Unseen(ms, p, l) /\ Unseen(ms, p, l) \in Nat
    <3>1. Unseen(ms, q, l) = Unseen(ms, p, l)
      BY <1>2, <1>4 DEF Unseen
    <3> QED BY <3>1, UnseenIs
  <2>2. hd[l] \in Nat /\ c[l] \in Nat /\ Done(Unread(hs, p, l)) \in Nat /\ Done(Unread(hs, q, l)) \in Nat
    <3>1. Done(Unread(hs, p, l)) \in Nat
      BY UnreadIs
    <3>2. Done(Unread(hs, q, l)) \in Nat
      BY UnreadIs
    <3> QED BY <1>1, <3>1, <3>2 DEF Venues
  <2>3. CASE x = 0
    <3>1. Unread(hs, q, l) = Unread(hs, p, l)
      BY <1>2, <2>3 DEF Unread
    <3>2. q.closed[l] = c[l]
      BY <1>1, <1>3, <2>3
    <3> QED BY <2>1, <2>2, <3>1, <3>2 DEF Owes
  <2>4. CASE x # 0
    <3>1. PICK h \in hs : Id(h) = id /\ h.done = x
      BY <1>6, <2>4 DEF Uncounted
    <3>2. h.leg = o /\ id \notin p.counted /\ \A g \in hs : Id(g) = id => g = h
      BY <1>6, <2>4, <3>1 DEF Venues, Id, Across, Uncounted
    <3>3. CASE l = o
      <4> DEFINE V == Unread(hs, q, l)
      <4>1. Unread(hs, p, l) = V \cup {h} /\ h \notin V
        BY <1>2, <2>4, <3>1, <3>2, <3>3 DEF Unread
      <4>2. IsFiniteSet(V) /\ \A g \in V : g.done \in Nat
        <5>1. IsFiniteSet(Unread(hs, q, l))
          BY UnreadIs
        <5> QED BY <5>1 DEF Unread, Venues
      <4>3. Done(V \cup {h}) = h.done + Done(V)
        <5> HIDE DEF V
        <5>1. h.done \in Nat
          BY <3>1
        <5> QED BY <4>1, <4>2, <5>1, DoneWith
      <4>4. q.closed[l] = c[l] + x
        BY <1>3, <3>3
      <4> QED BY <2>1, <2>2, <3>1, <4>1, <4>3, <4>4 DEF Owes
    <3>4. CASE l # o
      <4>1. Unread(hs, q, l) = Unread(hs, p, l)
        BY <1>2, <3>2, <3>4, <3>1 DEF Unread
      <4>2. q.closed[l] = c[l]
        BY <1>3, <3>4
      <4> QED BY <2>1, <2>2, <4>1, <4>2 DEF Owes
    <3> QED BY <3>3, <3>4
  <2> QED BY <2>3, <2>4
<1> QED BY <1>4, <1>5, <1>6

\* A fill that is counted at once.
AtOnce(o, x, hd, hd2, p, q) ==
    /\ hd2 \in [Legs -> Nat] /\ hd2[o] = hd[o] - x /\ \A l \in Legs : l # o => hd2[l] = hd[l]
    /\ DOMAIN q = DOMAIN Fresh /\ q.leg = p.leg /\ q.chunk = p.chunk /\ q.order = p.order
    /\ q.cid = p.cid /\ q.maker = p.maker /\ q.counted = p.counted
    /\ q.hedge = p.hedge \/ (q.hedge = p.hedge + x /\ o = Other(p.leg))
    /\ q.closed = [p.closed EXCEPT ![o] = @ + x]

LEMMA ClosedSame ==
  ASSUME NEW home, NEW hd, NEW ms, NEW hs, Venues(home, hd, ms, hs),
         NEW p, p # NoClose, Good(home, ms, p),
         NEW o \in Legs, NEW x \in Nat, x <= hd[o],
         NEW hd2, NEW q, AtOnce(o, x, hd, hd2, p, q)
  PROVE  /\ Venues(home, hd2, ms, hs) /\ Good(home, ms, q) /\ q # NoClose
         /\ \A l \in Legs : Owes(hd2, ms, hs, q, l) <= Owes(hd, ms, hs, p, l)
<1> DEFINE c == p.closed
<1>1. p.leg \in Legs /\ c \in [Legs -> Nat] /\ p.maker \in Nat /\ p.hedge \in Nat
      /\ Other(p.leg) \in Legs /\ p.maker <= c[p.leg] /\ p.hedge <= c[Other(p.leg)]
      /\ hd \in [Legs -> Nat]
  BY LegsApart DEF Good, Venues
<1>0. /\ DOMAIN q = DOMAIN Fresh /\ q.leg = p.leg /\ q.chunk = p.chunk /\ q.order = p.order
      /\ q.cid = p.cid /\ q.maker = p.maker /\ q.counted = p.counted
      /\ (q.hedge = p.hedge \/ (q.hedge = p.hedge + x /\ o = Other(p.leg)))
      /\ q.closed = [p.closed EXCEPT ![o] = @ + x]
  BY DEF AtOnce
<1>2. /\ q.closed \in [Legs -> Nat] /\ q.closed[o] = c[o] + x
      /\ \A l \in Legs : l # o => q.closed[l] = c[l]
  BY <1>0, <1>1
<1>3. /\ hd2 \in [Legs -> Nat] /\ hd2[o] = hd[o] - x /\ \A l \in Legs : l # o => hd2[l] = hd[l]
  BY DEF AtOnce
<1>4. Home(q) = Home(p) /\ Seen(q) = Seen(p) /\ q # NoClose
  BY <1>0, NotNone DEF Home, Seen
<1>5. Good(home, ms, q)
  <2>1. q.hedge \in Nat /\ q.hedge <= q.closed[Other(p.leg)] /\ q.maker <= q.closed[p.leg]
    BY <1>0, <1>1, <1>2
  <2> QED BY <1>0, <1>1, <1>2, <1>4, <2>1 DEF Good
<1>6. Venues(home, hd2, ms, hs)
  BY <1>3 DEF Venues
<1>7. ASSUME NEW l \in Legs PROVE Owes(hd2, ms, hs, q, l) <= Owes(hd, ms, hs, p, l)
  <2>1. Unseen(ms, q, l) = Unseen(ms, p, l) /\ Unread(hs, q, l) = Unread(hs, p, l)
    BY <1>0, <1>4 DEF Unseen, Unread
  <2>2. Unseen(ms, p, l) \in Nat
    BY UnseenIs
  <2>3. Done(Unread(hs, p, l)) \in Nat
    BY UnreadIs
  <2>4. hd2[l] + q.closed[l] = hd[l] + c[l] /\ hd[l] \in Nat /\ c[l] \in Nat /\ hd2[l] \in Nat
        /\ q.closed[l] \in Nat
    <3>1. CASE l = o
      BY <1>1, <1>2, <1>3, <3>1
    <3>2. CASE l # o
      BY <1>1, <1>2, <1>3, <3>2
    <3> QED BY <3>1, <3>2
  <2> QED BY <2>1, <2>2, <2>3, <2>4 DEF Owes
<1> QED BY <1>4, <1>5, <1>6, <1>7

-----------------------------------------------------------------------------
(* What a step does to the books.                                          *)

\* The venues move on; what is sound stays so, and what covered them still does.
Grows(home) ==
    /\ Venues(home, held', makers', hedges')
    /\ \A p : Good(home, makers, p) => Good(home, makers', p)
    /\ \A p : Counts(hedges, p) => Counts(hedges', p)
    /\ \A b \in [Sizes -> Nat] : \A p :
          Good(home, makers, p) /\ Covers(b, held, makers, hedges, p)
             => Covers(b, held', makers', hedges', p)

\* The record of the close and of the position afterwards.
Accounted(home) ==
    /\ Widest(book', open') /\ \A l \in Legs : book'[l] <= book[l]
    /\ Good(home, makers', pending') /\ Counts(hedges', pending')
    /\ ~twice' => Covers(book', held', makers', hedges', pending')

\* What a restart restores afterwards.
Journaled ==
    \/ saved' = saved
    \/ saved' = [saved EXCEPT !.pending = pending]
    \/ saved' = [saved EXCEPT !.pending = pending']
    \/ saved' = [pending |-> pending', book |-> book', open |-> open', residual |-> residual']

LEMMA CoversMore ==
  ASSUME NEW home, NEW hd, NEW ms, NEW hs, Venues(home, hd, ms, hs),
         NEW p, Good(home, ms, p),
         NEW b \in [Sizes -> Nat], NEW c \in [Sizes -> Nat], \A l \in Legs : b[l] <= c[l],
         Covers(b, hd, ms, hs, p)
  PROVE  Covers(c, hd, ms, hs, p)
<1> SUFFICES ASSUME NEW l \in Legs
             PROVE  c[l] >= IF p = NoClose THEN hd[l] ELSE Owes(hd, ms, hs, p, l)
  BY DEF Covers
<1>1. b[l] \in Nat /\ c[l] \in Nat /\ hd[l] \in Nat /\ b[l] <= c[l]
  BY DEF Venues, Legs, Sizes
<1>2. p # NoClose => Owes(hd, ms, hs, p, l) \in Nat
  BY OwesIs
<1>3. b[l] >= IF p = NoClose THEN hd[l] ELSE Owes(hd, ms, hs, p, l)
  BY DEF Covers
<1> QED BY <1>1, <1>2, <1>3

LEMMA Moves ==
  ASSUME NEW home, Books(home), Grows(home), Accounted(home), Journaled,
         DOMAIN saved = SavedFields, twice' \in BOOLEAN, twice => twice', Sent'
  PROVE  Books(home)'
<1>1. /\ book \in [Sizes -> Nat] /\ book' \in [Sizes -> Nat] /\ saved.book \in [Sizes -> Nat]
      /\ \A l \in Legs : book'[l] <= book[l] /\ book[l] <= saved.book[l]
  BY DEF Books, Accounted, Widest
<1>2. \A l \in Legs : book'[l] <= saved.book[l] /\ book'[l] <= book'[l]
  <2>1. ASSUME NEW l \in Legs PROVE book'[l] <= saved.book[l] /\ book'[l] <= book'[l]
    <3>1. book'[l] \in Nat /\ book[l] \in Nat /\ saved.book[l] \in Nat
      BY <1>1 DEF Legs, Sizes
    <3> QED BY <1>1, <3>1
  <2> QED BY <2>1
<1>3. Venues(home, held', makers', hedges') /\ Good(home, makers', pending')
      /\ Good(home, makers', pending) /\ Good(home, makers', saved.pending)
      /\ Counts(hedges', pending') /\ Counts(hedges', pending) /\ Counts(hedges', saved.pending)
      /\ Widest(book', open') /\ Widest(saved.book, saved.open)
  BY DEF Books, Grows, Accounted
<1>4. ASSUME ~twice'
      PROVE  /\ Covers(book', held', makers', hedges', pending')
             /\ Covers(saved.book, held', makers', hedges', pending')
             /\ Covers(saved.book, held', makers', hedges', pending)
             /\ Covers(saved.book, held', makers', hedges', saved.pending)
  <2>1. Covers(book', held', makers', hedges', pending')
    BY <1>4 DEF Accounted
  <2>2. Covers(saved.book, held', makers', hedges', pending')
    BY <1>1, <1>2, <1>3, <2>1, CoversMore
  <2>3. Covers(book, held', makers', hedges', pending)
        /\ Covers(saved.book, held', makers', hedges', saved.pending)
    BY <1>1, <1>4 DEF Books, Grows
  <2>4. Covers(saved.book, held', makers', hedges', pending)
    BY <1>1, <1>3, <2>3, CoversMore
  <2> QED BY <2>1, <2>2, <2>3, <2>4
<1>5. /\ Good(home, makers', saved'.pending) /\ Counts(hedges', saved'.pending)
      /\ Widest(saved'.book, saved'.open)
      /\ \A l \in Legs : book'[l] <= saved'.book[l]
      /\ ~twice' => Covers(saved'.book, held', makers', hedges', saved'.pending)
  <2>1. CASE saved' = saved
    BY <2>1, <1>2, <1>3, <1>4
  <2>2. CASE saved' = [saved EXCEPT !.pending = pending]
    <3>1. saved'.pending = pending /\ saved'.book = saved.book /\ saved'.open = saved.open
      BY <2>2 DEF SavedFields
    <3> QED BY <3>1, <1>2, <1>3, <1>4
  <2>3. CASE saved' = [saved EXCEPT !.pending = pending']
    <3>1. saved'.pending = pending' /\ saved'.book = saved.book /\ saved'.open = saved.open
      BY <2>3 DEF SavedFields
    <3> QED BY <3>1, <1>2, <1>3, <1>4
  <2>4. CASE saved' = [pending |-> pending', book |-> book', open |-> open', residual |-> residual']
    <3>1. saved'.pending = pending' /\ saved'.book = book' /\ saved'.open = open'
      BY <2>4
    <3> QED BY <3>1, <1>2, <1>3, <1>4
  <2> QED BY <2>1, <2>2, <2>3, <2>4 DEF Journaled
<1>6. home \in [Nat -> Homes]
  BY DEF Books
<1> QED BY <1>3, <1>4, <1>5, <1>6 DEF Books

\* The record goes on and owes no more.
LEMMA EasesAccounted ==
  ASSUME NEW home, Books(home), Grows(home), Exists, twice \in BOOLEAN, twice => twice',
         book' = book, open' = open, Eases(home, pending, pending')
  PROVE  Accounted(home)
<1>1. Widest(book, open) /\ Good(home, makers, pending)
  BY DEF Books
<1>2. \A l \in Legs : book'[l] <= book[l]
  BY <1>1 DEF Widest, Legs, Sizes
<1>3. ASSUME ~twice' PROVE Covers(book', held', makers', hedges', pending')
  <2>1. Covers(book, held', makers', hedges', pending) /\ book \in [Sizes -> Nat]
    BY <1>1, <1>3 DEF Books, Grows, Widest
  <2>2. Venues(home, held', makers', hedges') /\ Good(home, makers', pending)
        /\ pending # NoClose /\ Good(home, makers', pending') /\ pending' # NoClose
    BY <1>1 DEF Grows, Eases, Exists
  <2>3. \A l \in Legs : Owes(held', makers', hedges', pending', l) <= Owes(held', makers', hedges', pending, l)
    BY <1>3 DEF Eases
  <2>4. Covers(book, held', makers', hedges', pending')
    BY <2>1, <2>2, <2>3, CoversLess
  <2> QED BY <2>4
<1> QED BY <1>1, <1>2, <1>3 DEF Accounted, Eases

LEMMA DropAccounted ==
  ASSUME NEW home, Books(home), Grows(home), twice => twice',
         book' = book, open' = open, pending' = NoClose
  PROVE  Accounted(home)
<1>1. Widest(book, open) /\ Good(home, makers, pending)
  BY DEF Books
<1>2. \A l \in Legs : book'[l] <= book[l]
  BY <1>1 DEF Widest, Legs, Sizes
<1>3. ASSUME ~twice' PROVE Covers(book', held', makers', hedges', pending')
  <2>1. Covers(book, held', makers', hedges', pending) /\ book \in [Sizes -> Nat]
    BY <1>1, <1>3 DEF Books, Grows, Widest
  <2>2. Venues(home, held', makers', hedges') /\ Good(home, makers', pending)
        /\ Good(home, makers', NoClose)
    BY <1>1 DEF Grows, Good
  <2>3. \A l \in Legs : held'[l] <= held'[l]
    BY <2>2 DEF Venues
  <2>4. Covers(book, held', makers', hedges', NoClose)
    BY <2>1, <2>2, <2>3, CoversLess
  <2> QED BY <2>4
<1>4. Good(home, makers', pending') /\ Counts(hedges', pending')
  BY DEF Good, Counts
<1> QED BY <1>1, <1>2, <1>3, <1>4 DEF Accounted

LEMMA ClearAccounted ==
  ASSUME NEW home, Books(home), Clear, \A l \in Legs : held'[l] = 0
  PROVE  Accounted(home)
<1>1. book' = [matched |-> 0, long |-> 0, short |-> 0] /\ ~open' /\ pending' = NoClose
  BY DEF Clear
<1>2. Widest(book', open') /\ \A l \in Legs : book'[l] = 0
  BY <1>1 DEF Widest, Sizes, Legs
<1>3. \A l \in Legs : book[l] \in Nat
  BY DEF Books, Widest, Sizes, Legs
<1> QED BY <1>1, <1>2, <1>3 DEF Accounted, Good, Covers, Counts

-----------------------------------------------------------------------------
(* The steps of the venues.                                                *)

\* the amounts of the orders stay
SameAmounts(s, t) ==
    /\ Len(t) = Len(s) /\ DOMAIN t = DOMAIN s
    /\ \A i \in DOMAIN s : t[i].leg = s[i].leg /\ t[i].asked = s[i].asked /\ t[i].done = s[i].done

LEMMA EndedAmounts ==
  ASSUME NEW s, Orders(s), NEW k PROVE SameAmounts(s, [s EXCEPT ![k].rests = FALSE])
<1> DEFINE u == [s EXCEPT ![k].rests = FALSE]
<1>1. Len(u) = Len(s) /\ DOMAIN u = DOMAIN s
  BY EndedFades DEF Fades
<1>2. ASSUME NEW i \in DOMAIN s
      PROVE  u[i].leg = s[i].leg /\ u[i].asked = s[i].asked /\ u[i].done = s[i].done
  <2>1. DOMAIN s[i] = OrderFields
    BY DEF Orders
  <2>2. u[i] = s[i] \/ u[i] = [s[i] EXCEPT !.rests = FALSE]
    OBVIOUS
  <2> QED BY <2>1, <2>2 DEF OrderFields
<1> QED BY <1>1, <1>2 DEF SameAmounts

LEMMA SettledAmounts == ASSUME NEW s, Orders(s) PROVE SameAmounts(s, Settled(s))
<1> DEFINE t == Settled(s)
<1>1. Len(t) = Len(s) /\ DOMAIN t = DOMAIN s
  BY SettledFades DEF Fades
<1>2. ASSUME NEW i \in DOMAIN s
      PROVE  t[i].leg = s[i].leg /\ t[i].asked = s[i].asked /\ t[i].done = s[i].done
  <2>1. DOMAIN s[i] = OrderFields
    BY DEF Orders
  <2>2. t[i] = [s[i] EXCEPT !.rests = @ /\ s[i].done < s[i].asked /\ held'[s[i].leg] > 0]
    BY DEF Settled
  <2> QED BY <2>1, <2>2 DEF OrderFields
<1> QED BY <1>1, <1>2 DEF SameAmounts

\* Legs shrink, and what the orders and the hedges executed stays.
LEMMA ShrinkGrows ==
  ASSUME NEW home, Books(home), SameAmounts(makers, makers'), hedges' = hedges,
         held' \in [Legs -> Nat], \A l \in Legs : held'[l] <= held[l]
  PROVE  Grows(home)
<1>1. Venues(home, held, makers, hedges) /\ held \in [Legs -> Nat]
  BY DEF Books, Venues
<1>2. ASSUME NEW i \in DOMAIN makers
      PROVE  /\ makers'[i].leg = makers[i].leg /\ makers'[i].asked = makers[i].asked
             /\ makers'[i].done \in Nat /\ makers[i].done <= makers'[i].done
             /\ held'[makers[i].leg] + makers'[i].done <= held[makers[i].leg] + makers[i].done
  <2>1. makers[i].done \in Nat /\ makers'[i].done = makers[i].done
    BY <1>1 DEF Venues, SameAmounts
  <2>2. makers[i].leg \in Legs
    <3>1. home[i] \in Homes /\ makers[i].leg = home[i].leg
      BY <1>1 DEF Books, Venues
    <3> QED BY <3>1 DEF Homes
  <2>3. held[makers[i].leg] \in Nat /\ held'[makers[i].leg] \in Nat
        /\ held'[makers[i].leg] <= held[makers[i].leg]
    BY <1>1, <2>2
  <2> QED BY <2>1, <2>3 DEF SameAmounts
<1>3. Len(makers') = Len(makers) /\ DOMAIN makers' = DOMAIN makers
  BY DEF SameAmounts
<1>4. Fill(held, makers, held', makers')
  BY <1>2, <1>3 DEF Fill
<1>5. Holds(home, held, makers, hedges, held', makers')
  BY <1>1, <1>4, FillsLast
<1> QED BY <1>5 DEF Grows, Holds

LEMMA StaysGrows == ASSUME NEW home, Books(home), UNCHANGED venueVars PROVE Grows(home)
<1>1. SameAmounts(makers, makers') /\ hedges' = hedges /\ held' = held
  BY DEF venueVars, SameAmounts
<1>2. held' \in [Legs -> Nat] /\ \A l \in Legs : held'[l] <= held[l]
  BY <1>1 DEF Books, Venues
<1> QED BY <1>1, <1>2, ShrinkGrows

LEMMA SettlesGrows ==
  ASSUME NEW home, Inductive, Books(home), makers' = Settled(makers), hedges' = hedges,
         held' \in [Legs -> Nat], \A l \in Legs : held'[l] <= held[l]
  PROVE  Grows(home)
  BY SettledAmounts, ShrinkGrows DEF Inductive, Records

\* an order that fills takes from its own leg
LEMMA FillsGrows == ASSUME NEW home, Inductive, Books(home), MakerFills PROVE Grows(home)
<1>1. PICK k \in DOMAIN makers :
        \E x \in 1..Room(makers[k].asked - makers[k].done, makers[k].leg) :
          /\ Take(makers[k].leg, x)
          /\ makers' = Settled([makers EXCEPT ![k].done = @ + x])
  BY DEF MakerFills
<1>2. PICK x \in 1..Room(makers[k].asked - makers[k].done, makers[k].leg) :
        Take(makers[k].leg, x) /\ makers' = Settled([makers EXCEPT ![k].done = @ + x])
  BY <1>1
<1>3. Venues(home, held, makers, hedges) /\ held \in [Legs -> Nat] /\ Orders(makers)
      /\ hedges' = hedges
  BY DEF Books, Venues, Inductive, Records, MakerFills
<1>4. ASSUME NEW i \in DOMAIN makers
      PROVE  makers[i].leg \in Legs /\ makers[i].done \in Nat /\ makers[i].asked \in Nat
  <2>1. home[i] \in Homes /\ makers[i].leg = home[i].leg
    BY <1>3 DEF Books, Venues
  <2> QED BY <1>3, <2>1 DEF Homes, Venues
<1>5. x \in Nat /\ x <= held[makers[k].leg]
  <2>1. makers[k].asked - makers[k].done \in Int /\ held[makers[k].leg] \in Nat
    BY <1>3, <1>4
  <2> HIDE DEF Room
  <2>2. Room(makers[k].asked - makers[k].done, makers[k].leg) \in Int
        /\ Room(makers[k].asked - makers[k].done, makers[k].leg) <= held[makers[k].leg]
    BY <2>1 DEF Room, Lesser
  <2> QED BY <2>1, <2>2
<1> DEFINE u == [makers EXCEPT ![k].done = @ + x]
<1>6. Orders(u) /\ Len(u) = Len(makers) /\ DOMAIN u = DOMAIN makers
      /\ \A i \in DOMAIN makers :
            /\ u[i].leg = makers[i].leg /\ u[i].asked = makers[i].asked
            /\ u[i].done = IF i = k THEN makers[i].done + x ELSE makers[i].done
  <2>1. ASSUME NEW i \in DOMAIN makers
        PROVE  /\ u[i].leg = makers[i].leg /\ u[i].asked = makers[i].asked
               /\ u[i].done = IF i = k THEN makers[i].done + x ELSE makers[i].done
               /\ DOMAIN u[i] = OrderFields /\ u[i].rests = makers[i].rests
    <3>1. DOMAIN makers[i] = OrderFields
      BY <1>3 DEF Orders
    <3>2. u[i] = IF i = k THEN [makers[i] EXCEPT !.done = @ + x] ELSE makers[i]
      OBVIOUS
    <3> QED BY <3>1, <3>2 DEF OrderFields
  <2>2. u = [i \in DOMAIN makers |-> u[i]]
    OBVIOUS
  <2>3. \A i \in DOMAIN makers : makers[i].rests \in BOOLEAN
    BY <1>3 DEF Orders
  <2> HIDE DEF u
  <2>4. Fades(makers, u)
    BY <1>3, <2>1, <2>2, <2>3, FadesByFields
  <2> QED BY <2>1, <2>4 DEF Fades
<1>7. SameAmounts(u, makers')
  <2> HIDE DEF u
  <2>1. makers' = Settled(u)
    BY <1>2 DEF u
  <2> QED BY <1>6, <2>1, SettledAmounts
<1>8. held' = [held EXCEPT ![makers[k].leg] = @ - x]
  BY <1>2 DEF Take
<1>9. held' \in [Legs -> Nat] /\ \A l \in Legs : held'[l] <= held[l]
  BY <1>3, <1>4, <1>5, <1>8
<1>10. ASSUME NEW i \in DOMAIN makers
       PROVE  /\ makers'[i].leg = makers[i].leg /\ makers'[i].asked = makers[i].asked
              /\ makers'[i].done \in Nat /\ makers[i].done <= makers'[i].done
              /\ held'[makers[i].leg] + makers'[i].done <= held[makers[i].leg] + makers[i].done
  <2>1. makers'[i].leg = makers[i].leg /\ makers'[i].asked = makers[i].asked
        /\ makers'[i].done = IF i = k THEN makers[i].done + x ELSE makers[i].done
    <3> HIDE DEF u
    <3> QED BY <1>6, <1>7 DEF SameAmounts
  <2>2. makers[i].done \in Nat /\ held[makers[i].leg] \in Nat /\ held'[makers[i].leg] \in Nat
        /\ held'[makers[i].leg] <= held[makers[i].leg]
        /\ (i = k => held'[makers[i].leg] = held[makers[i].leg] - x)
    BY <1>3, <1>4, <1>8, <1>9
  <2> QED BY <1>5, <2>1, <2>2
<1>11. Len(makers') = Len(makers) /\ DOMAIN makers' = DOMAIN makers
  <2> HIDE DEF u
  <2> QED BY <1>6, <1>7 DEF SameAmounts
<1> HIDE DEF u
<1>12. Fill(held, makers, held', makers')
  BY <1>9, <1>10, <1>11 DEF Fill
<1>13. Holds(home, held, makers, hedges, held', makers')
  BY <1>3, <1>12, FillsLast
<1> QED BY <1>3, <1>13 DEF Grows, Holds

\* an order that is sent, accepted or not
Comes(l, q) ==
    \E e : /\ makers' = Append(makers, e) /\ DOMAIN e = OrderFields /\ e.rests \in BOOLEAN
          /\ e.leg = l /\ e.asked = q /\ e.done = 0

LEMMA AcceptComes == ASSUME NEW l, NEW q, makers' = Accept(l, q) PROVE Comes(l, q)
<1> DEFINE a == [leg |-> l, asked |-> q, done |-> 0, rests |-> held[l] > 0, known |-> TRUE]
<1>1. makers' = Append(makers, a) /\ DOMAIN a = OrderFields /\ a.rests \in BOOLEAN
      /\ a.leg = l /\ a.asked = q /\ a.done = 0
  BY DEF Accept, OrderFields
<1> HIDE DEF a
<1> QED BY <1>1 DEF Comes

LEMMA VanishComes == ASSUME NEW l, NEW q, makers' = Vanish(l, q) PROVE Comes(l, q)
<1> DEFINE v == [leg |-> l, asked |-> q, done |-> 0, rests |-> FALSE, known |-> FALSE]
<1>1. makers' = Append(makers, v) /\ DOMAIN v = OrderFields /\ v.rests \in BOOLEAN
      /\ v.leg = l /\ v.asked = q /\ v.done = 0
  BY DEF Vanish, OrderFields
<1> HIDE DEF v
<1> QED BY <1>1 DEF Comes

\* an order comes to the venue on the leg that it was claimed for
LEMMA OrderGrows ==
  ASSUME NEW home, Inductive, Books(home), step = "submit",
         makers' = Accept(ask.leg, ask.quantity) \/ makers' = Vanish(ask.leg, ask.quantity),
         held' = held, hedges' = hedges
  PROVE  Grows(home) /\ Len(makers') = Len(makers) + 1 /\ makers'[Len(makers) + 1].done = 0
         /\ home[Len(makers) + 1] = Home(pending) /\ pending # NoClose
<1>1. Venues(home, held, makers, hedges) /\ Orders(makers) /\ Len(makers) \in Nat
      /\ ask.leg = pending.leg /\ ask.quantity \in Nat
  BY DEF Books, Venues, Inductive, Records, Sent
<1>2. pending # NoClose /\ home[Len(makers) + 1] = Home(pending)
  BY <1>1 DEF Inductive, Stages, Exists, Books, Good
<1>3. PICK e : /\ makers' = Append(makers, e) /\ DOMAIN e = OrderFields /\ e.rests \in BOOLEAN
               /\ e.leg = ask.leg /\ e.asked = ask.quantity /\ e.done = 0
  <2>1. Comes(ask.leg, ask.quantity)
    BY AcceptComes, VanishComes
  <2> QED BY <2>1 DEF Comes
<1>4. /\ Orders(makers') /\ Len(makers') = Len(makers) + 1
      /\ \A i \in DOMAIN makers : makers'[i] = makers[i]
      /\ makers'[Len(makers) + 1] = e
  BY <1>1, <1>3, OneMore
<1>5. DOMAIN makers' = 1..(Len(makers) + 1)
  BY <1>4, IsOrders
<1>6. makers'[Len(makers) + 1].leg = home[Len(makers) + 1].leg
      /\ makers'[Len(makers) + 1].done = 0 /\ makers'[Len(makers) + 1].asked \in Nat
  BY <1>1, <1>2, <1>3, <1>4 DEF Home
<1>7. /\ Venues(home, held, makers', hedges)
      /\ \A p : Good(home, makers, p) => Good(home, makers', p)
      /\ \A b \in [Sizes -> Nat] : \A p :
            Good(home, makers, p) /\ Covers(b, held, makers, hedges, p)
               => Covers(b, held, makers', hedges, p)
  BY <1>1, <1>4, <1>5, <1>6, OrderLasts
<1> QED BY <1>2, <1>4, <1>6, <1>7 DEF Grows

\* the hedge of the chunk comes to the venue
LEMMA HedgeGrows ==
  ASSUME NEW home, Inductive, Books(home), step = "hedge", ~Taken,
         NEW x \in 0..Room(ask.quantity, HedgeLeg), FillHedge(x)
  PROVE  /\ Grows(home) /\ x \in Nat /\ HedgeId \notin pending.counted
         /\ \E h \in hedges' : Id(h) = HedgeId /\ h.done = x
<1> DEFINE h == [leg |-> HedgeLeg, chunk |-> pending.chunk, done |-> x]
           v == [held EXCEPT ![HedgeLeg] = @ - x]
<1>1. pending # NoClose /\ Good(home, makers, pending) /\ Venues(home, held, makers, hedges)
      /\ Orders(makers)
  BY DEF Inductive, Stages, Exists, Books, Records
<1>2. HedgeLeg \in Legs /\ HedgeLeg = Other(pending.leg) /\ Other(HedgeLeg) = pending.leg
      /\ held \in [Legs -> Nat] /\ pending.maker \in Nat
  BY <1>1, LegsApart DEF Good, HedgeLeg, Venues
<1>3. x \in Nat /\ x <= held[HedgeLeg] /\ x <= pending.maker
  <2>1. ask.quantity \in Int /\ held[HedgeLeg] \in Nat /\ ask.quantity <= pending.maker
    BY <1>2 DEF Books, Sent
  <2>2. /\ Room(ask.quantity, HedgeLeg) \in Int
        /\ Room(ask.quantity, HedgeLeg) <= held[HedgeLeg]
        /\ Room(ask.quantity, HedgeLeg) <= ask.quantity
    BY <2>1 DEF Room, Lesser
  <2> QED BY <1>2, <2>1, <2>2
<1>4. Id(h) = HedgeId /\ h.leg = HedgeLeg /\ h.done = x /\ h.chunk = pending.chunk
  BY DEF Id, HedgeId
<1>5. \A g \in hedges : Id(g) # HedgeId
  BY DEF Taken, Id, HedgeId
<1>6. h.done > 0 => Reaches(home, makers, [leg |-> Other(h.leg), chunk |-> h.chunk], h.done)
  <2>1. SUFFICES ASSUME x > 0 PROVE Reaches(home, makers, Home(pending), x)
    BY <1>2, <1>4 DEF Home
  <2>2. Reaches(home, makers, Home(pending), pending.maker)
    BY <1>1, <1>2, <1>3, <2>1 DEF Good
  <2>3. PICK i \in DOMAIN makers : home[i] = Home(pending) /\ makers[i].done >= pending.maker
    BY <2>2 DEF Reaches
  <2>4. makers[i].done \in Nat
    BY <1>1 DEF Venues
  <2> QED BY <1>2, <1>3, <2>3, <2>4 DEF Reaches
<1>7. /\ Venues(home, v, makers, hedges \cup {h})
      /\ \A b \in [Sizes -> Nat] : \A p :
            Good(home, makers, p) /\ Covers(b, held, makers, hedges, p)
               => Covers(b, v, makers, hedges \cup {h}, p)
  <2>1. v = [held EXCEPT ![h.leg] = @ - h.done]
    BY <1>4
  <2>2. h.leg \in Legs /\ h.done \in Nat /\ h.done <= held[h.leg] /\ \A g \in hedges : Id(g) # Id(h)
    BY <1>2, <1>3, <1>4, <1>5
  <2> HIDE DEF h, v
  <2> QED BY <1>1, <1>6, <2>1, <2>2, HedgeLasts
<1>8. held' = v /\ hedges' = hedges \cup {h} /\ makers' = Settled(makers)
  BY DEF FillHedge, Take
<1>9. SameAmounts(makers, makers')
  BY <1>1, <1>8, SettledAmounts
<1>10. /\ Venues(home, held', makers', hedges')
       /\ \A p : Good(home, makers, p) => Good(home, makers', p)
       /\ \A b \in [Sizes -> Nat] : \A p :
             Good(home, makers, p) /\ Covers(b, v, makers, hedges \cup {h}, p)
                => Covers(b, held', makers', hedges', p)
  <2> HIDE DEF h, v
  <2> DEFINE hs == hedges \cup {h}
  <2> HIDE DEF hs
  <2>1. Venues(home, v, makers, hs) /\ v \in [Legs -> Nat]
    BY <1>7 DEF hs, Venues
  <2>2. Len(makers') = Len(makers) /\ DOMAIN makers' = DOMAIN makers
    BY <1>9 DEF SameAmounts
  <2>3. \A i \in DOMAIN makers :
           /\ makers'[i].leg = makers[i].leg /\ makers'[i].asked = makers[i].asked
           /\ makers'[i].done \in Nat /\ makers[i].done <= makers'[i].done
           /\ v[makers[i].leg] + makers'[i].done <= v[makers[i].leg] + makers[i].done
    <3>1. ASSUME NEW i \in DOMAIN makers PROVE makers[i].done \in Nat /\ v[makers[i].leg] \in Nat
      <4>1. home[i] \in Homes /\ makers[i].leg = home[i].leg /\ makers[i].done \in Nat
        BY <2>1 DEF Books, Venues
      <4> QED BY <2>1, <4>1 DEF Homes
    <3> QED BY <1>9, <3>1 DEF SameAmounts
  <2>4. \A l \in Legs : v[l] <= v[l]
    BY <2>1
  <2>5. Fill(v, makers, v, makers')
    BY <2>1, <2>2, <2>3, <2>4 DEF Fill
  <2>6. Holds(home, v, makers, hs, v, makers')
    BY <2>1, <2>5, FillsLast
  <2> QED BY <1>8, <2>6 DEF hs, Holds
<1>11. \A p : Counts(hedges, p) => Counts(hedges', p)
  BY <1>8 DEF Counts
<1>12. Grows(home)
  <2> HIDE DEF h, v
  <2> QED BY <1>7, <1>10, <1>11 DEF Grows
<1>13. HedgeId \notin pending.counted
  BY <1>1, <1>5 DEF Books, Counts
<1>14. \E g \in hedges' : Id(g) = HedgeId /\ g.done = x
  <2>1. h \in hedges'
    BY <1>8
  <2> HIDE DEF h
  <2> QED BY <1>4, <2>1
<1> QED BY <1>3, <1>12, <1>13, <1>14

-----------------------------------------------------------------------------
(* What the steps have in common.                                          *)

\* The record is as it was, as far as the balance reads it, or it is dropped.
RecordStays ==
    \/ /\ book' = book /\ open' = open
       /\ pending' = NoClose \/ (Exists /\ Alike(pending, pending'))
    \/ Clear /\ \A l \in Legs : held'[l] = 0

LEMMA StaysAccounted ==
  ASSUME NEW home, Books(home), Grows(home), twice' = twice, RecordStays
  PROVE  Accounted(home)
<1>1. twice \in BOOLEAN /\ Good(home, makers, pending) /\ Counts(hedges, pending)
  BY DEF Books
<1>2. CASE book' = book /\ open' = open /\ pending' = NoClose
  BY <1>2, DropAccounted
<1>3. CASE book' = book /\ open' = open /\ Exists /\ Alike(pending, pending')
  <2>1. Venues(home, held', makers', hedges') /\ pending # NoClose
        /\ Good(home, makers', pending) /\ Counts(hedges', pending)
    BY <1>1, <1>3 DEF Grows, Exists
  <2>2. /\ Good(home, makers', pending') /\ pending' # NoClose
        /\ \A l \in Legs : Owes(held', makers', hedges', pending', l)
                           <= Owes(held', makers', hedges', pending, l)
    BY <1>3, <2>1, AlikeSame
  <2>3. Counts(hedges', pending')
    BY <1>3, <2>1 DEF Counts, Alike
  <2>4. Eases(home, pending, pending')
    BY <2>2, <2>3 DEF Eases
  <2> QED BY <1>1, <1>3, <2>4, EasesAccounted
<1>4. CASE Clear /\ \A l \in Legs : held'[l] = 0
  BY <1>4, ClearAccounted
<1> QED BY <1>2, <1>3, <1>4 DEF RecordStays

LEMMA StepStays ==
  ASSUME NEW home, Inductive, Books(home), Grows(home), RecordStays, Journaled,
         twice' = twice, Sent'
  PROVE  Books(home)'
<1>1. DOMAIN saved = SavedFields /\ twice \in BOOLEAN
  BY DEF Inductive, Records, SavedFields, Books
<1>2. Accounted(home)
  BY StaysAccounted
<1> QED BY <1>1, <1>2, Moves

LEMMA StepEases ==
  ASSUME NEW home, Inductive, Books(home), Grows(home), Exists, book' = book, open' = open,
         Eases(home, pending, pending'), Journaled, twice' \in BOOLEAN, twice => twice', Sent'
  PROVE  Books(home)'
<1>1. DOMAIN saved = SavedFields /\ twice \in BOOLEAN
  BY DEF Inductive, Records, SavedFields, Books
<1>2. Accounted(home)
  BY <1>1, EasesAccounted
<1> QED BY <1>1, <1>2, Moves

LEMMA AlikeKinds ==
  ASSUME NEW home, Books(home), Exists
  PROVE  /\ Alike(pending, pending) /\ Alike(pending, Taker(pending))
         /\ Alike(pending, [pending EXCEPT !.gap = TRUE])
         /\ Alike(pending, [pending EXCEPT !.zero = @ + 1])
         /\ Alike(pending, [pending EXCEPT !.claimed = @ \cup {HedgeId}])
<1>1. DOMAIN pending = DOMAIN Fresh
  BY DEF Books, Good, Exists
<1> QED BY <1>1 DEF Alike, Taker, Fresh

LEMMA ClearOrStays ==
  ASSUME Exists, held' = held, NEW p, Alike(pending, p), ClearOr(p)
  PROVE  RecordStays
<1>1. CASE BothFlat /\ Clear
  BY <1>1 DEF RecordStays, BothFlat
<1>2. CASE pending' = p /\ UNCHANGED stateVars
  BY <1>2 DEF RecordStays, stateVars
<1> QED BY <1>1, <1>2 DEF ClearOr

\* What the pass keeps of an order, and what is on its way.
Typed == ask'.leg \in Legs /\ ask'.quantity \in Int /\ total' \in Nat /\ gained' \in Nat
Idles == step' \notin {"submit", "hedge", "filled"}
Begins == started' \/ (started' = started /\ hedges' = hedges)

LEMMA EndTyped == ASSUME EndPass PROVE Typed /\ Idles
  BY DEF EndPass, Typed, Idles, NoOrder, Legs

LEMMA SameTyped ==
  ASSUME NEW home, Books(home), ask' = ask, total' = total, gained' = gained PROVE Typed
  BY DEF Books, Sent, Typed

LEMMA Quiet ==
  ASSUME NEW home, Books(home), setup' = setup, Begins, Typed, Idles
  PROVE  Sent'
<1>1. setup.plan \in Seq(Nat \ {0}) /\ (~started => hedges = {})
  BY DEF Books, Sent
<1>2. ~started' => hedges' = {}
  BY <1>1 DEF Begins
<1> QED BY <1>1, <1>2 DEF Sent, Typed, Idles

LEMMA InPass ==
  ASSUME Inductive, step \notin {"idle", "end"} \/ Exists, started' = started
  PROVE  Exists /\ started /\ Begins
  BY DEF Inductive, Records, Stages, Exists, Begins

LEMMA ClearOrEnds == ASSUME NEW p, ClearOr(p) PROVE EndPass
  BY DEF ClearOr, Clear

\* A step that leaves the venues alone and sends no order that is to be hedged.
LEMMA Calm ==
  ASSUME NEW home, Inductive, Books(home), Exists, UNCHANGED venueVars, RecordStays, Journaled,
         setup' = setup, started' = started, twice' = twice, Typed, Idles
  PROVE  Books(home)'
<1>1. Grows(home) /\ Begins
  BY StaysGrows DEF Begins, venueVars
<1>2. Sent'
  BY <1>1, Quiet
<1> QED BY <1>1, <1>2, StepStays

LEMMA SavedJournaled == ASSUME saved' = saved PROVE Journaled
  BY DEF Journaled

LEMMA ChunkIs ==
  ASSUME NEW home, Books(home), Exists
  PROVE  Chunk \in Nat /\ pending.maker \in Nat /\ pending.hedge \in Nat
<1>1. setup.plan \in Seq(Nat \ {0}) /\ pending.chunk \in Nat /\ pending.chunk > 0
      /\ pending.maker \in Nat /\ pending.hedge \in Nat
  BY DEF Books, Sent, Good, Exists
<1>2. Chunk \in Nat
  <2>1. CASE pending.chunk > Len(setup.plan)
    BY <2>1 DEF Chunk
  <2>2. CASE ~(pending.chunk > Len(setup.plan))
    <3>1. pending.chunk \in 1..Len(setup.plan)
      BY <1>1, <2>2
    <3>2. setup.plan[pending.chunk] \in Nat \ {0}
      BY <1>1, <3>1
    <3> QED BY <2>2, <3>2 DEF Chunk
  <2> QED BY <2>1, <2>2
<1> QED BY <1>1, <1>2

\* A hedge is sent for what the maker order executed, or asked for.
LEMMA HedgeSent ==
  ASSUME NEW home, Inductive, Books(home), Exists, UNCHANGED <<venueVars, stateVars>>,
         setup' = setup, started' = started, twice' = twice,
         NEW q \in Int, q <= pending.maker, NEW next, Hedge(q, next)
  PROVE  Books(home)'
<1>1. Alike(pending, pending')
  BY AlikeKinds DEF Hedge, AskHedge, SendHedge, Claim
<1>2. Journaled
  BY DEF Hedge, AskHedge, SendHedge, Claim, Journaled
<1>3. RecordStays
  BY <1>1 DEF RecordStays, stateVars
<1>4. ask' = [leg |-> HedgeLeg, quantity |-> q] /\ gained' = gained /\ total' = total
      /\ step' \in {"hedge", "reconcile"}
  BY DEF Hedge, AskHedge, SendHedge
<1>5. HedgeLeg \in Legs
  BY LegsApart DEF HedgeLeg, Books, Good, Exists
<1>6. setup.plan \in Seq(Nat \ {0}) /\ (~started => hedges = {}) /\ total \in Nat /\ gained \in Nat
  BY DEF Books, Sent
<1>7. pending'.maker = pending.maker
  BY <1>1 DEF Alike
<1>8. ask'.leg = HedgeLeg /\ ask'.quantity = q
  BY <1>4
<1>9. Sent'
  BY <1>4, <1>5, <1>6, <1>7, <1>8 DEF Sent, venueVars
<1>10. Grows(home)
  BY StaysGrows DEF venueVars
<1> QED BY <1>2, <1>3, <1>9, <1>10, StepStays

LEMMA GapBooks ==
  ASSUME NEW home, Inductive, Books(home), MakerFilled \/ MindTheGap PROVE Books(home)'
<1>1. step \in {"filled", "gap"} /\ UNCHANGED <<venueVars, stateVars>>
      /\ setup' = setup /\ started' = started /\ twice' = twice
  BY DEF MakerFilled, MindTheGap, fixed, history
<1>2. Exists
  BY <1>1 DEF Inductive, Stages
<1>3. pending.maker \in Nat /\ pending.hedge \in Nat /\ gained \in Nat
      /\ (step = "filled" => gained <= pending.maker)
  BY <1>2, ChunkIs DEF Books, Sent
<1>4. Gap \in Int /\ Gap <= pending.maker
  BY <1>3 DEF Gap
<1>5. MakerFilled => Due \in Int /\ Due <= pending.maker
  BY <1>3, <1>4 DEF Due, MakerFilled
<1>6. ASSUME NEW q \in Int, q <= pending.maker, NEW next, Hedge(q, next) PROVE Books(home)'
  BY <1>1, <1>2, <1>6, HedgeSent
<1>7. \/ \E next : Hedge(Gap, next)
      \/ MakerFilled /\ \E next : Hedge(Due, next)
      \/ /\ pending' \in {pending, Taker(pending)} /\ saved' = saved
         /\ \/ EndPass
            \/ /\ step' \in {"compensate", "hedged"} /\ ask' = ask /\ gained' = gained
               /\ total' = total
  <2>1. CASE MakerFilled
    BY <2>1 DEF MakerFilled, Compensate
  <2>2. CASE MindTheGap
    BY <2>2 DEF MindTheGap, Compensate
  <2> QED BY <2>1, <2>2
<1>8. CASE /\ pending' \in {pending, Taker(pending)} /\ saved' = saved
           /\ \/ EndPass
              \/ /\ step' \in {"compensate", "hedged"} /\ ask' = ask /\ gained' = gained
                 /\ total' = total
  <2>1. RecordStays
    BY <1>1, <1>2, <1>8, AlikeKinds DEF RecordStays, stateVars
  <2>2. Typed /\ Idles
    <3>1. CASE EndPass
      BY <3>1, EndTyped
    <3>2. CASE step' \in {"compensate", "hedged"} /\ ask' = ask /\ gained' = gained
               /\ total' = total
      BY <3>2, SameTyped DEF Idles
    <3> QED BY <1>8, <3>1, <3>2
  <2>3. UNCHANGED venueVars /\ Journaled
    BY <1>1, <1>8, SavedJournaled
  <2> QED BY <1>1, <1>2, <2>1, <2>2, <2>3, Calm
<1> QED BY <1>4, <1>5, <1>6, <1>7, <1>8

\* Steps that end the pass, drop the record or go on elsewhere.
CalmSteps == NoMaker \/ PollNothing \/ HedgeRefused \/ Hold \/ DriveTaker \/ FallbackNothing
             \/ Check \/ Tick

LEMMA CalmBooks == ASSUME NEW home, Inductive, Books(home), CalmSteps PROVE Books(home)'
<1>1. UNCHANGED venueVars /\ setup' = setup /\ started' = started /\ twice' = twice
      /\ saved' = saved
  BY DEF CalmSteps, NoMaker, PollNothing, HedgeRefused, Hold, DriveTaker, FallbackNothing, Check,
         Tick, Goto, Hedged, fixed, history
<1>2. Exists
  BY DEF CalmSteps, NoMaker, PollNothing, HedgeRefused, Hedging, Hold, DriveTaker, TakerPhase,
         FallbackNothing, Check, Tick, Working, Inductive, Stages
<1>3. held' = held /\ Alike(pending, pending) /\ Alike(pending, Taker(pending))
  BY <1>1, <1>2, AlikeKinds DEF venueVars
<1>4. RecordStays
  <2>1. CASE Check
    BY <2>1, <1>2, <1>3, ClearOrStays DEF Check
  <2>2. CASE Tick
    BY <2>2, <1>2, <1>3 DEF Tick, RecordStays, BothFlat, Armed, stateVars
  <2>3. CASE NoMaker \/ PollNothing \/ HedgeRefused \/ Hold \/ DriveTaker \/ FallbackNothing
    <3>1. UNCHANGED stateVars /\ pending' \in {pending, Taker(pending)}
      BY <2>3 DEF NoMaker, PollNothing, HedgeRefused, Hold, DriveTaker, FallbackNothing
    <3> QED BY <1>2, <1>3, <3>1 DEF RecordStays, stateVars
  <2> QED BY <2>1, <2>2, <2>3 DEF CalmSteps
<1>5. \/ EndPass
      \/ /\ step' \in {"gap", "hedged", "zero", "fallback", "drive"} /\ ask' = ask
         /\ total' = total /\ gained' \in {0, gained}
  <2>1. CASE Check
    BY <2>1, ClearOrEnds DEF Check
  <2>2. CASE Tick
    BY <2>2 DEF Tick, Clear, Goto, passVars
  <2>3. CASE NoMaker \/ PollNothing \/ HedgeRefused
    BY <2>3 DEF NoMaker, PollNothing, HedgeRefused, Onwards, Hedged
  <2>4. CASE Hold \/ DriveTaker \/ FallbackNothing
    BY <2>4 DEF Hold, DriveTaker, FallbackNothing, Goto, passVars
  <2> QED BY <2>1, <2>2, <2>3, <2>4 DEF CalmSteps
<1>6. Typed /\ Idles
  <2>1. CASE EndPass
    BY <2>1, EndTyped
  <2>2. CASE ~EndPass
    BY <1>5, <2>2 DEF Books, Sent, Typed, Idles
  <2> QED BY <2>1, <2>2
<1> QED BY <1>1, <1>2, <1>4, <1>6, SavedJournaled, Calm

LEMMA FallbackBooks ==
  ASSUME NEW home, Inductive, Books(home), FallbackLive \/ FallbackBlind \/ FallbackHedged
  PROVE  Books(home)'
<1>1. UNCHANGED venueVars /\ setup' = setup /\ started' = started /\ twice' = twice
      /\ step \in {"fallback", "hedged"}
  BY DEF FallbackLive, FallbackBlind, FallbackHedged, fixed, history
<1>2. Exists
  BY <1>1 DEF Inductive, Stages
<1>3. held' = held /\ Alike(pending, pending) /\ held \in [Legs -> Nat]
  BY <1>1, <1>2, AlikeKinds DEF venueVars, Books, Venues
<1>4. Chunk \in Nat /\ pending.maker \in Nat /\ pending.hedge \in Nat
  BY <1>2, ChunkIs
<1>5. Unhedged \in Nat /\ Unhedged <= pending.maker /\ Paired \in Nat
  BY <1>4 DEF Unhedged, Paired, Less
<1>6. CASE FallbackBlind /\ Hedge(Unhedged, "fallback")
  <2>1. UNCHANGED <<venueVars, stateVars>>
    BY <1>6 DEF FallbackBlind
  <2>2. Unhedged \in Int
    BY <1>5
  <2> QED BY <1>1, <1>2, <1>5, <1>6, <2>1, <2>2, HedgeSent
<1>7. CASE ~(FallbackBlind /\ Hedge(Unhedged, "fallback"))
  <2>1. saved' = saved
    BY <1>7 DEF FallbackLive, FallbackBlind, FallbackHedged
  <2>2. RecordStays
    <3>1. CASE FallbackLive
      BY <3>1, <1>2, <1>3 DEF FallbackLive, RecordStays, BothFlat, stateVars
    <3>2. CASE FallbackBlind
      BY <3>2, <1>2, <1>3, <1>7 DEF FallbackBlind, RecordStays, stateVars
    <3>3. CASE FallbackHedged
      <4>1. CASE ClearOr(pending)
        BY <4>1, <1>2, <1>3, ClearOrStays
      <4>2. CASE ~ClearOr(pending)
        BY <3>3, <4>2, <1>2, <1>3 DEF FallbackHedged, RecordStays, stateVars
      <4> QED BY <4>1, <4>2
    <3> QED BY <3>1, <3>2, <3>3
  <2>3. \/ EndPass
        \/ \E l \in Legs : \E next, t : t \in {0, held[Other(l)]} /\ Onesided(l, next, t)
        \/ \E q \in Nat : \E next : Aggressive(q, next)
    <3>1. CASE FallbackLive
      <4>1. held["long"] \in Nat
        BY <1>3 DEF Legs
      <4> QED BY <3>1, <4>1 DEF FallbackLive, Clear
    <3>2. CASE FallbackBlind
      BY <3>2, <1>5, <1>7 DEF FallbackBlind
    <3>3. CASE FallbackHedged
      BY <3>3, <1>5, ClearOrEnds DEF FallbackHedged
    <3> QED BY <3>1, <3>2, <3>3
  <2>4. Typed /\ Idles
    <3>1. CASE EndPass
      BY <3>1, EndTyped
    <3>2. ASSUME NEW l \in Legs, NEW next, NEW t \in {0, held[Other(l)]}, Onesided(l, next, t)
          PROVE  Typed /\ Idles
      <4>1. held[l] \in Nat /\ held[Other(l)] \in Nat
        BY <1>3, LegsApart
      <4>2. ask'.leg = l /\ ask'.quantity \in Int
        BY <3>2, <4>1 DEF Onesided
      <4>3. total' \in Nat /\ gained' = gained
        BY <3>2, <4>1 DEF Onesided
      <4>4. step' \in {"compensate", "onesided"}
        BY <3>2 DEF Onesided
      <4> QED BY <4>2, <4>3, <4>4 DEF Typed, Idles, Books, Sent
    <3>3. ASSUME NEW q \in Nat, NEW next, Aggressive(q, next) PROVE Typed /\ Idles
      BY <3>3 DEF Aggressive, Typed, Idles, Books, Sent
    <3> QED BY <2>3, <3>1, <3>2, <3>3
  <2> QED BY <1>1, <1>2, <2>1, <2>2, <2>4, SavedJournaled, Calm
<1> QED BY <1>6, <1>7

-----------------------------------------------------------------------------
(* The steps of the maker order.                                           *)

LEMMA CalmEases ==
  ASSUME NEW home, Inductive, Books(home), Exists, UNCHANGED <<venueVars, stateVars>>,
         Eases(home, pending, pending'), Journaled,
         setup' = setup, started' = started, twice' = twice, Typed, Idles
  PROVE  Books(home)'
<1>1. Grows(home) /\ Begins
  BY StaysGrows DEF Begins, venueVars
<1>2. Sent' /\ twice' \in BOOLEAN /\ (twice => twice')
  BY <1>1, Quiet DEF Books
<1>3. book' = book /\ open' = open
  BY DEF stateVars
<1> QED BY <1>1, <1>2, <1>3, StepEases

LEMMA OtherLegTyped ==
  ASSUME NEW home, Books(home), Exists, NEW p, OtherLeg(p)
  PROVE  Typed /\ Idles /\ pending' = p
<1>1. HedgeLeg \in Legs /\ held \in [Legs -> Nat]
  BY LegsApart DEF HedgeLeg, Books, Good, Exists, Venues
<1>2. ask' = [leg |-> HedgeLeg, quantity |-> held[HedgeLeg]] /\ step' = "onesided"
      /\ pending' = p /\ gained' = gained /\ total' = total
  BY DEF OtherLeg
<1>3. ask'.leg \in Legs /\ ask'.quantity \in Int
  BY <1>1, <1>2
<1> QED BY <1>2, <1>3 DEF Typed, Idles, Books, Sent

\* the order that is watched is at the venue
LEMMA SeenThere ==
  ASSUME NEW home, Inductive, Books(home), Exists, step # "submit", HasIds
  PROVE  Watched = Seen(pending) /\ Seen(pending) \in DOMAIN makers
<1>2. Len(makers) \in Nat /\ DOMAIN makers = 1..Len(makers)
  BY DEF Books, Venues
<1>3. pending.cid \in 0..Len(makers)
  BY DEF Inductive, Records, Record, Named, Exists
<1>4. pending.order \in Nat /\ pending.order <= Len(makers)
  BY DEF Books, Good, Exists
<1> QED BY <1>2, <1>3, <1>4 DEF Watched, Seen, HasIds

LEMMA AppliedStays ==
  ASSUME NEW home, Inductive, Books(home), Exists, step # "submit", HasIds,
         NEW q, q = Applied(makers[Watched].done)
  PROVE  /\ Good(home, makers, q) /\ q # NoClose /\ DOMAIN q = DOMAIN Fresh
         /\ \A l \in Legs : Owes(held, makers, hedges, q, l) <= Owes(held, makers, hedges, pending, l)
         /\ Counts(hedges, q) /\ q.maker \in Nat
         /\ gained' = Less(makers[Watched].done, pending.maker)
               => gained' \in Nat /\ gained' <= q.maker
<1>1. Watched = Seen(pending) /\ Seen(pending) \in DOMAIN makers /\ Exists
  BY SeenThere
<1> DEFINE d == makers[Seen(pending)].done
           n == Greater(pending.maker, d)
<1>2. Venues(home, held, makers, hedges) /\ Good(home, makers, pending) /\ pending # NoClose
      /\ Counts(hedges, pending) /\ d \in Nat /\ pending.maker \in Nat
      /\ DOMAIN pending = DOMAIN Fresh
  BY <1>1 DEF Books, Exists, Venues, Good
<1>3. q = [pending EXCEPT !.maker = n, !.closed[pending.leg] = @ + (n - pending.maker)]
  BY <1>1 DEF Applied
<1>4. /\ Good(home, makers, q) /\ q # NoClose
      /\ \A l \in Legs : Owes(held, makers, hedges, q, l) <= Owes(held, makers, hedges, pending, l)
  BY <1>1, <1>2, <1>3, AppliedSame
<1>5. q.counted = pending.counted /\ q.maker = n /\ DOMAIN q = DOMAIN Fresh
  BY <1>2, <1>3 DEF Fresh
<1>6. Counts(hedges, q)
  BY <1>2, <1>5 DEF Counts
<1>7. Less(d, pending.maker) \in Nat /\ n \in Nat /\ Less(d, pending.maker) <= n
  BY <1>2 DEF Less, Greater
<1> QED BY <1>1, <1>4, <1>5, <1>6, <1>7

LEMMA PollBooks ==
  ASSUME NEW home, Inductive, Books(home), PollResting \/ PollFilled PROVE Books(home)'
<1> DEFINE q == Applied(makers[Watched].done)
<1>1. UNCHANGED <<venueVars, stateVars>> /\ setup' = setup /\ started' = started
      /\ twice' = twice /\ saved' = saved /\ Exists /\ step = "drive" /\ HasIds
      /\ pending' = q /\ gained' = Less(makers[Watched].done, pending.maker)
      /\ step' \in {"gap", "filled"} /\ ask' = ask /\ total' = total
  BY DEF PollResting, PollFilled, Working, Onwards, Rises, fixed, history
<1>2. /\ Good(home, makers, q) /\ q # NoClose
      /\ \A l \in Legs : Owes(held, makers, hedges, q, l) <= Owes(held, makers, hedges, pending, l)
      /\ Counts(hedges, q) /\ gained' \in Nat /\ gained' <= q.maker
  BY <1>1, AppliedStays
<1> HIDE DEF q
<1>3. Eases(home, pending, pending')
  BY <1>1, <1>2 DEF Eases, venueVars
<1>4. Grows(home) /\ Exists /\ Journaled
  BY <1>1, StaysGrows, SavedJournaled
<1>5. Sent'
  BY <1>1, <1>2 DEF Sent, Books, venueVars
<1>6. book' = book /\ open' = open /\ twice' \in BOOLEAN /\ (twice => twice')
  BY <1>1 DEF stateVars, Books
<1> QED BY <1>3, <1>4, <1>5, <1>6, StepEases

LEMMA AmendFailsBooks ==
  ASSUME NEW home, Inductive, Books(home), AmendFails PROVE Books(home)'
<1> DEFINE q == Applied(makers[Watched].done)
<1>1. UNCHANGED <<venueVars, stateVars>> /\ setup' = setup /\ started' = started
      /\ twice' = twice /\ saved' = saved /\ step = "maintain" /\ HasIds /\ pending' = q
      /\ step' = "drive" /\ ask' = ask /\ total' = total /\ gained' = gained
  BY DEF AmendFails, HasIds, Watched, Goto, passVars, fixed, history
<1>2. Exists
  BY <1>1 DEF Inductive, Stages
<1>3. /\ Good(home, makers, q) /\ q # NoClose
      /\ \A l \in Legs : Owes(held, makers, hedges, q, l) <= Owes(held, makers, hedges, pending, l)
      /\ Counts(hedges, q)
  BY <1>1, <1>2, AppliedStays
<1> HIDE DEF q
<1>4. Eases(home, pending, pending')
  BY <1>1, <1>3 DEF Eases, venueVars
<1>5. Grows(home) /\ Journaled
  BY <1>1, StaysGrows, SavedJournaled
<1>6. Sent'
  BY <1>1, <1>3 DEF Sent, Books, venueVars
<1>7. book' = book /\ open' = open /\ twice' \in BOOLEAN /\ (twice => twice')
  BY <1>1 DEF stateVars, Books
<1> QED BY <1>2, <1>4, <1>5, <1>6, <1>7, StepEases

LEMMA PollEndedBooks == ASSUME NEW home, Inductive, Books(home), PollEnded PROVE Books(home)'
<1> DEFINE p == Applied(makers[Watched].done)
<1>1. UNCHANGED venueVars /\ setup' = setup /\ started' = started
      /\ twice' = twice /\ saved' = saved /\ Exists /\ step = "drive" /\ HasIds
  BY DEF PollEnded, Working, fixed
<1>2. Exists /\ Journaled
  BY <1>1, SavedJournaled
<1>3. /\ Good(home, makers, p) /\ p # NoClose /\ DOMAIN p = DOMAIN Fresh
      /\ \A l \in Legs : Owes(held, makers, hedges, p, l) <= Owes(held, makers, hedges, pending, l)
      /\ Counts(hedges, p)
      /\ gained' = Less(makers[Watched].done, pending.maker) => gained' \in Nat
  BY <1>1, AppliedStays
<1>4. \/ pending' = p /\ EndPass /\ UNCHANGED stateVars
      \/ ClearOr(p)
      \/ OtherLeg(p) /\ UNCHANGED stateVars
      \/ /\ pending' = [p EXCEPT !.order = 0, !.cid = 0] /\ UNCHANGED stateVars
         /\ gained' = Less(makers[Watched].done, pending.maker)
         /\ step' = "gap" /\ ask' = ask /\ total' = total
  BY DEF PollEnded, Onwards, Rises
<1> HIDE DEF p
<1>5. CASE BothFlat /\ Clear
  <2>1. RecordStays
    BY <1>1, <1>5 DEF RecordStays, BothFlat, venueVars
  <2>2. Typed /\ Idles
    BY <1>5, EndTyped DEF Clear
  <2> QED BY <1>1, <1>2, <2>1, <2>2, Calm
<1>6. CASE pending' = p /\ UNCHANGED stateVars /\ (EndPass \/ OtherLeg(p))
  <2>1. Eases(home, pending, pending')
    BY <1>1, <1>3, <1>6 DEF Eases, venueVars
  <2>2. Typed /\ Idles
    <3>1. CASE EndPass
      BY <3>1, EndTyped
    <3>2. CASE OtherLeg(p)
      BY <1>2, <3>2, OtherLegTyped
    <3> QED BY <1>6, <3>1, <3>2
  <2> QED BY <1>1, <1>2, <1>6, <2>1, <2>2, CalmEases
<1>7. CASE /\ pending' = [p EXCEPT !.order = 0, !.cid = 0] /\ UNCHANGED stateVars
           /\ gained' = Less(makers[Watched].done, pending.maker)
           /\ step' = "gap" /\ ask' = ask /\ total' = total
  <2> DEFINE r == [p EXCEPT !.order = 0, !.cid = 0]
  <2>1. /\ DOMAIN r = DOMAIN Fresh /\ r.leg = p.leg /\ r.chunk = p.chunk /\ r.maker = p.maker
        /\ r.hedge = p.hedge /\ r.closed = p.closed /\ r.counted = p.counted
        /\ r.order = 0 /\ r.cid = 0
    BY <1>3 DEF Fresh
  <2>2. Venues(home, held, makers, hedges) /\ Len(makers) \in Nat /\ DOMAIN makers = 1..Len(makers)
    BY DEF Books, Venues
  <2> HIDE DEF r
  <2>3. Seen(r) \notin DOMAIN makers
    BY <2>1, <2>2 DEF Seen
  <2>4. /\ Good(home, makers, r) /\ r # NoClose
        /\ \A l \in Legs : Owes(held, makers, hedges, r, l) <= Owes(held, makers, hedges, p, l)
    BY <1>3, <2>1, <2>2, <2>3, RenamedSame
  <2>5. Counts(hedges, r)
    BY <1>3, <2>1 DEF Counts
  <2>6. ASSUME NEW l \in Legs
        PROVE  Owes(held, makers, hedges, r, l) <= Owes(held, makers, hedges, pending, l)
    <3>1. Good(home, makers, pending) /\ pending # NoClose
      BY <1>2 DEF Books, Exists
    <3>2. Owes(held, makers, hedges, pending, l) \in Nat
      BY <2>2, <3>1, OwesIs
    <3>3. Owes(held, makers, hedges, p, l) \in Nat
      BY <1>3, <2>2, OwesIs
    <3>4. Owes(held, makers, hedges, r, l) \in Nat
      BY <2>2, <2>4, OwesIs
    <3> QED BY <1>3, <2>4, <3>2, <3>3, <3>4
  <2>7. pending' = r
    BY <1>7 DEF r
  <2>8. Eases(home, pending, pending')
    BY <1>1, <2>4, <2>5, <2>6, <2>7 DEF Eases, venueVars
  <2>9. Typed /\ Idles
    BY <1>3, <1>7 DEF Typed, Idles, Books, Sent
  <2> QED BY <1>1, <1>2, <1>7, <2>8, <2>9, CalmEases
<1>8. \/ BothFlat /\ Clear
      \/ pending' = p /\ UNCHANGED stateVars /\ (EndPass \/ OtherLeg(p))
      \/ /\ pending' = [p EXCEPT !.order = 0, !.cid = 0] /\ UNCHANGED stateVars
         /\ gained' = Less(makers[Watched].done, pending.maker)
         /\ step' = "gap" /\ ask' = ask /\ total' = total
  BY <1>4 DEF ClearOr, OtherLeg
<1> QED BY <1>5, <1>6, <1>7, <1>8

\* One more order is claimed: home is told of it.
LEMMA Rehomed ==
  ASSUME NEW home, Inductive, Books(home), NEW n \in Nat, n > Named, NEW id \in Homes
  PROVE  \E h : Books(h) /\ h[n] = id
<1> DEFINE home2 == [home EXCEPT ![n] = id]
<1>1. home \in [Nat -> Homes] /\ Venues(home, held, makers, hedges) /\ Len(makers) \in Nat
      /\ DOMAIN makers = 1..Len(makers)
  BY DEF Books, Venues
<1>2. home2 \in [Nat -> Homes] /\ home2[n] = id /\ \A i \in Nat : i # n => home2[i] = home[i]
  BY <1>1
<1> HIDE DEF home2
<1>3. Len(makers) <= Named /\ Named \in Nat
  BY <1>1 DEF Named
<1>4. \A i \in DOMAIN makers : i \in Nat /\ home2[i] = home[i]
  BY <1>1, <1>2, <1>3
<1>5. ASSUME NEW k, NEW m, Reaches(home, makers, k, m) PROVE Reaches(home2, makers, k, m)
  BY <1>4, <1>5 DEF Reaches
<1>6. Venues(home2, held, makers, hedges)
  BY <1>1, <1>4, <1>5 DEF Venues
<1>7. ASSUME NEW p, Good(home, makers, p), p = NoClose \/ Record(p) PROVE Good(home2, makers, p)
  <2>1. CASE p = NoClose
    BY <2>1 DEF Good
  <2>2. CASE p # NoClose
    <3>1. p.cid \in 0..Named /\ p.order \in Nat /\ p.order <= Len(makers)
      BY <1>7, <2>2 DEF Good, Record
    <3>2. home2[p.cid] = home[p.cid] /\ home2[p.order] = home[p.order]
      BY <1>2, <1>3, <3>1, <1>1
    <3>3. p.maker > 0 => Reaches(home2, makers, Home(p), p.maker)
      BY <1>5, <1>7, <2>2 DEF Good
    <3> QED BY <1>7, <2>2, <3>2, <3>3 DEF Good
  <2> QED BY <2>1, <2>2
<1>8. Good(home2, makers, pending) /\ Good(home2, makers, saved.pending)
  BY <1>7 DEF Books, Inductive, Records
<1> QED BY <1>2, <1>6, <1>8 DEF Books

LEMMA HomeIs == ASSUME NEW home, Books(home), Exists PROVE Home(pending) \in Homes
  BY DEF Books, Good, Exists, Home, Homes

LEMMA Rehome ==
  ASSUME NEW home, Inductive, Books(home), Exists, NEW n \in Nat, n > Named
  PROVE  \E h : Books(h) /\ h[n] = Home(pending)
<1>1. Home(pending) \in Homes
  BY HomeIs
<1> QED BY <1>1, Rehomed

\* A claim names the next order, of which nothing is executed.
LEMMA ClaimBooks ==
  ASSUME NEW home, Inductive, Books(home), Grows(home), Exists, UNCHANGED stateVars,
         NEW n, n = Len(makers') + 1, home[n] = Home(pending),
         Claim([pending EXCEPT !.cid = n]), twice' = twice,
         setup' = setup, started' = started, hedges' = hedges, step' = "submit",
         ask'.leg = pending.leg, ask'.quantity \in Nat, gained' = gained, total' = total
  PROVE  Books(home)'
<1> DEFINE q == [pending EXCEPT !.cid = n]
<1>1. Venues(home, held', makers', hedges') /\ Good(home, makers', pending)
      /\ Good(home, makers, pending) /\ Counts(hedges', pending) /\ pending # NoClose
  BY DEF Grows, Books, Exists
<1>2. DOMAIN makers' = 1..Len(makers') /\ Len(makers') \in Nat /\ DOMAIN pending = DOMAIN Fresh
      /\ pending.order \in Nat /\ pending.order <= Len(makers') /\ pending.leg \in Legs
      /\ (pending.order # 0 => home[pending.order] = Home(pending))
  BY <1>1 DEF Venues, Good
<1>3. /\ DOMAIN q = DOMAIN Fresh /\ q.leg = pending.leg /\ q.chunk = pending.chunk
      /\ q.maker = pending.maker /\ q.hedge = pending.hedge /\ q.closed = pending.closed
      /\ q.counted = pending.counted /\ q.order = pending.order /\ q.cid = n
  BY <1>2 DEF Fresh
<1>4. pending' = q /\ Journaled
  BY DEF Claim, Journaled
<1> HIDE DEF q
<1>5. Seen(q) = Seen(pending) \/ Seen(q) \notin DOMAIN makers'
  BY <1>2, <1>3 DEF Seen
<1>6. /\ Good(home, makers', q) /\ q # NoClose
      /\ \A l \in Legs : Owes(held', makers', hedges', q, l) <= Owes(held', makers', hedges', pending, l)
  BY <1>1, <1>2, <1>3, <1>5, RenamedSame
<1>7. Counts(hedges', q)
  BY <1>1, <1>3 DEF Counts
<1>8. Eases(home, pending, pending')
  BY <1>4, <1>6, <1>7 DEF Eases
<1>9. Sent'
  BY <1>2, <1>3, <1>4 DEF Sent, Books
<1>10. book' = book /\ open' = open /\ twice' \in BOOLEAN /\ (twice => twice')
  BY DEF stateVars, Books
<1> QED BY <1>4, <1>8, <1>9, <1>10, StepEases

LEMMA OpenMakerBooks ==
  ASSUME NEW home, Inductive, Books(home), OpenMaker PROVE \E h : Books(h)'
<1>1. UNCHANGED venueVars /\ setup' = setup /\ started' = started /\ twice' = twice
      /\ Exists /\ step = "drive"
  BY DEF OpenMaker, Working, fixed, history
<1>2. CASE /\ Claim([pending EXCEPT !.cid = Len(makers) + 1]) /\ step' = "submit"
           /\ ask' = [leg |-> pending.leg, quantity |-> Chunk]
           /\ UNCHANGED <<result, gained, total, stateVars>>
  <2> DEFINE n == Len(makers) + 1
  <2>1. n \in Nat /\ n > Named
    BY <1>1 DEF Named, Books, Venues
  <2> HIDE DEF n
  <2>2. PICK home2 : Books(home2) /\ home2[n] = Home(pending)
    BY <1>1, <2>1, Rehome
  <2>3. ask'.leg = pending.leg /\ ask'.quantity \in Nat
    BY <1>1, <1>2, ChunkIs
  <2>4. makers' = makers /\ hedges' = hedges
    BY <1>1 DEF venueVars
  <2>5. Grows(home2)
    BY <1>1, <2>2, StaysGrows
  <2>6. n = Len(makers') + 1 /\ Claim([pending EXCEPT !.cid = n])
    BY <1>2, <2>4 DEF n
  <2>7. Books(home2)'
    BY <1>1, <1>2, <2>2, <2>3, <2>4, <2>5, <2>6, ClaimBooks
  <2> QED BY <2>7
<1>3. CASE /\ saved' = saved
           /\ (BothFlat /\ Clear) \/ (pending' = pending /\ UNCHANGED stateVars
                                      /\ (EndPass \/ OtherLeg(pending)))
  <2>1. Alike(pending, pending) /\ held' = held
    BY <1>1, AlikeKinds DEF venueVars
  <2>2. RecordStays
    BY <1>1, <1>3, <2>1 DEF RecordStays, BothFlat, stateVars
  <2>3. Typed /\ Idles
    BY <1>1, <1>3, EndTyped, OtherLegTyped DEF Clear
  <2>4. Books(home)'
    BY <1>1, <1>3, <2>2, <2>3, SavedJournaled, Calm
  <2> QED BY <2>4
<1> QED BY <1>2, <1>3 DEF OpenMaker, ClearOr, OtherLeg

LEMMA ReplaceBooks ==
  ASSUME NEW home, Inductive, Books(home), Replace PROVE \E h : Books(h)'
<1>1. held' = held /\ hedges' = hedges /\ UNCHANGED stateVars
      /\ setup' = setup /\ started' = started /\ twice' = twice
      /\ step = "maintain" /\ pending.maker < Chunk
      /\ makers' \in {makers, [makers EXCEPT ![pending.order].rests = FALSE]}
  BY DEF Replace, fixed
<1>2. Exists /\ Orders(makers) /\ held \in [Legs -> Nat]
  BY <1>1 DEF Inductive, Stages, Records, Books, Venues
<1>3. SameAmounts(makers, makers')
  <2>1. CASE makers' = makers
    BY <2>1 DEF SameAmounts
  <2>2. CASE makers' = [makers EXCEPT ![pending.order].rests = FALSE]
    <3>1. SameAmounts(makers, [makers EXCEPT ![pending.order].rests = FALSE])
      BY <1>2, EndedAmounts
    <3> QED BY <2>2, <3>1
  <2> QED BY <1>1, <2>1, <2>2
<1>4. ASSUME NEW h, Books(h) PROVE Grows(h)
  <2>1. held' \in [Legs -> Nat] /\ \A l \in Legs : held'[l] <= held[l]
    BY <1>1, <1>2
  <2> QED BY <1>1, <1>3, <1>4, <2>1, ShrinkGrows
<1>5. CASE Goto("zero") /\ UNCHANGED <<pending, saved, guessed>>
  <2>1. Alike(pending, pending)
    BY <1>2, AlikeKinds
  <2>2. RecordStays /\ Journaled
    BY <1>1, <1>2, <1>5, <2>1 DEF RecordStays, stateVars, Journaled
  <2>3. Typed /\ Idles /\ Begins
    BY <1>1, <1>5, SameTyped DEF Goto, passVars, Idles, Begins
  <2>4. Sent' /\ Grows(home)
    BY <1>1, <1>4, <2>3, Quiet
  <2>5. Books(home)'
    BY <1>1, <2>2, <2>4, StepStays
  <2> QED BY <2>5
<1>6. CASE /\ Claim([pending EXCEPT !.cid = Len(makers) + 1]) /\ step' = "submit"
           /\ ask' = [leg |-> pending.leg, quantity |-> Chunk - pending.maker]
           /\ UNCHANGED <<result, gained, total>>
  <2> DEFINE n == Len(makers) + 1
  <2>1. n \in Nat /\ n > Named
    BY <1>1 DEF Named, Books, Venues
  <2>2. n = Len(makers') + 1
    BY <1>3 DEF SameAmounts
  <2>3. Claim([pending EXCEPT !.cid = n])
    BY <1>6
  <2> HIDE DEF n
  <2>4. PICK home2 : Books(home2) /\ home2[n] = Home(pending)
    BY <1>2, <2>1, Rehome
  <2>5. ask'.leg = pending.leg /\ ask'.quantity \in Nat
    <3>1. Chunk \in Nat /\ pending.maker \in Nat
      BY <1>2, ChunkIs
    <3> QED BY <1>1, <1>6, <3>1
  <2>6. Grows(home2)
    BY <1>4, <2>4
  <2>7. Books(home2)'
    BY <1>1, <1>2, <1>6, <2>2, <2>3, <2>4, <2>5, <2>6, ClaimBooks
  <2> QED BY <2>7
<1> QED BY <1>5, <1>6 DEF Replace

LEMMA MakerRequotedBooks ==
  ASSUME NEW home, Inductive, Books(home), MakerRequoted PROVE \E h : Books(h)'
<1>1. held' = held /\ hedges' = hedges /\ UNCHANGED stateVars
      /\ setup' = setup /\ started' = started /\ twice' = twice
      /\ step = "submit" /\ step' = "submit" /\ makers' = Vanish(ask.leg, ask.quantity)
      /\ Claim([pending EXCEPT !.cid = Len(makers) + 2])
      /\ ask' = ask /\ gained' = gained /\ total' = total
  BY DEF MakerRequoted, fixed, history, passVars
<1>2. Exists /\ Len(makers) \in Nat
  BY <1>1 DEF Inductive, Stages, Books, Venues
<1> DEFINE n == Len(makers) + 2
<1>3. n \in Nat /\ n > Named
  BY <1>1, <1>2 DEF Named
<1> HIDE DEF n
<1>4. PICK h : Books(h) /\ h[n] = Home(pending)
  BY <1>2, <1>3, Rehome
<1>5. Grows(h) /\ Len(makers') = Len(makers) + 1
  BY <1>1, <1>4, OrderGrows
<1>6. n = Len(makers') + 1 /\ Claim([pending EXCEPT !.cid = n])
  BY <1>1, <1>2, <1>5 DEF n
<1>7. ask'.leg = pending.leg /\ ask'.quantity \in Nat
  BY <1>1 DEF Books, Sent
<1>8. Books(h)'
  BY <1>1, <1>2, <1>4, <1>5, <1>6, <1>7, ClaimBooks
<1> QED BY <1>8

\* The order that was on its way is answered.
LEMMA AnswerBooks ==
  ASSUME NEW home, Inductive, Books(home), MakerAccepted \/ MakerUnanswered \/ MakerRefused
  PROVE  Books(home)'
<1>1. held' = held /\ hedges' = hedges /\ saved' = saved
      /\ setup' = setup /\ started' = started /\ twice' = twice
      /\ step = "submit"
      /\ (makers' = Accept(ask.leg, ask.quantity) \/ makers' = Vanish(ask.leg, ask.quantity))
  BY DEF MakerAccepted, MakerUnanswered, MakerRefused, fixed, history
<1>2. Grows(home) /\ Len(makers') = Len(makers) + 1 /\ makers'[Len(makers) + 1].done = 0
      /\ home[Len(makers) + 1] = Home(pending) /\ pending # NoClose
  BY <1>1, OrderGrows
<1>3. Exists /\ Begins /\ Journaled
  BY <1>1, <1>2, SavedJournaled DEF Exists, Begins
<1>4. Alike(pending, pending) /\ Alike(pending, Taker(pending))
  BY <1>3, AlikeKinds
<1>5. CASE MakerAccepted
  <2> DEFINE q == [pending EXCEPT !.order = Len(makers) + 1]
  <2>1. Venues(home, held', makers', hedges') /\ Good(home, makers', pending)
        /\ Good(home, makers, pending) /\ Counts(hedges', pending)
    BY <1>2 DEF Grows, Books
  <2>2. DOMAIN pending = DOMAIN Fresh /\ pending.cid \in Nat /\ Len(makers) \in Nat
        /\ (pending.cid # 0 => home[pending.cid] = Home(pending))
    BY <1>2, <2>1 DEF Good, Books, Venues
  <2>3. /\ DOMAIN q = DOMAIN Fresh /\ q.leg = pending.leg /\ q.chunk = pending.chunk
        /\ q.maker = pending.maker /\ q.hedge = pending.hedge /\ q.closed = pending.closed
        /\ q.counted = pending.counted /\ q.order = Len(makers) + 1 /\ q.cid = pending.cid
    BY <2>2 DEF Fresh
  <2>4. pending' = q /\ UNCHANGED stateVars
    BY <1>5 DEF MakerAccepted
  <2> HIDE DEF q
  <2>5. makers'[Seen(q)].done = 0 /\ q.order \in Nat /\ q.order <= Len(makers')
    BY <1>2, <2>2, <2>3 DEF Seen
  <2>6. /\ Good(home, makers', q) /\ q # NoClose
        /\ \A l \in Legs : Owes(held', makers', hedges', q, l) <= Owes(held', makers', hedges', pending, l)
    BY <1>2, <2>1, <2>2, <2>3, <2>5, RenamedSame
  <2>7. Counts(hedges', q)
    BY <1>2, <2>1, <2>3 DEF Counts
  <2>8. Eases(home, pending, pending')
    BY <2>4, <2>6, <2>7 DEF Eases
  <2>9. Typed /\ Idles
    <3>1. ask' = ask /\ total' = total /\ gained' = gained /\ step' \in {"drive", "zero"}
      BY <1>5 DEF MakerAccepted, SubmitGoesOn, Goto, passVars
    <3> QED BY <3>1, SameTyped DEF Idles
  <2>10. Sent'
    BY <1>1, <1>3, <2>9, Quiet
  <2>11. book' = book /\ open' = open /\ twice' \in BOOLEAN /\ (twice => twice')
    BY <1>1, <2>4 DEF stateVars, Books
  <2> QED BY <1>2, <1>3, <2>8, <2>10, <2>11, StepEases
<1>6. CASE MakerUnanswered \/ MakerRefused
  <2>1. RecordStays
    <3>1. CASE ClearOr(Taker(pending))
      BY <1>1, <1>3, <1>4, <3>1, ClearOrStays
    <3>2. CASE ~ClearOr(Taker(pending))
      <4>1. UNCHANGED stateVars /\ pending' \in {pending, Taker(pending)}
        BY <1>6, <3>2 DEF MakerUnanswered, MakerRefused, OtherLeg
      <4> QED BY <1>3, <1>4, <4>1 DEF RecordStays, stateVars
    <3> QED BY <3>1, <3>2
  <2>2. EndPass \/ OtherLeg(Taker(pending)) \/ Goto("zero")
    <3>1. SubmitFails => EndPass \/ Goto("zero")
      BY DEF SubmitFails
    <3>2. ClearOr(Taker(pending)) => EndPass
      BY ClearOrEnds
    <3> QED BY <1>6, <3>1, <3>2 DEF MakerUnanswered, MakerRefused
  <2>3. Typed /\ Idles
    <3>1. CASE EndPass
      BY <3>1, EndTyped
    <3>2. CASE OtherLeg(Taker(pending))
      BY <1>3, <3>2, OtherLegTyped
    <3>3. CASE Goto("zero")
      BY <3>3, SameTyped DEF Goto, passVars, Idles
    <3> QED BY <2>2, <3>1, <3>2, <3>3
  <2>4. Sent'
    BY <1>1, <1>3, <2>3, Quiet
  <2> QED BY <1>1, <1>2, <1>3, <2>1, <2>4, StepStays
<1> QED BY <1>5, <1>6

-----------------------------------------------------------------------------
(* The rest of a round.                                                    *)

\* Another leg or chunk is begun.
LEMMA ResetBooks ==
  ASSUME NEW home, Inductive, Books(home), Exists, UNCHANGED <<venueVars, stateVars>>,
         setup' = setup, started' = started, twice' = twice, saved' = saved,
         Goto("drive"), NEW q, pending' = q,
         DOMAIN q = DOMAIN Fresh, q.leg \in Legs, q.chunk \in Nat, q.chunk > 0,
         q.order = 0, q.cid = 0, q.maker = 0, q.hedge = 0,
         q.closed = pending.closed, q.counted = pending.counted
  PROVE  Books(home)'
<1>1. Venues(home, held, makers, hedges) /\ Good(home, makers, pending) /\ pending # NoClose
      /\ Counts(hedges, pending)
  BY DEF Books, Exists
<1>2. /\ Good(home, makers, q) /\ q # NoClose
      /\ \A l \in Legs : Owes(held, makers, hedges, q, l) <= Owes(held, makers, hedges, pending, l)
  BY <1>1, ResetSame
<1>3. Counts(hedges, q)
  BY <1>1 DEF Counts
<1>4. Eases(home, pending, pending')
  BY <1>2, <1>3 DEF Eases, venueVars
<1>5. Typed /\ Idles
  BY SameTyped DEF Goto, passVars, Idles
<1> QED BY <1>4, <1>5, SavedJournaled, CalmEases

LEMMA ZeroFillBooks == ASSUME NEW home, Inductive, Books(home), ZeroFill PROVE Books(home)'
<1>1. UNCHANGED <<venueVars, stateVars>> /\ setup' = setup /\ started' = started
      /\ twice' = twice /\ saved' = saved /\ step = "zero"
  BY DEF ZeroFill, fixed
<1>2. Exists
  BY <1>1 DEF Inductive, Stages
<1>3. \/ /\ pending' \in {[pending EXCEPT !.zero = @ + 1], Taker(pending)}
         /\ EndPass \/ Goto("fallback")
      \/ /\ pending' = [pending EXCEPT !.phase = "low", !.leg = "short", !.zero = 0,
                                        !.order = 0, !.cid = 0, !.maker = 0, !.hedge = 0]
         /\ Goto("drive")
  BY DEF ZeroFill
<1>4. CASE /\ pending' \in {[pending EXCEPT !.zero = @ + 1], Taker(pending)}
           /\ EndPass \/ Goto("fallback")
  <2>1. RecordStays
    BY <1>1, <1>2, <1>4, AlikeKinds DEF RecordStays, stateVars
  <2>2. Typed /\ Idles
    <3>1. CASE EndPass
      BY <3>1, EndTyped
    <3>2. CASE Goto("fallback")
      BY <3>2, SameTyped DEF Goto, passVars, Idles
    <3> QED BY <1>4, <3>1, <3>2
  <2>3. UNCHANGED venueVars
    BY <1>1
  <2> QED BY <1>1, <1>2, <2>1, <2>2, <2>3, SavedJournaled, Calm
<1>5. CASE /\ pending' = [pending EXCEPT !.phase = "low", !.leg = "short", !.zero = 0,
                                         !.order = 0, !.cid = 0, !.maker = 0, !.hedge = 0]
           /\ Goto("drive")
  <2> DEFINE q == [pending EXCEPT !.phase = "low", !.leg = "short", !.zero = 0,
                                  !.order = 0, !.cid = 0, !.maker = 0, !.hedge = 0]
  <2>1. DOMAIN pending = DOMAIN Fresh /\ pending.chunk \in Nat /\ pending.chunk > 0
    BY <1>2 DEF Books, Good, Exists
  <2>2. /\ DOMAIN q = DOMAIN Fresh /\ q.leg \in Legs /\ q.chunk \in Nat /\ q.chunk > 0
        /\ q.order = 0 /\ q.cid = 0 /\ q.maker = 0 /\ q.hedge = 0
        /\ q.closed = pending.closed /\ q.counted = pending.counted
    BY <2>1 DEF Fresh, Legs
  <2>3. pending' = q
    BY <1>5
  <2> HIDE DEF q
  <2> QED BY <1>1, <1>2, <1>5, <2>2, <2>3, ResetBooks
<1> QED BY <1>3, <1>4, <1>5

\* The last chunk is closed: both legs are reduced by at least what was counted
\* as closed of them, and no more.
LEMMA ReducedIs ==
  ASSUME NEW b \in [Sizes -> Nat], \A l \in Legs : b[l] <= b.matched, b = book,
         NEW x \in [Legs -> Nat]
  PROVE  /\ Reduced(x) \in [Sizes -> Nat]
         /\ \A l \in Legs : /\ Reduced(x)[l] = Less(b[l], x[l])
                            /\ Reduced(x)[l] <= Reduced(x).matched /\ Reduced(x)[l] <= b[l]
<1> DEFINE r == Reduced(x)
<1>1. b.matched \in Nat /\ b["long"] \in Nat /\ b["short"] \in Nat
      /\ x["long"] \in Nat /\ x["short"] \in Nat
      /\ b["long"] <= b.matched /\ b["short"] <= b.matched
  BY DEF Sizes, Legs
<1>2. /\ r = [matched |-> Less(b.matched, Lesser(x["long"], x["short"])),
              long |-> Less(b["long"], x["long"]), short |-> Less(b["short"], x["short"])]
  BY DEF Reduced
<1>3. /\ Less(b.matched, Lesser(x["long"], x["short"])) \in Nat
      /\ Less(b["long"], x["long"]) \in Nat /\ Less(b["short"], x["short"]) \in Nat
      /\ Less(b["long"], x["long"]) <= Less(b.matched, Lesser(x["long"], x["short"]))
      /\ Less(b["short"], x["short"]) <= Less(b.matched, Lesser(x["long"], x["short"]))
      /\ Less(b["long"], x["long"]) <= b["long"] /\ Less(b["short"], x["short"]) <= b["short"]
  BY <1>1 DEF Less, Lesser
<1>4. r \in [Sizes -> Nat]
  BY <1>2, <1>3 DEF Sizes
<1>5. /\ r["long"] = Less(b["long"], x["long"]) /\ r["short"] = Less(b["short"], x["short"])
      /\ r.matched = Less(b.matched, Lesser(x["long"], x["short"]))
  BY <1>2
<1> HIDE DEF r
<1>6. \A l \in Legs : r[l] = Less(b[l], x[l]) /\ r[l] <= r.matched /\ r[l] <= b[l]
  BY <1>3, <1>5 DEF Legs
<1> QED BY <1>4, <1>6 DEF r

LEMMA FinalizeBooks ==
  ASSUME NEW home, Inductive, Books(home), Exists, UNCHANGED venueVars, setup' = setup,
         started' = started, twice' = twice, Finalize
  PROVE  Books(home)'
<1>1. /\ pending' = NoClose /\ EndPass /\ open' = (book'.matched > 0)
      /\ book' = Reduced([l \in Legs |-> ClosedOf(l)])
      /\ saved' = saved \/ saved' = [pending |-> NoClose, book |-> book', open |-> open',
                                     residual |-> residual']
  BY DEF Finalize
<1>2. Good(home, makers, pending) /\ pending # NoClose /\ Venues(home, held, makers, hedges)
      /\ Widest(book, open) /\ twice \in BOOLEAN
      /\ (~twice => Covers(book, held, makers, hedges, pending))
  BY DEF Books, Exists
<1>3. ASSUME NEW l \in Legs PROVE ClosedOf(l) = pending.closed[l] /\ ClosedOf(l) \in Nat
  <2>1. /\ pending.maker \in Nat /\ pending.hedge \in Nat /\ pending.closed[l] \in Nat
        /\ pending.leg \in Legs
        /\ pending.maker <= pending.closed[pending.leg]
        /\ pending.hedge <= pending.closed[Other(pending.leg)]
    BY <1>2 DEF Good
  <2>2. l # pending.leg => l = Other(pending.leg)
    BY <2>1, LegsApart
  <2> QED BY <2>1, <2>2 DEF ClosedOf, Greater
<1> DEFINE x == [l \in Legs |-> ClosedOf(l)]
<1>4. x \in [Legs -> Nat] /\ \A l \in Legs : x[l] = pending.closed[l]
  BY <1>3
<1>5. book' = Reduced(x)
  BY <1>1
<1> HIDE DEF x
<1>6. book \in [Sizes -> Nat] /\ \A l \in Legs : book[l] <= book.matched
  BY <1>2 DEF Widest
<1>7. /\ book' \in [Sizes -> Nat]
      /\ \A l \in Legs : /\ book'[l] = Less(book[l], x[l])
                         /\ book'[l] <= book'.matched /\ book'[l] <= book[l]
  BY <1>4, <1>5, <1>6, ReducedIs
<1>8. Widest(book', open')
  <2>1. book'.matched \in Nat
    BY <1>7 DEF Sizes
  <2>2. book'.matched > 0 => open'
    BY <1>1
  <2>3. ~open' => book'.matched = 0
    BY <2>1, <2>2
  <2> QED BY <1>7, <2>3 DEF Widest
<1>9. ASSUME ~twice', NEW l \in Legs PROVE book'[l] >= held'[l]
  <2>1. book[l] >= Owes(held, makers, hedges, pending, l)
    BY <1>2, <1>9 DEF Covers
  <2>2. Owes(held, makers, hedges, pending, l) \in Nat /\ held[l] \in Nat
        /\ pending.closed[l] \in Nat
        /\ Owes(held, makers, hedges, pending, l) >= held[l] + pending.closed[l]
    BY <1>2, OwesIs
  <2>3. book[l] \in Nat /\ book'[l] = Less(book[l], pending.closed[l]) /\ held'[l] = held[l]
    BY <1>4, <1>6, <1>7 DEF Sizes, Legs, venueVars
  <2>4. Less(book[l], pending.closed[l]) >= book[l] - pending.closed[l]
        /\ Less(book[l], pending.closed[l]) \in Nat
    BY <2>2, <2>3, LessIs
  <2> QED BY <2>1, <2>2, <2>3, <2>4
<1>10. Accounted(home)
  BY <1>1, <1>7, <1>8, <1>9 DEF Accounted, Good, Counts, Covers
<1>11. Journaled
  BY <1>1 DEF Journaled
<1>12. Grows(home) /\ Begins /\ Typed /\ Idles
  BY <1>1, StaysGrows, EndTyped DEF Begins, venueVars
<1>13. Sent'
  BY <1>12, Quiet
<1>14. DOMAIN saved = SavedFields /\ twice' \in BOOLEAN /\ (twice => twice')
  BY <1>2 DEF Inductive, Records, SavedFields
<1> QED BY <1>10, <1>11, <1>12, <1>13, <1>14, Moves

LEMMA AdvanceBooks ==
  ASSUME NEW home, Inductive, Books(home), Exists, UNCHANGED venueVars, setup' = setup,
         started' = started, twice' = twice, Advance
  PROVE  Books(home)'
<1>1. CASE Finalize
  BY <1>1, FinalizeBooks
<1>2. CASE /\ pending' = [pending EXCEPT !.phase = "high", !.leg = "long", !.order = 0, !.cid = 0,
                                         !.maker = 0, !.hedge = 0, !.chunk = @ + 1, !.zero = 0]
           /\ Goto("drive") /\ UNCHANGED <<stateVars, saved>>
  <2> DEFINE q == [pending EXCEPT !.phase = "high", !.leg = "long", !.order = 0, !.cid = 0,
                                  !.maker = 0, !.hedge = 0, !.chunk = @ + 1, !.zero = 0]
  <2>1. DOMAIN pending = DOMAIN Fresh /\ pending.chunk \in Nat /\ pending.chunk > 0
    BY DEF Books, Good, Exists
  <2>2. /\ DOMAIN q = DOMAIN Fresh /\ q.leg \in Legs /\ q.chunk \in Nat /\ q.chunk > 0
        /\ q.order = 0 /\ q.cid = 0 /\ q.maker = 0 /\ q.hedge = 0
        /\ q.closed = pending.closed /\ q.counted = pending.counted
    BY <2>1 DEF Fresh, Legs
  <2>3. pending' = q /\ UNCHANGED <<venueVars, stateVars>> /\ saved' = saved
    BY <1>2
  <2> HIDE DEF q
  <2> QED BY <1>2, <2>2, <2>3, ResetBooks
<1> QED BY <1>1, <1>2 DEF Advance

LEMMA AfterBooks ==
  ASSUME NEW home, Inductive, Books(home), AfterFilled \/ AfterGap PROVE Books(home)'
<1>1. UNCHANGED venueVars /\ setup' = setup /\ started' = started /\ twice' = twice
      /\ step = "hedged"
  BY DEF AfterFilled, AfterGap, fixed
<1>2. Exists
  BY <1>1 DEF Inductive, Stages
<1>3. held' = held /\ Alike(pending, pending) /\ Alike(pending, Taker(pending))
  BY <1>1, <1>2, AlikeKinds DEF venueVars
<1>4. CASE Advance
  BY <1>1, <1>2, <1>4, AdvanceBooks
<1>5. CASE ~Advance
  <2>1. /\ saved' = saved
        /\ \/ ClearOr(pending) \/ ClearOr(Taker(pending))
           \/ /\ pending' \in {pending, Taker(pending)} /\ UNCHANGED stateVars
              /\ EndPass \/ \E s \in {"drive", "maintain"} : Goto(s)
    <3>1. CASE AfterFilled
      BY <1>5, <3>1 DEF AfterFilled
    <3>2. CASE AfterGap
      BY <1>5, <3>2 DEF AfterGap
    <3> QED BY <3>1, <3>2
  <2>2. CASE ClearOr(pending) \/ ClearOr(Taker(pending))
    <3>1. RecordStays /\ EndPass
      BY <1>2, <1>3, <2>2, ClearOrStays, ClearOrEnds
    <3>2. Typed /\ Idles
      BY <3>1, EndTyped
    <3> QED BY <1>1, <1>2, <2>1, <3>1, <3>2, SavedJournaled, Calm
  <2>3. CASE /\ pending' \in {pending, Taker(pending)} /\ UNCHANGED stateVars
             /\ EndPass \/ \E s \in {"drive", "maintain"} : Goto(s)
    <3>1. RecordStays
      BY <1>2, <1>3, <2>3 DEF RecordStays, stateVars
    <3>2. Typed /\ Idles
      <4>1. CASE EndPass
        BY <4>1, EndTyped
      <4>2. CASE \E s \in {"drive", "maintain"} : Goto(s)
        BY <4>2, SameTyped DEF Goto, passVars, Idles
      <4> QED BY <2>3, <4>1, <4>2
    <3> QED BY <1>1, <1>2, <2>1, <3>1, <3>2, SavedJournaled, Calm
  <2> QED BY <2>1, <2>2, <2>3
<1> QED BY <1>4, <1>5

-----------------------------------------------------------------------------
(* The steps of the hedge.                                                 *)

\* A fill of the hedge is counted; when it was before, that is remembered.
LEMMA RecordedEases ==
  ASSUME NEW home, Books(home), Grows(home), Exists, NEW x \in Nat,
         pending' = Recorded(pending, x),
         x = 0 \/ \E h \in hedges' : Id(h) = HedgeId /\ h.done = x,
         twice' \/ x = 0 \/ HedgeId \notin pending.counted
  PROVE  Eases(home, pending, pending')
<1> DEFINE id == Across(pending)
           q == [pending EXCEPT !.hedge = @ + x, !.closed[Other(pending.leg)] = @ + x,
                                !.counted = IF x = 0 THEN @ ELSE @ \cup {id}, !.gap = FALSE]
<1>1. id = HedgeId /\ pending' = q
  BY DEF Recorded, HedgeId, HedgeLeg, Across
<1>2. Venues(home, held', makers', hedges') /\ Good(home, makers', pending)
      /\ pending # NoClose /\ Counts(hedges', pending) /\ DOMAIN pending = DOMAIN Fresh
  BY DEF Books, Grows, Exists, Good
<1>3. /\ DOMAIN q = DOMAIN Fresh /\ q.leg = pending.leg /\ q.chunk = pending.chunk
      /\ q.order = pending.order /\ q.cid = pending.cid /\ q.maker = pending.maker
      /\ q.hedge = pending.hedge + x
      /\ q.counted = (IF x = 0 THEN pending.counted ELSE pending.counted \cup {id})
      /\ q.closed = [pending.closed EXCEPT ![Other(pending.leg)] = @ + x]
  BY <1>2 DEF Fresh
<1>4. /\ Good(home, makers', q) /\ q # NoClose
      /\ x = 0 \/ Uncounted(hedges', pending, x)
            => \A l \in Legs : Owes(held', makers', hedges', q, l)
                               <= Owes(held', makers', hedges', pending, l)
  <2> DEFINE hd == held'
             ms == makers'
             hs == hedges'
  <2>1. Venues(home, hd, ms, hs) /\ Good(home, ms, pending) /\ pending # NoClose
    BY <1>2
  <2>2. q.counted = (IF x = 0 THEN pending.counted ELSE pending.counted \cup {Across(pending)})
    BY <1>3
  <2> HIDE DEF hd, ms, hs, id, q
  <2>3. /\ Good(home, ms, q) /\ q # NoClose
        /\ x = 0 \/ Uncounted(hs, pending, x)
              => \A l \in Legs : Owes(hd, ms, hs, q, l) <= Owes(hd, ms, hs, pending, l)
    BY <1>3, <2>1, <2>2, RecordedSame
  <2> QED BY <2>3 DEF hd, ms, hs
<1> HIDE DEF q, id
<1>5. Counts(hedges', q)
  BY <1>1, <1>2, <1>3 DEF Counts
<1>6. ~twice' => x = 0 \/ Uncounted(hedges', pending, x)
  BY <1>1 DEF Uncounted, id
<1> QED BY <1>1, <1>4, <1>5, <1>6 DEF Eases

\* what the hedge of the chunk executed
LEMMA ExecutedIs ==
  ASSUME NEW home, Books(home), Exists
  PROVE  Executed \in Nat /\ (Executed > 0 => \E h \in hedges : Id(h) = HedgeId /\ h.done = Executed)
<1> DEFINE T == {h \in hedges : h.leg = HedgeLeg /\ h.chunk = pending.chunk}
<1>1. Executed = Done(T)
  BY DEF Executed, Done
<1>2. IsFiniteSet(hedges) /\ \A h \in hedges : h.done \in Nat
  BY DEF Books, Venues
<1>3. \A g, h \in hedges : Id(g) = Id(h) => g = h
  BY DEF Books, Venues
<1>4. \A h \in T : h \in hedges /\ Id(h) = HedgeId
  BY DEF Id, HedgeId
<1> HIDE DEF T
<1>5. CASE T = {}
  BY <1>1, <1>5, DoneOfNone
<1>6. CASE T # {}
  <2>1. PICK h \in T : TRUE
    BY <1>6
  <2>2. T = {} \cup {h}
    BY <1>3, <1>4, <2>1
  <2>3. IsFiniteSet({}) /\ h \notin {} /\ h.done \in Nat /\ h \in hedges /\ Id(h) = HedgeId
    BY <1>2, <1>4, <2>1, FS_EmptySet
  <2>4. Done({} \cup {h}) = h.done + Done({})
    <3>1. \A g \in {} : g.done \in Nat
      OBVIOUS
    <3> DEFINE E == {}
    <3>2. IsFiniteSet(E) /\ h \notin E /\ h.done \in Nat /\ \A g \in E : g.done \in Nat
      BY <2>3, <3>1
    <3> HIDE DEF E
    <3>3. Done(E \cup {h}) = h.done + Done(E)
      BY <3>2, DoneWith
    <3> QED BY <3>3 DEF E
  <2>5. Executed = h.done
    BY <1>1, <2>2, <2>3, <2>4, DoneOfNone
  <2> QED BY <2>3, <2>5
<1> QED BY <1>5, <1>6

LEMMA RoomIs ==
  ASSUME NEW home, Books(home), NEW q \in Int, NEW l \in Legs, NEW x \in 0..Room(q, l)
  PROVE  x \in Nat /\ x <= held[l]
<1>1. held[l] \in Nat
  BY DEF Books, Venues
<1>2. Room(q, l) \in Int /\ Room(q, l) <= held[l]
  BY <1>1 DEF Room, Lesser
<1> QED BY <1>1, <1>2

LEMMA HedgedTyped ==
  ASSUME NEW home, Books(home), NEW r, Hedged(r) PROVE Typed /\ Idles
<1>1. ask' = ask /\ gained' = gained /\ total' = total /\ step' = "hedged"
  BY DEF Hedged
<1> QED BY <1>1, SameTyped DEF Idles

\* The hedge reached the venue.
LEMMA FilledBooks ==
  ASSUME NEW home, Inductive, Books(home), step = "hedge", ~Taken,
         NEW x \in 0..Room(ask.quantity, HedgeLeg), FillHedge(x),
         \/ pending' = Recorded(pending, x)
         \/ pending' \in {pending, [pending EXCEPT !.gap = TRUE]},
         UNCHANGED <<fixed, stateVars, saved, history>>, Typed, Idles
  PROVE  Books(home)'
<1>1. Exists
  BY DEF Inductive, Stages
<1>2. /\ Grows(home) /\ x \in Nat /\ HedgeId \notin pending.counted
      /\ \E h \in hedges' : Id(h) = HedgeId /\ h.done = x
  BY HedgeGrows
<1>3. setup' = setup /\ started' = started /\ twice' = twice /\ saved' = saved
      /\ book' = book /\ open' = open
  BY DEF fixed, history, stateVars
<1>4. started /\ Begins /\ Journaled
  BY <1>1, <1>3, InPass, SavedJournaled DEF Begins
<1>5. Sent' /\ twice' \in BOOLEAN /\ (twice => twice')
  BY <1>3, <1>4, Quiet DEF Books
<1>6. CASE pending' = Recorded(pending, x)
  <2>1. Eases(home, pending, pending')
    BY <1>1, <1>2, <1>6, RecordedEases
  <2> QED BY <1>1, <1>2, <1>3, <1>4, <1>5, <2>1, StepEases
<1>7. CASE pending' \in {pending, [pending EXCEPT !.gap = TRUE]}
  <2>1. RecordStays
    BY <1>1, <1>3, <1>7, AlikeKinds DEF RecordStays
  <2> QED BY <1>2, <1>3, <1>4, <1>5, <2>1, StepStays
<1> QED BY <1>6, <1>7

LEMMA HedgeBooks ==
  ASSUME NEW home, Inductive, Books(home), HedgeAnswered \/ HedgeSlow \/ HedgeUnanswered
  PROVE  Books(home)'
<1>1. step = "hedge" /\ ~Taken /\ UNCHANGED <<fixed, stateVars, saved, history>>
  BY DEF HedgeAnswered, HedgeSlow, HedgeUnanswered, Hedging
<1>2. Exists
  BY <1>1 DEF Inductive, Stages
<1>3. \/ \E x \in 0..Room(ask.quantity, HedgeLeg) :
            /\ FillHedge(x)
            /\ \/ pending' = Recorded(pending, x)
               \/ pending' \in {pending, [pending EXCEPT !.gap = TRUE]}
      \/ UNCHANGED <<venueVars, pending>>
  <2>1. CASE HedgeAnswered
    BY <2>1 DEF HedgeAnswered
  <2>2. CASE HedgeSlow
    <3>1. PICK x \in 1..Room(ask.quantity, HedgeLeg) : FillHedge(x) /\ pending' = Recorded(pending, x)
      BY <2>2 DEF HedgeSlow
    <3>2. x \in 0..Room(ask.quantity, HedgeLeg)
      <4>1. Room(ask.quantity, HedgeLeg) \in Int
        <5>1. ask.quantity \in Int /\ HedgeLeg \in Legs /\ held \in [Legs -> Nat]
          BY <1>2, LegsApart DEF Books, Sent, Venues, Good, Exists, HedgeLeg
        <5>2. held[HedgeLeg] \in Nat
          BY <5>1
        <5> QED BY <5>1, <5>2 DEF Room, Lesser
      <4> QED BY <3>1, <4>1
    <3> QED BY <3>1, <3>2
  <2>3. CASE HedgeUnanswered
    BY <2>3 DEF HedgeUnanswered
  <2> QED BY <2>1, <2>2, <2>3
<1>4. Typed /\ Idles
  <2>1. CASE HedgeSlow
    <3>1. ask' = ask /\ gained' = gained /\ total' = total /\ step' = "compensate"
      BY <2>1 DEF HedgeSlow
    <3> QED BY <3>1, SameTyped DEF Idles
  <2>2. CASE HedgeAnswered \/ HedgeUnanswered
    <3>1. PICK r : Hedged(r)
      BY <2>2 DEF HedgeAnswered, HedgeUnanswered
    <3> QED BY <3>1, HedgedTyped
  <2> QED BY <2>1, <2>2
<1>5. ASSUME NEW x \in 0..Room(ask.quantity, HedgeLeg), FillHedge(x),
             \/ pending' = Recorded(pending, x)
             \/ pending' \in {pending, [pending EXCEPT !.gap = TRUE]}
      PROVE  Books(home)'
  BY <1>1, <1>4, <1>5, FilledBooks
<1>6. CASE UNCHANGED <<venueVars, pending>>
  <2>1. RecordStays
    BY <1>1, <1>2, <1>6, AlikeKinds DEF RecordStays, stateVars
  <2>2. setup' = setup /\ started' = started /\ twice' = twice /\ saved' = saved
    BY <1>1 DEF fixed, history
  <2> QED BY <1>2, <1>4, <1>6, <2>1, <2>2, SavedJournaled, Calm
<1> QED BY <1>3, <1>5, <1>6

\* What the order with the chunk's id executed is asked for.
LEMMA AskedBooks ==
  ASSUME NEW home, Inductive, Books(home), HedgeReconciled \/ DuplicateUnknown
  PROVE  Books(home)'
<1>1. UNCHANGED <<venueVars, stateVars>> /\ setup' = setup /\ started' = started
      /\ saved' = saved /\ step \in {"hedge", "reconcile"}
  BY DEF HedgeReconciled, DuplicateUnknown, Hedging, fixed
<1>2. Exists /\ Grows(home) /\ Journaled /\ Begins
  BY <1>1, StaysGrows, SavedJournaled DEF Inductive, Stages, Begins, venueVars
<1>3. PICK r : Hedged(r)
  BY DEF HedgeReconciled, DuplicateUnknown
<1>4. Typed /\ Idles
  BY <1>3, HedgedTyped
<1>5. Sent' /\ twice \in BOOLEAN
  BY <1>1, <1>2, <1>4, Quiet DEF Books
<1>6. \/ /\ Executed > 0 /\ pending' = Recorded(pending, Executed)
         /\ twice' = (twice \/ HedgeId \in pending.counted)
      \/ UNCHANGED <<pending, twice>>
  BY DEF HedgeReconciled, DuplicateUnknown
<1>7. CASE /\ Executed > 0 /\ pending' = Recorded(pending, Executed)
           /\ twice' = (twice \/ HedgeId \in pending.counted)
  <2>1. Executed \in Nat /\ \E h \in hedges : Id(h) = HedgeId /\ h.done = Executed
    BY <1>2, <1>7, ExecutedIs
  <2>2. hedges' = hedges /\ book' = book /\ open' = open
    BY <1>1 DEF venueVars, stateVars
  <2>3. twice' \in BOOLEAN /\ (twice => twice') /\ (twice' \/ HedgeId \notin pending.counted)
    BY <1>5, <1>7
  <2>4. Eases(home, pending, pending')
    BY <1>2, <1>7, <2>1, <2>2, <2>3, RecordedEases
  <2> QED BY <1>2, <1>5, <2>2, <2>3, <2>4, StepEases
<1>8. CASE UNCHANGED <<pending, twice>>
  <2>1. RecordStays
    BY <1>1, <1>2, <1>8, AlikeKinds DEF RecordStays, stateVars
  <2> QED BY <1>2, <1>5, <1>8, <2>1, StepStays
<1> QED BY <1>6, <1>7, <1>8

LEMMA DuplicateBooks ==
  ASSUME NEW home, Inductive, Books(home), DuplicateKnown PROVE Books(home)'
<1>1. UNCHANGED <<venueVars, stateVars>> /\ setup' = setup /\ started' = started
      /\ step = "hedge"
  BY DEF DuplicateKnown, Hedging, fixed
<1>2. Exists /\ Grows(home) /\ Begins /\ book' = book /\ open' = open /\ hedges' = hedges
  BY <1>1, StaysGrows DEF Inductive, Stages, Begins, venueVars, stateVars
<1>3. Executed \in Nat /\ (Executed > 0 => \E h \in hedges : Id(h) = HedgeId /\ h.done = Executed)
  BY <1>2, ExecutedIs
<1>4. HedgeLeg \in Legs /\ held[HedgeLeg] \in Nat /\ ask.quantity \in Int
      /\ total \in Nat /\ gained \in Nat
  <2>1. HedgeLeg \in Legs
    BY <1>2, LegsApart DEF HedgeLeg, Books, Good, Exists
  <2> QED BY <2>1 DEF Books, Sent, Venues
<1>5. PICK readOrder \in BOOLEAN :
        \E read \in BOOLEAN :
          LET q == IF readOrder THEN Executed ELSE 0
              live == held[HedgeLeg]
              p == IF q > 0 THEN Recorded(pending, q) ELSE pending
          IN  /\ twice' = (twice \/ (q > 0 /\ HedgeId \in pending.counted))
              /\ \/ Hedged("done") /\ pending' = p /\ saved' = saved
                 \/ /\ Claim(p) /\ step' = "retry" /\ UNCHANGED <<gained, total>>
                    /\ ask' = [leg |-> HedgeLeg,
                               quantity |-> IF read THEN RetryQuantity(q, live)
                                            ELSE ask.quantity - q]
                 \/ pending' = p /\ Hedged("short") /\ saved' = saved
  BY DEF DuplicateKnown
<1> DEFINE q == IF readOrder THEN Executed ELSE 0
           p == IF q > 0 THEN Recorded(pending, q) ELSE pending
<1>6. q \in Nat /\ (q > 0 => \E h \in hedges : Id(h) = HedgeId /\ h.done = q)
  BY <1>3
<1>7. /\ twice' = (twice \/ (q > 0 /\ HedgeId \in pending.counted))
      /\ pending' = p
      /\ saved' = saved \/ saved' = [saved EXCEPT !.pending = pending']
      /\ \/ \E r : Hedged(r)
         \/ /\ step' = "retry" /\ UNCHANGED <<gained, total>>
            /\ ask'.leg = HedgeLeg
            /\ ask'.quantity \in {RetryQuantity(q, held[HedgeLeg]), ask.quantity - q}
  BY <1>5 DEF Claim
<1> HIDE DEF q
<1>8. Typed /\ Idles
  <2>1. CASE \E r : Hedged(r)
    BY <2>1, HedgedTyped
  <2>2. CASE /\ step' = "retry" /\ UNCHANGED <<gained, total>>
             /\ ask'.leg = HedgeLeg
             /\ ask'.quantity \in {RetryQuantity(q, held[HedgeLeg]), ask.quantity - q}
    <3>1. RetryQuantity(q, held[HedgeLeg]) \in Int /\ ask.quantity - q \in Int
      BY <1>4, <1>6 DEF RetryQuantity, Lesser
    <3> QED BY <1>4, <2>2, <3>1 DEF Typed, Idles
  <2> QED BY <1>7, <2>1, <2>2
<1>9. Sent' /\ twice \in BOOLEAN /\ twice' \in BOOLEAN /\ (twice => twice') /\ Journaled
  BY <1>1, <1>2, <1>7, <1>8, Quiet DEF Books, Journaled
<1>10. CASE q > 0
  <2>1. pending' = Recorded(pending, q) /\ (twice' \/ HedgeId \notin pending.counted)
    BY <1>7, <1>9, <1>10
  <2>2. Eases(home, pending, pending')
    BY <1>2, <1>6, <1>10, <2>1, RecordedEases
  <2> QED BY <1>2, <1>9, <2>2, StepEases
<1>11. CASE ~(q > 0)
  <2>1. pending' = pending /\ twice' = twice
    BY <1>7, <1>9, <1>11
  <2>2. RecordStays
    BY <1>2, <2>1, AlikeKinds DEF RecordStays
  <2> QED BY <1>2, <1>9, <2>1, <2>2, StepStays
<1> QED BY <1>10, <1>11

-----------------------------------------------------------------------------
(* Orders whose fills are counted at once.                                 *)

\* The orders of the venues are settled: nothing else changes.
LEMMA SettledCovers ==
  ASSUME NEW home \in [Nat -> Homes], Orders(makers), makers' = Settled(makers), NEW hd \in [Legs -> Nat],
         Venues(home, hd, makers, hedges)
  PROVE  /\ \A p : Good(home, makers, p) => Good(home, makers', p)
         /\ \A b \in [Sizes -> Nat] : \A p :
               Good(home, makers, p) /\ Covers(b, hd, makers, hedges, p)
                  => Covers(b, hd, makers', hedges, p)
<1>1. SameAmounts(makers, makers')
  BY SettledAmounts
<1>2. Len(makers') = Len(makers) /\ DOMAIN makers' = DOMAIN makers
  BY <1>1 DEF SameAmounts
<1>3. ASSUME NEW i \in DOMAIN makers
      PROVE  /\ makers'[i].leg = makers[i].leg /\ makers'[i].asked = makers[i].asked
             /\ makers'[i].done \in Nat /\ makers[i].done <= makers'[i].done
             /\ hd[makers[i].leg] + makers'[i].done <= hd[makers[i].leg] + makers[i].done
  <2>1. makers[i].done \in Nat /\ makers'[i].done = makers[i].done
    BY <1>1 DEF Venues, SameAmounts
  <2>2. home[i] \in Homes /\ makers[i].leg = home[i].leg
    BY DEF Venues
  <2>3. hd[makers[i].leg] \in Nat
    BY <2>2 DEF Homes
  <2> QED BY <1>1, <2>1, <2>3 DEF SameAmounts
<1>4. Fill(hd, makers, hd, makers')
  BY <1>2, <1>3 DEF Fill
<1> QED BY <1>4, FillsLast DEF Holds

LEMMA CountedAtOnce ==
  ASSUME NEW home, Inductive, Books(home), Exists, NEW o \in Legs, NEW x \in Nat, x <= held[o],
         makers' = Settled(makers), hedges' = hedges, book' = book, open' = open, twice' = twice,
         NEW hd, held' = hd, NEW q, pending' = q, AtOnce(o, x, held, hd, pending, q)
  PROVE  Grows(home) /\ Accounted(home)
<1>1. Venues(home, held, makers, hedges) /\ held \in [Legs -> Nat] /\ Orders(makers)
      /\ Good(home, makers, pending) /\ pending # NoClose /\ Counts(hedges, pending)
      /\ Widest(book, open) /\ book \in [Sizes -> Nat]
      /\ (~twice => Covers(book, held, makers, hedges, pending)) /\ home \in [Nat -> Homes]
  BY DEF Books, Venues, Exists, Inductive, Records, Widest
<1>2. /\ hd \in [Legs -> Nat] /\ hd[o] = held[o] - x /\ \A l \in Legs : l # o => hd[l] = held[l]
      /\ q.counted = pending.counted
  BY DEF AtOnce
<1>3. hd \in [Legs -> Nat] /\ \A l \in Legs : hd[l] <= held[l]
  BY <1>1, <1>2
<1>4. held' = hd
  OBVIOUS
<1>5. Grows(home)
  BY <1>3, <1>4, SettlesGrows
<1>6. /\ Venues(home, hd, makers, hedges) /\ Good(home, makers, q) /\ q # NoClose
      /\ \A l \in Legs : Owes(hd, makers, hedges, q, l) <= Owes(held, makers, hedges, pending, l)
  BY <1>1, ClosedSame
<1>7. Good(home, makers', q)
  BY <1>1, <1>3, <1>6, SettledCovers
<1>8. ASSUME ~twice' PROVE Covers(book', held', makers', hedges', pending')
  <2>1. Covers(book, held, makers, hedges, pending)
    BY <1>1, <1>8
  <2>2. Covers(book, hd, makers, hedges, q)
    BY <1>1, <1>6, <2>1, CoversLess
  <2>3. Covers(book, hd, makers', hedges, q)
    BY <1>1, <1>3, <1>6, <2>2, SettledCovers
  <2> QED BY <1>4, <2>3
<1>9. Counts(hedges', q)
  BY <1>1, <1>2 DEF Counts
<1>10. \A l \in Legs : book'[l] <= book[l]
  BY <1>1 DEF Legs, Sizes
<1> QED BY <1>1, <1>5, <1>7, <1>8, <1>9, <1>10 DEF Accounted

LEMMA RetryBooks == ASSUME NEW home, Inductive, Books(home), RetryAnswered PROVE Books(home)'
<1>1. step = "retry" /\ saved' = saved /\ makers' = Settled(makers) /\ hedges' = hedges
      /\ setup' = setup /\ started' = started /\ twice' = twice /\ book' = book /\ open' = open
  BY DEF RetryAnswered, fixed, history, stateVars
<1>2. Exists /\ Journaled /\ Begins
  BY <1>1, SavedJournaled DEF Inductive, Stages, Begins
<1>3. PICK r : Hedged(r)
  BY DEF RetryAnswered
<1>4. Sent' /\ twice' \in BOOLEAN /\ (twice => twice') /\ DOMAIN saved = SavedFields
  <2>1. Typed /\ Idles
    BY <1>3, HedgedTyped
  <2> QED BY <1>1, <1>2, <2>1, Quiet DEF Books, Inductive, Records, SavedFields
<1>5. HedgeLeg \in Legs /\ HedgeLeg = Other(pending.leg) /\ ask.quantity \in Int
      /\ DOMAIN pending = DOMAIN Fresh
  BY <1>2, LegsApart DEF HedgeLeg, Books, Good, Exists, Sent
<1>6. PICK x \in 0..Room(ask.quantity, HedgeLeg) :
        /\ Take(HedgeLeg, x)
        /\ \/ pending' = [pending EXCEPT !.hedge = @ + x, !.closed[HedgeLeg] = @ + x]
           \/ pending' = pending
  BY DEF RetryAnswered
<1>7. x \in Nat /\ x <= held[HedgeLeg]
  BY <1>5, RoomIs
<1>8. CASE pending' = [pending EXCEPT !.hedge = @ + x, !.closed[HedgeLeg] = @ + x]
  <2> DEFINE q == [pending EXCEPT !.hedge = @ + x, !.closed[HedgeLeg] = @ + x]
  <2>1. /\ DOMAIN q = DOMAIN Fresh /\ q.leg = pending.leg /\ q.chunk = pending.chunk
        /\ q.order = pending.order /\ q.cid = pending.cid /\ q.maker = pending.maker
        /\ q.counted = pending.counted /\ q.hedge = pending.hedge + x
        /\ q.closed = [pending.closed EXCEPT ![HedgeLeg] = @ + x]
    BY <1>5 DEF Fresh
  <2>2. pending' = q
    BY <1>8
  <2> HIDE DEF q
  <2> DEFINE hd == [held EXCEPT ![HedgeLeg] = @ - x]
  <2>4. held' = hd /\ held \in [Legs -> Nat]
    BY <1>6 DEF Take, Books, Venues
  <2>5. AtOnce(HedgeLeg, x, held, hd, pending, q)
    <3>1. hd \in [Legs -> Nat] /\ hd[HedgeLeg] = held[HedgeLeg] - x
          /\ \A l \in Legs : l # HedgeLeg => hd[l] = held[l]
      BY <1>5, <1>7, <2>4
    <3> HIDE DEF hd
    <3> QED BY <1>5, <2>1, <3>1 DEF AtOnce
  <2> HIDE DEF hd
  <2>3. Grows(home) /\ Accounted(home)
    BY <1>1, <1>2, <1>5, <1>7, <2>2, <2>4, <2>5, CountedAtOnce
  <2> QED BY <1>2, <1>4, <2>3, Moves
<1>9. CASE pending' = pending
  <2>1. held' \in [Legs -> Nat] /\ \A l \in Legs : held'[l] <= held[l]
    <3>1. held \in [Legs -> Nat] /\ held' = [held EXCEPT ![HedgeLeg] = @ - x]
      BY <1>6 DEF Take, Books, Venues
    <3> QED BY <1>5, <1>7, <3>1
  <2>2. Grows(home)
    BY <1>1, <2>1, SettlesGrows
  <2>3. RecordStays
    BY <1>1, <1>2, <1>9, AlikeKinds DEF RecordStays
  <2> QED BY <1>1, <1>2, <1>4, <2>2, <2>3, StepStays
<1> QED BY <1>6, <1>8, <1>9

-----------------------------------------------------------------------------
(* The answers to the orders of the fallback.                              *)

\* A lost answer: the venue may have executed it, the record says nothing.
LEMMA LostBooks ==
  ASSUME NEW home, Inductive, Books(home), Exists, started, started' = started, setup' = setup,
         makers' = Settled(makers), hedges' = hedges,
         held' \in [Legs -> Nat], \A l \in Legs : held'[l] <= held[l],
         RecordStays, Journaled, twice' = twice, Typed, Idles
  PROVE  Books(home)'
<1>1. Grows(home)
  BY SettlesGrows
<1>2. Sent'
  BY Quiet DEF Begins
<1> QED BY <1>1, <1>2, StepStays

LEMMA TakesLess ==
  ASSUME NEW home, Books(home), NEW l \in Legs, NEW q \in Int, NEW x \in 0..Room(q, l), Take(l, x)
  PROVE  held' \in [Legs -> Nat] /\ \A k \in Legs : held'[k] <= held[k]
<1>1. x \in Nat /\ x <= held[l]
  BY RoomIs
<1>2. held \in [Legs -> Nat] /\ held' = [held EXCEPT ![l] = @ - x]
  BY DEF Take, Books, Venues
<1> QED BY <1>1, <1>2

LEMMA TakesBoth ==
  ASSUME NEW home, Books(home), NEW q \in Nat, NEW x \in [Legs -> 0..q],
         \A l \in Legs : x[l] <= Room(q, l), held' = [l \in Legs |-> held[l] - x[l]]
  PROVE  /\ held' \in [Legs -> Nat] /\ x \in [Legs -> Nat]
         /\ \A l \in Legs : held'[l] <= held[l] /\ held'[l] + x[l] = held[l]
<1>1. held \in [Legs -> Nat]
  BY DEF Books, Venues
<1>2. \A l \in Legs : x[l] \in Nat /\ x[l] <= held[l] /\ held[l] \in Nat
  BY <1>1 DEF Room, Lesser
<1>3. x \in [Legs -> Nat]
  BY <1>2
<1> QED BY <1>2, <1>3

\* The steps that lose an answer or compensate.
LostSteps == FlattenUnanswered \/ AggressiveUnknown \/ CompensateFlat \/ CompensateFails

LEMMA FallbackInPass ==
  ASSUME Inductive, started' = started, step \in {"onesided", "aggressive", "compensate"}
  PROVE  Exists /\ started
<1>1. step \notin {"idle", "end"}
  OBVIOUS
<1> QED BY <1>1, InPass

LEMMA LostAnswerBooks ==
  ASSUME NEW home, Inductive, Books(home), LostSteps PROVE Books(home)'
<1>1. /\ step \in {"onesided", "aggressive", "compensate"} /\ setup' = setup /\ twice' = twice
      /\ started' = started
  BY DEF LostSteps, FlattenUnanswered, AggressiveUnknown, CompensateFlat, CompensateFails,
         fixed, history
<1>2. Exists /\ started
  BY <1>1, FallbackInPass
<1>3. Alike(pending, pending) /\ Alike(pending, Taker(pending))
  BY <1>2, AlikeKinds
<1>4. ask.leg \in Legs /\ ask.quantity \in Int /\ total \in Nat /\ gained \in Nat
      /\ held \in [Legs -> Nat]
  BY DEF Books, Sent, Venues
<1>5. CASE FlattenUnanswered
  <2>1. makers' = Settled(makers) /\ hedges' = hedges
        /\ held' \in [Legs -> Nat] /\ \A l \in Legs : held'[l] <= held[l]
    <3>1. PICK x \in 0..Room(ask.quantity, ask.leg) : Fills(ask.leg, x)
      BY <1>5 DEF FlattenUnanswered
    <3> QED BY <1>4, <3>1, TakesLess DEF Fills
  <2>2. RecordStays /\ Journaled
    BY <1>2, <1>3, <1>5 DEF FlattenUnanswered, RecordStays, Journaled, stateVars
  <2>3. EndPass \/ Goto("check") \/ Goto("compensate")
    BY <1>5 DEF FlattenUnanswered
  <2>4. Typed /\ Idles
    <3>1. CASE EndPass
      BY <3>1, EndTyped
    <3>2. CASE Goto("check") \/ Goto("compensate")
      BY <3>2, SameTyped DEF Goto, passVars, Idles
    <3> QED BY <2>3, <3>1, <3>2
  <2> QED BY <1>1, <1>2, <2>1, <2>2, <2>4, LostBooks
<1>6. CASE AggressiveUnknown
  <2>1. makers' = Settled(makers) /\ hedges' = hedges
        /\ held' \in [Legs -> Nat] /\ \A l \in Legs : held'[l] <= held[l]
    <3>1. PICK x \in [Legs -> 0..total] :
            (\A l \in Legs : Executes(total, l, x[l])) /\ FillsBoth(x)
      BY <1>6 DEF AggressiveUnknown
    <3>2. \A l \in Legs : x[l] <= Room(total, l)
      BY <3>1 DEF Executes
    <3> QED BY <1>4, <3>1, <3>2, TakesBoth DEF FillsBoth
  <2>2. RecordStays /\ Journaled
    BY <1>2, <1>3, <1>6 DEF AggressiveUnknown, RecordStays, Journaled, stateVars
  <2>3. EndPass \/ Goto("check")
    BY <1>6 DEF AggressiveUnknown
  <2>4. Typed /\ Idles
    <3>1. CASE EndPass
      BY <3>1, EndTyped
    <3>2. CASE Goto("check")
      BY <3>2, SameTyped DEF Goto, passVars, Idles
    <3> QED BY <2>3, <3>1, <3>2
  <2> QED BY <1>1, <1>2, <2>1, <2>2, <2>4, LostBooks
<1>7. CASE CompensateFlat
  <2>1. makers' = Settled(makers) /\ hedges' = hedges /\ held' = [l \in Legs |-> 0] /\ Clear
        /\ saved' = saved
    BY <1>7 DEF CompensateFlat
  <2>2. held' \in [Legs -> Nat] /\ \A l \in Legs : held'[l] <= held[l] /\ held'[l] = 0
    BY <1>4, <2>1
  <2>3. RecordStays /\ Journaled /\ Typed /\ Idles
    BY <2>1, <2>2, EndTyped DEF RecordStays, Journaled, Clear
  <2> QED BY <1>1, <1>2, <2>1, <2>2, <2>3, LostBooks
<1>8. CASE CompensateFails
  <2>1. makers' = Settled(makers) /\ hedges' = hedges
        /\ held' \in [Legs -> Nat] /\ \A l \in Legs : held'[l] <= held[l]
    <3>1. PICK x \in [Legs -> 0..Quantity] :
            (\A l \in Legs : Executes(Quantity, l, x[l])) /\ FillsBoth(x)
      BY <1>8 DEF CompensateFails
    <3>2. (\A l \in Legs : x[l] <= Room(Quantity, l)) /\ Quantity \in Nat
      BY <3>1, PassiveCloseConstants DEF Executes
    <3> QED BY <3>1, <3>2, TakesBoth DEF FillsBoth
  <2>2. RecordStays /\ Journaled /\ EndPass
    BY <1>2, <1>3, <1>8 DEF CompensateFails, RecordStays, Journaled, stateVars
  <2>4. Typed /\ Idles
    BY <2>2, EndTyped
  <2> QED BY <1>1, <1>2, <2>1, <2>2, <2>4, LostBooks
<1> QED BY <1>5, <1>6, <1>7, <1>8 DEF LostSteps

\* The larger leg is reduced: its fill is counted at once.
LEMMA FlattenBooks ==
  ASSUME NEW home, Inductive, Books(home), FlattenAnswered PROVE Books(home)'
<1>1. /\ step = "onesided" /\ setup' = setup /\ started' = started /\ twice' = twice
      /\ book' = book /\ open' = open /\ saved' = [saved EXCEPT !.pending = pending]
  BY DEF FlattenAnswered, fixed, history, stateVars
<1>2. Exists /\ started
  BY <1>1, FallbackInPass
<1>3. /\ ask.leg \in Legs /\ ask.quantity \in Int /\ DOMAIN pending = DOMAIN Fresh
      /\ held \in [Legs -> Nat]
  BY <1>2 DEF Books, Sent, Good, Exists, Venues
<1>4. PICK x \in 0..Room(ask.quantity, ask.leg) :
        /\ Take(ask.leg, x) /\ makers' = Settled(makers) /\ hedges' = hedges
        /\ pending' = [pending EXCEPT !.closed[ask.leg] = @ + x]
  BY DEF FlattenAnswered, Fills
<1>5. x \in Nat /\ x <= held[ask.leg]
  BY <1>3, RoomIs
<1>6. Typed /\ Idles
  <2>1. Goto("check") \/ (step' = "aggressive" /\ UNCHANGED <<ask, after, result, gained, total>>)
    BY DEF FlattenAnswered
  <2> QED BY <2>1, SameTyped DEF Goto, passVars, Idles
<1>7. Journaled /\ Sent' /\ DOMAIN saved = SavedFields /\ twice' \in BOOLEAN /\ (twice => twice')
  <2>1. Sent'
    BY <1>1, <1>2, <1>6, Quiet DEF Begins
  <2> QED BY <1>1, <2>1 DEF Journaled, Inductive, Records, SavedFields, Books
<1> DEFINE o == ask.leg
           q == [pending EXCEPT !.closed[o] = @ + x]
           hd == [held EXCEPT ![o] = @ - x]
<1>8. /\ DOMAIN q = DOMAIN Fresh /\ q.leg = pending.leg /\ q.chunk = pending.chunk
      /\ q.order = pending.order /\ q.cid = pending.cid /\ q.maker = pending.maker
      /\ q.counted = pending.counted /\ q.hedge = pending.hedge
      /\ q.closed = [pending.closed EXCEPT ![o] = @ + x]
  BY <1>3 DEF Fresh
<1>9. hd \in [Legs -> Nat] /\ hd[o] = held[o] - x /\ \A l \in Legs : l # o => hd[l] = held[l]
  BY <1>3, <1>5
<1>10. pending' = q /\ held' = hd
  BY <1>4 DEF Take
<1>11. o \in Legs /\ x <= held[o]
  BY <1>3, <1>5
<1> HIDE DEF q, hd, o
<1>12. AtOnce(o, x, held, hd, pending, q)
  BY <1>8, <1>9 DEF AtOnce
<1>13. Grows(home) /\ Accounted(home)
  BY <1>1, <1>2, <1>4, <1>5, <1>10, <1>11, <1>12, CountedAtOnce
<1> QED BY <1>7, <1>13, Moves

\* Both legs are reduced, and the record of the position by as much.
LEMMA AggressiveBooks ==
  ASSUME NEW home, Inductive, Books(home), AggressiveAnswered PROVE Books(home)'
<1>1. /\ step = "aggressive" /\ setup' = setup /\ started' = started /\ twice' = twice
      /\ saved' = saved
  BY DEF AggressiveAnswered, fixed, history
<1>2. Exists /\ started
  BY <1>1, FallbackInPass
<1>3. /\ total \in Nat /\ held \in [Legs -> Nat] /\ book \in [Sizes -> Nat]
      /\ (\A l \in Legs : book[l] <= book.matched) /\ (~open => book.matched = 0)
      /\ Venues(home, held, makers, hedges) /\ Good(home, makers, pending) /\ pending # NoClose
      /\ Counts(hedges, pending) /\ Orders(makers)
      /\ (~twice => Covers(book, held, makers, hedges, pending))
  BY <1>2 DEF Books, Sent, Venues, Widest, Exists, Inductive, Records
<1>4. PICK x \in [Legs -> 0..total] :
        (\A l \in Legs : Executes(total, l, x[l])) /\ FillsBoth(x) /\ Wrote(x)
  BY DEF AggressiveAnswered
<1>5. /\ \A l \in Legs : x[l] <= Room(total, l)
      /\ held' = [l \in Legs |-> held[l] - x[l]] /\ makers' = Settled(makers) /\ hedges' = hedges
      /\ book' = Reduced(x) /\ open' = (open /\ book'.matched > 0)
  BY <1>4 DEF Executes, FillsBoth, Wrote
<1>6. /\ held' \in [Legs -> Nat] /\ x \in [Legs -> Nat]
      /\ \A l \in Legs : held'[l] <= held[l] /\ held'[l] + x[l] = held[l]
  BY <1>3, <1>5, TakesBoth
<1>7. /\ book' \in [Sizes -> Nat]
      /\ \A l \in Legs : /\ book'[l] = Less(book[l], x[l])
                         /\ book'[l] <= book'.matched /\ book'[l] <= book[l]
  BY <1>3, <1>5, <1>6, ReducedIs
<1>8. Grows(home)
  BY <1>5, <1>6, SettlesGrows
<1>9. Widest(book', open')
  <2>1. book'.matched \in Nat
    BY <1>7 DEF Sizes
  <2>2. book'.matched <= book.matched
    <3>1. Reduced(x).matched = Less(book.matched, Lesser(x["long"], x["short"]))
      BY DEF Reduced
    <3>2. book.matched \in Nat /\ Lesser(x["long"], x["short"]) \in Nat
      BY <1>3, <1>6 DEF Sizes, Lesser, Legs
    <3>3. Less(book.matched, Lesser(x["long"], x["short"])) <= book.matched
      BY <3>2 DEF Less
    <3> QED BY <1>5, <3>1, <3>3
  <2>3. (open /\ book'.matched > 0) => open'
    BY <1>5
  <2>4. ~open' => book'.matched = 0
    <3>1. book.matched \in Nat
      BY <1>3 DEF Sizes
    <3> QED BY <1>3, <2>1, <2>2, <2>3, <3>1
  <2> QED BY <1>7, <2>4 DEF Widest
<1>10. SameAmounts(makers, makers')
  BY <1>3, <1>5, SettledAmounts
<1>11. ASSUME NEW l \in Legs, ~twice
       PROVE  /\ book'[l] >= Owes(held', makers', hedges', pending, l) /\ book'[l] >= held'[l]
  <2> DEFINE u == Unseen(makers, pending, l)
             d == Done(Unread(hedges, pending, l))
  <2>1. u \in Nat /\ d \in Nat
    BY <1>3, UnseenIs, UnreadIs
  <2>2. Unseen(makers', pending, l) = u
    BY <1>10 DEF Unseen, SameAmounts
  <2>3. Owes(held, makers, hedges, pending, l) = held[l] + pending.closed[l] + u + d
        /\ Owes(held', makers', hedges', pending, l) = held'[l] + pending.closed[l] + u + d
    BY <1>5, <2>2 DEF Owes
  <2>4. book[l] >= Owes(held, makers, hedges, pending, l)
    BY <1>3, <1>11 DEF Covers
  <2>5. held[l] \in Nat /\ held'[l] \in Nat /\ x[l] \in Nat /\ held'[l] + x[l] = held[l]
        /\ pending.closed[l] \in Nat /\ book[l] \in Nat
    BY <1>3, <1>6 DEF Sizes, Legs, Good
  <2>6. book'[l] = Less(book[l], x[l]) /\ Less(book[l], x[l]) >= book[l] - x[l]
        /\ Less(book[l], x[l]) \in Nat
    <3>1. Less(book[l], x[l]) >= book[l] - x[l] /\ Less(book[l], x[l]) \in Nat
      BY <2>5, LessIs
    <3> QED BY <1>7, <3>1
  <2> HIDE DEF u, d
  <2> QED BY <2>1, <2>3, <2>4, <2>5, <2>6
<1>12. pending' = pending \/ pending' = NoClose
  BY DEF AggressiveAnswered
<1>13. Accounted(home)
  <2>1. ASSUME ~twice' PROVE Covers(book', held', makers', hedges', pending')
    BY <1>1, <1>3, <1>11, <1>12, <2>1 DEF Covers
  <2>2. Good(home, makers', pending') /\ Counts(hedges', pending')
    BY <1>3, <1>8, <1>12 DEF Grows, Good, Counts
  <2> QED BY <1>7, <1>9, <2>1, <2>2 DEF Accounted
<1>14. Typed /\ Idles
  <2>1. Goto("check") \/ EndPass
    BY DEF AggressiveAnswered
  <2>2. CASE EndPass
    BY <2>2, EndTyped
  <2>3. CASE Goto("check")
    BY <2>3, SameTyped DEF Goto, passVars, Idles
  <2> QED BY <2>1, <2>2, <2>3
<1>15. Journaled /\ Sent' /\ DOMAIN saved = SavedFields /\ twice' \in BOOLEAN /\ (twice => twice')
  <2>1. Sent'
    BY <1>1, <1>2, <1>14, Quiet DEF Begins
  <2> QED BY <1>1, <2>1 DEF Journaled, Inductive, Records, SavedFields, Books
<1> QED BY <1>8, <1>13, <1>15, Moves

-----------------------------------------------------------------------------
(* Registration, the tick of the lane, the snapshot and the venues.        *)

LEMMA StartBooks == ASSUME NEW home, Inductive, Books(home), Start PROVE Books(home)'
<1>1. /\ UNCHANGED venueVars /\ setup' = setup /\ started' /\ twice' = twice
      /\ book' = book /\ open' = open /\ ~started
      /\ pending' = Fresh /\ saved' = [saved EXCEPT !.pending = Fresh] /\ Goto("drive")
  BY DEF Start, stateVars, history
<1>2. makers = <<>> /\ pending = NoClose /\ hedges = {}
  BY <1>1 DEF Inductive, Stages, Books, Sent
<1>3. Grows(home)
  BY <1>1, StaysGrows
<1>4. Widest(book, open) /\ Venues(home, held, makers, hedges) /\ twice \in BOOLEAN
      /\ (~twice => Covers(book, held, makers, hedges, NoClose))
  BY <1>2 DEF Books
<1>5. Good(home, makers, Fresh) /\ Counts(hedges, Fresh) /\ Fresh # NoClose
  <2>1. Len(makers) \in Nat /\ Other("long") \in Legs /\ Fresh # NoClose
    BY <1>4, NotNone, LegsApart DEF Venues, Legs
  <2>2. /\ Fresh.leg = "long" /\ Fresh.chunk = 1 /\ Fresh.cid = 0 /\ Fresh.order = 0
        /\ Fresh.maker = 0 /\ Fresh.hedge = 0 /\ Fresh.closed \in [Legs -> Nat]
        /\ Fresh.counted = {} /\ \A l \in Legs : Fresh.closed[l] = 0
    BY DEF Fresh, NoFills
  <2> QED BY <2>1, <2>2 DEF Good, Counts, Legs
<1>6. ASSUME NEW l \in Legs PROVE Owes(held, makers, hedges, Fresh, l) = held[l]
  <2>1. Unseen(makers, Fresh, l) = 0
    BY <1>2 DEF Unseen, Seen, Fresh
  <2>2. Unread(hedges, Fresh, l) = {}
    BY <1>2 DEF Unread
  <2>3. held[l] \in Nat /\ Fresh.closed[l] = 0
    BY <1>4 DEF Venues, Fresh, NoFills
  <2> QED BY <2>1, <2>2, <2>3, DoneOfNone DEF Owes
<1>7. ASSUME ~twice' PROVE Covers(book', held', makers', hedges', pending')
  <2>1. Covers(book, held, makers, hedges, NoClose)
    BY <1>1, <1>4, <1>7
  <2>2. Covers(book, held, makers, hedges, Fresh)
    BY <1>5, <1>6, <2>1 DEF Covers
  <2> QED BY <1>1, <2>2 DEF venueVars
<1>8. Accounted(home)
  <2>1. \A l \in Legs : book'[l] <= book[l]
    BY <1>1, <1>4 DEF Widest, Legs, Sizes
  <2>2. Good(home, makers', pending') /\ Counts(hedges', pending')
    BY <1>1, <1>5 DEF venueVars
  <2> QED BY <1>1, <1>4, <1>7, <2>1, <2>2 DEF Accounted
<1>9. Journaled /\ DOMAIN saved = SavedFields
  BY <1>1 DEF Journaled, Inductive, Records, SavedFields
<1>10. Sent'
  <2>1. Typed /\ Idles
    BY <1>1, SameTyped DEF Goto, passVars, Idles
  <2> QED BY <1>1, <2>1, Quiet DEF Begins
<1>11. twice' \in BOOLEAN /\ (twice => twice')
  BY <1>1, <1>4
<1> QED BY <1>3, <1>8, <1>9, <1>10, <1>11, Moves

\* A step that leaves the record and the order on its way alone.
LEMMA RecordStaysSame ==
  ASSUME NEW home, Books(home), book' = book, open' = open, pending' = pending
  PROVE  RecordStays
<1>1. CASE Exists
  BY <1>1, AlikeKinds DEF RecordStays
<1>2. CASE ~Exists
  BY <1>2 DEF RecordStays, Exists
<1> QED BY <1>1, <1>2

LEMMA SaveBooks == ASSUME NEW home, Inductive, Books(home), Save PROVE Books(home)'
<1>1. /\ UNCHANGED venueVars /\ setup' = setup /\ started' = started /\ twice' = twice
      /\ book' = book /\ open' = open /\ residual' = residual /\ pending' = pending
      /\ UNCHANGED passVars /\ step' = "idle"
      /\ saved' = [pending |-> pending, book |-> book, open |-> open, residual |-> residual]
  BY DEF Save, Current, fixed, stateVars, history
<1>2. Grows(home) /\ RecordStays
  BY <1>1, StaysGrows, RecordStaysSame
<1>3. Journaled
  BY <1>1 DEF Journaled
<1>4. Typed /\ Idles
  BY <1>1, SameTyped DEF passVars, Idles
<1>5. Sent'
  BY <1>1, <1>4, Quiet DEF Begins, venueVars
<1> QED BY <1>1, <1>2, <1>3, <1>5, StepStays

LEMMA OutsideBooks ==
  ASSUME NEW home, Inductive, Books(home), Grows(home), hedges' = hedges,
         UNCHANGED <<setup, started, pending, saved, step, ask, gained, total, twice, book, open>>
  PROVE  Books(home)'
<1>1. RecordStays /\ Journaled
  BY RecordStaysSame, SavedJournaled
<1>2. Sent'
  BY DEF Books, Sent
<1> QED BY <1>1, <1>2, StepStays

LEMMA OutsideSteps ==
  ASSUME NEW home, Inductive, Books(home), Venue \/ DeadlinePasses \/ UNCHANGED vars
  PROVE  Books(home)'
<1>1. /\ hedges' = hedges
      /\ UNCHANGED <<setup, started, pending, saved, step, ask, gained, total, twice, book, open>>
  BY DEF Venue, MakerFills, MakerDies, DeadlinePasses, vars, fixed, venueVars, stateVars,
         passVars, history
<1>2. Grows(home)
  <2>1. CASE MakerFills
    BY <2>1, FillsGrows
  <2>2. CASE MakerDies
    <3>1. PICK i : makers' = [makers EXCEPT ![i].rests = FALSE]
      BY <2>2 DEF MakerDies
    <3>2. Orders(makers) /\ held' = held /\ held \in [Legs -> Nat]
      BY <2>2 DEF MakerDies, Inductive, Records, Books, Venues
    <3>3. SameAmounts(makers, makers')
      BY <3>1, <3>2, EndedAmounts
    <3>4. held' \in [Legs -> Nat] /\ \A l \in Legs : held'[l] <= held[l]
      BY <3>2
    <3> QED BY <1>1, <3>3, <3>4, ShrinkGrows
  <2>3. CASE DeadlinePasses \/ UNCHANGED vars
    <3>1. UNCHANGED venueVars
      BY <2>3 DEF DeadlinePasses, vars, venueVars
    <3> QED BY <3>1, StaysGrows
  <2> QED BY <2>1, <2>2, <2>3 DEF Venue
<1> QED BY <1>1, <1>2, OutsideBooks

\* Whatever is on its way at a crash reaches the venue or it does not.
LEMMA InFlightGrows == ASSUME NEW home, Inductive, Books(home), InFlight PROVE Grows(home)
<1>1. /\ ask.leg \in Legs /\ ask.quantity \in Int /\ total \in Nat /\ held \in [Legs -> Nat]
  BY DEF Books, Sent, Venues
<1>2. CASE step = "submit" /\ UNCHANGED <<held, hedges>>
           /\ (makers' = Accept(ask.leg, ask.quantity) \/ makers' = Vanish(ask.leg, ask.quantity))
  BY <1>2, OrderGrows
<1>3. CASE UNCHANGED <<held, hedges, makers>>
  BY <1>3, StaysGrows DEF venueVars
<1>4. CASE step = "hedge" /\ ~Taken /\ \E x \in 1..Room(ask.quantity, HedgeLeg) : FillHedge(x)
  <2>1. PICK x \in 1..Room(ask.quantity, HedgeLeg) : FillHedge(x)
    BY <1>4
  <2>2. pending.leg \in Legs /\ HedgeLeg \in Legs /\ held[HedgeLeg] \in Nat
    BY <1>1, <1>4, LegsApart DEF Inductive, Stages, Exists, Books, Good, HedgeLeg
  <2>3. Room(ask.quantity, HedgeLeg) \in Int
    BY <1>1, <2>2 DEF Room, Lesser
  <2>4. x \in 0..Room(ask.quantity, HedgeLeg)
    BY <2>3
  <2> QED BY <1>4, <2>1, <2>4, HedgeGrows
<1>5. CASE \E x \in 1..Room(ask.quantity, ask.leg) : Fills(ask.leg, x)
  <2>1. PICK x \in 1..Room(ask.quantity, ask.leg) : Fills(ask.leg, x)
    BY <1>5
  <2>2. Room(ask.quantity, ask.leg) \in Int
    BY <1>1 DEF Room, Lesser
  <2>3. x \in 0..Room(ask.quantity, ask.leg) /\ Take(ask.leg, x) /\ makers' = Settled(makers)
        /\ hedges' = hedges
    BY <2>1, <2>2 DEF Fills
  <2>4. held' \in [Legs -> Nat] /\ \A k \in Legs : held'[k] <= held[k]
    BY <1>1, <2>3, TakesLess
  <2> QED BY <2>3, <2>4, SettlesGrows
<1>6. CASE FillsBoth([l \in Legs |-> Room(total, l)])
  <2> DEFINE x == [l \in Legs |-> Room(total, l)]
  <2>1. \A l \in Legs : Room(total, l) \in 0..total /\ x[l] = Room(total, l)
    BY <1>1 DEF Room, Lesser
  <2>2. x \in [Legs -> 0..total] /\ \A l \in Legs : x[l] <= Room(total, l)
    BY <2>1
  <2>3. FillsBoth(x)
    BY <1>6
  <2> HIDE DEF x
  <2>4. held' = [l \in Legs |-> held[l] - x[l]] /\ makers' = Settled(makers) /\ hedges' = hedges
    BY <2>3 DEF FillsBoth
  <2>5. held' \in [Legs -> Nat] /\ \A l \in Legs : held'[l] <= held[l]
    BY <1>1, <2>2, <2>4, TakesBoth
  <2> QED BY <2>4, <2>5, SettlesGrows
<1>7. CASE held' = [l \in Legs |-> 0] /\ makers' = Settled(makers) /\ hedges' = hedges
  <2>1. held' \in [Legs -> Nat] /\ \A l \in Legs : held'[l] <= held[l]
    BY <1>1, <1>7
  <2> QED BY <1>7, <2>1, SettlesGrows
<1> QED BY <1>2, <1>3, <1>4, <1>5, <1>6, <1>7 DEF InFlight

\* A restart: what was saved covers what the venues hold by then.
LEMMA CrashBooks == ASSUME NEW home, Inductive, Books(home), Crash PROVE Books(home)'
<1>1. /\ InFlight /\ pending' = saved.pending /\ book' = saved.book /\ open' = saved.open
      /\ step' = "idle" /\ ask' = NoOrder /\ gained' = 0 /\ total' = 0
      /\ setup' = setup /\ started' = started /\ saved' = saved /\ twice' = twice
  BY DEF Crash, history
<1>2. Grows(home)
  BY <1>1, InFlightGrows
<1>3. Sent'
  <2>1. ~started => hedges' = {}
    <3>1. ~started => step = "idle" /\ hedges = {}
      BY DEF Inductive, Stages, Books, Sent
    <3> QED BY <1>1, <3>1 DEF InFlight, Fills, FillsBoth
  <2>2. setup.plan \in Seq(Nat \ {0}) /\ NoOrder.leg \in Legs /\ NoOrder.quantity \in Int
    BY DEF Books, Sent, NoOrder, Legs
  <2> QED BY <1>1, <2>1, <2>2 DEF Sent
<1>4. /\ Good(home, makers', saved.pending) /\ Counts(hedges', saved.pending)
      /\ Widest(saved.book, saved.open) /\ home \in [Nat -> Homes] /\ twice \in BOOLEAN
      /\ Venues(home, held', makers', hedges')
  BY <1>2 DEF Books, Grows
<1>5. \A l \in Legs : saved.book[l] <= saved.book[l]
  BY <1>4 DEF Widest, Legs, Sizes
<1>6. ~twice => Covers(saved.book, held', makers', hedges', saved.pending)
  BY <1>2, <1>4 DEF Books, Grows, Widest
<1> QED BY <1>1, <1>3, <1>4, <1>5, <1>6 DEF Books

-----------------------------------------------------------------------------
(* The balance holds.                                                      *)

Balanced == \E home : Books(home)

LEMMA InitBalanced == Init => Balanced
<1> SUFFICES ASSUME Init PROVE Balanced
  OBVIOUS
<1> DEFINE home == [n \in Nat |-> [leg |-> "long", chunk |-> 1]]
<1>1. home \in [Nat -> Homes]
  BY DEF Homes, Legs
<1> HIDE DEF home
<1>2. Quantity \in Nat /\ setup.plan \in Seq(Nat \ {0})
  BY PassiveCloseConstants DEF Init
<1>3. /\ held = [l \in Legs |-> Quantity] /\ makers = <<>> /\ hedges = {}
      /\ book = [matched |-> Quantity, long |-> Quantity, short |-> Quantity] /\ open = TRUE
      /\ pending = NoClose /\ saved.pending = NoClose /\ saved.book = book /\ saved.open = TRUE
      /\ step = "idle" /\ ask = NoOrder /\ gained = 0 /\ total = 0 /\ twice = FALSE
  BY DEF Init
<1>4. Venues(home, held, makers, hedges)
  <2>1. held \in [Legs -> Nat] /\ Len(makers) = 0 /\ DOMAIN makers = {} /\ IsFiniteSet(hedges)
    BY <1>2, <1>3, FS_EmptySet
  <2> QED BY <1>3, <2>1 DEF Venues
<1>5. /\ Widest(book, open) /\ Widest(saved.book, saved.open)
      /\ \A l \in Legs : book[l] <= saved.book[l] /\ book[l] >= held[l]
  BY <1>2, <1>3 DEF Widest, Sizes, Legs
<1>6. Sent
  BY <1>2, <1>3 DEF Sent, NoOrder, Legs
<1>7. Books(home)
  BY <1>1, <1>3, <1>4, <1>5, <1>6 DEF Books, Good, Counts, Covers
<1> QED BY <1>7 DEF Balanced

LEMMA NextBalanced == Inductive /\ Balanced /\ [Next]_vars => Balanced'
<1> SUFFICES ASSUME Inductive, NEW home, Books(home), [Next]_vars PROVE \E h : Books(h)'
  BY DEF Balanced
<1>1. CASE MakerStep
  BY <1>1, OpenMakerBooks, CalmBooks, AnswerBooks, MakerRequotedBooks, PollBooks, PollEndedBooks
  DEF MakerStep, CalmSteps
<1>2. CASE HedgeStep
  BY <1>2, GapBooks, HedgeBooks, AskedBooks, CalmBooks, DuplicateBooks, RetryBooks
  DEF HedgeStep, CalmSteps
<1>3. CASE RoundStep
  BY <1>3, AfterBooks, CalmBooks, AmendFailsBooks, ReplaceBooks, ZeroFillBooks DEF RoundStep, CalmSteps
<1>4. CASE DriveTaker \/ FallbackStep
  BY <1>4, CalmBooks, FallbackBooks, FlattenBooks, AggressiveBooks, LostAnswerBooks
  DEF FallbackStep, CalmSteps, LostSteps
<1>5. CASE Start \/ Tick \/ Save \/ Crash
  BY <1>5, StartBooks, CalmBooks, SaveBooks, CrashBooks DEF CalmSteps
<1>6. CASE Venue \/ DeadlinePasses \/ UNCHANGED vars
  BY <1>6, OutsideSteps
<1> QED BY <1>1, <1>2, <1>3, <1>4, <1>5, <1>6 DEF Next, PassStep

LEMMA BalancedCovers ==
  ASSUME Balanced, ~twice, NEW l \in Legs
  PROVE  /\ book[l] >= held[l] /\ held[l] \in Nat /\ (~open => held[l] = 0)
<1>1. PICK home : Books(home)
  BY DEF Balanced
<1>2. /\ Venues(home, held, makers, hedges) /\ Good(home, makers, pending) /\ Widest(book, open)
      /\ Covers(book, held, makers, hedges, pending)
  BY <1>1 DEF Books
<1>3. held[l] \in Nat /\ book[l] \in Nat /\ book[l] <= book.matched /\ book.matched \in Nat
      /\ (~open => book.matched = 0)
  BY <1>2 DEF Venues, Widest, Sizes, Legs
<1>4. book[l] >= held[l]
  <2>1. CASE pending = NoClose
    BY <1>2, <2>1 DEF Covers
  <2>2. CASE pending # NoClose
    <3>1. book[l] >= Owes(held, makers, hedges, pending, l)
      BY <1>2, <2>2 DEF Covers
    <3>2. /\ pending.closed[l] \in Nat /\ Owes(held, makers, hedges, pending, l) \in Nat
          /\ Owes(held, makers, hedges, pending, l) >= held[l] + pending.closed[l]
      BY <1>2, <2>2, OwesIs
    <3> QED BY <1>3, <3>1, <3>2
  <2> QED BY <2>1, <2>2
<1> QED BY <1>3, <1>4

\* What the orders of a set executed.
MadeAt == [i \in DOMAIN makers |-> makers[i].done]
MadeOn(l) == {i \in DOMAIN makers : makers[i].leg = l}
AddsMade(S, f) ==
    f = [s \in SUBSET S |-> IF s = {} THEN 0
                            ELSE makers[CHOOSE x \in s : TRUE].done + f[s \ {CHOOSE x \in s : TRUE}]]

LEMMA MadeIs ==
  ASSUME NEW l, IsFiniteSet(MadeOn(l)) PROVE Made(l) = SumOf(MadeAt, MadeOn(l))
<1> DEFINE F == MadeAt
           S == MadeOn(l)
           iter == CHOOSE f : AddsMade(S, f)
<1>1. ASSUME NEW s \in SUBSET S, s # {}
      PROVE  F[CHOOSE x \in s : TRUE] = makers[CHOOSE x \in s : TRUE].done
  <2>1. (CHOOSE x \in s : TRUE) \in DOMAIN makers
    BY <1>1 DEF MadeOn
  <2> QED BY <2>1 DEF MadeAt
<1>2. PICK g : Adds(F, S, g)
  BY AddsExist
<1>3. Made(l) = iter[S]
  BY DEF Made, MapThenSumSet, MapThenFoldSet, AddsMade, MadeOn
<1> HIDE DEF F, S
<1>4. ASSUME NEW f PROVE Adds(F, S, f) <=> AddsMade(S, f)
  BY <1>1 DEF Adds, AddsMade, Pick
<1>5. AddsMade(S, iter)
  <2>1. \E f : AddsMade(S, f)
    BY <1>2, <1>4
  <2> QED BY <2>1
<1>6. SumOf(F, S) = iter[S]
  <2> HIDE DEF iter
  <2>1. Adds(F, S, iter)
    BY <1>4, <1>5
  <2>2. IsFiniteSet(S)
    BY DEF S
  <2> QED BY <2>1, <2>2, SumIs
<1> QED BY <1>3, <1>6 DEF F, S

\* Every hedge has an order of its own that executed as much.
LEMMA BalancedHedges ==
  ASSUME Balanced, NEW l \in Legs
  PROVE  Done({h \in hedges : h.leg = l}) <= Made(Other(l))
<1>1. PICK home : Books(home)
  BY DEF Balanced
<1>2. Venues(home, held, makers, hedges)
  BY <1>1 DEF Books
<1> DEFINE S == {h \in hedges : h.leg = l}
           T == MadeOn(Other(l))
           Of(h, i) == home[i] = [leg |-> Other(l), chunk |-> h.chunk] /\ makers[i].done >= h.done
           m == [h \in S |-> CHOOSE i \in DOMAIN makers : Of(h, i)]
<1>3. IsFiniteSet(S) /\ \A h \in S : h.done \in Nat /\ Dones(S)[h] = h.done
  BY <1>2, FS_Subset DEF Venues, Dones
<1>4. IsFiniteSet(T) /\ \A i \in T : MadeAt[i] \in Nat /\ MadeAt[i] = makers[i].done
  <2>1. IsFiniteSet(1..Len(makers)) /\ T \in SUBSET (1..Len(makers))
    BY <1>2, FS_Interval DEF Venues, MadeOn
  <2>2. IsFiniteSet(T)
    BY <2>1, FS_Subset
  <2> QED BY <1>2, <2>2 DEF Venues, MadeOn, MadeAt
<1>5. ASSUME NEW h \in S, h.done > 0
      PROVE  m[h] \in DOMAIN makers /\ Of(h, m[h])
  <2>1. \E i \in DOMAIN makers : Of(h, i)
    BY <1>2, <1>5 DEF Venues, Reaches
  <2>2. m[h] = CHOOSE i \in DOMAIN makers : Of(h, i)
    BY <1>5
  <2> HIDE DEF Of, m
  <2> QED BY <2>1, <2>2
<1>6. ASSUME NEW h \in S, h.done > 0
      PROVE  /\ m[h] \in T /\ h.done <= MadeAt[m[h]]
             /\ home[m[h]] = [leg |-> Other(l), chunk |-> h.chunk]
  <2>1. m[h] \in DOMAIN makers /\ home[m[h]] = [leg |-> Other(l), chunk |-> h.chunk]
        /\ makers[m[h]].done >= h.done
    BY <1>5, <1>6
  <2> HIDE DEF m
  <2>2. makers[m[h]].leg = Other(l) /\ makers[m[h]].done \in Nat
    BY <1>2, <2>1 DEF Venues
  <2>3. h.done \in Nat
    BY <1>3
  <2> QED BY <2>1, <2>2, <2>3 DEF MadeOn, MadeAt
<1>7. ASSUME NEW g \in S, NEW h \in S, g.done > 0, h.done > 0, m[g] = m[h] PROVE g = h
  <2>1. g.chunk = h.chunk
    <3>1. home[m[g]] = [leg |-> Other(l), chunk |-> g.chunk]
          /\ home[m[h]] = [leg |-> Other(l), chunk |-> h.chunk]
      BY <1>6, <1>7
    <3> HIDE DEF m
    <3> QED BY <1>7, <3>1
  <2>2. Id(g) = Id(h) /\ g \in hedges /\ h \in hedges
    BY <2>1 DEF Id
  <2> QED BY <1>2, <2>2 DEF Venues
<1> HIDE DEF S, T, m
<1>8. SumOf(Dones(S), S) <= SumOf(MadeAt, T)
  <2> DEFINE F == Dones(S)
             E == MadeAt
  <2>1. /\ \A h \in S : F[h] \in Nat /\ (F[h] > 0 => m[h] \in T /\ F[h] <= E[m[h]])
        /\ \A g, h \in S : F[g] > 0 /\ F[h] > 0 /\ m[g] = m[h] => g = h
        /\ \A i \in T : E[i] \in Nat
    BY <1>3, <1>4, <1>6, <1>7
  <2> HIDE DEF F, E
  <2>2. SumOf(F, S) <= SumOf(E, T)
    BY <1>3, <1>4, <2>1, SumWithin
  <2> QED BY <2>2 DEF F, E
<1>9. Done(S) = SumOf(Dones(S), S)
  BY <1>3, DoneIs
<1>10. Made(Other(l)) = SumOf(MadeAt, T)
  BY <1>4, MadeIs DEF T
<1> QED BY <1>8, <1>9, <1>10 DEF S

LEMMA HedgesFollow == Balanced => HedgeFollows
<1> SUFFICES ASSUME Balanced, NEW l \in Legs
             PROVE  MapThenSumSet(LAMBDA h : h.done, {h \in hedges : h.leg = l}) <= Made(Other(l))
  BY DEF HedgeFollows
<1>1. Done({h \in hedges : h.leg = l}) <= Made(Other(l))
  BY BalancedHedges
<1>2. MapThenSumSet(LAMBDA h : h.done, {h \in hedges : h.leg = l})
      = Done({h \in hedges : h.leg = l})
  BY DEF Done
<1> QED BY <1>1, <1>2

\* A position that left the record is flat at both venues, whichever of the last
\* chunk, the write-back of the fallback and the flat probe removed it, as long
\* as no fill of a hedge was recorded twice.
THEOREM PassiveGoneIsFlat == Spec => []GoneIsFlat
<1>1. Inductive /\ Balanced => GoneIsFlat
  BY BalancedCovers DEF GoneIsFlat
<1> QED BY <1>1, InitInductive, NextInductive, InitBalanced, NextBalanced, PTL DEF Spec

\* No leg is recorded smaller than the venue holds it, across partial fills, lost
\* answers, replays after a crash and the hand-over to takers, as long as no fill
\* of a hedge was recorded twice.
THEOREM PassiveBookCovers == Spec => []BookNotBelowVenue
<1>1. Inductive /\ Balanced => BookNotBelowVenue
  BY BalancedCovers DEF BookNotBelowVenue
<1> QED BY <1>1, InitInductive, NextInductive, InitBalanced, NextBalanced, PTL DEF Spec

\* The hedges of a leg execute no more than the maker orders of the other leg,
\* over every crash between a fill, its hedge and the record of both.
THEOREM HedgesWithinMakers == Spec => []HedgeFollows
<1>1. Inductive /\ Balanced => HedgeFollows
  BY HedgesFollow
<1> QED BY <1>1, InitInductive, NextInductive, InitBalanced, NextBalanced, PTL DEF Spec
=============================================================================
