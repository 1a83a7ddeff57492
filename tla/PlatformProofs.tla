---------------------------- MODULE PlatformProofs ----------------------------
(***************************************************************************)
(* What the engine stands on.                                              *)
(*  1. The limiter every venue request passes: type correctness, and the    *)
(*     budget a venue can count on.                                        *)
(*  2. The journal every event is written to: whatever was recorded is      *)
(*     recovered, in order and once (Journal implements FactLog).           *)
(***************************************************************************)
EXTENDS RateLimit, Journal, FiniteSetTheorems, SequenceTheorems, WellFoundedInduction, TLAPS

USE DEF Lesser, Greater, Charged, Banned

\* The one fact about products the proofs need.
LEMMA OneMore ==
  ASSUME NEW x \in Nat, NEW y \in Nat
  PROVE  /\ (x + 1) * y = x * y + y
         /\ y * (x + 1) = y * x + y
         /\ x * y \in Nat /\ y * x \in Nat
OBVIOUS

\* BucketState.refill never fills a bucket beyond its capacity.
LEMMA RefilledType ==
  ASSUME TypeOK, NEW b \in Buckets
  PROVE  /\ Refilled(b) \in Nat /\ Refilled(b) <= Capacity[b]
         /\ RefillTime(b) \in Nat
<1>1. Capacity[b] \in Nat /\ Refill[b] \in Nat /\ tokens[b] \in Nat /\ refillAt[b] \in Nat /\ now \in Nat
  BY BucketAssumption DEF TypeOK
<1> DEFINE e == Greater(0, now - refillAt[b])
<1>2. e \in Nat
  BY <1>1
<1>3. e * Refill[b] \in Nat
  BY <1>1, <1>2
<1> HIDE DEF e
<1> QED BY <1>1, <1>2, <1>3 DEF Refilled, RefillTime, e

\* _failure_backoff_ms is a delay, whatever the number of failures.
LEMMA BackoffType ==
  ASSUME NEW n \in Nat PROVE BackoffDelay(n) \in Nat
BY BackoffAssumption DEF BackoffDelay

\* _budget_retry_ms is a delay.
LEMMA BudgetRetryType ==
  ASSUME TypeOK, NEW r \in Requests, NEW b \in Buckets
  PROVE  BudgetRetryMs(r, b) \in Nat
<1>1. Weight[r] \in Nat /\ Refill[b] \in Nat /\ Refilled(b) \in Nat /\ BudgetRetry \in Nat
  BY RequestAssumption, BucketAssumption, TimeAssumption, RefilledType
<1>2. CASE Refill[b] = 0
  BY <1>1, <1>2 DEF BudgetRetryMs
<1>3. CASE Refill[b] # 0
  <2> DEFINE q == (Weight[r] - Refilled(b) + Refill[b] - 1) \div Refill[b]
  <2>1. q \in Int
    BY <1>1, <1>3
  <2> HIDE DEF q
  <2>2. Greater(1, q) \in Nat
    BY <2>1
  <2> QED BY <2>2, <1>3 DEF BudgetRetryMs, q
<1> QED BY <1>2, <1>3

-----------------------------------------------------------------------------
\* A caller leaves the loop, or sleeps for a natural number of milliseconds.
LEMMA SleepOrGiveUpType ==
  ASSUME TypeOK, NEW c \in Callers, NEW r \in Requests, NEW dl \in Nat,
         NEW retry \in Nat, SleepOrGiveUp(c, r, dl, retry)
  PROVE  /\ pc' \in [Callers -> {"idle", "waiting", "sent"}]
         /\ request' \in [Callers -> Requests \cup {NoRequest}]
         /\ \A d \in Callers : pc'[d] # "idle" => request'[d] \in Requests
         /\ wake' \in [Callers -> Nat]
         /\ deadline' \in [Callers -> Nat]
<1>1. CASE Leave(c)
  BY <1>1 DEF Leave, TypeOK
<1>2. CASE Sleep(c, r, dl, retry)
  BY <1>2 DEF Sleep, TypeOK
<1> QED BY <1>1, <1>2 DEF SleepOrGiveUp

\* One evaluation of the wait loop, whichever of its outcomes.
LEMMA AttemptType ==
  ASSUME TypeOK, NEW c \in Callers, NEW r \in Requests, NEW dl \in Nat,
         Attempt(c, r, dl)
  PROVE  TypeOK'
<1> USE DEF Attempt, engine
<1>0. /\ \A b \in Buckets : Refilled(b) \in Nat /\ RefillTime(b) \in Nat
      /\ Weight[r] \in Nat
      /\ now \in Nat /\ BucketsOf(r) \subseteq Buckets /\ ScopeSet(r) \subseteq Scopes
  <2>1. \A b \in Buckets : Refilled(b) \in Nat /\ RefillTime(b) \in Nat
    BY RefilledType
  <2>2. ScopesOf[r] \in Seq(Scopes)
    BY RequestAssumption
  <2>3. \A i \in DOMAIN ScopesOf[r] : ScopesOf[r][i] \in Scopes
    BY <2>2
  <2> QED BY <2>1, <2>3, RequestAssumption DEF TypeOK, BucketsOf, ScopeSet
<1>1. CASE Consume(c, r)
  <2>1. tokens' \in [Buckets -> Nat] /\ refillAt' \in [Buckets -> Nat]
    BY <1>0, <1>1 DEF Consume, TypeOK
  <2>2. lastRequest' \in [Scopes -> Nat] /\ spent' \in [Buckets -> Nat]
    BY <1>0, <1>1 DEF Consume, TypeOK
  <2>3. /\ pc' \in [Callers -> {"idle", "waiting", "sent"}]
        /\ request' \in [Callers -> Requests \cup {NoRequest}]
        /\ \A d \in Callers : pc'[d] # "idle" => request'[d] \in Requests
        /\ wake' \in [Callers -> Nat] /\ deadline' \in [Callers -> Nat]
    BY <1>1 DEF Consume, TypeOK
  <2> QED BY <2>1, <2>2, <2>3, <1>1 DEF Consume, TypeOK
<1>2. CASE RefuseCooldown(c, r, dl)
  <2>1. PICK b \in BucketsOf(r) : /\ \A d \in BucketsOf(r) : cooldown[d] <= cooldown[b]
                                  /\ SleepOrGiveUp(c, r, dl, cooldown[b] - now)
    BY <1>2 DEF RefuseCooldown
  <2>2. cooldown[b] - now \in Nat
    BY <1>0, <1>2, <2>1 DEF RefuseCooldown, InCooldown, TypeOK
  <2> QED BY <2>1, <2>2, <1>2, SleepOrGiveUpType DEF RefuseCooldown, TypeOK
<1>3. CASE RefuseInterval(c, r, dl)
  <2>1. PICK s \in ScopeSet(r) : /\ \A t \in ScopeSet(r) : Interval(t) <= Interval(s)
                                 /\ SleepOrGiveUp(c, r, dl, Interval(s))
    BY <1>3 DEF RefuseInterval
  <2>2. \A t \in ScopeSet(r) : Interval(t) \in Int
    BY <1>0, BucketAssumption DEF Interval, TypeOK
  <2>3. Interval(s) \in Nat
    BY <1>3, <2>1, <2>2 DEF RefuseInterval, TooSoon
  <2> QED BY <2>1, <2>3, <1>3, SleepOrGiveUpType DEF RefuseInterval, TypeOK
<1>4. CASE RefuseBudget(c, r, dl)
  <2>1. PICK b \in BucketsOf(r) : SleepOrGiveUp(c, r, dl, BudgetRetryMs(r, b))
    BY <1>4 DEF RefuseBudget
  <2>2. BudgetRetryMs(r, b) \in Nat
    BY <2>1, <1>0, BudgetRetryType
  <2>3. tokens' \in [Buckets -> Nat] /\ refillAt' \in [Buckets -> Nat]
    BY <1>0, <1>4 DEF RefuseBudget, TypeOK
  <2> QED BY <2>1, <2>2, <2>3, <1>4, SleepOrGiveUpType DEF RefuseBudget, TypeOK
<1> QED BY <1>1, <1>2, <1>3, <1>4

LEMMA TypeStep == ASSUME TypeOK, [Next]_vars PROVE TypeOK'
<1> USE DEF engine, observer
<1>1. ASSUME NEW c \in Callers, Call(c) PROVE TypeOK'
  <2>1. PICK r \in Requests, timeout \in Timeouts :
          Attempt(c, r, IF timeout > 0 THEN now + timeout ELSE 0)
    BY <1>1 DEF Call
  <2>2. (IF timeout > 0 THEN now + timeout ELSE 0) \in Nat
    BY TimeAssumption DEF TypeOK
  <2> QED BY <2>1, <2>2, AttemptType
<1>2. ASSUME NEW c \in Callers, Wake(c) PROVE TypeOK'
  <2>1. request[c] \in Requests /\ deadline[c] \in Nat
    BY <1>2 DEF Wake, TypeOK
  <2> QED BY <1>2, <2>1, AttemptType DEF Wake
<1>3. ASSUME NEW c \in Callers, Answered(c) PROVE TypeOK'
  BY <1>3 DEF Answered, Leave, TypeOK
<1>4. ASSUME NEW c \in Callers, Limited(c) PROVE TypeOK'
  <2>1. PICK after \in RetryAfters :
          LET delay(b) == IF after > 0 THEN after ELSE BackoffDelay(failures[b])
              hit == BucketsOf(request[c])
          IN /\ cooldown' = [b \in Buckets |->
                  IF b \in hit THEN Greater(cooldown[b], now + delay(b)) ELSE cooldown[b]]
             /\ failures' = [s \in Scopes |->
                  IF after = 0 /\ s \in hit THEN failures[s] + 1 ELSE failures[s]]
             /\ told' = [b \in Buckets |->
                  IF b \in hit THEN Greater(told[b], now + delay(b)) ELSE told[b]]
    BY <1>4 DEF Limited
  <2>2. \A b \in Buckets :
          (IF after > 0 THEN after ELSE BackoffDelay(failures[b])) \in Nat
    BY BackoffType, TimeAssumption, ScopesAssumption DEF TypeOK
  <2>3. /\ cooldown' \in [Buckets -> Nat] /\ failures' \in [Scopes -> Nat]
        /\ told' \in [Buckets -> Nat]
    BY <2>1, <2>2 DEF TypeOK
  <2> QED BY <2>3, <1>4 DEF Limited, Leave, TypeOK
<1>5. CASE Reload
  BY <1>5, BucketAssumption DEF Reload, TypeOK
<1>6. CASE Tick
  BY <1>6 DEF Tick, TypeOK
<1>7. CASE Observe
  BY <1>7 DEF Observe, TypeOK
<1>8. CASE UNCHANGED vars
  BY <1>8 DEF vars, TypeOK
<1> QED BY <1>1, <1>2, <1>3, <1>4, <1>5, <1>6, <1>7, <1>8 DEF Next

(* Every step of every caller, of the reload, of the clock and of the observer
   keeps the limiter's state well typed. *)
THEOREM TypeCorrect == Spec => []TypeOK
<1>1. Init => TypeOK
  BY BucketAssumption DEF Init, TypeOK
<1>2. TypeOK /\ [Next]_vars => TypeOK'
  BY TypeStep
<1> QED BY <1>1, <1>2, PTL DEF Spec

-----------------------------------------------------------------------------
(* The budget.  WindowBudget is not inductive: a bucket that holds more than
   the window still allows would break it at the next grant.  What is kept is
   that the tokens a bucket would hold now are themselves part of the budget. *)
Allowed(b) == Capacity[b] * (1 + reloadsSince) + Refill[b] * (now - mark)

BudgetInv ==
  /\ mark <= now
  /\ mark = 0 => reloadsSince = 0 /\ spent = [b \in Buckets |-> 0]
  /\ mark > 0 => \A b \in Buckets : spent[b] + Refilled(b) <= Allowed(b)

\* The budget of a window is an integer.
LEMMA AllowedType ==
  ASSUME TypeOK, mark <= now, NEW b \in Buckets
  PROVE  Allowed(b) \in Nat
<1>1. Capacity[b] \in Nat /\ Refill[b] \in Nat /\ reloadsSince \in Nat /\ now - mark \in Nat
  BY BucketAssumption DEF TypeOK
<1>2. Capacity[b] * (1 + reloadsSince) \in Nat /\ Refill[b] * (now - mark) \in Nat
  BY <1>1
<1> QED BY <1>2 DEF Allowed

\* A bucket that is refilled at the time of the refill holds what it had.
LEMMA RefillTwice ==
  ASSUME TypeOK, NEW b \in Buckets, NEW t \in Nat, t <= Capacity[b],
         now' = now, tokens'[b] = t, refillAt'[b] = RefillTime(b)
  PROVE  Refilled(b)' = t
<1>1. Capacity[b] \in Nat /\ Refill[b] \in Nat /\ now \in Nat /\ refillAt[b] \in Nat
  BY BucketAssumption DEF TypeOK
<1>2. Greater(0, now' - refillAt'[b]) = 0
  BY <1>1 DEF RefillTime
<1>3. 0 * Refill[b] = 0
  BY <1>1
<1> QED BY <1>1, <1>2, <1>3 DEF Refilled

\* A grant moves tokens to spent; a refusal at most stores the refill.
LEMMA AttemptBudget ==
  ASSUME TypeOK, BudgetInv, NEW c \in Callers, NEW r \in Requests, NEW dl \in Nat,
         Attempt(c, r, dl)
  PROVE  BudgetInv'
<1>1. /\ now' = now /\ mark' = mark /\ reloadsSince' = reloadsSince
      /\ now \in Nat /\ mark \in Nat /\ Weight[r] \in Nat
      /\ \A b \in Buckets : Allowed(b)' = Allowed(b)
  BY RequestAssumption DEF Attempt, TypeOK, Allowed
<1>2. \A b \in Buckets : /\ Refilled(b) \in Nat /\ Refilled(b) <= Capacity[b]
                         /\ spent[b] \in Nat /\ Capacity[b] \in Nat
  BY RefilledType, BucketAssumption DEF TypeOK
<1>3. CASE Consume(c, r)
  <2>1. ASSUME NEW b \in Buckets, mark > 0 PROVE spent'[b] + Refilled(b)' <= Allowed(b)
    <3>1. spent[b] + Refilled(b) <= Allowed(b) /\ Allowed(b) \in Nat
      BY <2>1, AllowedType DEF BudgetInv
    <3>2. CASE b \in BucketsOf(r)
      <4>1. Weight[r] <= Refilled(b)
        BY <1>1, <1>2, <1>3, <3>2 DEF Consume, Short
      <4>2. tokens'[b] = Refilled(b) - Weight[r] /\ refillAt'[b] = RefillTime(b)
        BY <1>1, <1>2, <1>3, <3>2, <4>1 DEF Consume
      <4>3. Refilled(b)' = Refilled(b) - Weight[r]
        BY <1>1, <1>2, <4>1, <4>2, RefillTwice
      <4>4. spent'[b] = spent[b] + Weight[r]
        BY <1>3, <2>1, <3>2 DEF Consume
      <4> QED BY <1>1, <1>2, <3>1, <4>3, <4>4
    <3>3. CASE b \notin BucketsOf(r)
      <4>1. spent'[b] = spent[b] /\ Refilled(b)' = Refilled(b)
        BY <1>1, <1>3, <3>3 DEF Consume, Refilled
      <4> QED BY <3>1, <4>1
    <3> QED BY <3>2, <3>3
  <2>2. mark = 0 => spent' = spent
    BY <1>3, <1>1 DEF Consume, TypeOK
  <2> QED BY <1>1, <2>1, <2>2 DEF BudgetInv
<1>4. CASE RefuseBudget(c, r, dl)
  <2>1. ASSUME NEW b \in Buckets PROVE Refilled(b)' = Refilled(b)
    <3>1. CASE Reached(r, b)
      <4>1. tokens'[b] = Refilled(b) /\ refillAt'[b] = RefillTime(b)
        BY <1>4, <3>1 DEF RefuseBudget
      <4> QED BY <1>1, <1>2, <4>1, RefillTwice
    <3>2. CASE ~Reached(r, b)
      BY <1>1, <1>4, <3>2 DEF RefuseBudget, Refilled
    <3> QED BY <3>1, <3>2
  <2> QED BY <1>1, <1>4, <2>1 DEF RefuseBudget, BudgetInv
<1>5. CASE RefuseCooldown(c, r, dl) \/ RefuseInterval(c, r, dl)
  BY <1>1, <1>5 DEF RefuseCooldown, RefuseInterval, BudgetInv, Refilled, engine
<1> QED BY <1>3, <1>4, <1>5 DEF Attempt

\* A millisecond adds to the budget at least what it adds to a bucket.
LEMMA TickBudget ==
  ASSUME TypeOK, BudgetInv, Tick PROVE BudgetInv'
<1>1. /\ now \in Nat /\ mark \in Nat /\ mark <= now
      /\ now' = now + 1 /\ mark' = mark /\ reloadsSince' = reloadsSince /\ spent' = spent
      /\ tokens' = tokens /\ refillAt' = refillAt
  BY DEF TypeOK, BudgetInv, Tick, engine, observer
<1>2. ASSUME NEW b \in Buckets, mark > 0 PROVE spent[b] + Refilled(b)' <= Allowed(b)'
  <2>1. /\ Capacity[b] \in Nat /\ Refill[b] \in Nat /\ tokens[b] \in Nat
        /\ refillAt[b] \in Nat /\ spent[b] \in Nat /\ reloadsSince \in Nat
    BY BucketAssumption DEF TypeOK
  <2> DEFINE e == Greater(0, now - refillAt[b])
             f == Greater(0, now + 1 - refillAt[b])
             a == Capacity[b] * (1 + reloadsSince)
  <2>2. e \in Nat /\ f \in Nat /\ f <= e + 1
    BY <1>1, <2>1
  <2>3. Refilled(b) = Lesser(Capacity[b], tokens[b] + e * Refill[b])
    BY DEF Refilled
  <2>4. Refilled(b)' = Lesser(Capacity[b], tokens[b] + f * Refill[b])
    <3>1. Greater(0, now' - refillAt'[b]) = f
      BY <1>1, <2>1
    <3> HIDE DEF f
    <3> QED BY <1>1, <3>1 DEF Refilled
  <2>5. a \in Nat
    BY <2>1
  <2>6. Allowed(b) = a + Refill[b] * (now - mark)
    BY DEF Allowed
  <2>7. Allowed(b)' = a + Refill[b] * (now + 1 - mark)
    BY <1>1 DEF Allowed
  <2> HIDE DEF e, f, a
  <2>8. f * Refill[b] <= e * Refill[b] + Refill[b] /\ f * Refill[b] \in Nat /\ e * Refill[b] \in Nat
    <3>1. f * Refill[b] <= (e + 1) * Refill[b]
      BY <2>1, <2>2
    <3>2. (e + 1) * Refill[b] = e * Refill[b] + Refill[b]
      BY <2>1, <2>2, OneMore
    <3>3. f * Refill[b] \in Nat /\ e * Refill[b] \in Nat
      BY <2>1, <2>2
    <3> QED BY <3>1, <3>2, <3>3
  <2>9. /\ Refill[b] * (now + 1 - mark) = Refill[b] * (now - mark) + Refill[b]
        /\ Refill[b] * (now - mark) \in Nat
    <3> DEFINE w == now - mark
    <3>1. w \in Nat /\ now + 1 - mark = w + 1
      BY <1>1
    <3>2. Refill[b] * (w + 1) = Refill[b] * w + Refill[b] /\ Refill[b] * w \in Nat
      <4> HIDE DEF w
      <4> QED BY <2>1, <3>1, OneMore
    <3> QED BY <3>1, <3>2
  <2>10. Refilled(b)' <= Refilled(b) + Refill[b]
    BY <2>1, <2>3, <2>4, <2>8
  <2>11. spent[b] + Refilled(b) <= Allowed(b)
    BY <1>2 DEF BudgetInv
  <2>12. Refilled(b) \in Nat /\ Refilled(b)' \in Nat
    BY <2>1, <2>3, <2>4, <2>8
  <2> QED BY <2>1, <2>5, <2>6, <2>7, <2>9, <2>10, <2>11, <2>12
<1> QED BY <1>1, <1>2 DEF BudgetInv

\* A reload adds one full bucket to the budget, and to every bucket.
LEMMA ReloadBudget ==
  ASSUME TypeOK, BudgetInv, Reload PROVE BudgetInv'
<1>1. /\ now \in Nat /\ mark \in Nat /\ mark <= now /\ reloadsSince \in Nat
      /\ now' = now /\ mark' = mark /\ spent' = spent
      /\ tokens' = Capacity
      /\ reloadsSince' = IF mark > 0 THEN reloadsSince + 1 ELSE 0
  BY DEF TypeOK, BudgetInv, Reload
<1>2. ASSUME NEW b \in Buckets, mark > 0 PROVE spent[b] + Refilled(b)' <= Allowed(b)'
  <2>1. Capacity[b] \in Nat /\ Refill[b] \in Nat /\ spent[b] \in Nat
    BY BucketAssumption DEF TypeOK
  <2>2. spent[b] + Refilled(b) <= Allowed(b) /\ Refilled(b) \in Nat
    BY <1>2, RefilledType DEF BudgetInv
  <2> DEFINE k == Refill[b] * (now - mark)
  <2>3. k \in Int
    BY <1>1, <2>1
  <2>4. Allowed(b) = Capacity[b] * (1 + reloadsSince) + k
    BY DEF Allowed
  <2>5. Allowed(b)' = Capacity[b] * (1 + (reloadsSince + 1)) + k
    BY <1>1, <1>2 DEF Allowed
  <2> HIDE DEF k
  <2>6. /\ Capacity[b] * (1 + (reloadsSince + 1)) = Capacity[b] * (1 + reloadsSince) + Capacity[b]
        /\ Capacity[b] * (1 + reloadsSince) \in Int
    BY <1>1, <2>1
  <2>7. Refilled(b)' \in Nat /\ Refilled(b)' <= Capacity[b]
    <3> DEFINE g == Greater(0, now' - refillAt'[b])
    <3>1. now' \in Nat /\ refillAt'[b] = 0
      BY <1>1 DEF Reload
    <3>2. g \in Nat /\ tokens'[b] = Capacity[b]
      BY <1>1, <3>1
    <3>3. g * Refill[b] \in Nat
      BY <3>2, <2>1
    <3> HIDE DEF g
    <3> QED BY <2>1, <3>2, <3>3 DEF Refilled, g
  <2> QED BY <2>1, <2>2, <2>3, <2>4, <2>5, <2>6, <2>7
<1> QED BY <1>1, <1>2 DEF BudgetInv

\* When the count starts, a bucket holds at most its capacity.
LEMMA ObserveBudget ==
  ASSUME TypeOK, BudgetInv, Observe PROVE BudgetInv'
<1>1. /\ now \in Nat /\ now' = now /\ mark' = now /\ reloadsSince' = 0 /\ reloadsSince = 0
      /\ spent' = spent /\ spent = [b \in Buckets |-> 0]
      /\ tokens' = tokens /\ refillAt' = refillAt
  BY DEF TypeOK, BudgetInv, Observe, engine
<1>2. ASSUME NEW b \in Buckets PROVE spent'[b] + Refilled(b)' <= Allowed(b)'
  <2>1. Capacity[b] \in Nat /\ Refill[b] \in Nat
    BY BucketAssumption
  <2>2. Refilled(b)' = Refilled(b) /\ Refilled(b) \in Nat /\ Refilled(b) <= Capacity[b]
    BY <1>1, RefilledType DEF Refilled
  <2>3. Allowed(b)' = Capacity[b] * (1 + 0) + Refill[b] * (now - now)
    BY <1>1 DEF Allowed
  <2>4. Capacity[b] * (1 + 0) = Capacity[b] /\ Refill[b] * (now - now) = 0
    BY <2>1, <1>1
  <2> QED BY <1>1, <2>1, <2>2, <2>3, <2>4
<1> QED BY <1>1, <1>2 DEF BudgetInv

(* WindowBudget for every set of scopes, budgets, callers and requests: the
   limiter never lets more weight through in a window than the bucket's
   capacity, what it refills, and one capacity for each hot reload. *)
THEOREM BudgetKept == Spec => []WindowBudget
<1>1. Init => BudgetInv
  BY DEF Init, BudgetInv
<1>2. TypeOK /\ BudgetInv /\ [Next]_vars => BudgetInv'
  <2> SUFFICES ASSUME TypeOK, BudgetInv, [Next]_vars PROVE BudgetInv'
    OBVIOUS
  <2>1. ASSUME NEW c \in Callers, Call(c) PROVE BudgetInv'
    <3>1. PICK r \in Requests, timeout \in Timeouts :
            Attempt(c, r, IF timeout > 0 THEN now + timeout ELSE 0)
      BY <2>1 DEF Call
    <3>2. (IF timeout > 0 THEN now + timeout ELSE 0) \in Nat
      BY TimeAssumption DEF TypeOK
    <3> QED BY <3>1, <3>2, AttemptBudget
  <2>2. ASSUME NEW c \in Callers, Wake(c) PROVE BudgetInv'
    <3>1. request[c] \in Requests /\ deadline[c] \in Nat
      BY <2>2 DEF Wake, TypeOK
    <3> QED BY <2>2, <3>1, AttemptBudget DEF Wake
  <2>3. ASSUME NEW c \in Callers, Answered(c) \/ Limited(c) PROVE BudgetInv'
    BY <2>3 DEF Answered, Limited, BudgetInv, Refilled, Allowed, engine, observer
  <2>4. CASE UNCHANGED vars
    BY <2>4 DEF vars, engine, observer, BudgetInv, Refilled, Allowed
  <2> QED BY <2>1, <2>2, <2>3, <2>4, TickBudget, ReloadBudget, ObserveBudget DEF Next
<1>3. TypeOK /\ BudgetInv => WindowBudget
  <2> SUFFICES ASSUME TypeOK, BudgetInv, mark > 0, NEW b \in Buckets
               PROVE spent[b] <= Allowed(b)
    BY DEF WindowBudget, Allowed
  <2>1. spent[b] + Refilled(b) <= Allowed(b) /\ Allowed(b) \in Nat
    BY AllowedType DEF BudgetInv
  <2> QED BY <2>1, RefilledType DEF TypeOK
<1> QED BY <1>1, <1>2, <1>3, TypeCorrect, PTL DEF Spec

-----------------------------------------------------------------------------
(* Waiting.  A caller sleeps only through SleepOrGiveUp, for a positive time. *)

\* The sleeps of one evaluation are positive and end by the deadline.
SleptWell(c, dl) ==
  (pc'[c] = "waiting") =>
    wake'[c] > now /\ deadline'[c] = dl /\ (dl > 0 => wake'[c] <= dl)

\* _budget_retry_ms never asks for an evaluation in the same millisecond.
LEMMA BudgetRetryPositive ==
  ASSUME TypeOK, NEW r \in Requests, NEW b \in Buckets
  PROVE  BudgetRetryMs(r, b) > 0
<1>1. Weight[r] \in Nat /\ Refill[b] \in Nat /\ Refilled(b) \in Nat /\ BudgetRetry \in Nat \ {0}
  BY RequestAssumption, BucketAssumption, TimeAssumption, RefilledType
<1>2. CASE Refill[b] = 0
  BY <1>1, <1>2 DEF BudgetRetryMs
<1>3. CASE Refill[b] # 0
  <2> DEFINE q == (Weight[r] - Refilled(b) + Refill[b] - 1) \div Refill[b]
  <2>1. q \in Int
    BY <1>1, <1>3
  <2> HIDE DEF q
  <2>2. Greater(1, q) > 0
    BY <2>1
  <2> QED BY <2>2, <1>3 DEF BudgetRetryMs, q
<1> QED BY <1>2, <1>3

\* A refusal that sleeps for a positive time sleeps well.
LEMMA SleepOrGiveUpWell ==
  ASSUME TypeOK, NEW c \in Callers, NEW r \in Requests, NEW dl \in Nat,
         NEW retry \in Nat, retry > 0, SleepOrGiveUp(c, r, dl, retry)
  PROVE  /\ SleptWell(c, dl)
         /\ \A d \in Callers \ {c} : pc'[d] = pc[d] /\ wake'[d] = wake[d]
<1>1. CASE dl > 0 /\ now + retry > dl
  BY <1>1 DEF SleepOrGiveUp, Leave, SleptWell, TypeOK
<1>2. CASE ~(dl > 0 /\ now + retry > dl)
  BY <1>2 DEF SleepOrGiveUp, Sleep, SleptWell, TypeOK
<1> QED BY <1>1, <1>2

\* One evaluation of the wait loop puts at most its own caller to sleep.
LEMMA AttemptWell ==
  ASSUME TypeOK, NEW c \in Callers, NEW r \in Requests, NEW dl \in Nat,
         Attempt(c, r, dl)
  PROVE  /\ SleptWell(c, dl)
         /\ \A d \in Callers \ {c} : pc'[d] = pc[d] /\ wake'[d] = wake[d]
<1> USE DEF Attempt
<1>1. CASE Consume(c, r)
  BY <1>1 DEF Consume, SleptWell, TypeOK
<1>2. CASE RefuseCooldown(c, r, dl)
  <2>1. PICK b \in BucketsOf(r) : /\ \A d \in BucketsOf(r) : cooldown[d] <= cooldown[b]
                                  /\ SleepOrGiveUp(c, r, dl, cooldown[b] - now)
    BY <1>2 DEF RefuseCooldown
  <2>2. cooldown[b] - now \in Nat /\ cooldown[b] - now > 0
    BY <1>2, <2>1 DEF RefuseCooldown, InCooldown, BucketsOf, TypeOK
  <2> QED BY <2>1, <2>2, SleepOrGiveUpWell
<1>3. CASE RefuseInterval(c, r, dl)
  <2>1. PICK s \in ScopeSet(r) : /\ \A t \in ScopeSet(r) : Interval(t) <= Interval(s)
                                 /\ SleepOrGiveUp(c, r, dl, Interval(s))
    BY <1>3 DEF RefuseInterval
  <2>2. ScopesOf[r] \in Seq(Scopes)
    BY RequestAssumption
  <2>3. \A i \in DOMAIN ScopesOf[r] : ScopesOf[r][i] \in Scopes
    BY <2>2
  <2>4. \A t \in ScopeSet(r) : Interval(t) \in Int
    BY <2>3, BucketAssumption DEF Interval, ScopeSet, TypeOK
  <2>5. Interval(s) \in Nat /\ Interval(s) > 0
    BY <1>3, <2>1, <2>4 DEF RefuseInterval, TooSoon
  <2> QED BY <2>1, <2>5, SleepOrGiveUpWell
<1>4. CASE RefuseBudget(c, r, dl)
  <2>1. PICK b \in BucketsOf(r) : SleepOrGiveUp(c, r, dl, BudgetRetryMs(r, b))
    BY <1>4 DEF RefuseBudget
  <2>2. BudgetRetryMs(r, b) \in Nat /\ BudgetRetryMs(r, b) > 0
    BY <2>1, BudgetRetryType, BudgetRetryPositive DEF BucketsOf
  <2> QED BY <2>1, <2>2, SleepOrGiveUpWell
<1> QED BY <1>1, <1>2, <1>3, <1>4

(* WaitsEnd for every configuration: every sleep of the wait loop is positive,
   ends by the deadline of the wait, and the deadline never moves. *)
THEOREM WaitsBounded == Spec => WaitsEnd
<1> DEFINE Bounded(c) ==
      (pc'[c] = "waiting" /\ (pc[c] # "waiting" \/ wake'[c] # wake[c])) =>
        /\ wake'[c] > now
        /\ deadline'[c] > 0 => wake'[c] <= deadline'[c]
        /\ pc[c] = "waiting" => deadline'[c] = deadline[c]
<1>1. TypeOK /\ [Next]_vars => [\A c \in Callers : Bounded(c)]_vars
  <2> SUFFICES ASSUME TypeOK, [Next]_vars, NEW c \in Callers PROVE Bounded(c)
    OBVIOUS
  <2>1. ASSUME NEW d \in Callers, Call(d) PROVE Bounded(c)
    <3>1. PICK r \in Requests, timeout \in Timeouts :
            Attempt(d, r, IF timeout > 0 THEN now + timeout ELSE 0)
      BY <2>1 DEF Call
    <3>2. (IF timeout > 0 THEN now + timeout ELSE 0) \in Nat
      BY TimeAssumption DEF TypeOK
    <3>3. CASE d = c
      BY <3>1, <3>2, <3>3, <2>1, AttemptWell DEF SleptWell, Call
    <3>4. CASE d # c
      BY <3>1, <3>2, <3>4, AttemptWell
    <3> QED BY <3>3, <3>4
  <2>2. ASSUME NEW d \in Callers, Wake(d) PROVE Bounded(c)
    <3>1. request[d] \in Requests /\ deadline[d] \in Nat /\ Attempt(d, request[d], deadline[d])
      BY <2>2 DEF Wake, TypeOK
    <3>2. CASE d = c
      BY <3>1, <3>2, AttemptWell DEF SleptWell
    <3>3. CASE d # c
      BY <3>1, <3>3, AttemptWell
    <3> QED BY <3>2, <3>3
  <2>3. ASSUME NEW d \in Callers, Answered(d) \/ Limited(d) PROVE Bounded(c)
    BY <2>3 DEF Answered, Limited, Leave, TypeOK
  <2>4. CASE Reload \/ Tick \/ Observe
    BY <2>4 DEF Reload, Tick, Observe
  <2>5. CASE UNCHANGED vars
    BY <2>5 DEF vars
  <2> QED BY <2>1, <2>2, <2>3, <2>4, <2>5 DEF Next
<1> QED BY <1>1, TypeCorrect, PTL DEF Spec, WaitsEnd

-----------------------------------------------------------------------------
\* A quotient rounded up: q steps of r cover d, and one step less does not.
LEMMA RoundedUp ==
  ASSUME NEW d \in Nat \ {0}, NEW r \in Nat \ {0}
  PROVE  LET q == (d + r - 1) \div r
         IN /\ q \in Nat /\ q >= 1
            /\ q * r >= d
            /\ (q - 1) * r < d
OBVIOUS

(* RetryIsExact for every capacity, refill and weight: _budget_retry_ms tells a
   caller that is short of tokens the first millisecond at which the bucket,
   left alone, covers the request. *)
THEOREM RetryExact == Spec => []RetryIsExact
<1>1. TypeOK => RetryIsExact
  <2> SUFFICES ASSUME TypeOK, NEW r \in Requests, NEW b \in BucketsOf(r),
                      Short(r, b), Refill[b] > 0
               PROVE  LET have == Refilled(b)
                          wait == BudgetRetryMs(r, b)
                      IN /\ have + wait * Refill[b] >= Weight[r]
                         /\ have + (wait - 1) * Refill[b] < Weight[r]
    BY DEF RetryIsExact
  <2> DEFINE have == Refilled(b)
             d == Weight[r] - have
             q == (d + Refill[b] - 1) \div Refill[b]
  <2>1. b \in Buckets /\ Weight[r] \in Nat /\ Refill[b] \in Nat \ {0}
    BY RequestAssumption, BucketAssumption DEF BucketsOf
  <2>2. have \in Nat /\ d \in Nat \ {0}
    BY <2>1, RefilledType DEF Short
  <2>3. q \in Nat /\ q >= 1 /\ q * Refill[b] >= d /\ (q - 1) * Refill[b] < d
    BY <2>1, <2>2, RoundedUp
  <2>4. BudgetRetryMs(r, b) = q
    <3>1. BudgetRetryMs(r, b) = Greater(1, q)
      BY <2>1 DEF BudgetRetryMs
    <3> HIDE DEF q
    <3> QED BY <3>1, <2>3
  <2>5. Weight[r] = have + d
    BY <2>1, <2>2
  <2> HIDE DEF q, d
  <2> DEFINE all == q * Refill[b]
             less == (q - 1) * Refill[b]
  <2>6. all \in Int /\ less \in Int
    BY <2>1, <2>3
  <2>7. all >= d /\ less < d
    BY <2>3
  <2> HIDE DEF all, less, have
  <2>8. have + all >= Weight[r] /\ have + less < Weight[r]
    BY <2>2, <2>5, <2>6, <2>7
  <2> QED BY <2>4, <2>8 DEF all, less, have
<1> QED BY <1>1, TypeCorrect, PTL DEF Spec
-----------------------------------------------------------------------------
(* The two promises about a grant.  They need what the engine remembers to be
   right: a scope's last request is not in the future, and a bucket's cooldown
   lasts as long as the longest ban that was told for it. *)

Remembered ==
  /\ \A s \in Scopes : lastRequest[s] <= now
  /\ \A b \in Buckets : told[b] <= cooldown[b]

\* A step that grants nothing leaves what the engine remembers, and so does a
\* grant, which records its own moment.
LEMMA AttemptRemembered ==
  ASSUME TypeOK, Remembered, NEW c, NEW r, NEW dl, Attempt(c, r, dl)
  PROVE  Remembered'
<1>1. now \in Nat /\ now' = now /\ told' = told /\ cooldown' = cooldown
  BY DEF Attempt, Consume, RefuseCooldown, RefuseInterval, RefuseBudget, engine, TypeOK
<1>2. \A s \in Scopes : lastRequest'[s] \in {now, lastRequest[s]}
  BY DEF Attempt, Consume, RefuseCooldown, RefuseInterval, RefuseBudget, engine, TypeOK
<1> QED BY <1>1, <1>2 DEF Remembered

LEMMA LimitedRemembered ==
  ASSUME TypeOK, Remembered, NEW c \in Callers, Limited(c)
  PROVE  Remembered'
<1>1. PICK after \in RetryAfters :
        LET delay(b) == IF after > 0 THEN after ELSE BackoffDelay(failures[b])
            hit == BucketsOf(request[c])
        IN /\ cooldown' = [b \in Buckets |->
                IF b \in hit THEN Greater(cooldown[b], now + delay(b)) ELSE cooldown[b]]
           /\ told' = [b \in Buckets |->
                IF b \in hit THEN Greater(told[b], now + delay(b)) ELSE told[b]]
  BY DEF Limited
<1> DEFINE delay(b) == IF after > 0 THEN after ELSE BackoffDelay(failures[b])
<1>2. ASSUME NEW b \in Buckets PROVE told'[b] <= cooldown'[b]
  <2>1. delay(b) \in Nat
    <3>1. b \in Scopes /\ after \in Nat
      BY ScopesAssumption, TimeAssumption
    <3>2. failures[b] \in Nat
      BY <3>1 DEF TypeOK
    <3>3. BackoffDelay(failures[b]) \in Nat
      BY <3>2, BackoffType
    <3> QED BY <3>1, <3>3
  <2>2. told[b] \in Nat /\ cooldown[b] \in Nat /\ now \in Nat /\ told[b] <= cooldown[b]
    BY DEF TypeOK, Remembered
  <2>3. \/ told'[b] = told[b] /\ cooldown'[b] = cooldown[b]
        \/ /\ told'[b] = Greater(told[b], now + delay(b))
           /\ cooldown'[b] = Greater(cooldown[b], now + delay(b))
    BY <1>1
  <2> HIDE DEF delay
  <2> QED BY <2>1, <2>2, <2>3
<1>3. lastRequest' = lastRequest /\ now' = now
  BY DEF Limited
<1> QED BY <1>2, <1>3 DEF Remembered

LEMMA NextRemembered ==
  ASSUME TypeOK, Remembered, [Next]_vars
  PROVE  Remembered'
<1>1. ASSUME NEW c \in Callers, Call(c) \/ Wake(c) PROVE Remembered'
  BY <1>1, AttemptRemembered DEF Call, Wake
<1>2. ASSUME NEW c \in Callers, Answered(c) PROVE Remembered'
  BY <1>2 DEF Answered, engine, observer, Remembered
<1>3. CASE Reload
  BY <1>3 DEF Reload, Remembered, TypeOK
<1>4. CASE Tick
  BY <1>4 DEF Tick, engine, observer, Remembered, TypeOK
<1>5. CASE Observe
  BY <1>5 DEF Observe, engine, Remembered
<1>6. CASE UNCHANGED vars
  BY <1>6 DEF vars, engine, observer, Remembered
<1> QED BY <1>1, <1>2, <1>3, <1>4, <1>5, <1>6, LimitedRemembered DEF Next

LEMMA InitRemembered == ASSUME Init PROVE Remembered
BY DEF Init, Remembered

\* A grant is a Consume of the request that it grants.
LEMMA GrantConsumes ==
  ASSUME TypeOK, [Next]_vars, NEW c \in Callers, Granted(c)
  PROVE  Consume(c, request'[c])
<1>1. ASSUME NEW d \in Callers, NEW r, NEW dl, Attempt(d, r, dl)
      PROVE  Consume(c, request'[c])
  <2>1. Consume(d, r) \/ Leave(d) \/ \E retry : Sleep(d, r, dl, retry)
    BY <1>1 DEF Attempt, RefuseCooldown, RefuseInterval, RefuseBudget, SleepOrGiveUp
  <2>2. Consume(d, r) /\ d = c
    BY <2>1 DEF Leave, Sleep, Consume, Granted, TypeOK
  <2>3. request'[c] = r
    BY <2>2 DEF Consume, TypeOK
  <2> QED BY <2>2, <2>3
<1>2. ASSUME NEW d \in Callers, Call(d) \/ Wake(d) PROVE Consume(c, request'[c])
  BY <1>1, <1>2 DEF Call, Wake
<1>3. ASSUME NEW d \in Callers, Answered(d) \/ Limited(d) PROVE FALSE
  BY <1>3 DEF Answered, Limited, Leave, Granted, TypeOK
<1>4. CASE Reload \/ Tick \/ Observe \/ UNCHANGED vars
  BY <1>4 DEF Reload, Tick, Observe, vars, Granted
<1> QED BY <1>2, <1>3, <1>4 DEF Next

(* LongestBanHonoured for every configuration: no request leaves before the
   longest ban told for one of its buckets since the last reload has ended. *)
THEOREM BansHonoured == Spec => LongestBanHonoured
<1>1. Init => Remembered
  BY InitRemembered
<1>2. TypeOK /\ Remembered /\ [Next]_vars => Remembered'
  BY NextRemembered
<1>3. TypeOK /\ Remembered /\ [Next]_vars
        => [\A c \in Callers : Granted(c) =>
              \A b \in BucketsOf(request'[c]) : told[b] <= now]_vars
  <2> SUFFICES ASSUME TypeOK, Remembered, [Next]_vars, NEW c \in Callers, Granted(c),
                      NEW b \in BucketsOf(request'[c])
               PROVE  told[b] <= now
    OBVIOUS
  <2>1. ~(cooldown[b] > now)
    BY GrantConsumes DEF Consume, InCooldown
  <2>2. b \in Buckets
    BY DEF BucketsOf
  <2> QED BY <2>1, <2>2 DEF Remembered, TypeOK
<1> QED BY <1>1, <1>2, <1>3, TypeCorrect, PTL DEF Spec, LongestBanHonoured

(* GrantsSpaced for every configuration: two grants of a scope are the scope's
   minimum interval apart, however many callers wake in the same millisecond. *)
THEOREM GrantsApart == Spec => GrantsSpaced
<1>1. Init => Remembered
  BY InitRemembered
<1>2. TypeOK /\ Remembered /\ [Next]_vars => Remembered'
  BY NextRemembered
<1>3. TypeOK /\ Remembered /\ [Next]_vars
        => [\A c \in Callers : Granted(c) =>
              \A s \in ScopeSet(request'[c]) :
                lastRequest[s] > 0 => now - lastRequest[s] >= MinInterval[s]]_vars
  <2> SUFFICES ASSUME TypeOK, Remembered, [Next]_vars, NEW c \in Callers, Granted(c),
                      NEW s \in ScopeSet(request'[c]), lastRequest[s] > 0
               PROVE  now - lastRequest[s] >= MinInterval[s]
    OBVIOUS
  <2>1. Consume(c, request'[c])
    BY GrantConsumes
  <2>2. ~(Interval(s) > 0)
    BY <2>1 DEF Consume, TooSoon
  <2>3. s \in Scopes
    <3>1. request'[c] \in Requests
      <4>1. TypeOK'
        BY TypeStep
      <4> QED BY <4>1 DEF TypeOK, Granted
    <3>2. ScopesOf[request'[c]] \in Seq(Scopes)
      BY <3>1, RequestAssumption
    <3> QED BY <3>2 DEF ScopeSet
  <2>4. now \in Nat /\ lastRequest[s] \in Nat /\ MinInterval[s] \in Nat /\ lastRequest[s] <= now
    BY <2>3, BucketAssumption DEF TypeOK, Remembered
  <2> QED BY <2>2, <2>4 DEF Interval
<1> QED BY <1>1, <1>2, <1>3, TypeCorrect, PTL DEF Spec, GrantsSpaced

HIDE DEF Lesser, Greater, Charged, Banned

-----------------------------------------------------------------------------
(* Sequences of sequences, one after the other.                            *)

\* Induction over the naturals for a set of them.
LEMMA CountingUp ==
  ASSUME NEW G \in SUBSET Nat, 0 \in G, \A n \in G : n + 1 \in G
  PROVE  \A n \in Nat : n \in G
<1> SUFFICES ASSUME Nat \ G # {} PROVE FALSE
  OBVIOUS
<1>1. \E x \in Nat \ G : \A y \in Nat \ G : <<y, x>> \notin OpToRel(<, Nat)
  BY NatLessThanWellFounded, WFMin
<1>2. PICK x \in Nat \ G : \A y \in Nat \ G : <<y, x>> \notin OpToRel(<, Nat)
  BY <1>1
<1>3. x # 0 /\ x - 1 \in Nat
  <2>1. x \in Nat /\ x \notin G
    BY <1>2
  <2>2. x # 0
    BY <2>1
  <2> QED BY <2>1, <2>2
<1>4. <<x - 1, x>> \in OpToRel(<, Nat)
  BY <1>3 DEF OpToRel
<1>5. x - 1 \in G
  BY <1>2, <1>3, <1>4
<1>6. (x - 1) + 1 \in G
  BY <1>5
<1>7. x \in Nat /\ x \notin G
  BY <1>2
<1>8. (x - 1) + 1 = x
  BY <1>7
<1> QED BY <1>6, <1>7, <1>8

Numbers == Seq(Nat)
\* r[i] is what the first i of the sequences g give together.
JoinsTo(g, n, r) ==
    /\ r \in [0..n -> Numbers]
    /\ r[0] = <<>>
    /\ \A i \in 1..n : r[i] = r[i - 1] \o g[i]
Joins(g, r) == JoinsTo(g, Len(g), r)

LEMMA JoinsExist ==
  ASSUME NEW g \in Seq(Numbers) PROVE \E r : Joins(g, r)
<1> DEFINE G == {n \in Nat : n <= Len(g) => \E r : JoinsTo(g, n, r)}
<1>1. 0 \in G
  <2> DEFINE r == [i \in 0..0 |-> <<>>]
  <2>1. JoinsTo(g, 0, r)
    BY DEF Numbers, JoinsTo
  <2> QED BY <2>1
<1>2. ASSUME NEW n \in G PROVE n + 1 \in G
  <2> SUFFICES ASSUME n + 1 <= Len(g) PROVE \E r : JoinsTo(g, n + 1, r)
    OBVIOUS
  <2>0. n \in Nat /\ n <= Len(g)
    OBVIOUS
  <2>1. PICK r : JoinsTo(g, n, r)
    BY <2>0
  <2> DEFINE q == [i \in 0..(n + 1) |-> IF i = n + 1 THEN r[n] \o g[n + 1] ELSE r[i]]
  <2>2. g[n + 1] \in Numbers /\ r[n] \in Numbers
    BY <2>0, <2>1 DEF JoinsTo
  <2>3. r[n] \o g[n + 1] \in Numbers
    BY <2>2 DEF Numbers
  <2>4. q \in [0..(n + 1) -> Numbers] /\ q[0] = <<>>
    BY <2>0, <2>1, <2>3 DEF JoinsTo
  <2>5. ASSUME NEW i \in 1..(n + 1) PROVE q[i] = q[i - 1] \o g[i]
    <3>1. i - 1 \in 0..n /\ q[i - 1] = r[i - 1]
      BY <2>0
    <3>2. CASE i = n + 1
      <4>1. i - 1 = n
        BY <2>0, <3>2
      <4> QED BY <3>1, <3>2, <4>1
    <3>3. CASE i \in 1..n
      <4>1. q[i] = r[i]
        BY <2>0, <3>3
      <4> QED BY <2>1, <3>1, <3>3, <4>1 DEF JoinsTo
    <3> QED BY <2>0, <3>2, <3>3
  <2>6. JoinsTo(g, n + 1, q)
    BY <2>4, <2>5 DEF JoinsTo
  <2> QED BY <2>6
<1>3. Len(g) \in G
  <2>1. G \in SUBSET Nat
    OBVIOUS
  <2> HIDE DEF G
  <2> QED BY <2>1, <1>1, <1>2, CountingUp
<1>4. Len(g) \in Nat /\ Len(g) <= Len(g)
  OBVIOUS
<1> QED BY <1>3, <1>4 DEF Joins, JoinsTo

\* Where two sequences of sequences agree, so does what they give.
LEMMA JoinsAgree ==
  ASSUME NEW g \in Seq(Numbers), NEW h \in Seq(Numbers), NEW r, NEW q, Joins(g, r), Joins(h, q),
         NEW m \in Nat, m <= Len(g), m <= Len(h), \A i \in 1..m : g[i] = h[i]
  PROVE  r[m] = q[m]
<1> DEFINE G == {n \in Nat : n <= m => r[n] = q[n]}
<1>1. 0 \in G
  BY DEF Joins, JoinsTo
<1>2. ASSUME NEW n \in G PROVE n + 1 \in G
  <2> SUFFICES ASSUME n + 1 <= m PROVE r[n + 1] = q[n + 1]
    OBVIOUS
  <2>1. n \in Nat /\ r[n] = q[n] /\ n + 1 \in 1..m /\ n + 1 \in 1..Len(g) /\ n + 1 \in 1..Len(h)
    OBVIOUS
  <2>2. r[n + 1] = r[(n + 1) - 1] \o g[n + 1] /\ q[n + 1] = q[(n + 1) - 1] \o h[n + 1]
    BY <2>1 DEF Joins, JoinsTo
  <2>3. (n + 1) - 1 = n
    BY <2>1
  <2> QED BY <2>1, <2>2, <2>3
<1>3. m \in G
  <2>1. G \in SUBSET Nat
    OBVIOUS
  <2> HIDE DEF G
  <2> QED BY <2>1, <1>1, <1>2, CountingUp
<1> QED BY <1>3

\* FlattenSeq gives all of them together.
LEMMA FlattenIs ==
  ASSUME NEW g \in Seq(Numbers), NEW r, Joins(g, r)
  PROVE  FlattenSeq(g) = r[Len(g)]
<1>1. CASE Len(g) = 0
  <2>1. g = <<>>
    BY <1>1
  <2> QED BY <1>1, <2>1 DEF FlattenSeq, Joins, JoinsTo
<1>2. CASE Len(g) # 0
  <2> DEFINE n == Len(g)
             Rec(f) == f = [i \in 1..n |-> IF i = 1 THEN g[i] ELSE f[i - 1] \o g[i]]
             flat == CHOOSE f : Rec(f)
             e == [i \in 1..n |-> r[i]]
  <2>1. n \in Nat /\ n > 0
    BY <1>2
  <2>2. r[1] = g[1]
    <3>1. r[1] = r[0] \o g[1] /\ g[1] \in Numbers
      BY <2>1 DEF Joins, JoinsTo
    <3> QED BY <3>1 DEF Joins, JoinsTo, Numbers
  <2>3. Rec(e)
    BY <2>1, <2>2 DEF Joins, JoinsTo
  <2>4. Rec(flat)
    BY <2>3
  <2>5. FlattenSeq(g) = flat[n]
    BY <1>2 DEF FlattenSeq
  <2> HIDE DEF flat
  <2> DEFINE G == {k \in Nat : k \in 1..n => flat[k] = r[k]}
  <2>6. 0 \in G
    OBVIOUS
  <2>7. ASSUME NEW k \in G PROVE k + 1 \in G
    <3> SUFFICES ASSUME k + 1 \in 1..n PROVE flat[k + 1] = r[k + 1]
      OBVIOUS
    <3>1. k \in Nat /\ (k # 0 => flat[k] = r[k])
      BY <2>1
    <3>2. flat[k + 1] = IF k + 1 = 1 THEN g[k + 1] ELSE flat[(k + 1) - 1] \o g[k + 1]
      BY <2>4
    <3>3. r[k + 1] = r[(k + 1) - 1] \o g[k + 1]
      BY DEF Joins, JoinsTo
    <3>4. (k + 1) - 1 = k
      BY <3>1
    <3>5. CASE k = 0
      BY <2>2, <3>2, <3>5
    <3>6. CASE k # 0
      <4>1. k + 1 # 1 /\ flat[k] = r[k]
        BY <3>1, <3>6
      <4>2. flat[k + 1] = flat[k] \o g[k + 1] /\ r[k + 1] = r[k] \o g[k + 1]
        BY <3>2, <3>3, <3>4, <4>1
      <4> QED BY <4>1, <4>2
    <3> QED BY <3>5, <3>6
  <2>8. n \in G
    <3>1. G \in SUBSET Nat
      OBVIOUS
    <3> HIDE DEF G
    <3> QED BY <2>1, <3>1, <2>6, <2>7, CountingUp
  <2> QED BY <2>1, <2>5, <2>8
<1> QED BY <1>1, <1>2

LEMMA FlattenNone == FlattenSeq(<<>>) = <<>>
BY DEF FlattenSeq

LEMMA FlattenType ==
  ASSUME NEW g \in Seq(Numbers) PROVE FlattenSeq(g) \in Numbers
<1>1. PICK r : Joins(g, r)
  BY JoinsExist
<1> QED BY <1>1, FlattenIs DEF Joins, JoinsTo

\* One sequence more.
LEMMA FlattenMore ==
  ASSUME NEW g \in Seq(Numbers), NEW x \in Numbers, NEW h \in Seq(Numbers), Len(h) = Len(g) + 1,
         h[Len(g) + 1] = x, \A i \in 1..Len(g) : h[i] = g[i]
  PROVE  FlattenSeq(h) = FlattenSeq(g) \o x
<1>1. PICK r : Joins(g, r)
  BY JoinsExist
<1>2. PICK q : Joins(h, q)
  BY JoinsExist
<1> DEFINE n == Len(g)
<1>3. n \in Nat /\ n + 1 \in 1..Len(h) /\ (n + 1) - 1 = n
  OBVIOUS
<1>4. q[n] = r[n]
  BY <1>1, <1>2, <1>3, JoinsAgree
<1>5. q[n + 1] = q[(n + 1) - 1] \o h[n + 1]
  BY <1>2, <1>3 DEF Joins, JoinsTo
<1>6. FlattenSeq(g) = r[n] /\ FlattenSeq(h) = q[n + 1]
  BY <1>1, <1>2, FlattenIs
<1> QED BY <1>3, <1>4, <1>5, <1>6

Rises(s) == \A i, j \in DOMAIN s : i < j => s[i] < s[j]

LEMMA RisesTogether ==
  ASSUME NEW s \in Numbers, NEW t \in Numbers, Rises(s), Rises(t),
         \A i \in DOMAIN s, j \in DOMAIN t : s[i] < t[j]
  PROVE  Rises(s \o t)
<1> SUFFICES ASSUME NEW i \in 1..Len(s \o t), NEW j \in 1..Len(s \o t), i < j
    PROVE  (s \o t)[i] < (s \o t)[j]
  BY DEF Rises, Numbers
<1>1. Len(s \o t) = Len(s) + Len(t) /\ DOMAIN s = 1..Len(s) /\ DOMAIN t = 1..Len(t)
  BY DEF Numbers
<1>2. (s \o t)[i] = IF i <= Len(s) THEN s[i] ELSE t[i - Len(s)]
  BY <1>1 DEF Numbers
<1>3. (s \o t)[j] = IF j <= Len(s) THEN s[j] ELSE t[j - Len(s)]
  BY <1>1 DEF Numbers
<1>4. Len(s) \in Nat /\ Len(t) \in Nat /\ i \in Nat /\ j \in Nat
  BY DEF Numbers
<1>5. CASE j <= Len(s)
  BY <1>1, <1>2, <1>3, <1>4, <1>5 DEF Rises
<1>6. CASE i <= Len(s) /\ j > Len(s)
  <2>1. i \in DOMAIN s /\ j - Len(s) \in DOMAIN t
    BY <1>1, <1>4, <1>6
  <2> QED BY <1>2, <1>3, <1>4, <1>6, <2>1
<1>7. CASE i > Len(s)
  <2>1. i - Len(s) \in DOMAIN t /\ j - Len(s) \in DOMAIN t /\ i - Len(s) < j - Len(s)
    BY <1>1, <1>4, <1>7
  <2>2. ~(i <= Len(s)) /\ ~(j <= Len(s))
    BY <1>4, <1>7
  <2> QED BY <1>2, <1>3, <2>1, <2>2 DEF Rises
<1> QED BY <1>4, <1>5, <1>6, <1>7

\* What comes of a sequence of rising sequences, each above the ones before it.
LEMMA FlattenRises ==
  ASSUME NEW g \in Seq(Numbers), \A i \in DOMAIN g : Rises(g[i]),
         \A i, j \in DOMAIN g : i < j =>
             \A a \in DOMAIN g[i], b \in DOMAIN g[j] : g[i][a] < g[j][b]
  PROVE  /\ Rises(FlattenSeq(g))
         /\ \A k \in DOMAIN FlattenSeq(g) : \E i \in DOMAIN g : \E a \in DOMAIN g[i] :
               FlattenSeq(g)[k] = g[i][a]
<1>1. PICK r : Joins(g, r)
  BY JoinsExist
<1> DEFINE From(n) == \A k \in DOMAIN r[n] : \E i \in 1..n : \E a \in DOMAIN g[i] : r[n][k] = g[i][a]
           G == {n \in Nat : n <= Len(g) => Rises(r[n]) /\ From(n)}
<1>2. 0 \in G
  <2>1. r[0] = <<>>
    BY <1>1 DEF Joins, JoinsTo
  <2> QED BY <2>1 DEF Rises
<1>3. ASSUME NEW n \in G PROVE n + 1 \in G
  <2> SUFFICES ASSUME n + 1 <= Len(g) PROVE Rises(r[n + 1]) /\ From(n + 1)
    OBVIOUS
  <2>1. n \in Nat /\ n <= Len(g) /\ Rises(r[n]) /\ From(n) /\ DOMAIN g = 1..Len(g)
    OBVIOUS
  <2>2. n + 1 \in 1..Len(g) /\ (n + 1) - 1 = n /\ n \in 0..Len(g)
    BY <2>1
  <2>3. r[n + 1] = r[n] \o g[n + 1] /\ r[n] \in Numbers /\ g[n + 1] \in Numbers /\ Rises(g[n + 1])
    <3>1. r[n + 1] = r[(n + 1) - 1] \o g[n + 1] /\ r[n] \in Numbers
      BY <1>1, <2>2 DEF Joins, JoinsTo
    <3>2. g[n + 1] \in Numbers /\ Rises(g[n + 1])
      BY <2>1, <2>2
    <3> QED BY <2>2, <3>1, <3>2
  <2> DEFINE s == r[n]
             t == g[n + 1]
  <2>4. \A i \in DOMAIN s, j \in DOMAIN t : s[i] < t[j]
    <3> TAKE i \in DOMAIN s, j \in DOMAIN t
    <3>1. PICK m \in 1..n : \E a \in DOMAIN g[m] : s[i] = g[m][a]
      BY <2>1
    <3>2. m \in DOMAIN g /\ n + 1 \in DOMAIN g /\ m < n + 1
      BY <2>1, <2>2
    <3> QED BY <3>1, <3>2
  <2>5. From(n + 1)
    <3> SUFFICES ASSUME NEW k \in DOMAIN r[n + 1]
        PROVE  \E i \in 1..(n + 1) : \E a \in DOMAIN g[i] : r[n + 1][k] = g[i][a]
      OBVIOUS
    <3> HIDE DEF s, t
    <3>1. r[n + 1] = s \o t /\ s \in Numbers /\ t \in Numbers
      BY <2>3 DEF s, t
    <3>2. k \in 1..(Len(s) + Len(t)) /\ Len(s) \in Nat /\ Len(t) \in Nat
          /\ DOMAIN s = 1..Len(s) /\ DOMAIN t = 1..Len(t)
      BY <3>1 DEF Numbers
    <3>3. r[n + 1][k] = IF k <= Len(s) THEN s[k] ELSE t[k - Len(s)]
      BY <3>1, <3>2 DEF Numbers
    <3>4. CASE k <= Len(s)
      <4>1. k \in DOMAIN s /\ r[n + 1][k] = s[k]
        BY <3>2, <3>3, <3>4
      <4>2. \E i \in 1..n : \E a \in DOMAIN g[i] : s[k] = g[i][a]
        BY <4>1, <2>1 DEF s
      <4> QED BY <4>1, <4>2, <2>1
    <3>5. CASE k > Len(s)
      <4>1. k - Len(s) \in DOMAIN t /\ r[n + 1][k] = t[k - Len(s)]
        BY <3>2, <3>3, <3>5
      <4>2. n + 1 \in 1..(n + 1)
        BY <2>1
      <4> QED BY <4>1, <4>2 DEF t
    <3> QED BY <3>2, <3>4, <3>5
  <2> HIDE DEF From
  <2>6. Rises(r[n + 1])
    BY <2>1, <2>3, <2>4, RisesTogether
  <2> QED BY <2>5, <2>6
<1>4. Len(g) \in G
  <2>1. G \in SUBSET Nat
    OBVIOUS
  <2> HIDE DEF G
  <2> QED BY <2>1, <1>2, <1>3, CountingUp
<1>5. FlattenSeq(g) = r[Len(g)]
  BY <1>1, FlattenIs
<1> QED BY <1>4, <1>5

-----------------------------------------------------------------------------
(* The lines of a file.                                                    *)

Cell == [fact : Nat \ {0}, half : {1, 2}]
\* A cell was written before another: of an earlier record, or of the same one.
Sooner(a, b) == a.fact < b.fact \/ (a.fact = b.fact /\ a.half < b.half)
Content == {c \in Seq(Cell) : \A p, q \in DOMAIN c : p < q => Sooner(c[p], c[q])}
\* A file does not end in the middle of a record.
Whole(c) == Len(c) = 0 \/ c[Len(c)].half = 2

Line(c, i) == IF LineAt(c, i) THEN <<c[i].fact>> ELSE <<>>
Pieces(c) == [i \in DOMAIN c |-> Line(c, i)]

LEMMA ParsedIs == ASSUME NEW c PROVE ParsedLines(c) = FlattenSeq(Pieces(c))
BY DEF ParsedLines, Pieces, Line

LEMMA LineType ==
  ASSUME NEW c \in Seq(Cell), NEW i \in DOMAIN c PROVE Line(c, i) \in Numbers
<1>1. c[i] \in Cell
  OBVIOUS
<1> QED BY <1>1 DEF Line, Cell, Numbers

LEMMA PiecesAre ==
  ASSUME NEW c \in Seq(Cell)
  PROVE  /\ Pieces(c) \in Seq(Numbers) /\ Len(Pieces(c)) = Len(c)
         /\ DOMAIN Pieces(c) = 1..Len(c) /\ DOMAIN c = 1..Len(c)
         /\ \A i \in DOMAIN c : Pieces(c)[i] = Line(c, i)
<1>1. DOMAIN c = 1..Len(c) /\ Len(c) \in Nat
  OBVIOUS
<1>2. Pieces(c) \in [1..Len(c) -> Numbers]
  BY <1>1, LineType DEF Pieces
<1>3. Pieces(c) \in Seq(Numbers)
  BY <1>1, <1>2, IsASeq
<1> QED BY <1>1, <1>2, <1>3 DEF Pieces

LEMMA ParsedNone == ParsedLines(<<>>) = <<>>
<1>0. <<>> \in Seq(Cell) /\ Len(<<>>) = 0
  OBVIOUS
<1>1. Pieces(<<>>) \in Seq(Numbers) /\ Len(Pieces(<<>>)) = Len(<<>>)
  BY <1>0, PiecesAre
<1>2. Pieces(<<>>) = <<>>
  BY <1>0, <1>1
<1> QED BY <1>2, ParsedIs, FlattenNone

LEMMA ParsedType ==
  ASSUME NEW c \in Seq(Cell) PROVE ParsedLines(c) \in Numbers
BY PiecesAre, ParsedIs, FlattenType

\* The facts of a file are read in the order they were written.
LEMMA ParsedRises ==
  ASSUME NEW c \in Content
  PROVE  /\ ParsedLines(c) \in Numbers /\ Rises(ParsedLines(c))
         /\ \A k \in DOMAIN ParsedLines(c) : \E i \in DOMAIN c : ParsedLines(c)[k] = c[i].fact
<1> DEFINE g == Pieces(c)
<1>0. c \in Seq(Cell)
  BY DEF Content
<1>1. /\ g \in Seq(Numbers) /\ DOMAIN g = DOMAIN c
      /\ \A i \in DOMAIN c : g[i] = Line(c, i) /\ c[i] \in Cell
  BY <1>0, PiecesAre
<1>2. ASSUME NEW i \in DOMAIN c, NEW a \in DOMAIN Line(c, i)
      PROVE  Line(c, i)[a] = c[i].fact /\ c[i].half = 2 /\ a = 1
  <2>1. LineAt(c, i)
    BY DEF Line
  <2>2. Line(c, i) = <<c[i].fact>> /\ a = 1
    BY <2>1 DEF Line
  <2>3. c[i] = [fact |-> c[i].fact, half |-> 2]
    BY <2>1 DEF LineAt, Half
  <2>4. c[i].half = 2
    BY <2>3
  <2> QED BY <2>2, <2>4
<1>3. ASSUME NEW i \in DOMAIN g PROVE Rises(g[i])
  BY <1>1, <1>2 DEF Rises
<1>4. ASSUME NEW i \in DOMAIN g, NEW j \in DOMAIN g, i < j,
             NEW a \in DOMAIN g[i], NEW b \in DOMAIN g[j]
      PROVE  g[i][a] < g[j][b]
  <2>1. g[i][a] = c[i].fact /\ c[i].half = 2 /\ g[j][b] = c[j].fact /\ c[j].half = 2
    BY <1>1, <1>2
  <2>2. Sooner(c[i], c[j])
    BY <1>1, <1>4 DEF Content
  <2> QED BY <2>1, <2>2 DEF Sooner
<1>5. ParsedLines(c) = FlattenSeq(g)
  BY ParsedIs
<1>6. \A i \in DOMAIN g : \A a \in DOMAIN g[i] : g[i][a] = c[i].fact
  BY <1>1, <1>2
<1> HIDE DEF g
<1>7. /\ Rises(FlattenSeq(g))
      /\ \A k \in DOMAIN FlattenSeq(g) : \E i \in DOMAIN g : \E a \in DOMAIN g[i] :
            FlattenSeq(g)[k] = g[i][a]
  BY <1>1, <1>3, <1>4, FlattenRises
<1>8. FlattenSeq(g) \in Numbers
  BY <1>1, FlattenType
<1> QED BY <1>1, <1>5, <1>6, <1>7, <1>8

\* The two cells of one record.
Two(f) == <<[fact |-> f, half |-> 1], [fact |-> f, half |-> 2]>>

LEMMA TwoType == ASSUME NEW f \in Nat \ {0} PROVE Two(f) \in Seq(Cell) /\ Len(Two(f)) = 2
BY DEF Two, Cell

LEMMA TwoMore ==
  ASSUME NEW c \in Seq(Cell), NEW f \in Nat \ {0}
  PROVE  /\ c \o Two(f) \in Seq(Cell) /\ Len(c \o Two(f)) = Len(c) + 2
         /\ \A i \in 1..Len(c) : (c \o Two(f))[i] = c[i]
         /\ (c \o Two(f))[Len(c) + 1] = [fact |-> f, half |-> 1]
         /\ (c \o Two(f))[Len(c) + 2] = [fact |-> f, half |-> 2]
<1>1. Two(f) \in Seq(Cell) /\ Len(Two(f)) = 2
  BY TwoType
<1>2. Two(f)[1] = [fact |-> f, half |-> 1] /\ Two(f)[2] = [fact |-> f, half |-> 2]
  BY DEF Two
<1> DEFINE t == Two(f)
<1>3. t \in Seq(Cell) /\ Len(t) = 2 /\ t[1] = [fact |-> f, half |-> 1] /\ t[2] = [fact |-> f, half |-> 2]
  BY <1>1, <1>2
<1> HIDE DEF t
<1>4. /\ c \o t \in Seq(Cell) /\ Len(c \o t) = Len(c) + 2
      /\ \A i \in 1..Len(c) : (c \o t)[i] = c[i]
      /\ (c \o t)[Len(c) + 1] = t[1]
      /\ (c \o t)[Len(c) + 2] = t[2]
  <2>0. t \in Seq(Cell) /\ Len(t) = 2
    BY <1>3
  <2> DEFINE S == Cell
  <2>5. c \in Seq(S) /\ t \in Seq(S) /\ Len(t) = 2
    BY <2>0
  <2> HIDE DEF S
  <2>7. Len(c) \in Nat
    BY <2>5
  <2>8. c \o t \in Seq(S) /\ Len(c \o t) = Len(c) + Len(t)
    BY <2>5, ConcatProperties
  <2>6. Len(c) \in Nat /\ c \o t \in Seq(S) /\ Len(c \o t) = Len(c) + 2
    BY <2>5, <2>7, <2>8
  <2>1. Len(c) \in Nat /\ c \o t \in Seq(Cell) /\ Len(c \o t) = Len(c) + 2
    BY <2>6 DEF S
  <2>2. ASSUME NEW i \in 1..Len(c) PROVE (c \o t)[i] = c[i]
    BY <1>3, <2>1
  <2>3. (c \o t)[Len(c) + 1] = t[1]
    BY <1>3, <2>1
  <2>4. (c \o t)[Len(c) + 2] = t[2]
    BY <1>3, <2>1
  <2> QED BY <2>1, <2>2, <2>3, <2>4
<1> QED BY <1>3, <1>4 DEF t

\* A record behind whole ones is read behind them.
LEMMA ParsedMore ==
  ASSUME NEW c \in Seq(Cell), Whole(c), NEW f \in Nat \ {0}
  PROVE  ParsedLines(c \o Two(f)) = ParsedLines(c) \o <<f>>
<1> DEFINE d == c \o Two(f)
           n == Len(c)
           m == [i \in 1..(n + 1) |-> IF i <= n THEN Pieces(c)[i] ELSE <<>>]
<1>1. /\ n \in Nat /\ d \in Seq(Cell) /\ Len(d) = n + 2 /\ DOMAIN c = 1..n
      /\ \A i \in 1..n : d[i] = c[i]
      /\ d[n + 1] = [fact |-> f, half |-> 1]
      /\ d[n + 2] = [fact |-> f, half |-> 2]
  BY TwoMore
<1>2. Whole(c) /\ \A i \in 1..n : c[i] \in Cell
  BY <1>1
<1> HIDE DEF d
<1>3. /\ Pieces(c) \in Seq(Numbers) /\ Len(Pieces(c)) = n
      /\ \A i \in 1..n : Pieces(c)[i] = Line(c, i) /\ Pieces(c)[i] \in Numbers
      /\ Pieces(d) \in Seq(Numbers) /\ Len(Pieces(d)) = n + 2
      /\ \A i \in 1..(n + 2) : Pieces(d)[i] = Line(d, i)
  BY <1>1, PiecesAre
<1>4. ASSUME NEW i \in 1..n PROVE Line(d, i) = Line(c, i)
  <2>0. i \in Nat /\ (i >= 2 => i - 1 \in 1..n) /\ (i > 2 => i - 2 \in 1..n)
    BY <1>1
  <2>1. /\ d[i] = c[i]
        /\ i >= 2 => d[i - 1] = c[i - 1]
        /\ i > 2 => d[i - 2] = c[i - 2]
    BY <1>1, <2>0
  <2>2. LineAt(d, i) <=> LineAt(c, i)
    BY <2>1 DEF LineAt
  <2> QED BY <2>1, <2>2 DEF Line
<1>5. Line(d, n + 1) = <<>>
  <2>1. d[n + 1].half = 1
    BY <1>1
  <2>2. ~LineAt(d, n + 1)
    <3> SUFFICES ASSUME LineAt(d, n + 1) PROVE FALSE
      OBVIOUS
    <3>1. d[n + 1] = [fact |-> d[n + 1].fact, half |-> 2]
      BY DEF LineAt, Half
    <3>2. d[n + 1].half = 2
      BY <3>1
    <3> QED BY <2>1, <3>2
  <2> QED BY <2>2 DEF Line
<1>6. Line(d, n + 2) = <<f>>
  <2>1. d[n + 2].fact = f /\ (n + 2) - 1 = n + 1 /\ (n + 2) - 2 = n
    BY <1>1
  <2>2. n + 2 > 2 => n \in 1..n /\ d[n].half = 2
    BY <1>1, <1>2 DEF Whole
  <2>3. LineAt(d, n + 2)
    BY <1>1, <2>1, <2>2 DEF LineAt, Half
  <2> QED BY <2>1, <2>3 DEF Line
<1>7. /\ m \in Seq(Numbers) /\ Len(m) = n + 1 /\ m[n + 1] = <<>>
      /\ \A i \in 1..n : m[i] = Pieces(c)[i]
  <2>1. <<>> \in Numbers
    BY DEF Numbers
  <2>2. m \in [1..(n + 1) -> Numbers]
    BY <1>1, <1>3, <2>1
  <2>3. m \in Seq(Numbers)
    BY <1>1, <2>2, IsASeq
  <2> QED BY <1>1, <2>2, <2>3
<1> HIDE DEF m
<1>8. FlattenSeq(m) = FlattenSeq(Pieces(c)) \o <<>>
  <2>1. <<>> \in Numbers
    BY DEF Numbers
  <2>2. Len(m) = Len(Pieces(c)) + 1 /\ m[Len(Pieces(c)) + 1] = <<>>
        /\ \A i \in 1..Len(Pieces(c)) : m[i] = Pieces(c)[i]
    BY <1>3, <1>7
  <2> QED BY <1>3, <1>7, <2>1, <2>2, FlattenMore
<1>9. FlattenSeq(Pieces(d)) = FlattenSeq(m) \o <<f>>
  <2>1. <<f>> \in Numbers
    BY DEF Numbers
  <2>2. \A i \in 1..(n + 1) : Pieces(d)[i] = m[i]
    <3> TAKE i \in 1..(n + 1)
    <3>1. CASE i \in 1..n
      <4>1. i \in 1..(n + 2)
        BY <1>1
      <4> QED BY <1>3, <1>4, <1>7, <3>1, <4>1
    <3>2. CASE i = n + 1
      <4>1. n + 1 \in 1..(n + 2)
        BY <1>1
      <4> QED BY <1>3, <1>5, <1>7, <3>2, <4>1
    <3> QED BY <1>1, <3>1, <3>2
  <2>3. Len(Pieces(d)) = Len(m) + 1 /\ Pieces(d)[Len(m) + 1] = <<f>>
    <3>1. n + 2 \in 1..(n + 2) /\ (n + 1) + 1 = n + 2
      BY <1>1
    <3> QED BY <1>3, <1>6, <1>7, <3>1
  <2> QED BY <1>3, <1>7, <2>1, <2>2, <2>3, FlattenMore
<1>10. FlattenSeq(Pieces(c)) \in Numbers
  BY <1>3, FlattenType
<1>11. FlattenSeq(Pieces(c)) \o <<>> = FlattenSeq(Pieces(c))
  BY <1>10 DEF Numbers
<1> QED BY <1>8, <1>9, <1>11, ParsedIs DEF d

\* A part of a file.
LEMMA PartIs ==
  ASSUME NEW c \in Content, NEW m \in Nat, NEW n \in Nat, n <= Len(c)
  PROVE  /\ SubSeq(c, m + 1, n) \in Content
         /\ Len(SubSeq(c, m + 1, n)) = IF m <= n THEN n - m ELSE 0
         /\ \A i \in DOMAIN SubSeq(c, m + 1, n) :
               m + i \in DOMAIN c /\ m + i <= n /\ SubSeq(c, m + 1, n)[i] = c[m + i]
<1> DEFINE d == SubSeq(c, m + 1, n)
<1>1. /\ c \in Seq(Cell) /\ Len(c) \in Nat /\ DOMAIN c = 1..Len(c)
      /\ \A p, q \in DOMAIN c : p < q => Sooner(c[p], c[q])
  BY DEF Content
<1>2. \A i \in (m + 1)..n : c[i] \in Cell
  BY <1>1
<1>3. m + 1 \in Int /\ n \in Int
  OBVIOUS
<1>4. /\ d \in Seq(Cell)
      /\ Len(d) = IF m + 1 <= n THEN n - (m + 1) + 1 ELSE 0
      /\ \A i \in 1..(n - (m + 1) + 1) : d[i] = c[m + 1 + i - 1]
  BY <1>2, <1>3, SubSeqProperties
<1> HIDE DEF d
<1>5. Len(d) = IF m <= n THEN n - m ELSE 0
  BY <1>4
<1>6. DOMAIN d = 1..Len(d)
  BY <1>4
<1>7. ASSUME NEW i \in DOMAIN d
      PROVE  m + i \in DOMAIN c /\ m + i <= n /\ d[i] = c[m + i] /\ i \in Nat
  <2>1. i \in 1..Len(d) /\ i \in Nat
    BY <1>6
  <2>2. m <= n
    BY <1>5, <2>1
  <2>3. i \in 1..(n - (m + 1) + 1) /\ m + 1 + i - 1 = m + i
    BY <1>5, <2>1, <2>2
  <2>4. m + i <= n /\ m + i \in 1..Len(c)
    BY <1>1, <1>5, <2>1, <2>2
  <2> QED BY <1>1, <1>4, <2>1, <2>3, <2>4
<1>8. ASSUME NEW p \in DOMAIN d, NEW q \in DOMAIN d, p < q PROVE Sooner(d[p], d[q])
  <2>1. m + p < m + q
    BY <1>7, <1>8
  <2> QED BY <1>1, <1>7, <2>1
<1>9. d \in Content
  BY <1>4, <1>8 DEF Content
<1> QED BY <1>5, <1>7, <1>9 DEF d

-----------------------------------------------------------------------------
(* The files, in the order they were written.                              *)

AFile == [inode : Inodes, cells : Content, synced : Nat]
Files == [Slots -> AFile \cup {None}]
OneEach(s) ==
    \A i, j \in Slots : There(s, i) /\ There(s, j) /\ s[i].inode = s[j].inode => i = j
UpTo(s, n) == \A i \in Slots : \A p \in DOMAIN Cells(s, i) : Cells(s, i)[p].fact <= n
Newer(s) ==
    \A i, j \in Slots : i < j =>
        \A p \in DOMAIN Cells(s, i), q \in DOMAIN Cells(s, j) :
            Cells(s, j)[q].fact < Cells(s, i)[p].fact
Ordered(s, n) == s \in Files /\ OneEach(s) /\ UpTo(s, n) /\ Newer(s)

\* What can be known when n facts have been recorded.
Knows(k, n) == k \in Numbers /\ Rises(k) /\ \A i \in DOMAIN k : k[i] \in 1..n

\* Every fact of c after the cell p is newer than all that is known.
Behind(known, c, p) ==
    \A k \in DOMAIN known : \A q \in DOMAIN c : p < q => known[k] < c[q].fact
Ahead(s, snap) ==
    \A i \in Slots : Holds(s, i, snap.checkpoint) =>
        /\ Behind(snap.facts, Cells(s, i), snap.checkpoint.offset)
        /\ \A j \in Slots : j < i => Behind(snap.facts, Cells(s, j), 0)

Snapshots == [facts : Numbers, checkpoint : [inode : Inodes, offset : Nat]]
SnapOk(s, snap, n) ==
    snap # None => snap \in Snapshots /\ Knows(snap.facts, n) /\ Ahead(s, snap)

LEMMA FileIsThere == ASSUME NEW x \in AFile PROVE x # None
<1>1. "inode" \in DOMAIN x
  BY DEF AFile
<1>2. "inode" \notin DOMAIN None
  BY DEF None
<1> QED BY <1>1, <1>2

LEMMA SnapshotIsThere == ASSUME NEW x \in Snapshots PROVE x # None
<1>1. "facts" \in DOMAIN x
  BY DEF Snapshots
<1>2. "facts" \notin DOMAIN None
  BY DEF None
<1> QED BY <1>1, <1>2

LEMMA EmptyContent ==
  /\ <<>> \in Content /\ <<>> \in Seq(Cell) /\ Len(<<>>) = 0 /\ \A i : i \notin DOMAIN <<>>
BY DEF Content

LEMMA SlotsAre == /\ \A i \in Slots : i \in Nat /\ i <= ArchiveLimit
                  /\ \A i \in Nat : i <= ArchiveLimit => i \in Slots
                  /\ 0 \in Slots /\ ArchiveLimit \in Nat /\ ArchiveLimit >= 1
BY ArchiveAssumption DEF Slots

\* What is in a slot.
LEMMA SlotType ==
  ASSUME NEW s \in Files, NEW i \in Slots
  PROVE  /\ s[i] \in AFile \cup {None}
         /\ There(s, i) <=> s[i] \in AFile
         /\ There(s, i) => s[i].inode \in Inodes /\ Cells(s, i) = s[i].cells /\ s[i].synced \in Nat
         /\ ~There(s, i) => Cells(s, i) = <<>>
         /\ Cells(s, i) \in Content /\ Cells(s, i) \in Seq(Cell) /\ Len(Cells(s, i)) \in Nat
         /\ DOMAIN Cells(s, i) = 1..Len(Cells(s, i))
         /\ \A p \in DOMAIN Cells(s, i) : Cells(s, i)[p].fact \in Nat \ {0}
<1>1. s[i] \in AFile \cup {None}
  BY DEF Files
<1>2. There(s, i) <=> s[i] \in AFile
  BY <1>1, FileIsThere DEF There
<1>3. There(s, i) => /\ s[i].inode \in Inodes /\ s[i].cells \in Content /\ s[i].synced \in Nat
                     /\ Cells(s, i) = s[i].cells
  BY <1>2 DEF AFile, Cells
<1>4. ~There(s, i) => Cells(s, i) = <<>>
  BY DEF Cells
<1>5. Cells(s, i) \in Content
  BY <1>3, <1>4, EmptyContent
<1> DEFINE c == Cells(s, i)
<1>6. c \in Seq(Cell)
  BY <1>5 DEF Content
<1> HIDE DEF c
<1>7. Len(c) \in Nat /\ DOMAIN c = 1..Len(c) /\ \A p \in DOMAIN c : c[p] \in Cell
  BY <1>6
<1>8. \A p \in DOMAIN c : c[p].fact \in Nat \ {0}
  BY <1>7 DEF Cell
<1> QED BY <1>1, <1>2, <1>3, <1>4, <1>5, <1>6, <1>7, <1>8 DEF c

\* The tail of the file in slot h from the cell after p on, and what was
\* written to newer files.
LaterOf(s, h) == [k \in 1..h |-> ParsedLines(Cells(s, h - k))]
RestOf(s, h, p) == SubSeq(Cells(s, h), p + 1, Len(Cells(s, h)))
TailFrom(s, h, p) == ParsedLines(RestOf(s, h, p)) \o FlattenSeq(LaterOf(s, h))

LEMMA LaterType ==
  ASSUME NEW s \in Files, NEW h \in Slots
  PROVE  /\ LaterOf(s, h) \in Seq(Numbers) /\ Len(LaterOf(s, h)) = h
         /\ DOMAIN LaterOf(s, h) = 1..h
         /\ \A k \in 1..h : h - k \in Slots /\ h - k < h /\ LaterOf(s, h)[k] = ParsedLines(Cells(s, h - k))
         /\ FlattenSeq(LaterOf(s, h)) \in Numbers
<1>1. h \in Nat /\ h <= ArchiveLimit
  BY SlotsAre
<1>2. ASSUME NEW k \in 1..h PROVE h - k \in Slots /\ h - k < h
  BY <1>1, SlotsAre
<1>3. ASSUME NEW k \in 1..h PROVE ParsedLines(Cells(s, h - k)) \in Numbers
  BY <1>2, SlotType, ParsedType
<1>4. LaterOf(s, h) \in [1..h -> Numbers]
  BY <1>3 DEF LaterOf
<1>5. LaterOf(s, h) \in Seq(Numbers)
  BY <1>1, <1>4, IsASeq
<1>6. DOMAIN LaterOf(s, h) = 1..h
  BY DEF LaterOf
<1>7. Len(LaterOf(s, h)) = h
  BY <1>1, <1>5, <1>6
<1> QED BY <1>2, <1>5, <1>6, <1>7, FlattenType DEF LaterOf

LEMMA RestType ==
  ASSUME NEW s \in Files, NEW h \in Slots, NEW p \in Nat
  PROVE  /\ RestOf(s, h, p) \in Content
         /\ \A i \in DOMAIN RestOf(s, h, p) :
               i \in Nat /\ p + i \in DOMAIN Cells(s, h) /\ p < p + i /\ RestOf(s, h, p)[i] = Cells(s, h)[p + i]
<1> DEFINE c == Cells(s, h)
           r == SubSeq(c, p + 1, Len(c))
<1>1. c \in Content /\ Len(c) \in Nat
  BY SlotType
<1> HIDE DEF c
<1>2. r \in Content /\ \A i \in DOMAIN r : p + i \in DOMAIN c /\ r[i] = c[p + i]
  <2> DEFINE n == Len(c)
  <2>1. n \in Nat /\ n <= Len(c) /\ c \in Content
    BY <1>1
  <2> HIDE DEF n
  <2>2. /\ SubSeq(c, p + 1, n) \in Content
        /\ Len(SubSeq(c, p + 1, n)) = IF p <= n THEN n - p ELSE 0
        /\ \A i \in DOMAIN SubSeq(c, p + 1, n) :
              p + i \in DOMAIN c /\ p + i <= n /\ SubSeq(c, p + 1, n)[i] = c[p + i]
    BY <2>1, PartIs, Zenon
  <2> QED BY <2>2 DEF n
<1>3. \A i \in DOMAIN r : i \in Nat /\ i > 0
  <2>1. r \in Seq(Cell)
    BY <1>2 DEF Content
  <2> HIDE DEF r
  <2> QED BY <2>1
<1>4. RestOf(s, h, p) = r
  BY DEF RestOf, c
<1> HIDE DEF r
<1>5. \A i \in DOMAIN r : p < p + i
  BY <1>3
<1> QED BY <1>2, <1>3, <1>4, <1>5 DEF c

\* The checkpoint names one file.
LEMMA HereIs ==
  ASSUME NEW s, OneEach(s), NEW h \in Slots, NEW cp, Holds(s, h, cp)
  PROVE  TailAfter(s, cp) = TailFrom(s, h, cp.offset)
<1> DEFINE here == CHOOSE i \in Slots : Holds(s, i, cp)
<1>1. here \in Slots /\ Holds(s, here, cp)
  OBVIOUS
<1>2. here = h
  BY <1>1 DEF OneEach, Holds
<1> QED BY <1>2 DEF TailAfter, TailFrom, LaterOf, RestOf

LEMMA ProvableHolds ==
  ASSUME NEW s, NEW cp, Provable(s, cp)
  PROVE  \E h \in Slots : Holds(s, h, cp)
<1> DEFINE archives == {i \in Slots \ {0} : There(s, i)}
           n == Cardinality(archives)
<1>1. PICK k \in DOMAIN RetainedOldestFirst(s) : Holds(s, RetainedOldestFirst(s)[k], cp)
  BY DEF Provable
<1>2. archives = 1..n
  BY <1>1 DEF RetainedOldestFirst
<1>3. RetainedOldestFirst(s) = [j \in 1..(n + 1) |-> n + 1 - j]
  BY <1>2 DEF RetainedOldestFirst
<1>4. n \in Nat
  <2>1. archives \subseteq 0..ArchiveLimit
    BY DEF Slots
  <2>2. IsFiniteSet(0..ArchiveLimit)
    BY SlotsAre, FS_Interval
  <2>3. IsFiniteSet(archives)
    BY <2>1, <2>2, FS_Subset
  <2> HIDE DEF archives
  <2> QED BY <2>3, FS_CardinalityType
<1>5. n = 0 \/ n \in Slots
  <2>1. n # 0 => n \in archives
    BY <1>2, <1>4
  <2> QED BY <2>1
<1> HIDE DEF n, archives
<1>6. k \in 1..(n + 1) /\ RetainedOldestFirst(s)[k] = n + 1 - k
  BY <1>1, <1>3
<1>7. n + 1 - k \in Slots
  BY <1>4, <1>5, <1>6, SlotsAre
<1> QED BY <1>1, <1>6, <1>7

\* An element of two sequences together is one of either.
LEMMA OfEither ==
  ASSUME NEW s \in Numbers, NEW t \in Numbers, NEW i \in DOMAIN (s \o t)
  PROVE  (\E j \in DOMAIN s : (s \o t)[i] = s[j]) \/ (\E j \in DOMAIN t : (s \o t)[i] = t[j])
<1>1. /\ s \o t \in Seq(Nat) /\ Len(s \o t) = Len(s) + Len(t)
      /\ \A k \in 1..(Len(s) + Len(t)) : (s \o t)[k] = IF k <= Len(s) THEN s[k] ELSE t[k - Len(s)]
  BY ConcatProperties DEF Numbers
<1>2. /\ DOMAIN s = 1..Len(s) /\ DOMAIN t = 1..Len(t) /\ Len(s) \in Nat /\ Len(t) \in Nat
      /\ i \in 1..(Len(s) + Len(t))
  BY <1>1 DEF Numbers
<1>3. CASE i <= Len(s)
  <2>1. i \in DOMAIN s /\ (s \o t)[i] = s[i]
    BY <1>1, <1>2, <1>3
  <2> QED BY <2>1
<1>4. CASE i > Len(s)
  <2>1. i - Len(s) \in DOMAIN t /\ (s \o t)[i] = t[i - Len(s)]
    BY <1>1, <1>2, <1>4
  <2> QED BY <2>1
<1> QED BY <1>2, <1>3, <1>4

\* What is recovered is in order, each fact once.
LEMMA RestIsBehind ==
  ASSUME NEW s, NEW n \in Nat, Ordered(s, n), NEW snap, SnapOk(s, snap, n), snap # None,
         NEW h \in Slots, Holds(s, h, snap.checkpoint)
  PROVE  /\ TailFrom(s, h, snap.checkpoint.offset) \in Numbers
         /\ Rises(TailFrom(s, h, snap.checkpoint.offset))
         /\ \A i \in DOMAIN TailFrom(s, h, snap.checkpoint.offset) :
               /\ TailFrom(s, h, snap.checkpoint.offset)[i] \in 1..n
               /\ \A k \in DOMAIN snap.facts :
                     snap.facts[k] < TailFrom(s, h, snap.checkpoint.offset)[i]
<1> DEFINE p == snap.checkpoint.offset
           r == RestOf(s, h, p)
           a == ParsedLines(r)
           g == LaterOf(s, h)
           b == FlattenSeq(g)
<1>1. s \in Files /\ p \in Nat /\ UpTo(s, n) /\ Newer(s) /\ Ahead(s, snap)
  BY DEF Ordered, SnapOk, Snapshots
<1>2. /\ r \in Content
      /\ \A i \in DOMAIN r : p + i \in DOMAIN Cells(s, h) /\ p < p + i /\ r[i] = Cells(s, h)[p + i]
  BY <1>1, RestType
<1>3. /\ Behind(snap.facts, Cells(s, h), p)
      /\ \A j \in Slots : j < h => Behind(snap.facts, Cells(s, j), 0)
  BY <1>1 DEF Ahead
<1>4. /\ a \in Numbers /\ Rises(a)
      /\ \A k \in DOMAIN a : \E i \in DOMAIN r : a[k] = r[i].fact
  BY <1>2, ParsedRises
<1>5. ASSUME NEW k \in DOMAIN a
      PROVE  /\ \E q \in DOMAIN Cells(s, h) : p < q /\ a[k] = Cells(s, h)[q].fact
  BY <1>2, <1>4
<1>6. /\ g \in Seq(Numbers) /\ DOMAIN g = 1..h /\ b \in Numbers
      /\ \A k \in 1..h : h - k \in Slots /\ h - k < h /\ g[k] = ParsedLines(Cells(s, h - k))
  BY <1>1, LaterType
<1>7. ASSUME NEW k \in DOMAIN g
      PROVE  /\ Rises(g[k])
             /\ \A m \in DOMAIN g[k] : \E q \in DOMAIN Cells(s, h - k) :
                   g[k][m] = Cells(s, h - k)[q].fact
  <2>1. h - k \in Slots /\ g[k] = ParsedLines(Cells(s, h - k))
    BY <1>6
  <2>2. Cells(s, h - k) \in Content
    BY <1>1, <2>1, SlotType
  <2> QED BY <2>1, <2>2, ParsedRises
<1> HIDE DEF g, a, r, p
<1>8. ASSUME NEW i \in DOMAIN g, NEW j \in DOMAIN g, i < j,
             NEW x \in DOMAIN g[i], NEW y \in DOMAIN g[j]
      PROVE  g[i][x] < g[j][y]
  <2>1. /\ \E q \in DOMAIN Cells(s, h - i) : g[i][x] = Cells(s, h - i)[q].fact
        /\ \E q \in DOMAIN Cells(s, h - j) : g[j][y] = Cells(s, h - j)[q].fact
    BY <1>7
  <2>2. h - i \in Slots /\ h - j \in Slots /\ h - j < h - i
    <3>1. h \in Nat
      BY SlotsAre
    <3> QED BY <1>6, <1>8, <3>1
  <2> QED BY <1>1, <2>1, <2>2 DEF Newer
<1>9. /\ Rises(b)
      /\ \A k \in DOMAIN b : \E i \in DOMAIN g : \E m \in DOMAIN g[i] : b[k] = g[i][m]
  BY <1>6, <1>7, <1>8, FlattenRises
<1>10. ASSUME NEW k \in DOMAIN b
       PROVE  \E j \in Slots : j < h /\ \E q \in DOMAIN Cells(s, j) : b[k] = Cells(s, j)[q].fact
  <2>1. PICK i \in DOMAIN g : \E m \in DOMAIN g[i] : b[k] = g[i][m]
    BY <1>9
  <2>2. h - i \in Slots /\ h - i < h
    BY <1>6
  <2> QED BY <1>7, <2>1, <2>2
<1> HIDE DEF b
<1>11. \A i \in DOMAIN a, j \in DOMAIN b : a[i] < b[j]
  <2> TAKE i \in DOMAIN a, j \in DOMAIN b
  <2>1. PICK q \in DOMAIN Cells(s, h) : a[i] = Cells(s, h)[q].fact
    BY <1>5
  <2>2. PICK m \in Slots : m < h /\ \E z \in DOMAIN Cells(s, m) : b[j] = Cells(s, m)[z].fact
    BY <1>10
  <2> QED BY <1>1, <2>1, <2>2 DEF Newer
<1> DEFINE t == a \o b
<1>12. Rises(t)
  BY <1>4, <1>6, <1>9, <1>11, RisesTogether
<1>13. ASSUME NEW i \in DOMAIN t
       PROVE  (\E k \in DOMAIN a : t[i] = a[k]) \/ (\E k \in DOMAIN b : t[i] = b[k])
  BY <1>4, <1>6, OfEither
<1>14. t \in Numbers
  BY <1>4, <1>6 DEF Numbers
<1> HIDE DEF t
<1>15. ASSUME NEW i \in DOMAIN t
       PROVE  t[i] \in 1..n /\ \A k \in DOMAIN snap.facts : snap.facts[k] < t[i]
  <2>1. CASE \E k \in DOMAIN a : t[i] = a[k]
    <3>1. PICK q \in DOMAIN Cells(s, h) : p < q /\ t[i] = Cells(s, h)[q].fact
      BY <1>5, <2>1
    <3>2. t[i] \in Nat \ {0} /\ t[i] <= n
      BY <1>1, <3>1, SlotType DEF UpTo
    <3>3. \A k \in DOMAIN snap.facts : snap.facts[k] < t[i]
      BY <1>3, <3>1 DEF Behind
    <3> QED BY <3>2, <3>3
  <2>2. CASE \E k \in DOMAIN b : t[i] = b[k]
    <3>1. PICK j \in Slots : j < h /\ \E q \in DOMAIN Cells(s, j) : t[i] = Cells(s, j)[q].fact
      BY <1>10, <2>2
    <3>2. PICK q \in DOMAIN Cells(s, j) : t[i] = Cells(s, j)[q].fact
      BY <3>1
    <3>3. t[i] \in Nat \ {0} /\ t[i] <= n
      BY <1>1, <3>2, SlotType DEF UpTo
    <3>4. 0 < q
      <4>1. DOMAIN Cells(s, j) = 1..Len(Cells(s, j))
        BY <1>1, SlotType
      <4> QED BY <3>2, <4>1
    <3>5. \A k \in DOMAIN snap.facts : snap.facts[k] < t[i]
      BY <1>3, <3>1, <3>2, <3>4 DEF Behind
    <3> QED BY <3>3, <3>5
  <2> QED BY <1>13, <2>1, <2>2
<1>16. TailFrom(s, h, p) = t
  BY DEF TailFrom, t, a, b, g, r
<1> QED BY <1>12, <1>14, <1>15, <1>16 DEF p

LEMMA RecoveredKnows ==
  ASSUME NEW s, NEW n \in Nat, Ordered(s, n), NEW snap, SnapOk(s, snap, n)
  PROVE  Knows(Recovered(s, snap), n)
<1>0. s \in Files
  BY DEF Ordered
<1>1. CASE snap = None
  <2> DEFINE c == Cells(s, 0)
  <2>1. Recovered(s, snap) = ParsedLines(c)
    BY <1>1 DEF Recovered
  <2>2. c \in Content /\ (\A p \in DOMAIN c : c[p].fact \in Nat \ {0}) /\ \A p \in DOMAIN c : c[p].fact <= n
    BY <1>0, SlotType, SlotsAre DEF Ordered, UpTo
  <2> HIDE DEF c
  <2>3. /\ ParsedLines(c) \in Numbers /\ Rises(ParsedLines(c))
        /\ \A k \in DOMAIN ParsedLines(c) : \E i \in DOMAIN c : ParsedLines(c)[k] = c[i].fact
    BY <2>2, ParsedRises
  <2>4. \A k \in DOMAIN ParsedLines(c) : ParsedLines(c)[k] \in 1..n
    BY <2>2, <2>3
  <2> QED BY <2>1, <2>3, <2>4 DEF Knows
<1>2. CASE snap # None
  <2>1. snap \in Snapshots /\ Knows(snap.facts, n) /\ snap.facts \in Numbers
    BY <1>2 DEF SnapOk, Snapshots
  <2>2. CASE ~Provable(s, snap.checkpoint)
    <3>1. Recovered(s, snap) = snap.facts \o <<>>
      BY <1>2, <2>2 DEF Recovered
    <3>2. snap.facts \o <<>> = snap.facts
      BY <2>1 DEF Numbers
    <3> QED BY <2>1, <3>1, <3>2
  <2>3. CASE Provable(s, snap.checkpoint)
    <3>1. PICK h \in Slots : Holds(s, h, snap.checkpoint)
      BY <2>3, ProvableHolds
    <3> DEFINE t == TailFrom(s, h, snap.checkpoint.offset)
               k == snap.facts
    <3>2. Recovered(s, snap) = k \o t
      BY <1>2, <2>3, <3>1, HereIs DEF Recovered, Ordered
    <3>3. /\ t \in Numbers /\ Rises(t)
          /\ \A i \in DOMAIN t : t[i] \in 1..n /\ \A j \in DOMAIN k : k[j] < t[i]
      BY <1>2, <3>1, RestIsBehind
    <3>4. k \in Numbers /\ Rises(k) /\ \A i \in DOMAIN k : k[i] \in 1..n
      BY <2>1 DEF Knows
    <3> HIDE DEF t, k
    <3>5. Rises(k \o t)
      BY <3>3, <3>4, RisesTogether
    <3>6. k \o t \in Numbers
      BY <3>3, <3>4 DEF Numbers
    <3>7. ASSUME NEW i \in DOMAIN (k \o t)
          PROVE  (\E j \in DOMAIN k : (k \o t)[i] = k[j]) \/ (\E j \in DOMAIN t : (k \o t)[i] = t[j])
      BY <3>3, <3>4, OfEither
    <3>8. \A i \in DOMAIN (k \o t) : (k \o t)[i] \in 1..n
      BY <3>3, <3>4, <3>7
    <3> QED BY <3>2, <3>5, <3>6, <3>8 DEF Knows
  <2> QED BY <2>2, <2>3
<1> QED BY <1>1, <1>2

-----------------------------------------------------------------------------
(* What happens to the files.                                              *)

\* t holds files of s, in their order, each as it was or cut off behind.
Descends(t, s, o) ==
    /\ t \in Files /\ o \in [Slots -> Slots]
    /\ \A i \in Slots : There(t, i) =>
          /\ There(s, o[i]) /\ t[i].inode = s[o[i]].inode
          /\ Len(Cells(t, i)) <= Len(Cells(s, o[i]))
          /\ \A p \in DOMAIN Cells(t, i) : Cells(t, i)[p] = Cells(s, o[i])[p]
    /\ \A i, j \in Slots : i < j /\ There(t, i) /\ There(t, j) => o[i] < o[j]

LEMMA DescendsOrdered ==
  ASSUME NEW s, NEW n \in Nat, Ordered(s, n), NEW t, NEW o, Descends(t, s, o)
  PROVE  /\ Ordered(t, n)
         /\ \A snap : SnapOk(s, snap, n) => SnapOk(t, snap, n)
<1>1. /\ s \in Files /\ t \in Files /\ o \in [Slots -> Slots]
      /\ OneEach(s) /\ UpTo(s, n) /\ Newer(s)
  BY DEF Descends, Ordered
<1>2. ASSUME NEW i \in Slots, There(t, i)
      PROVE  /\ o[i] \in Slots /\ There(s, o[i]) /\ t[i].inode = s[o[i]].inode
             /\ Cells(t, i) = t[i].cells /\ Cells(s, o[i]) = s[o[i]].cells
             /\ Len(Cells(t, i)) \in Nat /\ Len(Cells(s, o[i])) \in Nat
             /\ Len(Cells(t, i)) <= Len(Cells(s, o[i]))
             /\ \A p \in DOMAIN Cells(t, i) :
                   p \in DOMAIN Cells(s, o[i]) /\ Cells(t, i)[p] = Cells(s, o[i])[p]
  <2>1. /\ o[i] \in Slots /\ There(s, o[i]) /\ t[i].inode = s[o[i]].inode
        /\ Len(Cells(t, i)) <= Len(Cells(s, o[i]))
        /\ \A p \in DOMAIN Cells(t, i) : Cells(t, i)[p] = Cells(s, o[i])[p]
    BY <1>1, <1>2 DEF Descends
  <2>2. /\ DOMAIN Cells(t, i) = 1..Len(Cells(t, i)) /\ Len(Cells(t, i)) \in Nat
        /\ Cells(t, i) = t[i].cells
    BY <1>1, <1>2, SlotType
  <2>3. /\ DOMAIN Cells(s, o[i]) = 1..Len(Cells(s, o[i])) /\ Len(Cells(s, o[i])) \in Nat
        /\ Cells(s, o[i]) = s[o[i]].cells
    BY <1>1, <2>1, SlotType
  <2>4. \A p \in DOMAIN Cells(t, i) : p \in DOMAIN Cells(s, o[i])
    BY <2>1, <2>2, <2>3
  <2> QED BY <2>1, <2>2, <2>3, <2>4
<1>3. ASSUME NEW i \in Slots, NEW p \in DOMAIN Cells(t, i) PROVE There(t, i)
  <2>1. Cells(t, i) # <<>>
    BY EmptyContent
  <2> QED BY <2>1 DEF Cells
<1>4. \A i, j \in Slots : i < j /\ There(t, i) /\ There(t, j) => o[i] < o[j]
  BY DEF Descends
<1>5. OneEach(t)
  <2> SUFFICES ASSUME NEW i \in Slots, NEW j \in Slots, There(t, i), There(t, j), t[i].inode = t[j].inode
      PROVE  i = j
    BY DEF OneEach
  <2>1. o[i] = o[j]
    BY <1>1, <1>2 DEF OneEach
  <2>2. ~(o[i] < o[j]) /\ ~(o[j] < o[i])
    BY <1>2, <2>1, SlotsAre
  <2>3. ~(i < j) /\ ~(j < i)
    BY <1>4, <2>2
  <2> QED BY <2>3, SlotsAre
<1>6. UpTo(t, n)
  BY <1>1, <1>2, <1>3 DEF UpTo
<1>7. Newer(t)
  <2> SUFFICES ASSUME NEW i \in Slots, NEW j \in Slots, i < j,
                      NEW p \in DOMAIN Cells(t, i), NEW q \in DOMAIN Cells(t, j)
      PROVE  Cells(t, j)[q].fact < Cells(t, i)[p].fact
    BY DEF Newer
  <2>1. There(t, i) /\ There(t, j)
    BY <1>3
  <2>2. o[i] < o[j]
    BY <1>4, <2>1
  <2>3. /\ p \in DOMAIN Cells(s, o[i]) /\ Cells(t, i)[p] = Cells(s, o[i])[p]
        /\ q \in DOMAIN Cells(s, o[j]) /\ Cells(t, j)[q] = Cells(s, o[j])[q]
        /\ o[i] \in Slots /\ o[j] \in Slots
    BY <1>2, <2>1
  <2> QED BY <1>1, <2>2, <2>3 DEF Newer
<1>8. ASSUME NEW snap, SnapOk(s, snap, n) PROVE SnapOk(t, snap, n)
  <2> SUFFICES ASSUME snap # None PROVE snap \in Snapshots /\ Knows(snap.facts, n) /\ Ahead(t, snap)
    BY DEF SnapOk
  <2>1. snap \in Snapshots /\ Knows(snap.facts, n) /\ Ahead(s, snap)
    BY <1>8 DEF SnapOk
  <2> DEFINE cp == snap.checkpoint
  <2>2. cp.offset \in Nat
    BY <2>1 DEF Snapshots
  <2> SUFFICES ASSUME NEW i \in Slots, Holds(t, i, cp)
      PROVE  /\ Behind(snap.facts, Cells(t, i), cp.offset)
             /\ \A j \in Slots : j < i => Behind(snap.facts, Cells(t, j), 0)
    BY <2>1 DEF Ahead
  <2>3. There(t, i) /\ t[i].inode = cp.inode /\ cp.offset <= Len(t[i].cells)
    BY DEF Holds
  <2>4. o[i] \in Slots /\ Holds(s, o[i], cp)
    BY <1>2, <2>2, <2>3 DEF Holds
  <2>5. /\ Behind(snap.facts, Cells(s, o[i]), cp.offset)
        /\ \A j \in Slots : j < o[i] => Behind(snap.facts, Cells(s, j), 0)
    BY <2>1, <2>4 DEF Ahead
  <2> HIDE DEF cp
  <2>6. Behind(snap.facts, Cells(t, i), cp.offset)
    BY <1>2, <2>3, <2>5 DEF Behind
  <2>7. ASSUME NEW j \in Slots, j < i PROVE Behind(snap.facts, Cells(t, j), 0)
    <3> SUFFICES ASSUME NEW k \in DOMAIN snap.facts, NEW q \in DOMAIN Cells(t, j), 0 < q
        PROVE  snap.facts[k] < Cells(t, j)[q].fact
      BY DEF Behind
    <3>1. There(t, j)
      BY <1>3
    <3>2. o[j] < o[i] /\ o[j] \in Slots
      BY <1>2, <1>4, <2>3, <2>7, <3>1
    <3>3. q \in DOMAIN Cells(s, o[j]) /\ Cells(t, j)[q] = Cells(s, o[j])[q]
      BY <1>2, <3>1
    <3> QED BY <2>5, <3>2, <3>3 DEF Behind
  <2> QED BY <2>6, <2>7
<1> QED BY <1>1, <1>5, <1>6, <1>7, <1>8 DEF Ordered

LEMMA PrunedDescends ==
  ASSUME NEW s \in Files, NEW t \in Pruned(s)
  PROVE  /\ Descends(t, s, [i \in Slots |-> i])
         /\ t \in Files /\ t[0] = s[0]
         /\ \A i \in Slots : There(t, i) => There(s, i) /\ t[i] = s[i]
<1>1. PICK keep : keep \in Slots /\ t = [i \in Slots |-> IF i > keep THEN None ELSE s[i]]
  BY SlotsAre DEF Pruned
<1>2. t \in Files
  BY <1>1 DEF Files
<1>3. \A i \in Slots : There(t, i) => t[i] = s[i] /\ There(s, i)
  BY <1>1 DEF There
<1>4. t[0] = s[0]
  BY <1>1, SlotsAre
<1>5. \A i \in Slots : There(t, i) => Cells(t, i) = Cells(s, i) /\ Len(Cells(s, i)) \in Nat
  BY <1>3, SlotType DEF Cells
<1>6. \A i \in Slots : i \in Nat
  BY SlotsAre
<1>7. Descends(t, s, [i \in Slots |-> i])
  BY <1>2, <1>3, <1>5, <1>6 DEF Descends
<1> QED BY <1>2, <1>3, <1>4, <1>7

\* Where the file in slot i was before n renames.
Origin(n) == [i \in Slots |-> IF i > ArchiveLimit - n THEN i - 1 ELSE i]

LEMMA ShiftedDescends ==
  ASSUME NEW s \in Files, NEW n \in Slots
  PROVE  /\ Shifted(s, n) \in Files
         /\ Descends(Shifted(s, n), s, Origin(n))
         /\ ~There(Shifted(s, ArchiveLimit), 0)
         /\ \A i \in Slots \ {0} : i - 1 \in Slots /\ Shifted(s, ArchiveLimit)[i] = s[i - 1]
<1> DEFINE t == Shifted(s, n)
           o == Origin(n)
<1>1. \A i \in Slots : i > ArchiveLimit - n => i - 1 \in Slots
  BY SlotsAre
<1>2. \A i \in Slots : t[i] = IF i > ArchiveLimit - n THEN s[i - 1]
                              ELSE IF i = ArchiveLimit - n THEN None ELSE s[i]
  BY DEF Shifted
<1>3. t \in Files
  <2>1. \A i \in Slots : t[i] \in AFile \cup {None}
    BY <1>1, <1>2 DEF Files
  <2> QED BY <2>1 DEF Files, Shifted
<1>4. o \in [Slots -> Slots] /\ \A i \in Slots : o[i] = IF i > ArchiveLimit - n THEN i - 1 ELSE i
  BY <1>1 DEF Origin
<1> HIDE DEF t, o
<1>5. ASSUME NEW i \in Slots, There(t, i)
      PROVE  t[i] = s[o[i]] /\ i # ArchiveLimit - n
  <2>1. t[i] # None
    BY <1>5 DEF There
  <2>2. CASE i > ArchiveLimit - n
    <3>1. t[i] = s[i - 1] /\ o[i] = i - 1
      BY <1>2, <1>4, <2>2
    <3>2. i # ArchiveLimit - n
      BY <2>2, SlotsAre
    <3> QED BY <3>1, <3>2
  <2>3. CASE ~(i > ArchiveLimit - n)
    <3>1. i # ArchiveLimit - n
      BY <1>2, <2>1, <2>3
    <3>2. t[i] = s[i] /\ o[i] = i
      BY <1>2, <1>4, <2>3, <3>1
    <3> QED BY <3>1, <3>2
  <2> QED BY <2>2, <2>3
<1>6. ASSUME NEW i \in Slots, There(t, i)
      PROVE  There(s, o[i]) /\ Cells(t, i) = Cells(s, o[i]) /\ Len(Cells(t, i)) \in Nat
  <2>1. There(s, o[i])
    BY <1>5, <1>6 DEF There
  <2> QED BY <1>3, <1>5, <1>6, <2>1, SlotType DEF Cells
<1>7. ASSUME NEW i \in Slots, NEW j \in Slots, i < j, There(t, i), There(t, j) PROVE o[i] < o[j]
  <2>1. i \in Nat /\ j \in Nat /\ n \in Nat /\ ArchiveLimit \in Nat /\ i # ArchiveLimit - n
    BY <1>5, <1>7, SlotsAre
  <2> QED BY <1>4, <1>7, <2>1
<1>8. Descends(t, s, o)
  BY <1>3, <1>4, <1>5, <1>6, <1>7 DEF Descends
<1>9. ~There(Shifted(s, ArchiveLimit), 0)
  BY SlotsAre DEF Shifted, There
<1>10. \A i \in Slots \ {0} : i - 1 \in Slots /\ Shifted(s, ArchiveLimit)[i] = s[i - 1]
  BY SlotsAre DEF Shifted
<1> QED BY <1>3, <1>8, <1>9, <1>10 DEF t, o

\* A fresh live file.
LEMMA FreshOrdered ==
  ASSUME NEW s, NEW n \in Nat, Ordered(s, n), NEW x \in Inodes, x \notin InodesOf(s), ~There(s, 0)
  PROVE  /\ Ordered([s EXCEPT ![0] = File(x)], n)
         /\ There([s EXCEPT ![0] = File(x)], 0)
         /\ Cells([s EXCEPT ![0] = File(x)], 0) = <<>>
         /\ \A snap : SnapOk(s, snap, n) => SnapOk([s EXCEPT ![0] = File(x)], snap, n)
<1> DEFINE t == [s EXCEPT ![0] = File(x)]
<1>1. s \in Files /\ OneEach(s) /\ UpTo(s, n) /\ Newer(s)
  BY DEF Ordered
<1>2. File(x) \in AFile
  BY EmptyContent DEF File, AFile
<1>3. t \in Files /\ t[0] = File(x) /\ \A i \in Slots \ {0} : t[i] = s[i]
  BY <1>1, <1>2, SlotsAre DEF Files
<1> HIDE DEF t
<1>4. There(t, 0) /\ Cells(t, 0) = <<>> /\ t[0].inode = x
  <2>1. There(t, 0)
    BY <1>2, <1>3, FileIsThere DEF There
  <2> QED BY <1>3, <2>1 DEF Cells, File
<1>5. \A i \in Slots \ {0} : (There(t, i) <=> There(s, i)) /\ Cells(t, i) = Cells(s, i)
  BY <1>3 DEF There, Cells
<1>6. \A i \in Slots : There(s, i) => s[i].inode # x
  BY DEF InodesOf
<1>7. OneEach(t)
  BY <1>1, <1>3, <1>4, <1>5, <1>6 DEF OneEach
<1>8. \A p : p \notin DOMAIN Cells(t, 0)
  BY <1>4, EmptyContent
<1>9. UpTo(t, n)
  BY <1>1, <1>5, <1>8 DEF UpTo
<1>10. Newer(t)
  BY <1>1, <1>5, <1>8 DEF Newer
<1>11. ASSUME NEW snap, SnapOk(s, snap, n) PROVE SnapOk(t, snap, n)
  <2> SUFFICES ASSUME snap # None PROVE snap \in Snapshots /\ Knows(snap.facts, n) /\ Ahead(t, snap)
    BY DEF SnapOk
  <2>1. snap \in Snapshots /\ Knows(snap.facts, n) /\ Ahead(s, snap)
    BY <1>11 DEF SnapOk
  <2> DEFINE cp == snap.checkpoint
  <2> SUFFICES ASSUME NEW i \in Slots, Holds(t, i, cp)
      PROVE  /\ Behind(snap.facts, Cells(t, i), cp.offset)
             /\ \A j \in Slots : j < i => Behind(snap.facts, Cells(t, j), 0)
    BY <2>1 DEF Ahead
  <2>2. \A p : Behind(snap.facts, Cells(t, 0), p)
    BY <1>8 DEF Behind
  <2>3. CASE i = 0
    <3>1. \A j \in Slots : ~(j < 0)
      BY SlotsAre
    <3> QED BY <2>2, <2>3, <3>1
  <2>4. CASE i # 0
    <3>1. Holds(s, i, cp)
      BY <1>3, <1>5, <2>4 DEF Holds
    <3>2. /\ Behind(snap.facts, Cells(s, i), cp.offset)
          /\ \A j \in Slots : j < i => Behind(snap.facts, Cells(s, j), 0)
      BY <2>1, <3>1 DEF Ahead
    <3>3. ASSUME NEW j \in Slots, j < i PROVE Behind(snap.facts, Cells(t, j), 0)
      <4>1. CASE j = 0
        BY <2>2, <4>1
      <4>2. CASE j # 0
        BY <1>5, <3>2, <3>3, <4>2
      <4> QED BY <4>1, <4>2
    <3> QED BY <1>5, <2>4, <3>2, <3>3
  <2> QED BY <2>3, <2>4
<1>12. Ordered(t, n)
  BY <1>3, <1>7, <1>9, <1>10 DEF Ordered
<1> QED BY <1>4, <1>11, <1>12 DEF t
\* A record is written behind everything that was.
LEMMA WrittenIs ==
  ASSUME NEW s \in Files, There(s, 0), NEW f \in Nat \ {0}, NEW flush
  PROVE  /\ Cells(s, 0) = s[0].cells
         /\ Cells(s, 0) \o Two(f) \in Content => Written(s, f, flush) \in Files
         /\ There(Written(s, f, flush), 0)
         /\ Written(s, f, flush)[0].inode = s[0].inode
         /\ Cells(Written(s, f, flush), 0) = Cells(s, 0) \o Two(f)
         /\ \A i \in Slots \ {0} : Written(s, f, flush)[i] = s[i]
<1>1. s[0] \in AFile /\ Cells(s, 0) = s[0].cells
  BY SlotType, SlotsAre
<1>2. DOMAIN s = Slots /\ 0 \in Slots
  BY SlotsAre DEF Files
<1> DEFINE d == Cells(s, 0) \o Two(f)
           y == [s[0] EXCEPT !.cells = d, !.synced = IF flush THEN Len(d) ELSE s[0].synced]
<1>3. Written(s, f, flush) = [s EXCEPT ![0] = y]
  BY <1>1, <1>2 DEF Written, Two, AFile
<1>8. Len(d) \in Nat
  BY SlotType, SlotsAre, TwoMore
<1> HIDE DEF d
<1>9. d \in Content => y \in AFile
  BY <1>1, <1>8 DEF AFile
<1>4. y.inode = s[0].inode /\ y.cells = d /\ "inode" \in DOMAIN y
  BY <1>1 DEF AFile
<1>5. y # None
  <2>1. "inode" \notin DOMAIN None
    BY DEF None
  <2> QED BY <1>4, <2>1
<1> HIDE DEF y
<1>6. /\ Written(s, f, flush)[0] = y
      /\ \A i \in Slots \ {0} : Written(s, f, flush)[i] = s[i]
  BY <1>2, <1>3
<1>10. d \in Content => Written(s, f, flush) \in Files
  BY <1>2, <1>3, <1>9 DEF Files
<1>7. There(Written(s, f, flush), 0)
  BY <1>5, <1>6 DEF There
<1> QED BY <1>1, <1>4, <1>6, <1>7, <1>10 DEF Cells, d, y

LEMMA WrittenOrdered ==
  ASSUME NEW s, NEW n \in Nat, Ordered(s, n), There(s, 0), NEW flush
  PROVE  /\ Ordered(Written(s, n + 1, flush), n + 1)
         /\ \A snap : SnapOk(s, snap, n) => SnapOk(Written(s, n + 1, flush), snap, n + 1)
<1> DEFINE f == n + 1
           t == Written(s, f, flush)
           c == Cells(s, 0)
           d == c \o Two(f)
           l == Len(c)
<1>1. s \in Files /\ OneEach(s) /\ UpTo(s, n) /\ Newer(s) /\ 0 \in Slots /\ f \in Nat \ {0}
  BY SlotsAre DEF Ordered
<1>2. /\ c = s[0].cells /\ There(t, 0) /\ t[0].inode = s[0].inode /\ Cells(t, 0) = d
      /\ \A i \in Slots \ {0} : t[i] = s[i]
      /\ d \in Content => t \in Files
  <2> HIDE DEF f
  <2>1. s \in Files /\ There(s, 0) /\ f \in Nat \ {0}
    BY <1>1
  <2> QED BY <2>1, WrittenIs
<1>3. /\ c \in Seq(Cell) /\ c \in Content /\ DOMAIN c = 1..l /\ l \in Nat
      /\ s[0] \in AFile /\ s[0].synced \in Nat
      /\ \A p \in DOMAIN c : c[p].fact \in Nat /\ c[p].fact <= n
  BY <1>1, SlotType DEF UpTo
<1>4. /\ d \in Seq(Cell) /\ Len(d) = l + 2
      /\ \A i \in 1..l : d[i] = c[i]
      /\ d[l + 1] = [fact |-> f, half |-> 1]
      /\ d[l + 2] = [fact |-> f, half |-> 2]
  BY <1>1, <1>3, TwoMore
<1> HIDE DEF t, d, c
<1>5. DOMAIN d = 1..(l + 2) /\ \A p \in DOMAIN d : p \in 1..l \/ p = l + 1 \/ p = l + 2
  BY <1>3, <1>4
<1>6. /\ d[l + 1].fact = f /\ d[l + 1].half = 1 /\ d[l + 2].fact = f /\ d[l + 2].half = 2
  BY <1>4
<1>7. ASSUME NEW p \in DOMAIN d
      PROVE  \/ p \in DOMAIN c /\ d[p] = c[p] /\ d[p].fact <= n /\ d[p].fact \in Nat /\ p <= l
             \/ p > l /\ d[p].fact = f
  BY <1>3, <1>4, <1>5, <1>6
<1>8. d \in Content
  <2> SUFFICES ASSUME NEW p \in DOMAIN d, NEW q \in DOMAIN d, p < q PROVE Sooner(d[p], d[q])
    BY <1>4 DEF Content
  <2>1. CASE p > l
    <3>1. p = l + 1 /\ q = l + 2
      BY <1>3, <1>5, <2>1
    <3> QED BY <1>6, <3>1 DEF Sooner
  <2>2. CASE q <= l
    <3>1. p \in DOMAIN c /\ q \in DOMAIN c /\ d[p] = c[p] /\ d[q] = c[q]
      BY <1>3, <1>4, <1>5, <2>2
    <3> QED BY <1>3, <3>1 DEF Content
  <2>3. CASE p <= l /\ q > l
    <3>1. d[p].fact <= n /\ d[p].fact \in Nat /\ d[q].fact = f
      BY <1>3, <1>5, <1>7, <2>3
    <3> QED BY <3>1 DEF Sooner
  <2> QED BY <1>3, <1>5, <2>1, <2>2, <2>3
<1>9. t \in Files
  BY <1>2, <1>8
<1>10. \A i \in Slots \ {0} : (There(t, i) <=> There(s, i)) /\ Cells(t, i) = Cells(s, i)
  BY <1>2 DEF There, Cells
<1>11. OneEach(t)
  BY <1>1, <1>2, <1>10 DEF OneEach
<1>12. \A i \in Slots \ {0} : \A p \in DOMAIN Cells(s, i) :
          Cells(s, i)[p].fact <= n /\ Cells(s, i)[p].fact \in Nat
  BY <1>1, SlotType DEF UpTo
<1>13. UpTo(t, f)
  <2> SUFFICES ASSUME NEW i \in Slots, NEW p \in DOMAIN Cells(t, i) PROVE Cells(t, i)[p].fact <= f
    BY DEF UpTo
  <2>1. CASE i = 0
    <3>1. p \in DOMAIN d /\ Cells(t, i)[p] = d[p]
      BY <1>2, <2>1
    <3> QED BY <1>7, <3>1
  <2>2. CASE i # 0
    <3>1. Cells(t, i) = Cells(s, i)
      BY <1>10, <2>2
    <3>2. Cells(s, i)[p].fact <= n /\ Cells(s, i)[p].fact \in Nat
      BY <1>12, <2>2, <3>1
    <3> QED BY <3>1, <3>2
  <2> QED BY <2>1, <2>2
<1>14. Newer(t)
  <2> SUFFICES ASSUME NEW i \in Slots, NEW j \in Slots, i < j,
                      NEW p \in DOMAIN Cells(t, i), NEW q \in DOMAIN Cells(t, j)
      PROVE  Cells(t, j)[q].fact < Cells(t, i)[p].fact
    BY DEF Newer
  <2>1. j # 0
    BY SlotsAre
  <2>2. Cells(t, j) = Cells(s, j) /\ Cells(s, j)[q].fact <= n /\ Cells(s, j)[q].fact \in Nat
    BY <1>10, <1>12, <2>1
  <2>3. CASE i # 0
    BY <1>1, <1>10, <2>1, <2>3 DEF Newer
  <2>4. CASE i = 0
    <3>1. p \in DOMAIN d /\ Cells(t, i)[p] = d[p]
      BY <1>2, <2>4
    <3>2. CASE p \in DOMAIN c /\ d[p] = c[p]
      <4>1. Cells(s, j)[q].fact < Cells(s, 0)[p].fact
        BY <1>1, <2>2, <2>4, <3>2 DEF Newer, c
      <4> QED BY <2>2, <3>1, <3>2, <4>1 DEF c
    <3>3. CASE d[p].fact = f
      BY <2>2, <3>1, <3>3
    <3> QED BY <1>7, <3>1, <3>2, <3>3
  <2> QED BY <2>3, <2>4
<1>15. ASSUME NEW snap, SnapOk(s, snap, n) PROVE SnapOk(t, snap, f)
  <2> SUFFICES ASSUME snap # None PROVE snap \in Snapshots /\ Knows(snap.facts, f) /\ Ahead(t, snap)
    BY DEF SnapOk
  <2>1. snap \in Snapshots /\ Knows(snap.facts, n) /\ Ahead(s, snap)
    BY <1>15 DEF SnapOk
  <2> DEFINE cp == snap.checkpoint
             k == snap.facts
  <2>2. cp.offset \in Nat /\ \A x \in DOMAIN k : k[x] \in 1..n
    BY <2>1 DEF Snapshots, Knows
  <2>3. Knows(k, f)
    BY <2>1 DEF Knows
  <2>4. Ahead(s, snap) /\ snap.facts = k
    BY <2>1
  <2> HIDE DEF k
  <2> SUFFICES ASSUME NEW i \in Slots, Holds(t, i, cp)
      PROVE  /\ Behind(k, Cells(t, i), cp.offset)
             /\ \A j \in Slots : j < i => Behind(k, Cells(t, j), 0)
    BY <2>1, <2>3 DEF Ahead, k
  <2>5. CASE i = 0
    <3>1. \A j \in Slots : ~(j < 0)
      BY SlotsAre
    <3>2. There(t, 0) /\ t[0].inode = cp.inode
      BY <2>5 DEF Holds
    <3>3. ASSUME NEW x \in DOMAIN k, NEW q \in DOMAIN d, cp.offset < q PROVE k[x] < d[q].fact
      <4>1. CASE q \in DOMAIN c /\ d[q] = c[q] /\ q <= l
        <5>1. cp.offset <= Len(s[0].cells)
          BY <1>2, <1>3, <2>2, <3>3, <4>1
        <5>2. Holds(s, 0, cp)
          BY <1>2, <3>2, <5>1 DEF Holds
        <5>3. Behind(k, c, cp.offset)
          BY <1>1, <2>4, <5>2 DEF Ahead, c
        <5> QED BY <3>3, <4>1, <5>3 DEF Behind
      <4>2. CASE d[q].fact = f
        BY <2>2, <4>2
      <4> QED BY <1>7, <4>1, <4>2
    <3>4. Behind(k, Cells(t, 0), cp.offset)
      BY <1>2, <3>3 DEF Behind
    <3> QED BY <2>5, <3>1, <3>4
  <2>6. CASE i # 0
    <3>1. Holds(s, i, cp)
      BY <1>2, <1>10, <2>6 DEF Holds
    <3>2. /\ Behind(k, Cells(s, i), cp.offset)
          /\ \A j \in Slots : j < i => Behind(k, Cells(s, j), 0)
      BY <2>4, <3>1 DEF Ahead
    <3>3. ASSUME NEW j \in Slots, j < i PROVE Behind(k, Cells(t, j), 0)
      <4>1. CASE j # 0
        BY <1>10, <3>2, <3>3, <4>1
      <4>2. CASE j = 0
        <5>1. Behind(k, c, 0)
          BY <3>2, <3>3, <4>2 DEF c
        <5> SUFFICES ASSUME NEW x \in DOMAIN k, NEW q \in DOMAIN d, 0 < q PROVE k[x] < d[q].fact
          BY <1>2, <4>2 DEF Behind
        <5>2. CASE q \in DOMAIN c /\ d[q] = c[q]
          BY <5>1, <5>2 DEF Behind
        <5>3. CASE d[q].fact = f
          BY <2>2, <5>3
        <5> QED BY <1>7, <5>2, <5>3
      <4> QED BY <4>1, <4>2
    <3> QED BY <1>10, <2>6, <3>2, <3>3
  <2> QED BY <2>5, <2>6
<1>16. Ordered(t, f)
  BY <1>9, <1>11, <1>13, <1>14 DEF Ordered
<1> QED BY <1>15, <1>16 DEF t

\* The files one may append to, and the files one may open.
LEMMA PrunedOrdered ==
  ASSUME NEW s, NEW n \in Nat, Ordered(s, n), NEW p \in Pruned(s)
  PROVE  /\ Ordered(p, n) /\ p[0] = s[0]
         /\ \A snap : SnapOk(s, snap, n) => SnapOk(p, snap, n)
         /\ \A x : x \notin InodesOf(s) => x \notin InodesOf(p)
<1>1. s \in Files
  BY DEF Ordered
<1>2. /\ Descends(p, s, [i \in Slots |-> i]) /\ p[0] = s[0]
      /\ \A i \in Slots : There(p, i) => There(s, i) /\ p[i] = s[i]
  BY <1>1, PrunedDescends
<1>3. \A x : x \notin InodesOf(s) => x \notin InodesOf(p)
  BY <1>2 DEF InodesOf
<1>4. Ordered(p, n) /\ \A snap : SnapOk(s, snap, n) => SnapOk(p, snap, n)
  BY <1>2, DescendsOrdered
<1> QED BY <1>2, <1>3, <1>4

LEMMA WritableOrdered ==
  ASSUME NEW s, NEW n \in Nat, Ordered(s, n), There(s, 0), NEW w \in Writable(s)
  PROVE  /\ Ordered(w, n) /\ There(w, 0)
         /\ \A snap : SnapOk(s, snap, n) => SnapOk(w, snap, n)
<1>1. CASE ~RotationDue(s)
  BY <1>1 DEF Writable
<1>2. CASE RotationDue(s)
  <2> DEFINE t == Shifted(s, ArchiveLimit)
  <2>1. PICK p \in Pruned(t), x \in {m \in Inodes : m \notin InodesOf(t)} : w = [p EXCEPT ![0] = File(x)]
    BY <1>2 DEF Writable
  <2>2. s \in Files /\ ArchiveLimit \in Slots
    BY SlotsAre DEF Ordered
  <2>3. Descends(t, s, Origin(ArchiveLimit)) /\ ~There(t, 0)
    BY <2>2, ShiftedDescends
  <2>4. Ordered(t, n) /\ \A snap : SnapOk(s, snap, n) => SnapOk(t, snap, n)
    BY <2>3, DescendsOrdered
  <2>5. x \in Inodes /\ x \notin InodesOf(t) /\ p \in Pruned(t)
    BY <2>1
  <2> HIDE DEF t
  <2>6. /\ Ordered(p, n) /\ p[0] = t[0] /\ x \notin InodesOf(p)
        /\ \A snap : SnapOk(t, snap, n) => SnapOk(p, snap, n)
    BY <2>4, <2>5, PrunedOrdered
  <2>7. ~There(p, 0)
    BY <2>3, <2>6 DEF There
  <2>8. /\ Ordered([p EXCEPT ![0] = File(x)], n) /\ There([p EXCEPT ![0] = File(x)], 0)
        /\ \A snap : SnapOk(p, snap, n) => SnapOk([p EXCEPT ![0] = File(x)], snap, n)
    BY <2>5, <2>6, <2>7, FreshOrdered
  <2> QED BY <2>1, <2>4, <2>6, <2>8
<1> QED BY <1>1, <1>2

LEMMA OpenedOrdered ==
  ASSUME NEW s, NEW n \in Nat, Ordered(s, n), NEW w \in Opened(s)
  PROVE  /\ Ordered(w, n) /\ There(w, 0)
         /\ \A snap : SnapOk(s, snap, n) => SnapOk(w, snap, n)
<1>1. CASE There(s, 0)
  <2>1. w \in Pruned(s)
    BY <1>1 DEF Opened
  <2>2. /\ Ordered(w, n) /\ w[0] = s[0]
        /\ \A snap : SnapOk(s, snap, n) => SnapOk(w, snap, n)
    BY <2>1, PrunedOrdered
  <2> QED BY <1>1, <2>2 DEF There
<1>2. CASE ~There(s, 0)
  <2>1. PICK p \in Pruned(s), x \in {m \in Inodes : m \notin InodesOf(s)} : w = [p EXCEPT ![0] = File(x)]
    BY <1>2 DEF Opened
  <2>2. x \in Inodes /\ x \notin InodesOf(s) /\ p \in Pruned(s)
    BY <2>1
  <2>3. /\ Ordered(p, n) /\ p[0] = s[0] /\ x \notin InodesOf(p)
        /\ \A snap : SnapOk(s, snap, n) => SnapOk(p, snap, n)
    BY <2>2, PrunedOrdered
  <2>4. ~There(p, 0)
    BY <1>2, <2>3 DEF There
  <2>5. /\ Ordered([p EXCEPT ![0] = File(x)], n) /\ There([p EXCEPT ![0] = File(x)], 0)
        /\ \A snap : SnapOk(p, snap, n) => SnapOk([p EXCEPT ![0] = File(x)], snap, n)
    BY <2>2, <2>3, <2>4, FreshOrdered
  <2> QED BY <2>1, <2>3, <2>5
<1> QED BY <1>1, <1>2

\* What a power loss leaves of the files.
CutBack(s, kept) ==
    [i \in Slots |->
        IF There(s, i)
        THEN [s[i] EXCEPT !.cells = SubSeq(@, 1, kept[i]), !.synced = kept[i]]
        ELSE None]

LEMMA CutBackOrdered ==
  ASSUME NEW s, NEW n \in Nat, Ordered(s, n), NEW kept \in [Slots -> 0..FileCells],
         \A i \in Slots : There(s, i) => kept[i] \in s[i].synced..Len(s[i].cells)
  PROVE  /\ Ordered(CutBack(s, kept), n)
         /\ \A snap : SnapOk(s, snap, n) => SnapOk(CutBack(s, kept), snap, n)
<1> DEFINE t == CutBack(s, kept)
<1>1. s \in Files
  BY DEF Ordered
<1>2. ASSUME NEW i \in Slots, There(s, i)
      PROVE  /\ t[i] \in AFile /\ There(t, i) /\ t[i].inode = s[i].inode
             /\ Len(Cells(t, i)) <= Len(Cells(s, i))
             /\ \A p \in DOMAIN Cells(t, i) : Cells(t, i)[p] = Cells(s, i)[p]
  <2> DEFINE c == Cells(s, i)
             k == kept[i]
             d == SubSeq(c, 0 + 1, k)
  <2>1. s[i] \in AFile /\ c = s[i].cells /\ c \in Content /\ Len(c) \in Nat /\ s[i].synced \in Nat
    BY <1>1, <1>2, SlotType
  <2>2. k \in Nat /\ k <= Len(c)
    <3>1. k \in 0..FileCells /\ k \in s[i].synced..Len(c)
      BY <1>2, <2>1
    <3> HIDE DEF k, c
    <3> QED BY <2>1, <3>1, SizeAssumption
  <2>3. t[i] = [s[i] EXCEPT !.cells = d, !.synced = k]
    BY <1>2, <2>1 DEF CutBack
  <2> HIDE DEF c, k, t
  <2>4. 0 \in Nat /\ (0 <= k => k - 0 = k)
    BY <2>2
  <2>5. /\ d \in Content
        /\ Len(d) = IF 0 <= k THEN k - 0 ELSE 0
        /\ \A p \in DOMAIN d : 0 + p \in DOMAIN c /\ 0 + p <= k /\ d[p] = c[0 + p]
    BY <2>1, <2>2, <2>4, PartIs
  <2>6. Len(d) <= Len(c) /\ \A p \in DOMAIN d : d[p] = c[p]
    <3>1. Len(d) = k
      BY <2>2, <2>5
    <3>2. DOMAIN d = 1..Len(d)
      <4>1. d \in Seq(Cell)
        BY <2>5 DEF Content
      <4> HIDE DEF d
      <4> QED BY <4>1
    <3> HIDE DEF d
    <3>3. \A p \in DOMAIN d : 0 + p = p
      BY <2>2, <3>1, <3>2
    <3> QED BY <2>2, <2>5, <3>1, <3>3
  <2> HIDE DEF d
  <2>7. t[i] \in AFile /\ t[i].inode = s[i].inode /\ t[i].cells = d
    BY <2>1, <2>2, <2>3, <2>5 DEF AFile
  <2>8. There(t, i)
    BY <2>7, FileIsThere DEF There
  <2>9. Cells(t, i) = d
    BY <2>7, <2>8 DEF Cells
  <2> QED BY <2>6, <2>7, <2>8, <2>9 DEF c
<1>3. ASSUME NEW i \in Slots, ~There(s, i) PROVE t[i] = None /\ ~There(t, i)
  BY <1>3 DEF CutBack, There
<1>4. t \in Files
  <2>1. \A i \in Slots : t[i] \in AFile \cup {None}
    BY <1>2, <1>3
  <2> QED BY <2>1 DEF CutBack, Files
<1> HIDE DEF t
<1> DEFINE o == [i \in Slots |-> i]
<1>5. o \in [Slots -> Slots] /\ \A i \in Slots : o[i] = i
  OBVIOUS
<1> HIDE DEF o
<1>6. \A i \in Slots : There(t, i) => There(s, i)
  BY <1>3
<1>7. Descends(t, s, o)
  BY <1>2, <1>4, <1>5, <1>6 DEF Descends
<1>8. Ordered(t, n) /\ \A snap : SnapOk(s, snap, n) => SnapOk(t, snap, n)
  BY <1>7, DescendsOrdered
<1> QED BY <1>8 DEF t

\* What a record that is cut short leaves of the live file.
LEMMA CutShortOrdered ==
  ASSUME NEW s, NEW n \in Nat, Ordered(s, n), There(s, 0), Len(Cells(s, 0)) > 0
  PROVE  /\ Ordered(CutShort(s), n)
         /\ \A snap : SnapOk(s, snap, n) => SnapOk(CutShort(s), snap, n)
<1> DEFINE t == CutShort(s)
           c == Cells(s, 0)
           k == Len(c) - 1
           d == SubSeq(c, 0 + 1, k)
<1>1. /\ s \in Files /\ DOMAIN s = Slots /\ 0 \in Slots
      /\ s[0] \in AFile /\ c = s[0].cells /\ c \in Content /\ Len(c) \in Nat
  BY SlotsAre, SlotType DEF Ordered, Files
<1>2. k \in Nat /\ k <= Len(c)
  <2> HIDE DEF c
  <2> QED BY <1>1 DEF c
<1>3. t = [s EXCEPT ![0] = [s[0] EXCEPT !.cells = d]]
  <2>1. Front(s[0].cells) = d
    <3>1. 0 + 1 = 1
      OBVIOUS
    <3>2. Front(c) = SubSeq(c, 1, k)
      <4> HIDE DEF c
      <4> QED BY DEF Front
    <3>3. c = s[0].cells
      BY <1>1
    <3> HIDE DEF c, k
    <3> QED BY <3>1, <3>2, <3>3
  <2>2. t = [s EXCEPT ![0] = [s[0] EXCEPT !.cells = Front(s[0].cells)]]
    BY DEF CutShort
  <2> HIDE DEF d
  <2> QED BY <2>1, <2>2
<1> HIDE DEF c, k, t
<1>4. 0 \in Nat /\ (0 <= k => k - 0 = k)
  BY <1>2
<1>5. /\ d \in Content
      /\ Len(d) = IF 0 <= k THEN k - 0 ELSE 0
      /\ \A p \in DOMAIN d : 0 + p \in DOMAIN c /\ 0 + p <= k /\ d[p] = c[0 + p]
  BY <1>1, <1>2, <1>4, PartIs
<1>6. Len(d) <= Len(c) /\ \A p \in DOMAIN d : d[p] = c[p]
  <2>1. Len(d) = k
    BY <1>2, <1>5
  <2>2. DOMAIN d = 1..Len(d)
    <3>1. d \in Seq(Cell)
      BY <1>5 DEF Content
    <3> HIDE DEF d
    <3> QED BY <3>1
  <2> HIDE DEF d
  <2>3. \A p \in DOMAIN d : 0 + p = p
    BY <1>2, <2>1, <2>2
  <2> QED BY <1>2, <1>5, <2>1, <2>3
<1> HIDE DEF d
<1> DEFINE y == [s[0] EXCEPT !.cells = d]
<1>7. y \in AFile /\ y.inode = s[0].inode /\ y.cells = d
  BY <1>1, <1>5 DEF AFile
<1>8. t[0] = y /\ \A i \in Slots \ {0} : t[i] = s[i]
  BY <1>1, <1>3
<1>9. t \in Files
  <2> HIDE DEF y
  <2> QED BY <1>1, <1>3, <1>7 DEF Files, y
<1> HIDE DEF y
<1>10. There(t, 0) /\ Cells(t, 0) = d /\ t[0].inode = s[0].inode
  BY <1>7, <1>8, FileIsThere DEF There, Cells
<1>11. \A i \in Slots \ {0} : (There(t, i) <=> There(s, i)) /\ Cells(t, i) = Cells(s, i)
  BY <1>8 DEF There, Cells
<1> DEFINE o == [i \in Slots |-> i]
<1>12. o \in [Slots -> Slots] /\ \A i \in Slots : o[i] = i
  OBVIOUS
<1> HIDE DEF o
<1>13. ASSUME NEW i \in Slots, There(t, i)
       PROVE  /\ There(s, i) /\ t[i].inode = s[i].inode
              /\ Len(Cells(t, i)) <= Len(Cells(s, i))
              /\ \A p \in DOMAIN Cells(t, i) : Cells(t, i)[p] = Cells(s, i)[p]
  <2>1. CASE i = 0
    BY <1>6, <1>10, <2>1 DEF c
  <2>2. CASE i # 0
    <3>1. Len(Cells(s, i)) \in Nat
      BY <1>1, SlotType
    <3> QED BY <1>8, <1>11, <1>13, <2>2, <3>1
  <2> QED BY <2>1, <2>2
<1>14. Descends(t, s, o)
  BY <1>9, <1>12, <1>13 DEF Descends
<1>15. Ordered(t, n) /\ \A snap : SnapOk(s, snap, n) => SnapOk(t, snap, n)
  BY <1>14, DescendsOrdered
<1> QED BY <1>15 DEF t

-----------------------------------------------------------------------------
(* What is known is always in order.                                       *)

InSequence ==
    /\ count \in Nat /\ count <= MaxFacts
    /\ since \in Nat
    /\ running \in BOOLEAN /\ intact \in BOOLEAN
    /\ Ordered(slots, count)
    /\ SnapOk(slots, snapshot, count)
    /\ Knows(facts, count)
    /\ running => There(slots, 0)

LEMMA KnowsNone == ASSUME NEW n \in Nat PROVE Knows(<<>>, n)
BY DEF Knows, Numbers, Rises

LEMMA KnowsMore ==
  ASSUME NEW n \in Nat, NEW k, Knows(k, n)
  PROVE  Knows(Append(k, n + 1), n + 1)
<1> DEFINE a == Append(k, n + 1)
<1>1. k \in Seq(Nat) /\ Rises(k) /\ \A i \in DOMAIN k : k[i] \in 1..n
  BY DEF Knows, Numbers
<1>2. /\ a \in Seq(Nat) /\ DOMAIN a = 1..(Len(k) + 1) /\ DOMAIN k = 1..Len(k) /\ Len(k) \in Nat
      /\ a[Len(k) + 1] = n + 1
      /\ \A i \in 1..Len(k) : a[i] = k[i]
  BY <1>1
<1> HIDE DEF a
<1>3. \A i \in DOMAIN a : a[i] \in 1..(n + 1)
  <2> TAKE i \in DOMAIN a
  <2>1. CASE i \in DOMAIN k
    <3>1. a[i] = k[i] /\ k[i] \in 1..n
      BY <1>1, <1>2, <2>1
    <3> QED BY <3>1
  <2>2. CASE i \notin DOMAIN k
    <3>1. i = Len(k) + 1
      BY <1>2, <2>2
    <3> QED BY <1>2, <3>1
  <2> QED BY <2>1, <2>2
<1>4. Rises(a)
  <2> SUFFICES ASSUME NEW i \in DOMAIN a, NEW j \in DOMAIN a, i < j PROVE a[i] < a[j]
    BY DEF Rises
  <2>1. i \in DOMAIN k /\ a[i] = k[i] /\ k[i] \in 1..n
    <3>1. i \in 1..Len(k)
      BY <1>2
    <3> QED BY <1>1, <1>2, <3>1
  <2>2. CASE j \in DOMAIN k
    BY <1>1, <1>2, <2>1, <2>2 DEF Rises
  <2>3. CASE j \notin DOMAIN k
    <3>1. a[j] = n + 1
      BY <1>2, <2>3
    <3> QED BY <2>1, <3>1
  <2> QED BY <2>2, <2>3
<1> QED BY <1>2, <1>3, <1>4 DEF Knows, Numbers, a

LEMMA InSequenceInit == JournalInit => InSequence
<1> SUFFICES ASSUME JournalInit PROVE InSequence
  OBVIOUS
<1>1. PICK n \in Inodes : slots = [i \in Slots |-> IF i = 0 THEN File(n) ELSE None]
  BY DEF JournalInit
<1> DEFINE s == [i \in Slots |-> None]
<1>2. s \in Files /\ (\A i \in Slots : s[i] = None /\ ~There(s, i) /\ Cells(s, i) = <<>>)
  BY DEF Files, There, Cells
<1>3. Ordered(s, 0) /\ InodesOf(s) = {}
  BY <1>2, EmptyContent DEF Ordered, OneEach, UpTo, Newer, InodesOf
<1>4. slots = [s EXCEPT ![0] = File(n)]
  BY <1>1
<1>5. ~There(s, 0)
  BY <1>2, SlotsAre
<1> HIDE DEF s
<1>6. Ordered(slots, 0) /\ There(slots, 0)
  BY <1>3, <1>4, <1>5, FreshOrdered
<1>7. SnapOk(slots, snapshot, 0)
  BY DEF SnapOk, JournalInit
<1>8. Knows(facts, 0)
  BY KnowsNone DEF JournalInit
<1> QED BY <1>6, <1>7, <1>8, BoundAssumption DEF InSequence, JournalInit

LEMMA InSequenceStep == InSequence /\ [JournalNext]_journalVars => InSequence'
<1> SUFFICES ASSUME InSequence, [JournalNext]_journalVars PROVE InSequence'
  OBVIOUS
<1>0. /\ count \in Nat /\ count <= MaxFacts /\ since \in Nat /\ MaxFacts \in Nat
      /\ running \in BOOLEAN /\ intact \in BOOLEAN
      /\ Ordered(slots, count) /\ SnapOk(slots, snapshot, count) /\ Knows(facts, count)
      /\ running => There(slots, 0)
  BY BoundAssumption DEF InSequence
<1>1. ASSUME NEW flush \in Flushes, Record(flush) PROVE InSequence'
  <2>1. PICK s \in Writable(slots) :
          /\ slots' = Written(s, count + 1, flush)
          /\ intact' = (intact /\ Keeps(s, IF RotationDue(slots)
                                          THEN Shifted(slots, ArchiveLimit) ELSE slots))
    BY <1>1 DEF Record
  <2>2. /\ running /\ count < MaxFacts /\ facts' = Append(facts, count + 1) /\ count' = count + 1
        /\ since' = since + 1 /\ snapshot' = snapshot /\ running' = running
    BY <1>1 DEF Record
  <2>3. Ordered(s, count) /\ There(s, 0) /\ SnapOk(s, snapshot, count)
    BY <1>0, <2>2, WritableOrdered
  <2>4. Ordered(slots', count + 1) /\ SnapOk(slots', snapshot, count + 1)
    BY <1>0, <2>1, <2>3, WrittenOrdered
  <2>5. There(slots', 0)
    <3>1. count + 1 \in Nat \ {0} /\ s \in Files
      BY <1>0, <2>3 DEF Ordered
    <3> QED BY <2>1, <2>3, <3>1, WrittenIs
  <2>6. Knows(facts', count + 1)
    BY <1>0, <2>2, KnowsMore
  <2>7. count + 1 \in Nat /\ count + 1 <= MaxFacts /\ since + 1 \in Nat /\ intact' \in BOOLEAN
    BY <1>0, <2>1, <2>2
  <2> QED BY <1>0, <2>2, <2>4, <2>5, <2>6, <2>7 DEF InSequence
<1>2. ASSUME WriteSnapshot PROVE InSequence'
  <2>1. /\ running /\ snapshot' = [facts |-> facts, checkpoint |-> Checkpoint(slots)]
        /\ since' = 0
        /\ UNCHANGED <<slots, facts, running, count, intact>>
    BY <1>2 DEF WriteSnapshot
  <2>2. slots \in Files /\ There(slots, 0) /\ 0 \in Slots /\ OneEach(slots)
    BY <1>0, <2>1, SlotsAre DEF Ordered
  <2>3. slots[0].inode \in Inodes /\ slots[0].cells = Cells(slots, 0) /\ Len(slots[0].cells) \in Nat
        /\ DOMAIN Cells(slots, 0) = 1..Len(Cells(slots, 0))
    BY <2>2, SlotType
  <2>4. /\ snapshot'.facts = facts /\ snapshot'.checkpoint.inode = slots[0].inode
        /\ snapshot'.checkpoint.offset = Len(slots[0].cells)
    BY <2>1 DEF Checkpoint
  <2>5. snapshot' \in Snapshots
    BY <1>0, <2>1, <2>3 DEF Checkpoint, Snapshots, Knows
  <2>6. Ahead(slots, snapshot')
    <3> SUFFICES ASSUME NEW i \in Slots, Holds(slots, i, snapshot'.checkpoint)
        PROVE  /\ Behind(snapshot'.facts, Cells(slots, i), snapshot'.checkpoint.offset)
               /\ \A j \in Slots : j < i => Behind(snapshot'.facts, Cells(slots, j), 0)
      BY DEF Ahead
    <3>1. i = 0
      BY <2>2, <2>4 DEF Holds, OneEach
    <3>2. \A j \in Slots : ~(j < 0)
      BY SlotsAre
    <3>3. \A q \in DOMAIN Cells(slots, 0) : ~(snapshot'.checkpoint.offset < q)
      BY <2>3, <2>4
    <3> QED BY <3>1, <3>2, <3>3 DEF Behind
  <2>7. SnapOk(slots, snapshot', count)
    BY <1>0, <2>4, <2>5, <2>6 DEF SnapOk
  <2> QED BY <1>0, <2>1, <2>7 DEF InSequence
<1>3. ASSUME NEW s, Stopped(s), intact' \in BOOLEAN, Ordered(s, count), SnapOk(s, snapshot, count)
      PROVE  InSequence'
  <2>1. /\ running' = FALSE /\ slots' = s /\ facts' = <<>>
        /\ UNCHANGED <<snapshot, count, since>>
    BY <1>3 DEF Stopped
  <2> QED BY <1>0, <1>3, <2>1, KnowsNone DEF InSequence
<1>4. ASSUME Crash PROVE InSequence'
  BY <1>0, <1>3, <1>4 DEF Crash
<1>5. ASSUME CrashInRotation PROVE InSequence'
  <2>1. PICK n \in Slots : Stopped(Shifted(slots, n))
    BY <1>5 DEF CrashInRotation
  <2>2. slots \in Files
    BY <1>0 DEF Ordered
  <2>3. Descends(Shifted(slots, n), slots, Origin(n))
    BY <2>2, ShiftedDescends
  <2>4. Ordered(Shifted(slots, n), count) /\ SnapOk(Shifted(slots, n), snapshot, count)
    BY <1>0, <2>3, DescendsOrdered
  <2>5. intact' \in BOOLEAN
    BY <1>5 DEF CrashInRotation
  <2> QED BY <1>3, <2>1, <2>4, <2>5
<1>6. ASSUME PowerLoss PROVE InSequence'
  <2>1. PICK kept \in [Slots -> 0..FileCells] :
          /\ \A i \in Slots :
                IF There(slots, i)
                THEN kept[i] \in slots[i].synced..Len(slots[i].cells)
                ELSE kept[i] = 0
          /\ Stopped(CutBack(slots, kept))
    BY <1>6 DEF PowerLoss, CutBack
  <2>2. Ordered(CutBack(slots, kept), count) /\ SnapOk(CutBack(slots, kept), snapshot, count)
    BY <1>0, <2>1, CutBackOrdered
  <2>3. intact' \in BOOLEAN
    BY <1>6 DEF PowerLoss
  <2> QED BY <1>3, <2>1, <2>2, <2>3
<1>9. ASSUME CrashInWrite PROVE InSequence'
  <2>1. /\ running /\ count < MaxFacts /\ count' = count + 1 /\ facts' = <<>> /\ since' = since
        /\ snapshot' = snapshot /\ running' = FALSE /\ intact' = FALSE
    BY <1>9 DEF CrashInWrite
  <2>2. PICK s \in Writable(slots) : slots' = CutShort(Written(s, count + 1, FALSE))
    BY <1>9 DEF CrashInWrite
  <2>3. Ordered(s, count) /\ There(s, 0) /\ SnapOk(s, snapshot, count)
    BY <1>0, <2>1, WritableOrdered
  <2> DEFINE n == count + 1
             t == Written(s, n, FALSE)
  <2>4. n \in Nat \ {0} /\ n <= MaxFacts
    BY <1>0, <2>1
  <2>5. Ordered(t, n) /\ SnapOk(t, snapshot, n)
    BY <1>0, <2>3, WrittenOrdered
  <2> HIDE DEF n
  <2>6. There(t, 0) /\ Cells(t, 0) = Cells(s, 0) \o Two(n)
    <3>1. s \in Files
      BY <2>3 DEF Ordered
    <3> QED BY <2>3, <2>4, <3>1, WrittenIs
  <2> HIDE DEF t
  <2>7. Len(Cells(t, 0)) > 0
    <3>1. Cells(s, 0) \in Seq(Cell) /\ Len(Cells(s, 0)) \in Nat
      BY <2>3, SlotsAre, SlotType DEF Ordered
    <3>2. Len(Cells(s, 0) \o Two(n)) = Len(Cells(s, 0)) + 2
      BY <2>4, <3>1, TwoMore
    <3> QED BY <2>6, <3>1, <3>2
  <2>8. Ordered(CutShort(t), n) /\ SnapOk(CutShort(t), snapshot, n)
    BY <2>4, <2>5, <2>6, <2>7, CutShortOrdered
  <2>9. slots' = CutShort(t) /\ count' = n
    BY <2>1, <2>2 DEF t, n
  <2>10. Knows(facts', n)
    BY <2>1, <2>4, KnowsNone
  <2> QED BY <1>0, <2>1, <2>4, <2>8, <2>9, <2>10 DEF InSequence
<1>7. ASSUME Restart PROVE InSequence'
  <2>1. PICK s \in Opened(slots) :
          /\ slots' = s /\ facts' = Recovered(s, snapshot)
          /\ intact' = (intact /\ Keeps(s, slots))
    BY <1>7 DEF Restart
  <2>2. running' = TRUE /\ UNCHANGED <<snapshot, count, since>>
    BY <1>7 DEF Restart
  <2>3. Ordered(s, count) /\ There(s, 0) /\ SnapOk(s, snapshot, count)
    BY <1>0, OpenedOrdered
  <2>4. Knows(Recovered(s, snapshot), count)
    BY <1>0, <2>3, RecoveredKnows
  <2> QED BY <1>0, <2>1, <2>2, <2>3, <2>4 DEF InSequence
<1>8. CASE UNCHANGED journalVars
  BY <1>0, <1>8 DEF journalVars, InSequence
<1> QED BY <1>1, <1>2, <1>4, <1>5, <1>6, <1>7, <1>8, <1>9 DEF JournalNext

-----------------------------------------------------------------------------
(* As long as no file is lost, nothing is.                                 *)

RecordsPerFile == FileCells \div 2

\* The files there are lie in the first slots.
Chain(s) == \E m \in Slots : \A i \in Slots : There(s, i) <=> i <= m

\* After n records, x of them in the live file, the checkpoint's file is there.
Reaches(s, snap, n, x) ==
    \E h \in Slots : /\ Holds(s, h, snap.checkpoint)
                     /\ h >= 1 => (h - 1) * RecordsPerFile + x <= n
Room(s, snap, n, x) == IF snap = None THEN x <= n ELSE Reaches(s, snap, n, x)
Kept(s, snap, n) ==
    /\ Chain(s)
    /\ Whole(Cells(s, 0))
    /\ \E x \in Nat : Len(Cells(s, 0)) = 2 * x /\ Room(s, snap, n, x)

Exact == intact => Kept(slots, snapshot, since) /\ (running => Recovered(slots, snapshot) = facts)

LEMMA ChainProvable ==
  ASSUME NEW s, Chain(s), NEW h \in Slots, NEW cp, Holds(s, h, cp)
  PROVE  Provable(s, cp)
<1>1. PICK m \in Slots : \A i \in Slots : There(s, i) <=> i <= m
  BY DEF Chain
<1> DEFINE archives == {i \in Slots \ {0} : There(s, i)}
<1>2. m \in Nat /\ m <= ArchiveLimit /\ h \in Nat /\ h <= m
  BY <1>1, SlotsAre DEF Holds
<1>3. archives = 1..m
  <2>1. ASSUME NEW i \in archives PROVE i \in 1..m
    <3>1. i \in Slots /\ i # 0 /\ i <= m
      BY <1>1
    <3>2. i \in Nat
      BY <3>1, SlotsAre
    <3> QED BY <1>2, <3>1, <3>2
  <2>2. ASSUME NEW i \in 1..m PROVE i \in archives
    <3>1. i \in Nat /\ i <= m /\ i # 0 /\ i <= ArchiveLimit
      BY <1>2, SlotsAre
    <3>2. i \in Slots
      BY <3>1, SlotsAre
    <3> QED BY <1>1, <3>1, <3>2
  <2> QED BY <2>1, <2>2
<1> HIDE DEF archives
<1>4. Cardinality(archives) = m
  <2>1. Cardinality(1..m) = IF 1 > m THEN 0 ELSE m - 1 + 1
    BY <1>2, FS_Interval
  <2>2. (IF 1 > m THEN 0 ELSE m - 1 + 1) = m
    BY <1>2
  <2> QED BY <1>3, <2>1, <2>2
<1>5. RetainedOldestFirst(s) = [k \in 1..(m + 1) |-> m + 1 - k]
  BY <1>3, <1>4 DEF RetainedOldestFirst, archives
<1>6. m + 1 - h \in DOMAIN RetainedOldestFirst(s) /\ RetainedOldestFirst(s)[m + 1 - h] = h
  BY <1>2, <1>5
<1> QED BY <1>6 DEF Provable

LEMMA RecoveredFrom ==
  ASSUME NEW s, OneEach(s), Chain(s), NEW snap, snap # None,
         NEW h \in Slots, Holds(s, h, snap.checkpoint)
  PROVE  Recovered(s, snap) = snap.facts \o TailFrom(s, h, snap.checkpoint.offset)
<1>1. Provable(s, snap.checkpoint)
  BY ChainProvable
<1>2. TailAfter(s, snap.checkpoint) = TailFrom(s, h, snap.checkpoint.offset)
  BY HereIs
<1> QED BY <1>1, <1>2 DEF Recovered

\* What is behind a cell of whole records, when one is added.
LEMMA RestMore ==
  ASSUME NEW c \in Content, Whole(c), NEW f \in Nat \ {0}, NEW p \in Nat, p <= Len(c)
  PROVE  /\ SubSeq(c, p + 1, Len(c)) \in Seq(Cell) /\ Whole(SubSeq(c, p + 1, Len(c)))
         /\ SubSeq(c \o Two(f), p + 1, Len(c \o Two(f))) = SubSeq(c, p + 1, Len(c)) \o Two(f)
<1> DEFINE n == Len(c)
           d == c \o Two(f)
           r == SubSeq(c, p + 1, n)
           e == SubSeq(d, p + 1, n + 2)
           g == r \o Two(f)
<1>1. c \in Seq(Cell) /\ n \in Nat /\ n <= Len(c) /\ p <= n /\ DOMAIN c = 1..n
  BY DEF Content
<1>2. /\ d \in Seq(Cell) /\ Len(d) = n + 2
      /\ \A i \in 1..n : d[i] = c[i]
      /\ d[n + 1] = [fact |-> f, half |-> 1]
      /\ d[n + 2] = [fact |-> f, half |-> 2]
  BY <1>1, TwoMore
<1>3. /\ r \in Content
      /\ Len(r) = IF p <= n THEN n - p ELSE 0
      /\ \A i \in DOMAIN r : p + i \in DOMAIN c /\ p + i <= n /\ r[i] = c[p + i]
  <2> DEFINE k == n
  <2>1. k \in Nat /\ k <= Len(c) /\ p \in Nat /\ c \in Content
    BY <1>1
  <2> HIDE DEF n, k
  <2>2. /\ SubSeq(c, p + 1, k) \in Content
        /\ Len(SubSeq(c, p + 1, k)) = IF p <= k THEN k - p ELSE 0
        /\ \A i \in DOMAIN SubSeq(c, p + 1, k) :
              p + i \in DOMAIN c /\ p + i <= k /\ SubSeq(c, p + 1, k)[i] = c[p + i]
    BY <2>1, PartIs
  <2> QED BY <2>2 DEF k
<1>4. r \in Seq(Cell)
  BY <1>3 DEF Content
<1> HIDE DEF r
<1>5. Len(r) = n - p /\ DOMAIN r = 1..(n - p) /\ \A i \in 1..(n - p) : r[i] = c[p + i]
  BY <1>1, <1>3, <1>4
<1>6. Whole(r)
  <2>1. CASE n = p
    BY <1>5, <2>1 DEF Whole
  <2>2. CASE n # p
    <3>1. n - p \in 1..(n - p) /\ p + (n - p) = n /\ n # 0
      <4>1. n \in Nat /\ p \in Nat /\ p <= n
        BY <1>1
      <4> HIDE DEF n
      <4> QED BY <2>2, <4>1
    <3>2. r[n - p] = c[n] /\ c[n].half = 2
      BY <1>5, <3>1 DEF Whole
    <3> QED BY <1>5, <3>2 DEF Whole
  <2> QED BY <2>1, <2>2
<1>7. /\ g \in Seq(Cell) /\ Len(g) = (n - p) + 2
      /\ \A i \in 1..(n - p) : g[i] = r[i]
      /\ g[(n - p) + 1] = [fact |-> f, half |-> 1]
      /\ g[(n - p) + 2] = [fact |-> f, half |-> 2]
  BY <1>4, <1>5, TwoMore
<1> HIDE DEF d, g
<1>8. /\ e \in Seq(Cell) /\ Len(e) = (n - p) + 2
      /\ \A i \in 1..((n - p) + 2) : e[i] = d[p + i]
  <2>1. p + 1 \in Int /\ n + 2 \in Int /\ p + 1 <= n + 2
    BY <1>1
  <2>2. \A i \in (p + 1)..(n + 2) : d[i] \in Cell
    BY <1>1, <1>2
  <2>3. /\ e \in Seq(Cell)
        /\ Len(e) = IF p + 1 <= n + 2 THEN (n + 2) - (p + 1) + 1 ELSE 0
        /\ \A i \in 1..((n + 2) - (p + 1) + 1) : e[i] = d[(p + 1) + i - 1]
    BY <2>1, <2>2, SubSeqProperties
  <2>4. (n + 2) - (p + 1) + 1 = (n - p) + 2
    BY <1>1
  <2>5. \A i \in 1..((n - p) + 2) : (p + 1) + i - 1 = p + i
    BY <1>1
  <2> HIDE DEF e
  <2> QED BY <2>1, <2>3, <2>4, <2>5
<1> HIDE DEF e
<1>9. ASSUME NEW i \in 1..((n - p) + 2) PROVE e[i] = g[i]
  <2>1. CASE i \in 1..(n - p)
    <3>1. p + i \in 1..n
      BY <1>1, <2>1
    <3> QED BY <1>2, <1>5, <1>7, <1>8, <2>1, <3>1
  <2>2. CASE i = (n - p) + 1
    <3>1. p + i = n + 1
      BY <1>1, <2>2
    <3> QED BY <1>2, <1>7, <1>8, <2>2, <3>1
  <2>3. CASE i = (n - p) + 2
    <3>1. p + i = n + 2
      BY <1>1, <2>3
    <3> QED BY <1>2, <1>7, <1>8, <2>3, <3>1
  <2> QED BY <1>1, <2>1, <2>2, <2>3
<1>10. e = g
  <2> DEFINE k == (n - p) + 2
  <2>2. Len(e) = k /\ Len(g) = k /\ \A i \in 1..k : e[i] = g[i]
    BY <1>7, <1>8, <1>9
  <2> HIDE DEF k
  <2>1. Len(e) = Len(g) /\ \A i \in 1..Len(e) : e[i] = g[i]
    BY <2>2
  <2> QED BY <1>7, <1>8, <2>1, SeqEqual
<1> QED BY <1>2, <1>4, <1>6, <1>10 DEF e, g, d, r

LEMMA Associate ==
  ASSUME NEW a \in Numbers, NEW x \in Numbers, NEW y \in Numbers
  PROVE  a \o (x \o y) = (a \o x) \o y
BY DEF Numbers

LEMMA Together ==
  ASSUME NEW a \in Numbers, NEW q \in Numbers, NEW z \in Numbers, NEW y \in Numbers,
         NEW l, l = a \o (q \o (z \o y)), NEW r, r = a \o (q \o z)
  PROVE  l = r \o y
<1>1. q \o (z \o y) = (q \o z) \o y
  BY Associate
<1> DEFINE x == q \o z
<1>2. x \in Numbers
  BY DEF Numbers
<1> HIDE DEF x
<1>3. a \o (x \o y) = (a \o x) \o y
  BY <1>2, Associate
<1> QED BY <1>1, <1>3 DEF x

\* A record is recovered behind what was.
LEMMA WrittenTail ==
  ASSUME NEW s \in Files, There(s, 0), Whole(Cells(s, 0)), NEW f \in Nat \ {0}, NEW flush,
         Written(s, f, flush) \in Files,
         NEW h \in Slots, NEW p \in Nat, p <= Len(Cells(s, h))
  PROVE  TailFrom(Written(s, f, flush), h, p) = TailFrom(s, h, p) \o <<f>>
<1> DEFINE t == Written(s, f, flush)
           c == Cells(s, 0)
           r == RestOf(s, h, p)
           a == ParsedLines(r)
           g == LaterOf(s, h)
           e == LaterOf(t, h)
<1>1. Cells(t, 0) = c \o Two(f) /\ \A i \in Slots \ {0} : Cells(t, i) = Cells(s, i)
  <2>1. Cells(t, 0) = c \o Two(f) /\ \A i \in Slots \ {0} : t[i] = s[i]
    BY WrittenIs
  <2> HIDE DEF t, c
  <2>2. \A i \in Slots \ {0} : Cells(t, i) = Cells(s, i)
    BY <2>1 DEF Cells, There
  <2> QED BY <2>1, <2>2
<1>2. c \in Content /\ c \in Seq(Cell) /\ 0 \in Slots /\ t \in Files /\ h \in Nat /\ h <= ArchiveLimit
  BY SlotType, SlotsAre
<1>3. r \in Content /\ r \in Seq(Cell)
  BY RestType DEF Content
<1>4. a \in Numbers
  BY <1>3, ParsedType
<1>5. /\ g \in Seq(Numbers) /\ Len(g) = h /\ FlattenSeq(g) \in Numbers
      /\ \A k \in 1..h : h - k \in Slots /\ g[k] = ParsedLines(Cells(s, h - k))
  BY LaterType
<1>6. /\ e \in Seq(Numbers) /\ Len(e) = h
      /\ \A k \in 1..h : h - k \in Slots /\ e[k] = ParsedLines(Cells(t, h - k))
  BY <1>2, LaterType
<1>7. <<f>> \in Numbers
  BY DEF Numbers
<1>8. CASE h = 0
  <2>1. g = <<>> /\ e = <<>>
    BY <1>5, <1>6, <1>8
  <2>2. RestOf(t, h, p) = r \o Two(f) /\ Whole(r)
    <3>1. r = SubSeq(c, p + 1, Len(c)) /\ p <= Len(c)
      BY <1>8 DEF RestOf
    <3>2. RestOf(t, h, p) = SubSeq(c \o Two(f), p + 1, Len(c \o Two(f)))
      BY <1>1, <1>8 DEF RestOf
    <3> HIDE DEF c, r
    <3>3. Whole(c)
      BY DEF c
    <3> QED BY <1>2, <3>1, <3>2, <3>3, RestMore
  <2>3. ParsedLines(RestOf(t, h, p)) = a \o <<f>>
    <3> HIDE DEF r
    <3> QED BY <1>3, <2>2, ParsedMore
  <2>4. TailFrom(t, h, p) = (a \o <<f>>) \o <<>> /\ TailFrom(s, h, p) = a \o <<>>
    BY <2>1, <2>3, FlattenNone DEF TailFrom
  <2> HIDE DEF a, t
  <2>5. (a \o <<f>>) \o <<>> = a \o <<f>> /\ a \o <<>> = a
    BY <1>4, <1>7 DEF Numbers
  <2> QED BY <2>4, <2>5 DEF t
<1>9. CASE h # 0
  <2>1. RestOf(t, h, p) = r
    BY <1>1, <1>9 DEF RestOf
  <2> DEFINE b == [k \in 1..(h - 1) |-> g[k]]
             z == ParsedLines(c)
  <2>2. h - 1 \in Nat /\ h \in 1..h /\ h - h = 0 /\ (h - 1) + 1 = h
    BY <1>2, <1>9
  <2>3. /\ b \in Seq(Numbers) /\ Len(b) = h - 1
    <3>1. b \in [1..(h - 1) -> Numbers]
      BY <1>5, <2>2
    <3>2. b \in Seq(Numbers) /\ DOMAIN b = 1..(h - 1)
      BY <2>2, <3>1, IsASeq
    <3> HIDE DEF b
    <3> QED BY <2>2, <3>2
  <2>4. z \in Numbers /\ z \o <<f>> \in Numbers
    <3>1. z \in Numbers
      BY <1>2, ParsedType
    <3> HIDE DEF z
    <3> QED BY <1>7, <3>1 DEF Numbers
  <2>5. g[h] = z /\ \A k \in 1..(h - 1) : g[k] = b[k]
    BY <1>5, <2>2
  <2>6. e[h] = z \o <<f>>
    <3>1. e[h] = ParsedLines(c \o Two(f))
      BY <1>1, <1>6, <2>2
    <3> HIDE DEF c
    <3>2. Whole(c)
      BY DEF c
    <3> QED BY <1>2, <3>1, <3>2, ParsedMore
  <2>7. \A k \in 1..(h - 1) : e[k] = b[k]
    <3> TAKE k \in 1..(h - 1)
    <3>1. k \in 1..h /\ h - k # 0
      BY <1>2
    <3>2. h - k \in Slots \ {0}
      BY <1>5, <3>1
    <3>3. e[k] = ParsedLines(Cells(t, h - k)) /\ g[k] = ParsedLines(Cells(s, h - k))
      BY <1>5, <1>6, <3>1
    <3>4. Cells(t, h - k) = Cells(s, h - k)
      BY <1>1, <3>2
    <3> QED BY <2>5, <3>3, <3>4
  <2> HIDE DEF b, z, g, e
  <2>8. FlattenSeq(g) = FlattenSeq(b) \o z
    <3>1. Len(g) = Len(b) + 1 /\ g[Len(b) + 1] = z /\ \A k \in 1..Len(b) : g[k] = b[k]
      BY <1>5, <2>2, <2>3, <2>5
    <3>2. g \in Seq(Numbers) /\ b \in Seq(Numbers) /\ z \in Numbers
      BY <1>5, <2>3, <2>4
    <3> QED BY <3>1, <3>2, FlattenMore
  <2>9. FlattenSeq(e) = FlattenSeq(b) \o (z \o <<f>>)
    <3> DEFINE zf == z \o <<f>>
    <3>1. Len(e) = Len(b) + 1 /\ e[Len(b) + 1] = zf /\ \A k \in 1..Len(b) : e[k] = b[k]
      BY <1>6, <2>2, <2>3, <2>6, <2>7
    <3>2. e \in Seq(Numbers) /\ b \in Seq(Numbers) /\ zf \in Numbers
      BY <1>6, <2>3, <2>4
    <3> HIDE DEF zf
    <3>3. FlattenSeq(e) = FlattenSeq(b) \o zf
      BY <3>1, <3>2, FlattenMore
    <3> QED BY <3>3 DEF zf
  <2> DEFINE q == FlattenSeq(b)
  <2>10. q \in Numbers
    BY <2>3, FlattenType
  <2>11. TailFrom(t, h, p) = a \o (q \o (z \o <<f>>)) /\ TailFrom(s, h, p) = a \o (q \o z)
    BY <2>1, <2>8, <2>9 DEF TailFrom, g, e
  <2> HIDE DEF a, t, q
  <2> DEFINE y == <<f>>
  <2>12. y \in Numbers
    BY <1>7
  <2> HIDE DEF y
  <2>13. a \in Numbers /\ q \in Numbers /\ z \in Numbers
    BY <1>4, <2>4, <2>10
  <2>14. TailFrom(t, h, p) = a \o (q \o (z \o y))
    BY <2>11 DEF y
  <2> QED BY <2>11, <2>12, <2>13, <2>14, Together DEF y, t
<1> QED BY <1>8, <1>9

\* A rotation that loses no archive: every file is one slot further.
LEMMA RotatedIs ==
  ASSUME NEW s \in Files, RotationDue(s), NEW w \in Writable(s), Keeps(w, Shifted(s, ArchiveLimit))
  PROVE  Cells(w, 0) = <<>> /\ \A i \in Slots \ {0} : i - 1 \in Slots /\ w[i] = s[i - 1]
<1> DEFINE t == Shifted(s, ArchiveLimit)
<1>1. PICK p \in Pruned(t), x \in {m \in Inodes : m \notin InodesOf(t)} : w = [p EXCEPT ![0] = File(x)]
  BY DEF Writable
<1>2. ArchiveLimit \in Slots
  BY SlotsAre
<1>3. t \in Files /\ \A i \in Slots \ {0} : i - 1 \in Slots /\ t[i] = s[i - 1]
  BY <1>2, ShiftedDescends
<1>4. Keeps(w, t)
  OBVIOUS
<1> HIDE DEF t
<1>5. p \in Files /\ \A i \in Slots : There(p, i) => There(t, i) /\ p[i] = t[i]
  BY <1>1, <1>3, PrunedDescends
<1>6. w[0] = File(x) /\ \A i \in Slots \ {0} : w[i] = p[i]
  BY <1>1, <1>5, SlotsAre DEF Files
<1>7. Cells(w, 0) = <<>>
  <2>1. File(x).cells = <<>>
    BY DEF File
  <2> QED BY <1>6, <2>1 DEF Cells
<1>8. ASSUME NEW i \in Slots \ {0} PROVE w[i] = s[i - 1]
  <2>1. w[i] = p[i] /\ t[i] = s[i - 1]
    BY <1>3, <1>6
  <2>2. CASE There(t, i)
    <3>1. There(w, i)
      BY <1>4, <2>2 DEF Keeps
    <3>2. There(p, i)
      BY <2>1, <3>1 DEF There
    <3> QED BY <1>5, <2>1, <3>2
  <2>3. CASE ~There(t, i)
    <3>1. ~There(p, i)
      BY <1>5, <2>3
    <3> QED BY <2>1, <2>3, <3>1 DEF There
  <2> QED BY <2>2, <2>3
<1> QED BY <1>3, <1>7, <1>8

LEMMA RotatedTail ==
  ASSUME NEW s \in Files, NEW w \in Files, Cells(w, 0) = <<>>,
         \A i \in Slots \ {0} : i - 1 \in Slots /\ w[i] = s[i - 1],
         NEW h \in Slots, h + 1 \in Slots, NEW p \in Nat
  PROVE  TailFrom(w, h + 1, p) = TailFrom(s, h, p)
<1> DEFINE g == LaterOf(s, h)
           e == LaterOf(w, h + 1)
           x == <<>>
<1>1. h \in Nat
  BY SlotsAre
<1>2. \A i \in Slots \ {0} : Cells(w, i) = Cells(s, i - 1)
  BY DEF Cells, There
<1>3. /\ g \in Seq(Numbers) /\ Len(g) = h /\ FlattenSeq(g) \in Numbers
      /\ \A k \in 1..h : h - k \in Slots /\ g[k] = ParsedLines(Cells(s, h - k))
  BY LaterType
<1>4. /\ e \in Seq(Numbers) /\ Len(e) = h + 1
      /\ \A k \in 1..(h + 1) : (h + 1) - k \in Slots /\ e[k] = ParsedLines(Cells(w, (h + 1) - k))
  BY LaterType
<1>5. x \in Numbers
  BY DEF Numbers
<1> HIDE DEF g, e
<1>6. e[h + 1] = x
  <2>1. h + 1 \in 1..(h + 1) /\ (h + 1) - (h + 1) = 0
    BY <1>1
  <2> QED BY <1>4, <2>1, ParsedNone
<1>7. ASSUME NEW k \in 1..h PROVE e[k] = g[k]
  <2>1. k \in 1..(h + 1) /\ (h + 1) - k # 0 /\ ((h + 1) - k) - 1 = h - k
    BY <1>1
  <2>2. (h + 1) - k \in Slots \ {0}
    BY <1>4, <2>1
  <2>3. Cells(w, (h + 1) - k) = Cells(s, h - k)
    BY <1>2, <2>1, <2>2
  <2> QED BY <1>3, <1>4, <2>1, <2>3
<1> HIDE DEF x
<1>8. FlattenSeq(e) = FlattenSeq(g) \o x
  <2>1. Len(e) = Len(g) + 1 /\ e[Len(g) + 1] = x /\ \A k \in 1..Len(g) : e[k] = g[k]
    BY <1>3, <1>4, <1>6, <1>7
  <2> QED BY <1>3, <1>4, <1>5, <2>1, FlattenMore
<1> DEFINE q == FlattenSeq(g)
<1>9. q \in Numbers
  BY <1>3
<1> HIDE DEF q
<1>10. q \o <<>> = q
  BY <1>9 DEF Numbers
<1>11. FlattenSeq(e) = FlattenSeq(g)
  BY <1>8, <1>10 DEF q, x
<1>12. RestOf(w, h + 1, p) = RestOf(s, h, p)
  <2>1. h + 1 \in Slots \ {0} /\ (h + 1) - 1 = h
    BY <1>1
  <2>2. Cells(w, h + 1) = Cells(s, h)
    BY <1>2, <2>1
  <2> QED BY <2>2 DEF RestOf
<1> QED BY <1>11, <1>12 DEF TailFrom, g, e

\* A rotation that loses no archive leaves the checkpoint's file, and what is
\* behind the checkpoint.
LEMMA RotatedKept ==
  ASSUME NEW s, NEW w, Ordered(s, count), Ordered(w, count), There(w, 0), RotationDue(s),
         Cells(w, 0) = <<>>, \A i \in Slots \ {0} : i - 1 \in Slots /\ w[i] = s[i - 1],
         NEW snap, snap # None => snap \in Snapshots,
         NEW n \in Nat, n < SnapshotEvery, snap = None => n < FirstRecords, Kept(s, snap, n)
  PROVE  /\ snap # None /\ Chain(w)
         /\ Reaches(w, snap, n + 1, 1)
         /\ Recovered(w, snap) = Recovered(s, snap)
<1>1. PICK m \in Slots : \A i \in Slots : There(s, i) <=> i <= m
  BY DEF Kept, Chain
<1>2. PICK x \in Nat : /\ Len(Cells(s, 0)) = 2 * x
                       /\ IF snap = None THEN x <= n ELSE Reaches(s, snap, n, x)
  BY DEF Kept, Room
<1>3. s \in Files /\ w \in Files /\ OneEach(s) /\ OneEach(w)
  BY DEF Ordered
<1> DEFINE K == RecordsPerFile
<1>4. K \in Nat /\ FileCells \in Nat /\ 2 * K <= FileCells /\ FileCells <= 2 * K + 1
  BY SizeAssumption DEF RecordsPerFile
<1>5. x >= K
  <2>1. 0 <= m /\ There(s, 0)
    BY <1>1, SlotsAre
  <2>2. 2 * x + 2 > FileCells
    BY <1>2, <1>3, <2>1, SlotType, SlotsAre DEF RotationDue
  <2> HIDE DEF K
  <2> QED BY <1>2, <1>4, <2>2
<1>6. /\ SnapshotEvery <= ArchiveLimit * K /\ FirstRecords <= K /\ SnapshotEvery \in Nat
      /\ FirstRecords \in Nat /\ ArchiveLimit \in Nat /\ ArchiveLimit >= 1
  BY BoundAssumption, ArchiveAssumption, CadenceAssumption DEF RecordsPerFile
<1> HIDE DEF K
<1>7. snap # None
  <2> SUFFICES ASSUME snap = None PROVE FALSE
    OBVIOUS
  <2>1. x <= n /\ n < FirstRecords
    BY <1>2
  <2> QED BY <1>4, <1>5, <1>6, <2>1
<1>8. PICK h \in Slots : Holds(s, h, snap.checkpoint) /\ (h >= 1 => (h - 1) * K + x <= n)
  BY <1>2, <1>7 DEF Reaches, K
<1>9. h \in Nat /\ h <= ArchiveLimit
  BY SlotsAre
<1>10. h * K <= n /\ h < ArchiveLimit
  <2>1. CASE h = 0
    BY <1>4, <1>6, <2>1
  <2>2. CASE h >= 1
    <3>1. (h - 1) * K + x <= n
      BY <1>8, <2>2
    <3>2. h - 1 \in Nat /\ h = (h - 1) + 1
      BY <1>9, <2>2
    <3> DEFINE y == (h - 1) * K
    <3>3. y \in Nat /\ h * K = y + K
      BY <1>4, <3>2, OneMore
    <3> HIDE DEF y
    <3>4. h * K <= n
      BY <1>2, <1>4, <1>5, <3>1, <3>3 DEF y
    <3>5. h # ArchiveLimit
      <4> DEFINE z == ArchiveLimit * K
      <4>1. z \in Nat /\ n < SnapshotEvery /\ SnapshotEvery <= z
        BY <1>4, <1>6, OneMore
      <4>2. h = ArchiveLimit => z <= n
        BY <3>4
      <4> HIDE DEF z
      <4> QED BY <1>6, <4>1, <4>2
    <3> QED BY <1>6, <1>9, <3>4, <3>5
  <2> QED BY <1>9, <2>1, <2>2
<1>11. h + 1 \in Slots /\ h + 1 # 0 /\ (h + 1) - 1 = h
  BY <1>9, <1>10, SlotsAre
<1>12. Holds(w, h + 1, snap.checkpoint)
  <2>1. w[h + 1] = s[h]
    BY <1>11
  <2> QED BY <1>8, <2>1 DEF Holds, There
<1>13. Reaches(w, snap, n + 1, 1)
  <2>1. ((h + 1) - 1) * K + 1 <= n + 1
    <3> DEFINE y == h * K
    <3>1. y \in Nat /\ y <= n /\ ((h + 1) - 1) * K = y
      BY <1>4, <1>9, <1>10, <1>11, OneMore
    <3> HIDE DEF y
    <3> QED BY <3>1
  <2> QED BY <1>11, <1>12, <2>1 DEF Reaches, K
<1>14. Chain(w)
  <2> DEFINE r == IF m + 1 <= ArchiveLimit THEN m + 1 ELSE ArchiveLimit
  <2>1. m \in Nat /\ m <= ArchiveLimit /\ r \in Slots
    BY <1>6, SlotsAre
  <2>2. ASSUME NEW i \in Slots PROVE There(w, i) <=> i <= r
    <3>1. i \in Nat /\ i <= ArchiveLimit
      BY SlotsAre
    <3>2. CASE i = 0
      BY <1>6, <2>1, <3>2
    <3>3. CASE i # 0
      <4>1. w[i] = s[i - 1] /\ i - 1 \in Slots
        BY <3>3
      <4>2. There(w, i) <=> i - 1 <= m
        BY <1>1, <4>1 DEF There
      <4> QED BY <1>6, <2>1, <3>1, <3>3, <4>2
    <3> QED BY <3>2, <3>3
  <2> HIDE DEF r
  <2> QED BY <2>1, <2>2 DEF Chain
<1>15. Recovered(w, snap) = Recovered(s, snap)
  <2>1. snap.checkpoint.offset \in Nat
    BY <1>7 DEF Snapshots
  <2>2. TailFrom(w, h + 1, snap.checkpoint.offset) = TailFrom(s, h, snap.checkpoint.offset)
    BY <1>3, <1>11, <2>1, RotatedTail
  <2>3. Chain(s)
    BY DEF Kept
  <2>4. Recovered(w, snap) = snap.facts \o TailFrom(w, h + 1, snap.checkpoint.offset)
    BY <1>3, <1>7, <1>11, <1>12, <1>14, RecoveredFrom
  <2>5. Recovered(s, snap) = snap.facts \o TailFrom(s, h, snap.checkpoint.offset)
    BY <1>3, <1>7, <1>8, <2>3, RecoveredFrom
  <2> QED BY <2>2, <2>4, <2>5
<1> QED BY <1>7, <1>13, <1>14, <1>15
\* One more record can be written without the checkpoint out of reach.
Fits(w, snap, n) ==
    \E x \in Nat : Len(Cells(w, 0)) = 2 * x /\ Room(w, snap, n, x + 1)

\* What one more record does when nothing is lost.
LEMMA WrittenKept ==
  ASSUME NEW w, NEW k \in Nat, Ordered(w, k), There(w, 0), Chain(w), Whole(Cells(w, 0)),
         NEW snap, snap # None => snap \in Snapshots, NEW n \in Nat, Fits(w, snap, n), NEW flush
  PROVE  /\ Kept(Written(w, k + 1, flush), snap, n)
         /\ Recovered(Written(w, k + 1, flush), snap) = Append(Recovered(w, snap), k + 1)
<1> DEFINE f == k + 1
           t == Written(w, f, flush)
           c == Cells(w, 0)
           d == c \o Two(f)
<1>16. PICK x \in Nat : Len(Cells(w, 0)) = 2 * x /\ Room(w, snap, n, x + 1)
  BY DEF Fits
<1>1. w \in Files /\ OneEach(w) /\ f \in Nat \ {0} /\ 0 \in Slots
  BY SlotsAre DEF Ordered
<1>2. Ordered(t, f)
  BY WrittenOrdered
<1>3. t \in Files /\ OneEach(t)
  BY <1>2 DEF Ordered
<1> HIDE DEF f
<1>4. /\ c = w[0].cells /\ There(t, 0) /\ t[0].inode = w[0].inode /\ Cells(t, 0) = d
      /\ \A i \in Slots \ {0} : t[i] = w[i]
  BY <1>1, WrittenIs
<1>5. c \in Content /\ c \in Seq(Cell) /\ Len(c) = 2 * x
  BY <1>1, <1>16, SlotType
<1>6. Len(d) = 2 * x + 2 /\ d[2 * x + 2] = [fact |-> f, half |-> 2]
  BY <1>1, <1>5, TwoMore
<1>7. t[0].cells = d
  BY <1>4 DEF Cells
<1> HIDE DEF t
<1>8. Chain(t)
  <2>1. PICK m \in Slots : \A i \in Slots : There(w, i) <=> i <= m
    BY DEF Chain
  <2>2. \A i \in Slots : There(t, i) <=> There(w, i)
    <3> TAKE i \in Slots
    <3>1. CASE i = 0
      BY <1>4, <3>1
    <3>2. CASE i # 0
      BY <1>4, <3>2 DEF There
    <3> QED BY <3>1, <3>2
  <2>3. \A i \in Slots : There(t, i) <=> i <= m
    BY <2>1, <2>2
  <2> QED BY <2>1, <2>3 DEF Chain
<1>9. Whole(Cells(t, 0)) /\ Len(Cells(t, 0)) = 2 * (x + 1) /\ x + 1 \in Nat
  <2>1. d[2 * x + 2].half = 2
    BY <1>6
  <2>2. 2 * x + 2 = 2 * (x + 1)
    OBVIOUS
  <2> HIDE DEF d
  <2>3. Len(d) = 2 * (x + 1) /\ d[Len(d)].half = 2 /\ x + 1 \in Nat
    BY <1>6, <2>1, <2>2
  <2>4. Cells(t, 0) = d
    BY <1>4 DEF d
  <2> HIDE DEF c
  <2> QED BY <2>3, <2>4 DEF Whole
<1>10. \A h \in Slots : snap # None /\ Holds(w, h, snap.checkpoint) => Holds(t, h, snap.checkpoint)
  <2> SUFFICES ASSUME NEW h \in Slots, snap # None, Holds(w, h, snap.checkpoint)
      PROVE  Holds(t, h, snap.checkpoint)
    OBVIOUS
  <2>1. CASE h = 0
    <3>1. snap.checkpoint.offset \in Nat /\ snap.checkpoint.offset <= 2 * x
      BY <1>4, <1>5, <2>1 DEF Snapshots, Holds
    <3>2. snap.checkpoint.offset <= Len(t[0].cells)
      BY <1>6, <1>7, <3>1
    <3> QED BY <1>4, <2>1, <3>2 DEF Holds
  <2>2. CASE h # 0
    BY <1>4, <2>2 DEF Holds, There
  <2> QED BY <2>1, <2>2
<1>11. Room(t, snap, n, x + 1)
  BY <1>10, <1>16 DEF Room, Reaches
<1>12. Kept(t, snap, n)
  BY <1>8, <1>9, <1>11 DEF Kept
<1>13. Recovered(t, snap) = Recovered(w, snap) \o <<f>>
  <2>1. CASE snap = None
    <3>1. Recovered(t, snap) = ParsedLines(d) /\ Recovered(w, snap) = ParsedLines(c)
      BY <1>4, <2>1 DEF Recovered
    <3> HIDE DEF c
    <3>2. Whole(c)
      BY DEF c
    <3> QED BY <1>1, <1>5, <3>1, <3>2, ParsedMore
  <2>2. CASE snap # None
    <3>1. PICK h \in Slots : Holds(w, h, snap.checkpoint)
      BY <1>16, <2>2 DEF Room, Reaches
    <3>2. Holds(t, h, snap.checkpoint)
      BY <1>10, <2>2, <3>1
    <3> DEFINE p == snap.checkpoint.offset
               a == snap.facts
               b == TailFrom(w, h, p)
               y == <<f>>
    <3>3. p \in Nat /\ a \in Numbers
      BY <2>2 DEF Snapshots
    <3>4. p <= Len(Cells(w, h))
      BY <3>1 DEF Holds, Cells
    <3>5. TailFrom(t, h, p) = b \o y
      <4>1. Written(w, f, flush) \in Files
        BY <1>3 DEF t
      <4>2. p \in Nat /\ p <= Len(Cells(w, h))
        BY <3>3, <3>4
      <4> HIDE DEF p
      <4>3. TailFrom(Written(w, f, flush), h, p) = TailFrom(w, h, p) \o <<f>>
        BY <1>1, <4>1, <4>2, WrittenTail
      <4> QED BY <4>3 DEF t
    <3>6. b \in Numbers /\ y \in Numbers
      <4>1. ParsedLines(RestOf(w, h, p)) \in Numbers
        BY <1>1, <3>3, RestType, ParsedType DEF Content
      <4>2. FlattenSeq(LaterOf(w, h)) \in Numbers
        BY <1>1, LaterType
      <4> QED BY <1>1, <4>1, <4>2 DEF TailFrom, Numbers
    <3>7. Recovered(t, snap) = a \o (b \o y)
      BY <1>3, <1>8, <2>2, <3>2, <3>5, RecoveredFrom
    <3>8. Recovered(w, snap) = a \o b
      BY <1>1, <2>2, <3>1, RecoveredFrom
    <3> HIDE DEF a, b, y
    <3>9. a \o (b \o y) = (a \o b) \o y
      BY <3>3, <3>6, Associate
    <3> QED BY <3>7, <3>8, <3>9 DEF y
  <2> QED BY <2>1, <2>2
<1> DEFINE r == Recovered(w, snap)
<1>14. r \in Seq(Nat)
  <2>1. CASE snap = None
    BY <1>5, <2>1, ParsedType DEF Recovered, Numbers
  <2>2. CASE snap # None
    <3>1. PICK h \in Slots : Holds(w, h, snap.checkpoint)
      BY <1>16, <2>2 DEF Room, Reaches
    <3> DEFINE p == snap.checkpoint.offset
               a == ParsedLines(RestOf(w, h, p))
               b == FlattenSeq(LaterOf(w, h))
    <3>2. p \in Nat /\ snap.facts \in Seq(Nat)
      BY <2>2 DEF Snapshots, Numbers
    <3>3. a \in Seq(Nat) /\ b \in Seq(Nat)
      <4>1. RestOf(w, h, p) \in Seq(Cell)
        BY <1>1, <3>2, RestType DEF Content
      <4>2. a \in Numbers
        BY <4>1, ParsedType
      <4>3. b \in Numbers
        BY <1>1, LaterType
      <4> QED BY <4>2, <4>3 DEF Numbers
    <3>4. r = snap.facts \o (a \o b)
      BY <1>1, <2>2, <3>1, RecoveredFrom DEF TailFrom
    <3> HIDE DEF a, b, r
    <3> QED BY <3>2, <3>3, <3>4
  <2> QED BY <2>1, <2>2
<1> HIDE DEF r
<1>15. r \o <<f>> = Append(r, f)
  BY <1>1, <1>14
<1> QED BY <1>12, <1>13, <1>15 DEF t, r, f

LEMMA ExactInit == JournalInit => Exact
<1> SUFFICES ASSUME JournalInit PROVE Exact
  OBVIOUS
<1>1. PICK n \in Inodes : slots = [i \in Slots |-> IF i = 0 THEN File(n) ELSE None]
  BY DEF JournalInit
<1>2. snapshot = None /\ facts = <<>> /\ since = 0
  BY DEF JournalInit
<1>3. File(n) \in AFile /\ File(n).cells = <<>>
  BY EmptyContent DEF File, AFile
<1>4. File(n) # None
  BY <1>3, FileIsThere
<1>5. \A i \in Slots : There(slots, i) <=> i <= 0
  BY <1>1, <1>4, SlotsAre DEF There
<1>6. Chain(slots)
  BY <1>5, SlotsAre DEF Chain
<1>7. Cells(slots, 0) = <<>>
  BY <1>1, <1>3, <1>5, SlotsAre DEF Cells
<1>8. Whole(Cells(slots, 0)) /\ Len(Cells(slots, 0)) = 2 * 0 /\ 0 \in Nat /\ 0 <= since
  BY <1>2, <1>7 DEF Whole
<1>9. Kept(slots, snapshot, since)
  BY <1>2, <1>6, <1>8 DEF Kept, Room
<1>10. Recovered(slots, snapshot) = facts
  BY <1>2, <1>7, ParsedNone DEF Recovered
<1> QED BY <1>9, <1>10 DEF Exact

LEMMA RecordExact ==
  ASSUME InSequence, Exact, NEW flush \in Flushes, Record(flush), intact'
  PROVE  Kept(slots', snapshot, since + 1) /\ Recovered(slots', snapshot) = Append(facts, count + 1)
<1>0. /\ count \in Nat /\ since \in Nat /\ Ordered(slots, count) /\ SnapOk(slots, snapshot, count)
      /\ intact \in BOOLEAN
  BY DEF InSequence
<1>1. PICK w \in Writable(slots) :
          /\ slots' = Written(w, count + 1, flush)
          /\ intact' = (intact /\ Keeps(w, IF RotationDue(slots)
                                          THEN Shifted(slots, ArchiveLimit) ELSE slots))
  BY DEF Record
<1>2. running /\ since < SnapshotEvery /\ (snapshot = None => since < FirstRecords)
  BY DEF Record
<1>3. Kept(slots, snapshot, since) /\ Recovered(slots, snapshot) = facts
  BY <1>0, <1>1, <1>2 DEF Exact
<1>4. There(slots, 0) /\ slots \in Files /\ (snapshot # None => snapshot \in Snapshots)
  BY <1>0, <1>2 DEF InSequence, Ordered, SnapOk
<1>5. Ordered(w, count) /\ There(w, 0)
  BY <1>0, <1>4, WritableOrdered
<1>6. CASE ~RotationDue(slots)
  <2>1. w = slots
    BY <1>6 DEF Writable
  <2>2. Fits(w, snapshot, since + 1)
    <3>1. PICK x \in Nat : Len(Cells(slots, 0)) = 2 * x /\ Room(slots, snapshot, since, x)
      BY <1>3 DEF Kept
    <3>2. Reaches(slots, snapshot, since, x) => Reaches(slots, snapshot, since + 1, x + 1)
      <4> SUFFICES ASSUME Reaches(slots, snapshot, since, x)
          PROVE  Reaches(slots, snapshot, since + 1, x + 1)
        OBVIOUS
      <4>1. PICK h \in Slots : /\ Holds(slots, h, snapshot.checkpoint)
                               /\ h >= 1 => (h - 1) * RecordsPerFile + x <= since
        BY DEF Reaches
      <4>2. h >= 1 => (h - 1) * RecordsPerFile + (x + 1) <= since + 1
        <5> SUFFICES ASSUME h >= 1 PROVE (h - 1) * RecordsPerFile + (x + 1) <= since + 1
          OBVIOUS
        <5> DEFINE y == (h - 1) * RecordsPerFile
        <5>1. h - 1 \in Nat /\ RecordsPerFile \in Nat
          BY SlotsAre, SizeAssumption DEF RecordsPerFile
        <5>2. y \in Nat /\ y + x <= since
          BY <4>1, <5>1, OneMore
        <5> HIDE DEF y
        <5>3. y + (x + 1) <= since + 1
          BY <1>0, <5>2
        <5> QED BY <5>3 DEF y
      <4> QED BY <4>1, <4>2 DEF Reaches
    <3>3. Room(w, snapshot, since + 1, x + 1)
      BY <1>0, <2>1, <3>1, <3>2 DEF Room
    <3> QED BY <1>3, <2>1, <3>1, <3>3 DEF Kept, Fits
  <2>3. Chain(w) /\ Whole(Cells(w, 0))
    BY <1>3, <2>1 DEF Kept
  <2> DEFINE n == since + 1
  <2>4. n \in Nat /\ Fits(w, snapshot, n)
    BY <1>0, <2>2
  <2> HIDE DEF n
  <2>5. /\ Kept(Written(w, count + 1, flush), snapshot, n)
        /\ Recovered(Written(w, count + 1, flush), snapshot) = Append(Recovered(w, snapshot), count + 1)
    BY <1>0, <1>4, <1>5, <2>3, <2>4, WrittenKept
  <2> QED BY <1>1, <1>3, <2>1, <2>5 DEF n
<1>7. CASE RotationDue(slots)
  <2>1. Keeps(w, Shifted(slots, ArchiveLimit))
    BY <1>1, <1>7
  <2>2. Cells(w, 0) = <<>> /\ \A i \in Slots \ {0} : i - 1 \in Slots /\ w[i] = slots[i - 1]
    BY <1>4, <1>7, <2>1, RotatedIs
  <2>3. /\ snapshot # None /\ Chain(w)
        /\ Reaches(w, snapshot, since + 1, 1)
        /\ Recovered(w, snapshot) = Recovered(slots, snapshot)
    BY <1>0, <1>2, <1>3, <1>4, <1>5, <1>7, <2>2, RotatedKept
  <2>4. Whole(Cells(w, 0)) /\ Len(Cells(w, 0)) = 2 * 0 /\ 0 \in Nat /\ 0 + 1 = 1
    BY <2>2 DEF Whole
  <2>5. Fits(w, snapshot, since + 1)
    BY <2>3, <2>4 DEF Fits, Room
  <2>6. /\ Kept(Written(w, count + 1, flush), snapshot, since + 1)
        /\ Recovered(Written(w, count + 1, flush), snapshot) = Append(Recovered(w, snapshot), count + 1)
    BY <1>0, <1>4, <1>5, <2>3, <2>4, <2>5, WrittenKept
  <2> QED BY <1>1, <1>3, <2>3, <2>6
<1> QED BY <1>6, <1>7

LEMMA SnapshotExact ==
  ASSUME InSequence, Exact, WriteSnapshot, intact
  PROVE  Kept(slots, snapshot', 0) /\ Recovered(slots, snapshot') = facts
<1>0. /\ running /\ snapshot' = [facts |-> facts, checkpoint |-> Checkpoint(slots)]
      /\ count \in Nat /\ Ordered(slots, count) /\ Knows(facts, count) /\ There(slots, 0)
      /\ Kept(slots, snapshot, since)
  BY DEF WriteSnapshot, InSequence, Exact
<1> DEFINE c == Cells(slots, 0)
           l == Len(c)
<1>1. slots \in Files /\ OneEach(slots) /\ 0 \in Slots /\ facts \in Numbers /\ Chain(slots)
  BY <1>0, SlotsAre DEF Ordered, Knows, Kept
<1>2. c = slots[0].cells /\ l \in Nat /\ slots[0].inode \in Inodes
  BY <1>0, <1>1, SlotType
<1>3. /\ snapshot'.facts = facts /\ snapshot'.checkpoint.inode = slots[0].inode
      /\ snapshot'.checkpoint.offset = l
  BY <1>0, <1>2 DEF Checkpoint
<1>4. snapshot' \in Snapshots
  BY <1>0, <1>1, <1>2 DEF Checkpoint, Snapshots
<1>5. snapshot' # None
  BY <1>4, SnapshotIsThere
<1>6. Holds(slots, 0, snapshot'.checkpoint)
  BY <1>0, <1>2, <1>3 DEF Holds
<1>7. PICK x \in Nat : l = 2 * x
  BY <1>0 DEF Kept
<1>8. Reaches(slots, snapshot', 0, x)
  BY <1>1, <1>6 DEF Reaches
<1>9. Kept(slots, snapshot', 0)
  BY <1>0, <1>5, <1>7, <1>8 DEF Kept, Room
<1>10. TailFrom(slots, 0, l) = <<>>
  <2>1. SubSeq(c, l + 1, l) = <<>>
    <3> HIDE DEF c, l
    <3> QED BY <1>2, SubSeqEmpty
  <2>2. RestOf(slots, 0, l) = <<>>
    BY <2>1 DEF RestOf
  <2>3. LaterOf(slots, 0) \in Seq(Numbers) /\ Len(LaterOf(slots, 0)) = 0
    BY <1>1, LaterType
  <2>4. LaterOf(slots, 0) = <<>>
    BY <2>3
  <2>5. TailFrom(slots, 0, l) = <<>> \o <<>>
    BY <2>2, <2>4, ParsedNone, FlattenNone DEF TailFrom
  <2> QED BY <2>5
<1>11. Recovered(slots, snapshot') = snapshot'.facts \o TailFrom(slots, 0, snapshot'.checkpoint.offset)
  BY <1>1, <1>5, <1>6, RecoveredFrom
<1>12. facts \o <<>> = facts
  BY <1>1 DEF Numbers
<1> QED BY <1>3, <1>9, <1>10, <1>11, <1>12

\* A restart that finds every file reads what was known.
LEMMA RestartExact ==
  ASSUME InSequence, Exact, Restart, intact'
  PROVE  slots' = slots /\ facts' = Recovered(slots, snapshot) /\ Kept(slots, snapshot, since)
<1>1. PICK s \in Opened(slots) :
          /\ slots' = s /\ facts' = Recovered(s, snapshot)
          /\ intact' = (intact /\ Keeps(s, slots))
  BY DEF Restart
<1>2. slots \in Files /\ intact \in BOOLEAN
  BY DEF InSequence, Ordered
<1>3. Keeps(s, slots) /\ Kept(slots, snapshot, since)
  BY <1>1, <1>2 DEF Exact
<1>4. There(slots, 0)
  <2>1. PICK m \in Slots : \A i \in Slots : There(slots, i) <=> i <= m
    BY <1>3 DEF Kept, Chain
  <2> QED BY <2>1, SlotsAre
<1>5. s \in Pruned(slots)
  BY <1>4 DEF Opened
<1>6. s \in Files /\ s[0] = slots[0] /\ \A i \in Slots : There(s, i) => s[i] = slots[i]
  BY <1>2, <1>5, PrunedDescends
<1>7. ASSUME NEW i \in Slots PROVE s[i] = slots[i]
  <2>1. CASE There(s, i)
    BY <1>6, <2>1
  <2>2. CASE ~There(s, i)
    <3>1. i = 0 \/ ~There(slots, i)
      BY <1>3, <2>2 DEF Keeps
    <3> QED BY <1>6, <2>2, <3>1 DEF There
  <2> QED BY <2>1, <2>2
<1>8. s = slots
  BY <1>2, <1>6, <1>7 DEF Files
<1> QED BY <1>1, <1>3, <1>8

LEMMA ExactStep == InSequence /\ Exact /\ [JournalNext]_journalVars => Exact'
<1> SUFFICES ASSUME InSequence, Exact, [JournalNext]_journalVars PROVE Exact'
  OBVIOUS
<1>1. ASSUME NEW flush \in Flushes, Record(flush) PROVE Exact'
  <2>1. /\ running' = running /\ snapshot' = snapshot /\ since' = since + 1
        /\ facts' = Append(facts, count + 1)
    BY <1>1 DEF Record
  <2>2. intact' => Kept(slots', snapshot, since + 1)
                   /\ Recovered(slots', snapshot) = Append(facts, count + 1)
    BY <1>1, RecordExact
  <2> QED BY <2>1, <2>2 DEF Exact
<1>2. ASSUME WriteSnapshot PROVE Exact'
  <2>1. since' = 0 /\ UNCHANGED <<slots, facts, running, intact>>
    BY <1>2 DEF WriteSnapshot
  <2>2. intact => Kept(slots, snapshot', 0) /\ Recovered(slots, snapshot') = facts
    BY <1>2, SnapshotExact
  <2> QED BY <2>1, <2>2 DEF Exact
<1>3. ASSUME Crash PROVE Exact'
  BY <1>3 DEF Crash, Stopped, Exact
<1>4. ASSUME CrashInRotation PROVE Exact'
  BY <1>4 DEF CrashInRotation, Exact
<1>5. ASSUME PowerLoss PROVE Exact'
  BY <1>5 DEF PowerLoss, Exact
<1>8. ASSUME CrashInWrite PROVE Exact'
  BY <1>8 DEF CrashInWrite, Exact
<1>6. ASSUME Restart PROVE Exact'
  <2>1. UNCHANGED <<snapshot, since>>
    BY <1>6 DEF Restart
  <2>2. intact' => slots' = slots /\ facts' = Recovered(slots, snapshot) /\ Kept(slots, snapshot, since)
    BY <1>6, RestartExact
  <2> QED BY <2>1, <2>2 DEF Exact
<1>7. CASE UNCHANGED journalVars
  BY <1>7 DEF journalVars, Exact
<1> QED BY <1>1, <1>2, <1>3, <1>4, <1>5, <1>6, <1>7, <1>8 DEF JournalNext

-----------------------------------------------------------------------------
(* The journal implements the log.                                         *)

LEMMA DurableInOrder == InSequence => Log!InOrder(Durable)
<1> SUFFICES ASSUME InSequence PROVE Log!InOrder(Durable)
  OBVIOUS
<1>1. count \in Nat /\ count <= MaxFacts /\ MaxFacts \in Nat
  BY BoundAssumption DEF InSequence
<1>2. Knows(facts, count) /\ Knows(Recovered(slots, snapshot), count)
  BY RecoveredKnows DEF InSequence
<1>3. Knows(Durable, count)
  BY <1>2 DEF Durable
<1> HIDE DEF Durable
<1> QED BY <1>1, <1>3 DEF Knows, Rises, Log!InOrder

LEMMA FaultStep == InSequence' /\ ~intact' => Log!Fault
<1> SUFFICES ASSUME InSequence', ~intact' PROVE Log!Fault
  OBVIOUS
<1>1. Log!InOrder(Durable)'
  BY DurableInOrder, PTL
<1>2. intact' = FALSE
  BY DEF InSequence
<1> HIDE DEF Durable
<1> QED BY <1>1, <1>2 DEF Log!Fault, Log!InOrder

LEMMA RefinedStep ==
  InSequence /\ InSequence' /\ Exact /\ Exact' /\ [JournalNext]_journalVars
    => [Log!Next]_<<Durable, intact>>
<1> SUFFICES ASSUME InSequence, InSequence', Exact, Exact', [JournalNext]_journalVars,
                    intact'
    PROVE  Log!Learn \/ UNCHANGED <<Durable, intact>>
  BY FaultStep DEF Log!Next
<1>0. intact \in BOOLEAN /\ intact' = TRUE /\ count \in Nat
  BY DEF InSequence
<1>1. ASSUME NEW flush \in Flushes, Record(flush) PROVE Log!Learn
  <2>1. /\ running /\ running' = running /\ facts' = Append(facts, count + 1)
        /\ count < MaxFacts /\ (intact' => intact)
    BY <1>1 DEF Record
  <2>2. Durable = facts /\ Durable' = facts'
    BY <2>1 DEF Durable
  <2>3. Log!InOrder(Durable)'
    BY DurableInOrder, PTL
  <2>4. count + 1 \in 1..MaxFacts
    BY <1>0, <2>1, BoundAssumption
  <2>5. Durable' = Append(Durable, count + 1)
    BY <2>1, <2>2
  <2>6. intact' = intact
    BY <1>0, <2>1
  <2> HIDE DEF Durable
  <2> QED BY <2>3, <2>4, <2>5, <2>6 DEF Log!Learn, Log!InOrder
<1>2. ASSUME WriteSnapshot PROVE UNCHANGED <<Durable, intact>>
  BY <1>2 DEF WriteSnapshot, Durable
<1>3. ASSUME Crash PROVE UNCHANGED <<Durable, intact>>
  <2>1. running /\ running' = FALSE /\ slots' = slots /\ snapshot' = snapshot /\ intact' = intact
    BY <1>3 DEF Crash, Stopped
  <2>2. Recovered(slots, snapshot) = facts
    BY <1>0, <2>1 DEF Exact
  <2> QED BY <2>1, <2>2 DEF Durable
<1>4. ~CrashInRotation /\ ~CrashInWrite /\ ~PowerLoss
  BY <1>0 DEF CrashInRotation, CrashInWrite, PowerLoss
<1>5. ASSUME Restart PROVE UNCHANGED <<Durable, intact>>
  <2>1. ~running /\ running' = TRUE /\ (intact' => intact)
    BY <1>5 DEF Restart
  <2>2. facts' = Recovered(slots, snapshot)
    BY <1>5, RestartExact
  <2> QED BY <1>0, <2>1, <2>2 DEF Durable
<1>6. CASE UNCHANGED journalVars
  BY <1>6 DEF journalVars, Durable
<1> QED BY <1>1, <1>2, <1>3, <1>4, <1>5, <1>6 DEF JournalNext

LEMMA RefinedInit == JournalInit => Log!Init
<1> SUFFICES ASSUME JournalInit PROVE Log!Init
  OBVIOUS
<1>1. running = TRUE /\ facts = <<>> /\ intact = TRUE
  BY DEF JournalInit
<1> QED BY <1>1 DEF Durable, Log!Init

\* Whatever the number of facts, files and crashes: what the engine knew before
\* its process stopped the restart knows again, once and in order, and no fault of
\* the storage applies a record twice or out of order (Journal.open, append,
\* _rotate_if_needed, read_after_snapshot_checkpoint and recover_from_snapshot).
THEOREM JournalKeepsFacts == JournalSpec => FactsSurvive
<1>1. JournalInit => InSequence /\ Exact /\ Log!Init
  BY InSequenceInit, ExactInit, RefinedInit
<1>2. InSequence /\ Exact /\ [JournalNext]_journalVars => InSequence' /\ Exact'
  BY InSequenceStep, ExactStep
<1>3. InSequence /\ InSequence' /\ Exact /\ Exact' /\ [JournalNext]_journalVars
        => [Log!Next]_<<Durable, intact>>
  BY RefinedStep
<1> QED BY <1>1, <1>2, <1>3, PTL DEF JournalSpec, FactsSurvive, Log!Spec
=============================================================================
