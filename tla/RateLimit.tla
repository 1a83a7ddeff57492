------------------------------ MODULE RateLimit ------------------------------
(***************************************************************************)
(* The token-bucket limiter of src/lightfee/rate_limit/engine.py:          *)
(* RateLimitEngine (buckets, minimum intervals, cooldowns, backoff) and    *)
(* the RateLimitRuntime around it (the wait loop of every venue request,   *)
(* the 429/418 feedback and the hot reload of the configuration).          *)
(*                                                                         *)
(* Callers are the coroutines that send venue requests.  The body of the   *)
(* wait loop runs without an await, so one evaluation of it is one step;   *)
(* between two evaluations the caller sleeps and the others run.           *)
(*                                                                         *)
(* Time is the wall clock in milliseconds, tokens are integers (one token  *)
(* is the smallest amount the configured weights and refills use).         *)
(***************************************************************************)
EXTENDS Integers, Sequences, FiniteSets

Lesser(a, b) == IF a <= b THEN a ELSE b
Greater(a, b) == IF a >= b THEN a ELSE b

CONSTANTS
  Scopes,        \* "host:..", "venue:..", "group:.." and endpoint scopes
  Buckets,       \* the scopes register_bucket has given a bucket
  Capacity,      \* [Buckets -> Nat]
  Refill,        \* [Buckets -> Nat], tokens per millisecond
  MinInterval,   \* [Scopes -> Nat], 0 where none is registered
  Requests,      \* kinds of request
  NoRequest,     \* the request of a caller that has none
  ScopesOf,      \* [Requests -> sequences of distinct scopes]
  Weight,        \* [Requests -> Nat], resolve_weight of the request's scopes
  Timeouts,      \* timeout_ms of a wait; 0 waits for ever
  RetryAfters,   \* Retry-After of a 429/418; 0 when the header is missing
  BackoffInitial, BackoffMax, BudgetRetry,
  Backoff,       \* [0..20 -> Nat], the delay after so many failures
  Callers,
  MaxNow,        \* bound on the clock
  MaxFailures,   \* bound on the 429/418 answers of one run
  MaxReloads,    \* bound on the reloads of one run
  ObserveFrom    \* the moments at which the observer may start to count

ASSUME ScopesAssumption == Buckets \subseteq Scopes
ASSUME BucketAssumption ==
  /\ Capacity \in [Buckets -> Nat]
  /\ Refill \in [Buckets -> Nat]
  /\ MinInterval \in [Scopes -> Nat]
ASSUME RequestAssumption ==
  /\ ScopesOf \in [Requests -> Seq(Scopes)]
  /\ \A r \in Requests : \A i, j \in DOMAIN ScopesOf[r] :
       ScopesOf[r][i] = ScopesOf[r][j] => i = j
  /\ Weight \in [Requests -> Nat]
  /\ NoRequest \notin Requests
ASSUME TimeAssumption ==
  /\ Timeouts \subseteq Nat
  /\ RetryAfters \subseteq Nat
  /\ BackoffInitial \in Nat /\ BackoffMax \in Nat /\ BudgetRetry \in Nat \ {0}
  /\ MaxNow \in Nat /\ MaxFailures \in Nat /\ MaxReloads \in Nat
\* BackoffInitial doubled with each failure and cut at BackoffMax, as the code's
\* min(initial << min(failures, 20), max).
ASSUME BackoffAssumption ==
  /\ Backoff \in [0..20 -> Nat]
  /\ Backoff[0] = Lesser(BackoffInitial, BackoffMax)
  /\ \A k \in 1..20 : Backoff[k] = Lesser(2 * Backoff[k - 1], BackoffMax)

VARIABLES
  now,
  tokens, refillAt, cooldown,  \* BucketState of every bucket
  failures,                    \* ScopeState.backoff_failures
  lastRequest,                 \* ScopeState.last_request_at_ms, 0 for None
  pc,                          \* "idle", "waiting" (asleep) or "sent"
  request, wake, deadline,     \* locals of a caller's wait loop
  hits, reloads,               \* counters for the bounds
  mark, spent, reloadsSince,   \* an observer: see WindowBudget
  told                         \* an observer: see LongestBanHonoured

engine == <<tokens, refillAt, cooldown, failures, lastRequest>>
observer == <<mark, spent, reloadsSince, told>>
vars == <<now, engine, pc, request, wake, deadline, hits, reloads, observer>>

-----------------------------------------------------------------------------
(* Operators on the engine's state. *)

ScopeSet(r) == {ScopesOf[r][i] : i \in DOMAIN ScopesOf[r]}
BucketsOf(r) == ScopeSet(r) \cap Buckets

\* (Mutant of Refilled: an idle bucket saves up more than its capacity.)
RefilledUncapped(b) == tokens[b] + Greater(0, now - refillAt[b]) * Refill[b]

\* BucketState.refill
Refilled(b) ==
  Lesser(Capacity[b], tokens[b] + Greater(0, now - refillAt[b]) * Refill[b])
RefillTime(b) == Greater(now, refillAt[b])

InCooldown(r) == \E b \in BucketsOf(r) : cooldown[b] > now

\* _min_interval_retry_ms, one scope
Interval(s) == IF lastRequest[s] = 0 THEN 0
               ELSE MinInterval[s] - Greater(0, now - lastRequest[s])
\* (Mutant of TooSoon: only a request early for all of its scopes waits.)
TooSoonForAll(r) == \A s \in ScopeSet(r) : Interval(s) > 0
TooSoon(r) == \E s \in ScopeSet(r) : Interval(s) > 0

Short(r, b) == Refilled(b) < Weight[r]

\* The buckets the budget phase refills before the first short one stops it.
Reached(r, b) ==
  \E i \in DOMAIN ScopesOf[r] :
    /\ ScopesOf[r][i] = b
    /\ \A j \in 1 .. (i - 1) :
         ScopesOf[r][j] \in Buckets => ~Short(r, ScopesOf[r][j])
FirstShort(r, b) == b \in Buckets /\ Short(r, b) /\ Reached(r, b)

\* (Mutant of BudgetRetryMs: computed from the tokens before the refill.)
StaleRetryMs(r, b) ==
  IF Refill[b] = 0 THEN BudgetRetry
  ELSE Greater(1, (Weight[r] - tokens[b] + Refill[b] - 1) \div Refill[b])

\* _budget_retry_ms: the missing tokens over the refill rate, rounded up.
BudgetRetryMs(r, b) ==
  IF Refill[b] = 0 THEN BudgetRetry
  ELSE Greater(1, (Weight[r] - Refilled(b) + Refill[b] - 1) \div Refill[b])

\* _failure_backoff_ms
BackoffDelay(n) == Backoff[Lesser(n, 20)]

\* (Mutant of Charged: charges the tokens from before the refill.)
ChargedStale(r, b) == tokens[b] - Weight[r]

\* What a request leaves in a bucket.
Charged(r, b) == Greater(0, Refilled(b) - Weight[r])

\* (Mutant of Banned: the last ban wins.)
BannedLast(b, until) == until

\* apply_cooldown and apply_backoff keep the longer ban.
Banned(b, until) == Greater(cooldown[b], until)

-----------------------------------------------------------------------------
Init ==
  /\ now = 1
  /\ tokens = Capacity
  /\ refillAt = [b \in Buckets |-> 0]
  /\ cooldown = [b \in Buckets |-> 0]
  /\ failures = [s \in Scopes |-> 0]
  /\ lastRequest = [s \in Scopes |-> 0]
  /\ pc = [c \in Callers |-> "idle"]
  /\ request = [c \in Callers |-> NoRequest]
  /\ wake = [c \in Callers |-> 0]
  /\ deadline = [c \in Callers |-> 0]
  /\ hits = 0
  /\ reloads = 0
  /\ mark = 0
  /\ spent = [b \in Buckets |-> 0]
  /\ reloadsSince = 0
  /\ told = [b \in Buckets |-> 0]

\* try_consume_scopes succeeds: every bucket of the request is charged.
Consume(c, r) ==
  /\ ~InCooldown(r)
  /\ ~TooSoon(r)
  /\ \A b \in BucketsOf(r) : ~Short(r, b)
  /\ tokens' = [b \in Buckets |->
       IF b \in BucketsOf(r) THEN Charged(r, b) ELSE tokens[b]]
  /\ refillAt' = [b \in Buckets |->
       IF b \in BucketsOf(r) THEN RefillTime(b) ELSE refillAt[b]]
  /\ lastRequest' = [s \in Scopes |->
       IF s \in ScopeSet(r) /\ MinInterval[s] > 0 THEN now ELSE lastRequest[s]]
  /\ spent' = [b \in Buckets |->
       IF mark > 0 /\ b \in BucketsOf(r) THEN spent[b] + Weight[r] ELSE spent[b]]
  /\ pc' = [pc EXCEPT ![c] = "sent"]
  /\ request' = [request EXCEPT ![c] = r]
  /\ wake' = [wake EXCEPT ![c] = 0]
  /\ deadline' = [deadline EXCEPT ![c] = 0]
  /\ UNCHANGED <<cooldown, failures>>

\* The loop's answer to a RateLimitError: leave when the retry would pass
\* the deadline dl of a bounded wait (0: no deadline), sleep otherwise.
Leave(c) ==
  /\ pc' = [pc EXCEPT ![c] = "idle"]
  /\ request' = [request EXCEPT ![c] = NoRequest]
  /\ wake' = [wake EXCEPT ![c] = 0]
  /\ deadline' = [deadline EXCEPT ![c] = 0]

Sleep(c, r, dl, retry) ==
  /\ pc' = [pc EXCEPT ![c] = "waiting"]
  /\ request' = [request EXCEPT ![c] = r]
  /\ wake' = [wake EXCEPT ![c] = now + retry]
  /\ deadline' = [deadline EXCEPT ![c] = dl]

\* (Mutant of SleepOrGiveUp: the deadline is not looked at.)
SleepAnyway(c, r, dl, retry) == Sleep(c, r, dl, retry)

SleepOrGiveUp(c, r, dl, retry) ==
  IF dl > 0 /\ now + retry > dl THEN Leave(c) ELSE Sleep(c, r, dl, retry)

RefuseCooldown(c, r, dl) ==
  /\ InCooldown(r)
  /\ \E b \in BucketsOf(r) :   \* _cooldown_retry_ms: the longest remainder
       /\ \A d \in BucketsOf(r) : cooldown[d] <= cooldown[b]
       /\ SleepOrGiveUp(c, r, dl, cooldown[b] - now)
  /\ UNCHANGED <<engine, spent>>

RefuseInterval(c, r, dl) ==
  /\ ~InCooldown(r)
  /\ TooSoon(r)
  /\ \E s \in ScopeSet(r) :
       /\ \A t \in ScopeSet(r) : Interval(t) <= Interval(s)
       /\ SleepOrGiveUp(c, r, dl, Interval(s))
  /\ UNCHANGED <<engine, spent>>

RefuseBudget(c, r, dl) ==
  /\ ~InCooldown(r)
  /\ ~TooSoon(r)
  /\ \E b \in BucketsOf(r) :
       /\ FirstShort(r, b)
       /\ SleepOrGiveUp(c, r, dl, BudgetRetryMs(r, b))
  /\ tokens' = [b \in Buckets |-> IF Reached(r, b) THEN Refilled(b) ELSE tokens[b]]
  /\ refillAt' = [b \in Buckets |-> IF Reached(r, b) THEN RefillTime(b) ELSE refillAt[b]]
  /\ UNCHANGED <<cooldown, failures, lastRequest, spent>>

\* One evaluation of the body of async_wait_until_ready_for_scopes.
Attempt(c, r, dl) ==
  /\ \/ Consume(c, r)
     \/ RefuseCooldown(c, r, dl)
     \/ RefuseInterval(c, r, dl)
     \/ RefuseBudget(c, r, dl)
  /\ UNCHANGED <<now, hits, reloads, mark, reloadsSince, told>>

-----------------------------------------------------------------------------
(* A caller asks for a slot; deadline 0 stands for a wait without one. *)
Call(c) ==
  /\ pc[c] = "idle"
  /\ \E r \in Requests, timeout \in Timeouts :
       Attempt(c, r, IF timeout > 0 THEN now + timeout ELSE 0)

Wake(c) ==
  /\ pc[c] = "waiting"
  /\ wake[c] <= now
  /\ Attempt(c, request[c], deadline[c])

\* The venue answers a granted request normally.
Answered(c) ==
  /\ pc[c] = "sent"
  /\ Leave(c)
  /\ UNCHANGED <<now, engine, hits, reloads, observer>>

\* The venue answers 429/418 and record_rate_limit_for_scopes feeds it back:
\* a cooldown when Retry-After is given, exponential backoff otherwise.
Limited(c) ==
  /\ pc[c] = "sent"
  /\ hits < MaxFailures
  /\ \E after \in RetryAfters :
       LET delay(b) == IF after > 0 THEN after ELSE BackoffDelay(failures[b])
           hit == BucketsOf(request[c])
       IN /\ cooldown' = [b \in Buckets |->
               IF b \in hit THEN Banned(b, now + delay(b)) ELSE cooldown[b]]
          /\ failures' = [s \in Scopes |->
               IF after = 0 /\ s \in hit THEN failures[s] + 1 ELSE failures[s]]
          /\ told' = [b \in Buckets |->
               IF b \in hit THEN Greater(told[b], now + delay(b)) ELSE told[b]]
  /\ hits' = hits + 1
  /\ Leave(c)
  /\ UNCHANGED <<now, tokens, refillAt, lastRequest, reloads, mark, spent, reloadsSince>>

\* RateLimitRuntime.refresh found a changed file: a new engine is built, and
\* every bucket is full, out of cooldown and without a last request.
Reload ==
  /\ reloads < MaxReloads
  /\ tokens' = Capacity
  /\ refillAt' = [b \in Buckets |-> 0]
  /\ cooldown' = [b \in Buckets |-> 0]
  /\ failures' = [s \in Scopes |-> 0]
  /\ lastRequest' = [s \in Scopes |-> 0]
  /\ reloads' = reloads + 1
  /\ reloadsSince' = IF mark > 0 THEN reloadsSince + 1 ELSE 0
  /\ told' = [b \in Buckets |-> 0]
  /\ UNCHANGED <<now, pc, request, wake, deadline, hits, mark, spent>>

Tick ==
  /\ now < MaxNow
  /\ now' = now + 1
  /\ UNCHANGED <<engine, pc, request, wake, deadline, hits, reloads, observer>>

\* The observer starts to count, once, at some moment.
Observe ==
  /\ mark = 0
  /\ now \in ObserveFrom
  /\ mark' = now
  /\ UNCHANGED <<now, engine, pc, request, wake, deadline, hits, reloads,
                 spent, reloadsSince, told>>

Next ==
  \/ \E c \in Callers : Call(c) \/ Wake(c) \/ Answered(c) \/ Limited(c)
  \/ Reload
  \/ Tick
  \/ Observe

Spec == Init /\ [][Next]_vars

-----------------------------------------------------------------------------
TypeOK ==
  /\ now \in Nat
  /\ tokens \in [Buckets -> Nat]
  /\ refillAt \in [Buckets -> Nat]
  /\ cooldown \in [Buckets -> Nat]
  /\ failures \in [Scopes -> Nat]
  /\ lastRequest \in [Scopes -> Nat]
  /\ pc \in [Callers -> {"idle", "waiting", "sent"}]
  /\ request \in [Callers -> Requests \cup {NoRequest}]
  /\ \A c \in Callers : pc[c] # "idle" => request[c] \in Requests
  /\ wake \in [Callers -> Nat]
  /\ deadline \in [Callers -> Nat]
  /\ hits \in Nat /\ reloads \in Nat
  /\ mark \in Nat
  /\ spent \in [Buckets -> Nat]
  /\ reloadsSince \in Nat
  /\ told \in [Buckets -> Nat]

(* What the venue sees: from any moment on, the requests charged to a bucket
   weigh at most its capacity plus what it refills in that time, however the
   callers interleave, and each hot reload of the configuration
   (RateLimitRuntime.refresh) can add at most one more full bucket. *)
WindowBudget ==
  mark > 0 => \A b \in Buckets :
    spent[b] <= Capacity[b] * (1 + reloadsSince) + Refill[b] * (now - mark)

Granted(c) == pc[c] # "sent" /\ pc'[c] = "sent"

(* apply_cooldown and apply_backoff keep the longest ban: a caller that slept
   through a 429 of another caller, or a later and shorter ban, never lets a
   request out before the longest ban told since the last reload has ended. *)
LongestBanHonoured ==
  [][\A c \in Callers : Granted(c) =>
       \A b \in BucketsOf(request'[c]) : told[b] <= now]_vars

(* Callers that wake in the same millisecond still leave the minimum interval
   of a scope between them (_min_interval_retry_ms is asked again at each
   evaluation, and the grant records its time before it returns). *)
GrantsSpaced ==
  [][\A c \in Callers : Granted(c) =>
       \A s \in ScopeSet(request'[c]) :
         lastRequest[s] > 0 => now - lastRequest[s] >= MinInterval[s]]_vars

(* _budget_retry_ms is exact: without competition the bucket holds the weight
   after the returned sleep, and did not one millisecond earlier. *)
RetryIsExact ==
  \A r \in Requests : \A b \in BucketsOf(r) :
    (Short(r, b) /\ Refill[b] > 0 /\ Weight[r] <= Capacity[b]) =>
      LET have == Refilled(b)
          wait == BudgetRetryMs(r, b)
      IN have + wait * Refill[b] >= Weight[r] /\ have + (wait - 1) * Refill[b] < Weight[r]

(* A wait with a deadline ends, whatever the others do while the caller sleeps:
   each evaluation that puts it to sleep chooses a later moment, none beyond the
   deadline, and the deadline is the one the wait began with.  So a wait is
   evaluated at most once per millisecond up to its deadline, and
   async_wait_until_ready_for_scopes neither spins nor oversleeps. *)
WaitsEnd ==
  [][\A c \in Callers :
       (pc'[c] = "waiting" /\ (pc[c] # "waiting" \/ wake'[c] # wake[c])) =>
         /\ wake'[c] > now
         /\ deadline'[c] > 0 => wake'[c] <= deadline'[c]
         /\ pc[c] = "waiting" => deadline'[c] = deadline[c]]_vars

=============================================================================
