----------------------------- MODULE OrderSubmit ------------------------------
(* Orders on their way to a venue: VenueTransport._request signs a request    *)
(* with the venue's time, waits for the transport's limiter and for the       *)
(* runtime's rate limit engine, sends, records 429, retries once what it      *)
(* takes for a clock error, and place_order calls the end filled, rejected    *)
(* or uncertain.                                                              *)
(*                                                                            *)
(* Requests of one endpoint, so all scopes are the same; the buckets of the   *)
(* engine are in RateLimit, here it may keep a request waiting at any time.   *)
(* Time is kept as what is left of an interval, or as an age.                 *)
EXTENDS Integers, FiniteSetsExt

CONSTANTS
    Requests,
    GatewayRetries,  \* for which venues: TRUE binance and aster, where HTTP
                     \* 500-504 is retried, FALSE the others
    Interval,      \* pacing_interval_ms in ticks
    Backoff,       \* initial_ms in ticks; doubled once, then max_ms
    Window,        \* recvWindow in ticks
    Margin,        \* server_time_safety_margin_ms in ticks
    MaxLimited,    \* bound: answers 429
    MaxReloads     \* bound: reloads of rate_limits.toml

ASSUME OrderSubmitAssumption ==
    /\ GatewayRetries \subseteq BOOLEAN
    /\ {Interval, Backoff, Window} \subseteq Nat \ {0}
    /\ {Margin, MaxLimited, MaxReloads} \subseteq Nat

VARIABLES
    gateway,   \* the venue is binance or aster
    req,       \* the coroutine of each request
    offset,    \* _time_offset_ms as an error against the venue's clock, or Unset
    cool,      \* ticks left of the limiter's cooldown, and its failures
    next,      \* ticks until the limiter has a pacing slot
    engine,    \* ticks left of the engine's cooldown
    told,      \* ticks left of the wait the venue asked for (Retry-After)
    orders,    \* orders of each request that the venue took
    limited, reloads

vars == <<gateway, req, offset, cool, next, engine, told, orders, limited, reloads>>

MaxAge == Window + 1                  \* older makes no difference
Errors == (-Margin)..(MaxAge - Margin)
Unset == MaxAge + 1                   \* no error is as large

\* mutant: a wait that is over goes on counting
LessThanNothing(n) == n - 1

Less(n) == Max({n - 1, 0})

-----------------------------------------------------------------------------
(* A request: the place in _request; the leg that is on its way ("time": the  *)
(* server-time request, "order": its own); the retry; the error of the stamp  *)
(* and the ticks since it was made; the pacing sleep; the answer.             *)

NewRequest == [pc |-> "sign", leg |-> "order", retried |-> FALSE, error |-> 0,
               age |-> 0, slot |-> 0, answer |-> "none"]

At(r, pc) == req[r].pc = pc
Step(r, pc) == req' = [req EXCEPT ![r].pc = pc]
Finish(r, outcome) == req' = [req EXCEPT ![r] = [NewRequest EXCEPT !.pc = outcome]]

Ended == {"filled", "rejected", "uncertain"}

\* _server_timestamp_ms: from the cache, or with a request of its own; now_ms
\* is read before that request waits
Sign(r) ==
    /\ At(r, "sign")
    /\ req' = IF offset = Unset
              THEN [req EXCEPT ![r].pc = "cooldown", ![r].leg = "time", ![r].age = 0,
                               ![r].error = 0]
              ELSE [req EXCEPT ![r].pc = "cooldown", ![r].leg = "order", ![r].age = 0,
                               ![r].error = offset]
    /\ UNCHANGED <<gateway, offset, cool, next, engine, told, orders, limited, reloads>>

\* wait_until_ready_for_scopes
Ready(r) ==
    /\ At(r, "cooldown")
    /\ cool.left = 0
    /\ Step(r, "pace")
    /\ UNCHANGED <<gateway, offset, cool, next, engine, told, orders, limited, reloads>>

\* mutant: the time of the request is noted, not that of its slot
SlotAfterNow(delay) == Interval

\* pace_for_scopes: _last_request_ms becomes now + delay
SlotAfter(delay) == delay + Interval

Pace(r) ==
    /\ At(r, "pace")
    /\ req' = [req EXCEPT ![r].pc = "asleep", ![r].slot = next]
    /\ next' = SlotAfter(next)
    /\ UNCHANGED <<gateway, offset, cool, engine, told, orders, limited, reloads>>

\* mutant: the engine is not asked
GateOpenAlways == TRUE

\* async_wait_until_ready_for_scopes, as far as it depends on the answers
GateOpen == engine = 0

\* what the venue does with a server-time request: answers it, or not
TimeAnswers == {"ok", "limited", "lost"}

\* what it does with an order, and how many orders that leaves; "setting" is a
\* refusal for the account's position mode, set apart where it is retried
OrderAnswers(r) ==
    IF req[r].error - req[r].age \in (-Window)..0
    THEN {[answer |-> "ok",      takes |-> 1], [answer |-> "refused", takes |-> 0],
          [answer |-> "limited", takes |-> 0],
          [answer |-> "gateway", takes |-> 0], [answer |-> "gateway", takes |-> 1],
          [answer |-> "lost",    takes |-> 0], [answer |-> "lost",    takes |-> 1]}
         \cup {a \in {[answer |-> "setting", takes |-> 0]} : gateway}
    ELSE {[answer |-> "clock", takes |-> 0]}

Counted(answer) ==
    /\ answer = "limited" => limited < MaxLimited
    /\ limited' = IF answer = "limited" THEN limited + 1 ELSE limited

\* the pacing sleep is over, the engine has room, the request goes out
Send(r) ==
    /\ At(r, "asleep")
    /\ req[r].slot = 0
    /\ GateOpen
    /\ \/ /\ req[r].leg = "time"
          /\ \E a \in TimeAnswers :
                /\ Counted(a)
                /\ req' = [req EXCEPT ![r].pc = "sent", ![r].answer = a]
          /\ UNCHANGED orders
       \/ /\ req[r].leg = "order"
          /\ \E a \in OrderAnswers(r) :
                /\ Counted(a.answer)
                /\ req' = [req EXCEPT ![r].pc = "sent", ![r].answer = a.answer,
                                       ![r].error = 0, ![r].age = 0]
                /\ orders' = [orders EXCEPT ![r] = @ + a.takes]
    /\ UNCHANGED <<gateway, offset, cool, next, engine, told, reloads>>

\* record_rate_limit_for_scopes of the limiter and of the runtime's engine
Delay == IF cool.failures = 0 THEN Backoff ELSE 2 * Backoff
RecordLimit(retryAfter) ==
    /\ cool' = [left |-> Max({cool.left, Delay, retryAfter}),
                failures |-> Min({cool.failures + 1, 1})]
    /\ engine' = Max({engine, IF retryAfter > 0 THEN retryAfter ELSE Backoff})
    /\ told' = Max({told, retryAfter})

Limited(r) ==
    /\ At(r, "sent")
    /\ req[r].answer = "limited"
    /\ \E retryAfter \in {0, Backoff, 2 * Backoff} : RecordLimit(retryAfter)
    /\ Finish(r, "uncertain")
    /\ UNCHANGED <<gateway, offset, next, orders, limited, reloads>>

\* the server time is there: the stamp is right, the cached offset is wrong by
\* the time that passed since now_ms was read
Stamped(r) ==
    /\ At(r, "sent")
    /\ req[r].leg = "time"
    /\ req[r].answer = "ok"
    /\ offset' = req[r].age - Margin
    /\ req' = [req EXCEPT ![r].pc = "cooldown", ![r].leg = "order", ![r].age = 0,
                          ![r].error = -Margin, ![r].answer = "none"]
    /\ UNCHANGED <<gateway, cool, next, engine, told, orders, limited, reloads>>

\* mutant: every error of the gateway looks like a clock error
RetryableAny(answer) == answer \in {"clock", "gateway"}

\* _is_time_offset_retryable: binance and aster also retry errors 500-504 and
\* refusals for the position mode
Retryable(answer) ==
    \/ answer = "clock"
    \/ gateway /\ answer \in {"gateway", "setting"}

\* mutant: the retry is not noted
RetryAgain(r) ==
    /\ At(r, "sent")
    /\ Retryable(req[r].answer)
    /\ offset' = Unset
    /\ req' = [req EXCEPT ![r].pc = "sign", ![r].answer = "none"]
    /\ UNCHANGED <<gateway, cool, next, engine, told, orders, limited, reloads>>

Retry(r) ==
    /\ At(r, "sent")
    /\ Retryable(req[r].answer)
    /\ ~req[r].retried
    /\ offset' = Unset
    /\ req' = [req EXCEPT ![r].pc = "sign", ![r].retried = TRUE, ![r].answer = "none"]
    /\ UNCHANGED <<gateway, cool, next, engine, told, orders, limited, reloads>>

\* _map_to_submit_error, classify_transport_error
Outcome(r) ==
    CASE req[r].answer = "ok"      -> "filled"
      [] req[r].answer = "refused" -> "rejected"
      [] OTHER                     -> "uncertain"

End(r) ==
    /\ At(r, "sent")
    /\ req[r].answer # "limited"
    /\ ~(req[r].leg = "time" /\ req[r].answer = "ok")
    /\ ~(Retryable(req[r].answer) /\ ~req[r].retried)
    /\ Finish(r, Outcome(r))
    /\ UNCHANGED <<gateway, offset, cool, next, engine, told, orders, limited, reloads>>

\* from here on nothing asks how old the stamp is
OrderSent(r) == At(r, "sent") /\ req[r].leg = "order"

Tick ==
    /\ req' = [r \in Requests |-> [req[r] EXCEPT
                  !.age = IF At(r, "sign") \/ OrderSent(r) \/ req[r].pc \in Ended THEN @ ELSE Min({@ + 1, MaxAge}),
                  !.slot = Less(@)]]
    /\ cool' = [cool EXCEPT !.left = Less(@)]
    /\ next' = Less(next)
    /\ engine' = Less(engine)
    /\ told' = Less(told)
    /\ UNCHANGED <<gateway, offset, orders, limited, reloads>>

\* RateLimitRuntime.refresh: a new engine
Reload ==
    /\ reloads < MaxReloads
    /\ engine' = 0
    /\ reloads' = reloads + 1
    /\ UNCHANGED <<gateway, req, offset, cool, next, told, orders, limited>>

Init ==
    /\ gateway \in GatewayRetries
    /\ req = [r \in Requests |-> NewRequest]
    /\ offset \in {Unset, -Margin}
    /\ cool = [left |-> 0, failures |-> 0]
    /\ next = 0 /\ engine = 0 /\ told = 0
    /\ orders = [r \in Requests |-> 0]
    /\ limited = 0 /\ reloads = 0

OfRequest(r) ==
    Sign(r) \/ Ready(r) \/ Pace(r) \/ Send(r) \/ Limited(r) \/ Stamped(r) \/ Retry(r) \/ End(r)

Next == Tick \/ Reload \/ \E r \in Requests : OfRequest(r)

Spec == Init /\ [][Next]_vars

\* The event loop resumes every coroutine, the client has a timeout, the
\* engine refills.
FairSpec == Spec /\ WF_vars(Tick) /\ \A r \in Requests : WF_vars(OfRequest(r))

-----------------------------------------------------------------------------
(* Properties.                                                               *)

Answers == {"none", "ok", "refused", "limited", "gateway", "setting", "lost", "clock"}
Request == [pc : {"sign", "cooldown", "pace", "asleep", "sent"} \cup Ended,
            leg : {"time", "order"}, retried : BOOLEAN, error : Errors \cup {0},
            age : 0..MaxAge, slot : Nat, answer : Answers]
TypeOK ==
    /\ gateway \in BOOLEAN
    /\ req \in [Requests -> Request]
    /\ offset \in Errors \cup {Unset}
    /\ cool \in [left : Nat, failures : 0..1]
    /\ next \in Nat /\ engine \in Nat /\ told \in Nat
    /\ orders \in [Requests -> Nat]
    /\ limited \in 0..MaxLimited /\ reloads \in 0..MaxReloads

\* "REJECTED means no order-side uncertainty remains": the venue holds nothing
\* of a request that place_order reports as rejected (_request, _map_to_submit_error).
RejectedIsNothing == \A r \in Requests : At(r, "rejected") => orders[r] = 0

\* The same where an error of the gateway is not retried as a clock error: there
\* the refusal of the retry hides what became of the first request.
RejectedMeansNothing == ~gateway => RejectedIsNothing

\* One call leaves at most one order, whatever is retried underneath; after an
\* error of the gateway only the client order id, which both carry, can tell.
AtMostOneOrder == ~gateway => \A r \in Requests : orders[r] <= 1

\* "block until all scopes are out of cooldown": while the wait that the venue
\* asked for runs, nothing goes out: not the requests that were already asleep
\* in the pacing, and not server-time requests.
\* A reload of the configuration forgets it, so until the first one.
QuietWhenTold == [][\A r \in Requests :
    (reloads = 0 /\ At(r, "asleep") /\ req'[r].pc = "sent") => told = 0]_vars

\* Requests that sleep for their pacing slot wake at times that are an
\* interval apart: "concurrent first-batch callers cannot all pass".
SlotsApart == \A r, s \in Requests :
    (r # s /\ At(r, "asleep") /\ At(s, "asleep") /\ req[r].slot > 0 /\ req[s].slot > 0)
        => \/ req[r].slot - req[s].slot >= Interval
           \/ req[s].slot - req[r].slot >= Interval

\* Every request comes to an end, through cooldowns, pacing and the retry.
EveryRequestEnds == \A r \in Requests : <>(req[r].pc \in Ended)
=============================================================================
