-------------------------- MODULE OrderSubmitProofs --------------------------
(***************************************************************************)
(* What place_order can promise of a request, and the pacing and the wait  *)
(* of the transport, for every number of requests, interval and window.    *)
(*                                                                         *)
(* Orders: as long as a request may still be sent, or sent again, the venue *)
(* holds nothing of it (Unsent).  Without the retry of gateway errors only *)
(* a clock error is sent again, and that one the venue refused.            *)
(* Pacing: the next slot lies an interval after every slot that is waited  *)
(* for (SlotsBehind).  The wait: until the first reload the engine's       *)
(* cooldown lasts as long as what the venue asked for (EngineWaits).       *)
(***************************************************************************)
EXTENDS OrderSubmit, TLAPS

\* Answers after which the venue holds nothing of the request.
Unsent(r) ==
    \/ req[r].pc \in {"sign", "cooldown", "pace", "asleep", "rejected"}
    \/ At(r, "sent") /\ (req[r].leg = "time" \/ req[r].answer \in {"refused", "limited", "clock"})

OrdersKnown ==
    ~gateway => \A r \in Requests :
        /\ orders[r] <= 1
        /\ Unsent(r) => orders[r] = 0

Sleeps(r) == At(r, "asleep") /\ req[r].slot > 0
SlotsBehind == \A r \in Requests : Sleeps(r) => next - req[r].slot >= Interval

EngineWaits == reloads = 0 => told <= engine

Inductive == TypeOK /\ OrdersKnown /\ SlotsBehind /\ SlotsApart /\ EngineWaits

-----------------------------------------------------------------------------
(* Constants and helpers. *)

LEMMA Ticks ==
  /\ Interval \in Nat /\ Interval > 0 /\ Backoff \in Nat /\ Backoff > 0
  /\ Window \in Nat /\ Window > 0 /\ Margin \in Nat
  /\ MaxLimited \in Nat /\ MaxReloads \in Nat
  /\ MaxAge \in Nat /\ MaxAge > 0
BY OrderSubmitAssumption DEF MaxAge

\* The larger of two.
LEMMA MaxOfTwo ==
  ASSUME NEW a \in Nat, NEW b \in Nat
  PROVE  Max({a, b}) \in Nat /\ Max({a, b}) = (IF a >= b THEN a ELSE b)
<1>1. CASE a >= b
  BY <1>1 DEF Max
<1>2. CASE a < b
  BY <1>2 DEF Max
<1> QED BY <1>1, <1>2

LEMMA MinOfTwo ==
  ASSUME NEW a \in Nat, NEW b \in Nat
  PROVE  Min({a, b}) \in Nat /\ Min({a, b}) = (IF a <= b THEN a ELSE b)
<1>1. CASE a <= b
  BY <1>1 DEF Min
<1>2. CASE a > b
  BY <1>2 DEF Min
<1> QED BY <1>1, <1>2

\* The largest of three is one of them.
LEMMA MaxOfThree ==
  ASSUME NEW a \in Nat, NEW b \in Nat, NEW c \in Nat
  PROVE  Max({a, b, c}) \in Nat
<1>1. \E most \in {a, b, c} : \A x \in {a, b, c} : most >= x
  <2>1. CASE a >= b /\ a >= c
    BY <2>1
  <2>2. CASE b >= a /\ b >= c
    BY <2>2
  <2>3. CASE c >= a /\ c >= b
    BY <2>3
  <2> QED BY <2>1, <2>2, <2>3
<1> QED BY <1>1 DEF Max

\* What is left of a wait after a tick.
LEMMA LessOfWait ==
  ASSUME NEW n \in Nat
  PROVE  Less(n) \in Nat /\ Less(n) = (IF n = 0 THEN 0 ELSE n - 1)
<1>1. CASE n = 0
  BY <1>1 DEF Less, Max
<1>2. CASE n > 0
  <2>1. n - 1 \in Nat
    BY <1>2
  <2> QED BY <1>2, <2>1, MaxOfTwo DEF Less
<1> QED BY <1>1, <1>2

\* Error of an offset that was just measured.
LEMMA MeasuredError ==
  /\ \A age \in 0..MaxAge : age - Margin \in Errors
  /\ -Margin \in Errors
BY Ticks DEF Errors

-----------------------------------------------------------------------------
(* One request changes, the others stay. *)

Only(r, new) == req' = [req EXCEPT ![r] = new]

LEMMA OnlyOne ==
  ASSUME TypeOK, NEW r \in Requests, NEW new \in Request, Only(r, new)
  PROVE  /\ req' \in [Requests -> Request]
         /\ req'[r] = new
         /\ \A s \in Requests : s # r => req'[s] = req[s]
BY DEF TypeOK, Only

LEMMA NoAge == 0 \in 0..MaxAge
BY Ticks

LEMMA RequestFields ==
  ASSUME NEW n \in Request
  PROVE  /\ n.pc \in {"sign", "cooldown", "pace", "asleep", "sent",
                      "filled", "rejected", "uncertain"}
         /\ n.leg \in {"time", "order"} /\ n.retried \in BOOLEAN
         /\ n.error \in Errors \cup {0} /\ n.age \in 0..MaxAge /\ n.slot \in Nat
         /\ n.answer \in Answers
BY DEF Request, Ended

\* What a request that changes does to the orders: none is added, and nothing
\* is unknown that was known.
LEMMA OrdersKept ==
  ASSUME Inductive, NEW r \in Requests, NEW new \in Request, Only(r, new),
         Unsent(r)' => (gateway \/ Unsent(r)),
         orders' = orders, gateway' = gateway
  PROVE  OrdersKnown'
<1>1. \A s \in Requests : s # r => (Unsent(s)' <=> Unsent(s))
  BY OnlyOne DEF Inductive, Unsent, At
<1> QED BY <1>1 DEF Inductive, OrdersKnown

\* A request that does not go to sleep keeps the slots as they are.
LEMMA SlotsKept ==
  ASSUME Inductive, NEW r \in Requests, NEW new \in Request, Only(r, new),
         new.pc # "asleep", next' = next
  PROVE  SlotsBehind' /\ SlotsApart'
<1>1. ~At(r, "asleep")'
  BY OnlyOne DEF Inductive, At
<1>2. \A s \in Requests : s # r => req'[s] = req[s]
  BY OnlyOne DEF Inductive
<1> QED BY <1>1, <1>2 DEF Inductive, SlotsBehind, SlotsApart, Sleeps, At

-----------------------------------------------------------------------------
(* One lemma for each action. *)

LEMMA InitInductive == Init => Inductive
<1> SUFFICES ASSUME Init PROVE Inductive
  OBVIOUS
<1>1. NewRequest \in Request
  BY NoAge DEF NewRequest, Request, Answers, Ended
<1>2. TypeOK
  <2>1. req \in [Requests -> Request] /\ orders \in [Requests -> Nat]
    BY <1>1 DEF Init
  <2>2. offset \in Errors \cup {Unset}
    BY MeasuredError DEF Init
  <2>3. gateway \in BOOLEAN
    BY OrderSubmitAssumption DEF Init
  <2> QED BY <2>1, <2>2, <2>3, Ticks DEF Init, TypeOK
<1>3. \A r \in Requests : req[r].pc = "sign"
  BY DEF Init, NewRequest
<1> QED BY <1>2, <1>3 DEF Init, Inductive, OrdersKnown, SlotsBehind, SlotsApart,
           Sleeps, At, EngineWaits

LEMMA SignInductive ==
  ASSUME Inductive, NEW r \in Requests, Sign(r) PROVE Inductive'
<1> DEFINE new == IF offset = Unset
              THEN [req[r] EXCEPT !.pc = "cooldown", !.leg = "time", !.age = 0, !.error = 0]
              ELSE [req[r] EXCEPT !.pc = "cooldown", !.leg = "order", !.age = 0,
                                  !.error = offset]
<1>1. req[r] \in Request /\ offset \in Errors \cup {Unset}
  BY DEF Inductive, TypeOK
<1>2. new \in Request /\ new.pc = "cooldown"
  BY <1>1, NoAge DEF Request
<1>3. Only(r, new)
  BY <1>1 DEF Sign, Only, Inductive, TypeOK
<1> HIDE DEF new
<1>4. Unsent(r)
  BY DEF Sign, Unsent, At
<1>5. TypeOK'
  BY <1>2, <1>3, OnlyOne DEF Inductive, TypeOK, Sign
<1>6. OrdersKnown'
  BY <1>2, <1>3, <1>4, OrdersKept DEF Sign
<1>7. SlotsBehind' /\ SlotsApart'
  BY <1>2, <1>3, SlotsKept DEF Sign
<1> QED BY <1>5, <1>6, <1>7 DEF Inductive, EngineWaits, Sign

LEMMA ReadyInductive ==
  ASSUME Inductive, NEW r \in Requests, Ready(r) PROVE Inductive'
<1> DEFINE new == [req[r] EXCEPT !.pc = "pace"]
<1>1. req[r] \in Request
  BY DEF Inductive, TypeOK
<1>2. new \in Request /\ new.pc = "pace"
  BY <1>1 DEF Request
<1>3. Only(r, new)
  BY <1>1 DEF Ready, Step, Only, Inductive, TypeOK
<1> HIDE DEF new
<1>4. Unsent(r)
  BY DEF Ready, Unsent, At
<1>5. TypeOK'
  BY <1>2, <1>3, OnlyOne DEF Inductive, TypeOK, Ready
<1>6. OrdersKnown'
  BY <1>2, <1>3, <1>4, OrdersKept DEF Ready
<1>7. SlotsBehind' /\ SlotsApart'
  BY <1>2, <1>3, SlotsKept DEF Ready
<1> QED BY <1>5, <1>6, <1>7 DEF Inductive, EngineWaits, Ready

LEMMA PaceInductive ==
  ASSUME Inductive, NEW r \in Requests, Pace(r) PROVE Inductive'
<1> DEFINE new == [req[r] EXCEPT !.pc = "asleep", !.slot = next]
<1>1. req[r] \in Request /\ next \in Nat
  BY DEF Inductive, TypeOK
<1>2. new \in Request /\ new.pc = "asleep" /\ new.slot = next
  BY <1>1 DEF Request
<1>3. Only(r, new)
  BY <1>1 DEF Pace, Only, Inductive, TypeOK
<1> HIDE DEF new
<1>4. Unsent(r)
  BY DEF Pace, Unsent, At
<1>5. next' = next + Interval /\ next' \in Nat
  BY <1>1, Ticks DEF Pace, SlotAfter
<1>6. TypeOK'
  BY <1>2, <1>3, <1>5, OnlyOne DEF Inductive, TypeOK, Pace
<1>7. OrdersKnown'
  BY <1>2, <1>3, <1>4, OrdersKept DEF Pace
<1>8. /\ req'[r] = new
      /\ \A s \in Requests : s # r => req'[s] = req[s]
  BY <1>2, <1>3, OnlyOne DEF Inductive
<1>9. \A s \in Requests : req[s].slot \in Nat
  BY RequestFields DEF Inductive, TypeOK
<1>10. \A s \in Requests : s # r /\ Sleeps(s)' => next - req'[s].slot >= Interval
  BY <1>8 DEF Inductive, SlotsBehind, Sleeps, At
<1>11. SlotsBehind'
  <2> SUFFICES ASSUME NEW s \in Requests, Sleeps(s)' PROVE next' - req'[s].slot >= Interval
    BY DEF SlotsBehind
  <2>1. CASE s = r
    BY <1>1, <1>2, <1>5, <1>8, <2>1, Ticks
  <2>2. CASE s # r
    BY <1>1, <1>5, <1>8, <1>9, <1>10, <2>2, Ticks
  <2> QED BY <2>1, <2>2
<1>12. SlotsApart'
  <2> SUFFICES ASSUME NEW s \in Requests, NEW t \in Requests, s # t, Sleeps(s)', Sleeps(t)'
               PROVE  \/ req'[s].slot - req'[t].slot >= Interval
                      \/ req'[t].slot - req'[s].slot >= Interval
    BY DEF SlotsApart, Sleeps
  <2>1. CASE s = r
    BY <1>2, <1>8, <1>10, <2>1
  <2>2. CASE t = r
    BY <1>2, <1>8, <1>10, <2>2
  <2>3. CASE s # r /\ t # r
    BY <1>8, <2>3 DEF Inductive, SlotsApart, Sleeps, At
  <2> QED BY <2>1, <2>2, <2>3
<1> QED BY <1>6, <1>7, <1>11, <1>12 DEF Inductive, EngineWaits, Pace

\* What the venue makes of an order: one at most, and none if it refuses.
LEMMA OrderAnswered ==
  ASSUME NEW r \in Requests, NEW a \in OrderAnswers(r)
  PROVE  /\ a.answer \in {"ok", "refused", "limited", "gateway", "setting", "lost", "clock"}
         /\ a.takes \in {0, 1}
         /\ a.answer \in {"refused", "limited", "clock"} => a.takes = 0
         /\ a.answer = "setting" => gateway
<1> DEFINE set == [answer |-> "setting", takes |-> 0]
           clock == [answer |-> "clock", takes |-> 0]
<1>1. \/ a = set /\ gateway
      \/ a = clock
      \/ /\ a.answer \in {"ok", "refused", "limited", "gateway", "lost"}
         /\ a.takes \in {0, 1}
         /\ a.answer \in {"refused", "limited"} => a.takes = 0
  <2>1. CASE a \in {set} /\ gateway
    BY <2>1
  <2>2. CASE a = clock
    BY <2>2
  <2>3. CASE ~(a \in {set} /\ gateway) /\ a # clock
    BY <2>3 DEF OrderAnswers
  <2> QED BY <2>1, <2>2, <2>3
<1> QED BY <1>1

LEMMA CountedInBounds ==
  ASSUME TypeOK, NEW a, Counted(a) PROVE limited' \in 0..MaxLimited
BY Ticks DEF TypeOK, Counted

LEMMA SendInductive ==
  ASSUME Inductive, NEW r \in Requests, Send(r) PROVE Inductive'
<1>1. req[r] \in Request /\ orders[r] \in Nat
  BY DEF Inductive, TypeOK
<1>2. Unsent(r)
  BY DEF Send, Unsent, At
<1>3. CASE req[r].leg = "time"
  <2>1. PICK a \in TimeAnswers :
            Counted(a) /\ req' = [req EXCEPT ![r].pc = "sent", ![r].answer = a]
    BY <1>3 DEF Send
  <2> DEFINE new == [req[r] EXCEPT !.pc = "sent", !.answer = a]
  <2>2. new \in Request /\ new.pc = "sent"
    BY <1>1 DEF Request, TimeAnswers, Answers
  <2>3. Only(r, new)
    BY <1>1, <2>1 DEF Only, Inductive, TypeOK
  <2> HIDE DEF new
  <2>4. TypeOK'
    BY <1>3, <2>1, <2>2, <2>3, OnlyOne, CountedInBounds DEF Inductive, TypeOK, Send
  <2>5. OrdersKnown'
    BY <1>2, <1>3, <2>2, <2>3, OrdersKept DEF Send
  <2>6. SlotsBehind' /\ SlotsApart'
    BY <2>2, <2>3, SlotsKept DEF Send
  <2> QED BY <2>4, <2>5, <2>6 DEF Inductive, EngineWaits, Send
<1>4. CASE req[r].leg = "order"
  <2>1. PICK a \in OrderAnswers(r) :
            /\ Counted(a.answer)
            /\ req' = [req EXCEPT ![r].pc = "sent", ![r].answer = a.answer,
                                  ![r].error = 0, ![r].age = 0]
            /\ orders' = [orders EXCEPT ![r] = @ + a.takes]
    BY <1>4 DEF Send
  <2> DEFINE new == [req[r] EXCEPT !.pc = "sent", !.answer = a.answer, !.error = 0, !.age = 0]
  <2>2. new \in Request /\ new.pc = "sent" /\ new.leg = "order" /\ new.answer = a.answer
    BY <1>1, <1>4, OrderAnswered, NoAge DEF Request, Answers
  <2>3. Only(r, new)
    BY <1>1, <2>1 DEF Only, Inductive, TypeOK
  <2> HIDE DEF new
  <2>4. orders' \in [Requests -> Nat] /\ orders'[r] = orders[r] + a.takes
    BY <1>1, <2>1, OrderAnswered DEF Inductive, TypeOK
  <2>5. \A s \in Requests : s # r => req'[s] = req[s] /\ orders'[s] = orders[s]
    BY <2>1, <2>2, <2>3, OnlyOne DEF Inductive, TypeOK
  <2>6. TypeOK'
    BY <2>1, <2>2, <2>3, <2>4, OnlyOne, CountedInBounds DEF Inductive, TypeOK, Send
  <2>7. OrdersKnown'
    <3> SUFFICES ASSUME ~gateway, NEW s \in Requests
                 PROVE  orders'[s] <= 1 /\ (Unsent(s)' => orders'[s] = 0)
      BY DEF OrdersKnown, Send
    <3>1. CASE s # r
      BY <2>5, <3>1 DEF Inductive, OrdersKnown, Unsent, At
    <3>2. CASE s = r
      <4>1. orders[r] = 0
        BY <1>2 DEF Inductive, OrdersKnown
      <4>2. req'[r] = new
        BY <2>2, <2>3, OnlyOne DEF Inductive
      <4>3. Unsent(r)' => a.answer \in {"refused", "limited", "clock"}
        BY <2>2, <4>2 DEF Unsent, At
      <4> QED BY <2>4, <3>2, <4>1, <4>3, OrderAnswered
    <3> QED BY <3>1, <3>2
  <2>8. SlotsBehind' /\ SlotsApart'
    BY <2>2, <2>3, SlotsKept DEF Send
  <2> QED BY <2>6, <2>7, <2>8 DEF Inductive, EngineWaits, Send
<1> QED BY <1>3, <1>4 DEF Send

\* A request that has come to its end.
LEMMA FinishedRequest ==
  ASSUME TypeOK, NEW r \in Requests, NEW outcome \in Ended, Finish(r, outcome)
  PROVE  \E new \in Request : Only(r, new) /\ new.pc = outcome
<1> DEFINE new == [NewRequest EXCEPT !.pc = outcome]
<1>1. new \in Request /\ new.pc = outcome
  BY NoAge DEF NewRequest, Request, Answers, Ended
<1> QED BY <1>1 DEF Finish, Only

LEMMA RecordedLimit ==
  ASSUME TypeOK, NEW retryAfter \in {0, Backoff, 2 * Backoff}, RecordLimit(retryAfter)
  PROVE  /\ cool' \in [left : Nat, failures : 0..1]
         /\ engine' \in Nat /\ told' \in Nat
         /\ told <= engine => told' <= engine'
<1> DEFINE held == IF retryAfter > 0 THEN retryAfter ELSE Backoff
<1>1. retryAfter \in Nat /\ held \in Nat /\ retryAfter <= held /\ Delay \in Nat
  BY Ticks DEF Delay
<1>2. cool.left \in Nat /\ cool.failures \in 0..1 /\ engine \in Nat /\ told \in Nat
  BY DEF TypeOK
<1>3. engine' = Max({engine, held}) /\ told' = Max({told, retryAfter})
  BY DEF RecordLimit
<1> HIDE DEF held
<1>4. /\ engine' \in Nat /\ engine' = (IF engine >= held THEN engine ELSE held)
      /\ told' \in Nat /\ told' = (IF told >= retryAfter THEN told ELSE retryAfter)
  BY <1>1, <1>2, <1>3, MaxOfTwo
<1>5. Max({cool.left, Delay, retryAfter}) \in Nat
  BY <1>1, <1>2, MaxOfThree
<1>6. Min({cool.failures + 1, 1}) \in 0..1
  <2>1. cool.failures + 1 \in Nat
    BY <1>2
  <2> QED BY <1>2, <2>1, MinOfTwo
<1> QED BY <1>1, <1>2, <1>4, <1>5, <1>6 DEF RecordLimit

LEMMA LimitedInductive ==
  ASSUME Inductive, NEW r \in Requests, Limited(r) PROVE Inductive'
<1>1. TypeOK
  BY DEF Inductive
<1>2. PICK new \in Request : Only(r, new) /\ new.pc = "uncertain"
  BY <1>1, FinishedRequest DEF Limited, Ended
<1>3. /\ cool' \in [left : Nat, failures : 0..1] /\ engine' \in Nat /\ told' \in Nat
      /\ told <= engine => told' <= engine'
  BY <1>1, RecordedLimit DEF Limited
<1>4. TypeOK'
  BY <1>1, <1>2, <1>3, OnlyOne DEF TypeOK, Limited
<1>5. OrdersKnown'
  <2>1. ~Unsent(r)'
    BY <1>1, <1>2, OnlyOne DEF Unsent, At
  <2> QED BY <1>2, <2>1, OrdersKept DEF Limited
<1>6. SlotsBehind' /\ SlotsApart'
  BY <1>2, SlotsKept DEF Limited
<1> QED BY <1>3, <1>4, <1>5, <1>6 DEF Inductive, EngineWaits, Limited

LEMMA StampedInductive ==
  ASSUME Inductive, NEW r \in Requests, Stamped(r) PROVE Inductive'
<1> DEFINE new == [req[r] EXCEPT !.pc = "cooldown", !.leg = "order", !.age = 0,
                                 !.error = -Margin, !.answer = "none"]
<1>1. req[r] \in Request
  BY DEF Inductive, TypeOK
<1>2. new \in Request /\ new.pc = "cooldown"
  BY <1>1, MeasuredError, NoAge DEF Request, Answers
<1>3. Only(r, new)
  BY <1>1 DEF Stamped, Only, Inductive, TypeOK
<1> HIDE DEF new
<1>4. Unsent(r)
  BY DEF Stamped, Unsent
<1>5. offset' \in Errors
  BY <1>1, RequestFields, MeasuredError DEF Stamped
<1>6. TypeOK'
  BY <1>2, <1>3, <1>5, OnlyOne DEF Inductive, TypeOK, Stamped
<1>7. OrdersKnown'
  BY <1>2, <1>3, <1>4, OrdersKept DEF Stamped
<1>8. SlotsBehind' /\ SlotsApart'
  BY <1>2, <1>3, SlotsKept DEF Stamped
<1> QED BY <1>6, <1>7, <1>8 DEF Inductive, EngineWaits, Stamped

LEMMA RetryInductive ==
  ASSUME Inductive, NEW r \in Requests, Retry(r) PROVE Inductive'
<1> DEFINE new == [req[r] EXCEPT !.pc = "sign", !.retried = TRUE, !.answer = "none"]
<1>1. req[r] \in Request
  BY DEF Inductive, TypeOK
<1>2. new \in Request /\ new.pc = "sign"
  BY <1>1 DEF Request, Answers
<1>3. Only(r, new)
  BY <1>1 DEF Retry, Only, Inductive, TypeOK
<1> HIDE DEF new
<1>4. gateway \/ Unsent(r)
  BY DEF Retry, Retryable, Unsent
<1>5. TypeOK'
  BY <1>2, <1>3, OnlyOne DEF Inductive, TypeOK, Retry
<1>6. OrdersKnown'
  BY <1>2, <1>3, <1>4, OrdersKept DEF Retry
<1>7. SlotsBehind' /\ SlotsApart'
  BY <1>2, <1>3, SlotsKept DEF Retry
<1> QED BY <1>5, <1>6, <1>7 DEF Inductive, EngineWaits, Retry

LEMMA EndInductive ==
  ASSUME Inductive, NEW r \in Requests, End(r) PROVE Inductive'
<1>1. TypeOK
  BY DEF Inductive
<1>2. Outcome(r) \in Ended /\ (Outcome(r) = "rejected" => req[r].answer = "refused")
  BY DEF Outcome, Ended
<1>3. PICK new \in Request : Only(r, new) /\ new.pc = Outcome(r)
  BY <1>1, <1>2, FinishedRequest DEF End
<1>4. TypeOK'
  BY <1>1, <1>3, OnlyOne DEF TypeOK, End
<1>5. Unsent(r)' => Unsent(r)
  BY <1>1, <1>2, <1>3, OnlyOne DEF Unsent, At, End, Ended
<1>6. OrdersKnown'
  BY <1>3, <1>5, OrdersKept DEF End
<1>7. SlotsBehind' /\ SlotsApart'
  BY <1>2, <1>3, SlotsKept DEF End, Ended
<1> QED BY <1>4, <1>6, <1>7 DEF Inductive, EngineWaits, End

LEMMA TickInductive == ASSUME Inductive, Tick PROVE Inductive'
<1>1. TypeOK
  BY DEF Inductive
<1>2. \A r \in Requests : req[r] \in Request
  BY <1>1 DEF TypeOK
<1> DEFINE older(r) == IF At(r, "sign") \/ OrderSent(r) \/ req[r].pc \in Ended
                       THEN req[r].age ELSE Min({req[r].age + 1, MaxAge})
<1>3. \A r \in Requests : older(r) \in 0..MaxAge
  <2> TAKE r \in Requests
  <2>1. req[r].age \in 0..MaxAge
    BY <1>2, RequestFields
  <2>2. req[r].age + 1 \in Nat /\ MaxAge \in Nat
    BY <2>1, Ticks
  <2>3. Min({req[r].age + 1, MaxAge}) \in 0..MaxAge
    BY <2>2, MinOfTwo
  <2> QED BY <2>1, <2>3
<1>4. \A r \in Requests : req[r].slot \in Nat /\ Less(req[r].slot) \in Nat
  BY <1>2, RequestFields, LessOfWait
<1>5. \A r \in Requests :
          req'[r] = [req[r] EXCEPT !.age = older(r), !.slot = Less(req[r].slot)]
  BY DEF Tick
<1> HIDE DEF older
<1>6. \A r \in Requests :
        /\ req'[r] \in Request
        /\ req'[r].pc = req[r].pc /\ req'[r].leg = req[r].leg
        /\ req'[r].answer = req[r].answer /\ req'[r].slot = Less(req[r].slot)
  BY <1>2, <1>3, <1>4, <1>5 DEF Request
<1>7. /\ cool.left \in Nat /\ next \in Nat /\ engine \in Nat /\ told \in Nat
  BY <1>1 DEF TypeOK
<1>8. TypeOK'
  <2>1. req' \in [Requests -> Request]
    BY <1>6 DEF Tick
  <2>2. cool' \in [left : Nat, failures : 0..1]
    BY <1>1, <1>7, LessOfWait DEF Tick, TypeOK
  <2>3. next' \in Nat /\ engine' \in Nat /\ told' \in Nat
    BY <1>7, LessOfWait DEF Tick
  <2> QED BY <1>1, <2>1, <2>2, <2>3 DEF TypeOK, Tick
<1>9. OrdersKnown'
  BY <1>6 DEF Inductive, OrdersKnown, Unsent, At, Tick
<1>10. next' = (IF next = 0 THEN 0 ELSE next - 1)
  BY <1>7, LessOfWait DEF Tick
<1>11. \A r \in Requests : Sleeps(r)' =>
         Sleeps(r) /\ req[r].slot >= 1 /\ req'[r].slot = req[r].slot - 1
  BY <1>4, <1>6, LessOfWait DEF Sleeps, At
<1>12. SlotsBehind'
  BY <1>4, <1>7, <1>10, <1>11, Ticks DEF Inductive, SlotsBehind
<1>13. SlotsApart'
  <2> SUFFICES ASSUME NEW s \in Requests, NEW t \in Requests, s # t, Sleeps(s)', Sleeps(t)'
               PROVE  \/ req'[s].slot - req'[t].slot >= Interval
                      \/ req'[t].slot - req'[s].slot >= Interval
    BY DEF SlotsApart, Sleeps
  <2>1. \/ req[s].slot - req[t].slot >= Interval
        \/ req[t].slot - req[s].slot >= Interval
    BY <1>11 DEF Inductive, SlotsApart, Sleeps
  <2> QED BY <1>4, <1>11, <2>1, Ticks
<1>14. EngineWaits'
  <2>1. /\ engine' = (IF engine = 0 THEN 0 ELSE engine - 1)
        /\ told' = (IF told = 0 THEN 0 ELSE told - 1)
    BY <1>7, LessOfWait DEF Tick
  <2>2. reloads' = reloads /\ (reloads = 0 => told <= engine)
    BY DEF Inductive, EngineWaits, Tick
  <2>3. told <= engine => told' <= engine'
    BY <1>7, <2>1
  <2> QED BY <2>2, <2>3 DEF EngineWaits
<1> QED BY <1>8, <1>9, <1>12, <1>13, <1>14 DEF Inductive

LEMMA ReloadInductive == ASSUME Inductive, Reload PROVE Inductive'
<1>1. TypeOK'
  BY Ticks DEF Inductive, TypeOK, Reload
<1>2. reloads' # 0
  BY DEF Inductive, TypeOK, Reload
<1> QED BY <1>1, <1>2 DEF Inductive, OrdersKnown, Unsent, At, SlotsBehind, SlotsApart,
           Sleeps, EngineWaits, Reload

LEMMA NextInductive == ASSUME Inductive, [Next]_vars PROVE Inductive'
<1>1. CASE Tick
  BY <1>1, TickInductive
<1>2. CASE Reload
  BY <1>2, ReloadInductive
<1>3. CASE \E r \in Requests : OfRequest(r)
  BY <1>3, SignInductive, ReadyInductive, PaceInductive, SendInductive, LimitedInductive,
     StampedInductive, RetryInductive, EndInductive DEF OfRequest
<1>4. CASE UNCHANGED vars
  BY <1>4 DEF vars, Inductive, TypeOK, OrdersKnown, Unsent, At, SlotsBehind, SlotsApart,
     Sleeps, EngineWaits
<1> QED BY <1>1, <1>2, <1>3, <1>4 DEF Next

LEMMA AlwaysInductive == Spec => []Inductive
BY InitInductive, NextInductive, PTL DEF Spec

-----------------------------------------------------------------------------
(* What follows. *)

\* The types of the requests, the waits and the pacing slots.
THEOREM TypesHold == Spec => []TypeOK
BY AlwaysInductive, PTL DEF Inductive

\* What place_order reports as rejected is not at the venue: of a request of
\* _request that ends in a refusal no part was taken before, because without the
\* retry of gateway errors only a refused clock is sent again.
THEOREM RejectionIsFinal == Spec => []RejectedMeansNothing
<1>1. Inductive => RejectedMeansNothing
  BY DEF Inductive, OrdersKnown, Unsent, RejectedMeansNothing, RejectedIsNothing, At
<1> QED BY <1>1, AlwaysInductive, PTL

\* However often _request signs and sends again, the venue takes one order.
THEOREM OneOrderAtMost == Spec => []AtMostOneOrder
<1>1. Inductive => AtMostOneOrder
  BY DEF Inductive, OrdersKnown, AtMostOneOrder
<1> QED BY <1>1, AlwaysInductive, PTL

\* Any number of requests that come at once leave pace_for_scopes an interval
\* apart.
THEOREM PacedApart == Spec => []SlotsApart
<1>1. Inductive => SlotsApart
  BY DEF Inductive
<1> QED BY <1>1, AlwaysInductive, PTL

\* While the wait runs that a 429 asked for, the engine's gate is shut for every
\* request, also for those that were asleep when it came.
THEOREM QuietWhileTold == Spec => QuietWhenTold
<1> DEFINE Quiet == \A r \in Requests :
        (reloads = 0 /\ At(r, "asleep") /\ req'[r].pc = "sent") => told = 0
<1>1. Inductive /\ [Next]_vars => [Quiet]_vars
  <2> SUFFICES ASSUME Inductive, Next, NEW r \in Requests,
                      reloads = 0, At(r, "asleep"), req'[r].pc = "sent"
               PROVE  told = 0
    OBVIOUS
  <2>1. ~Tick
    <3>1. req[r] \in Request
      BY DEF Inductive, TypeOK
    <3>2. Tick => \E age : req'[r] = [req[r] EXCEPT !.age = age, !.slot = Less(@)]
      BY DEF Tick
    <3>3. Tick => req'[r].pc = req[r].pc
      BY <3>1, <3>2 DEF Request
    <3> QED BY <3>3 DEF At
  <2>2. ~Reload
    BY DEF Reload, At
  <2>3. PICK s \in Requests : OfRequest(s)
    BY <2>1, <2>2 DEF Next
  <2>4. req'[r] # req[r]
    BY DEF At
  <2>5. Send(s)
    BY <2>3, <2>4 DEF OfRequest, Sign, Ready, Pace, Limited, Stamped, Retry, End, Finish, At,
       Step, Inductive, TypeOK
  <2>6. engine = 0 /\ told <= engine /\ told \in Nat
    BY <2>5 DEF Send, GateOpen, Inductive, EngineWaits, TypeOK
  <2> QED BY <2>6
<1> QED BY <1>1, AlwaysInductive, PTL DEF Spec, QuietWhenTold
=============================================================================
