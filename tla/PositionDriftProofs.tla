------------------------- MODULE PositionDriftProofs -------------------------
(***************************************************************************)
(* The repair lane and the drift check own every excess and sell nothing   *)
(* else, for every matched quantity, excess, least order and bound.        *)
(*                                                                         *)
(* What keeps an excess owned is the entry's task alone, whatever closes   *)
(* and their tasks do: it covers the excess (Covered), a restart finds it  *)
(* as it was (Remembered), and a pass that is under way neither outlives   *)
(* what it measured (PassFits) nor meets the drift check (DriftFits).      *)
(***************************************************************************)
EXTENDS PositionDrift, TLAPS

-----------------------------------------------------------------------------
(* Types. *)

Book == [open : BOOLEAN, matched : Nat, leg : [Legs -> Nat]]
Task == [leg : Legs \cup {"none"}, quantity : Nat, tries : Nat,
         next : Nat \cup {-1}, gap : Nat \cup {-1}]
Close == [on : BOOLEAN, kind : {"taker", "maker"}, closed : [Legs -> Nat]]

\* A position that is out of the book shares nothing.
Counts(b) == ~b.open => b.matched = 0

\* A task names its leg; one that waits for the truth of an order, that order.
Names(t) == t.leg \in Legs \/ t = NoTask
Asks(t) == t.gap >= 0 => Seen(t.leg, t.gap)

Lanes == {"sent", "duplicate", "retry", "resolve"}
Drifting == {"flatten", "verify"}

WorldTyped ==
  /\ held \in [Legs -> Nat]
  /\ orders \subseteq [leg : Legs, id : Int, done : Nat]
  /\ book \in Book /\ Counts(book)
  /\ closing \in Close /\ (~closing.on => closing = NoClose)
TasksTyped ==
  /\ task \in [Origins -> Task]
  /\ \A o \in Origins : Names(task[o]) /\ Asks(task[o])
  /\ saved \in [book : Book, task : [Origins -> Task]] /\ Counts(saved.book)
  /\ \A o \in Origins : Names(saved.task[o]) /\ Asks(saved.task[o])
StepTyped ==
  /\ step \in {"idle"} \cup Lanes \cup Drifting
  /\ cur \in Origins \cup {"none"}
  /\ ask \in [quantity : Nat, id : Nat \cup {-1}, excess : Nat]
  /\ at \in Legs /\ want \in [Legs -> Nat] /\ even \in Nat /\ ok \in BOOLEAN
  /\ again \in BOOLEAN
SetupTyped == setup.smallest \in Nat \ {0} /\ crashes \in Nat
Typed == SetupTyped /\ WorldTyped /\ TasksTyped /\ StepTyped

\* A venue answers for one order under an id.
OneAnswer == \A p, q \in orders : p.leg = q.leg /\ p.id = q.id => p = q

-----------------------------------------------------------------------------
(* The excess and its owner. *)

\* A close that is under way has closed part of what the book still counts.
Taker == closing.on /\ closing.kind = "taker"
Taking(l) == IF Taker THEN closing.closed[l] ELSE 0
Beyond(l) == Less(held[l] + Taking(l), book.matched)

\* What the order a task asks about has executed of the excess it was made for.
Sold(t, l) == IF t.gap >= 0 THEN Executed(l, t.gap) ELSE 0

\* The entry's task covers the excess, whatever closes and their tasks do.
Covered ==
  \A l \in Legs \ dust :
    Beyond(l) > 0 =>
      /\ task["entry"].leg = l
      /\ Beyond(l) <= Less(task["entry"].quantity, Sold(task["entry"], l))

\* A restart finds an older book and the same task, or an older state of it.
Remembered ==
  crashes < MaxCrashes =>
    /\ book.matched <= saved.book.matched
    /\ saved.task["entry"].leg = task["entry"].leg
    /\ saved.task["entry"].quantity = task["entry"].quantity
    /\ saved.task["entry"].gap >= 0 => saved.task["entry"].gap = task["entry"].gap

\* A pass sells no more than the excess it measured.
PassFits ==
  step \in Lanes =>
    /\ cur \in Origins /\ L \in Legs /\ ask.id >= 0 /\ task[cur].gap = -1
    /\ ~Taker
    /\ cur = "entry" /\ L \notin dust => ask.excess <= task["entry"].quantity
    /\ Over(L) <= ask.excess
    /\ step \in {"duplicate", "resolve"} => Seen(L, ask.id)
    /\ step = "resolve" => Over(L) <= Less(ask.excess, Executed(L, ask.id))
    /\ ~again /\ step # "resolve" =>
         ask.quantity <= Less(held[L] + closing.closed[L], book.matched)

\* The drift check leaves both legs even, if both orders are confirmed.
DriftFits ==
  /\ step \in Drifting => ~closing.on
  /\ step = "flatten" /\ at = "long" =>
       /\ \A l \in Legs : held[l] = even + want[l]
       /\ want["long"] = 0 \/ want["short"] = 0
  /\ step = "flatten" /\ at = "short" =>
       /\ held["short"] = even + want["short"]
       /\ ok \/ want["short"] > 0 => held["long"] = even
  /\ step = "verify" /\ ok => EvenNow

Owned == Typed /\ OneAnswer /\ Covered /\ Remembered /\ PassFits /\ DriftFits

-----------------------------------------------------------------------------
(* Quantities. *)

LEMMA LessIs ==
  ASSUME NEW a \in Nat, NEW b \in Nat
  PROVE  /\ Less(a, b) \in Nat /\ Less(a, b) <= a /\ Less(a, 0) = a /\ Less(a, a) = 0
         /\ a <= b => Less(a, b) = 0
BY DEF Less

\* What is held falls, and with it what is held beyond.
LEMMA LessFalls ==
  ASSUME NEW a \in Nat, NEW b \in Nat, NEW c \in Nat, c <= a
  PROVE  Less(c, b) <= Less(a, b)
BY DEF Less

\* A larger book leaves less beyond it.
LEMMA LessLess ==
  ASSUME NEW a \in Nat, NEW b \in Nat, NEW c \in Nat, b <= c
  PROVE  Less(a, c) <= Less(a, b)
BY DEF Less

\* A sale takes as much from the excess as from an upper bound of it.
LEMMA LessSold ==
  ASSUME NEW a \in Nat, NEW b \in Nat, NEW x \in Nat, NEW d \in Nat, d <= a,
         Less(a, b) <= x
  PROVE  Less(a - d, b) <= Less(x, d)
BY DEF Less

LEMMA Legs2 ==
  /\ "long" \in Legs /\ "short" \in Legs /\ "none" \notin Legs
  /\ "entry" \in Origins /\ "close" \in Origins /\ "none" \notin Origins
  /\ \A l \in Legs : Other(l) \in Legs /\ Other(l) # l
  /\ \A k, l \in Legs : k # l => k = Other(l)
  /\ \A o \in Origins : o = "entry" \/ o = "close"
BY DEF Legs, Origins, Other

LEMMA NoTaskIs ==
  /\ NoTask \in Task /\ NoTask.gap = -1 /\ NoTask.leg = "none" /\ NoTask.quantity = 0
  /\ Names(NoTask) /\ Asks(NoTask)
BY DEF NoTask, Task, Names, Asks

\* The excess a lane measures is what the leg holds beyond the book.
LEMMA OverIs ==
  ASSUME Typed, NEW l \in Legs
  PROVE  /\ Baseline(l) = book.matched /\ Over(l) = Less(held[l], book.matched)
         /\ held[l] \in Nat /\ book.matched \in Nat /\ Over(l) \in Nat
         /\ Taking(l) \in Nat /\ Beyond(l) \in Nat
         /\ ~Taker => Beyond(l) = Over(l)
<1>1. held[l] \in Nat /\ book.matched \in Nat /\ closing.closed[l] \in Nat
  BY DEF Typed, WorldTyped, Book, Close
<1>2. Baseline(l) = book.matched
  BY DEF Typed, WorldTyped, Counts, Baseline
<1>3. Taking(l) \in Nat /\ (~Taker => Taking(l) = 0)
  BY <1>1 DEF Taking
<1>4. Over(l) = Less(held[l], book.matched) /\ Over(l) \in Nat
  BY <1>1, <1>2, LessIs DEF Over
<1>5. held[l] + Taking(l) \in Nat /\ (~Taker => held[l] + Taking(l) = held[l])
  BY <1>1, <1>3
<1>6. Beyond(l) \in Nat /\ (~Taker => Beyond(l) = Over(l))
  BY <1>1, <1>4, <1>5, LessIs DEF Beyond
<1> QED BY <1>1, <1>2, <1>3, <1>4, <1>6
-----------------------------------------------------------------------------
(* The orders the venues know. *)

\* An order that was seen is the one its executed quantity is read from.
LEMMA ExecutedIs ==
  ASSUME OneAnswer, NEW p \in orders
  PROVE  Executed(p.leg, p.id) = p.done
<1>1. (CHOOSE o \in orders : o.leg = p.leg /\ o.id = p.id) = p
  BY DEF OneAnswer
<1> QED BY <1>1 DEF Executed

LEMMA ExecutedTyped ==
  ASSUME Typed, OneAnswer, NEW l, NEW i, Seen(l, i)
  PROVE  Executed(l, i) \in Nat
<1>1. PICK p \in orders : p.leg = l /\ p.id = i
  BY DEF Seen
<1>2. p.done \in Nat
  BY DEF Typed, WorldTyped
<1> QED BY <1>1, <1>2, ExecutedIs

\* What a step leaves standing: positions only fall, and the orders that were
\* seen keep what they executed.
Market ==
  /\ WorldTyped' /\ OneAnswer'
  /\ \A l \in Legs : held'[l] <= held[l]
  /\ \A l \in Legs, i \in Int : Seen(l, i) => Seen(l, i)' /\ Executed(l, i)' = Executed(l, i)
  /\ UNCHANGED <<setup, book, closing, crashes>> /\ dust \subseteq dust'

LEMMA StillMarket ==
  ASSUME Typed, OneAnswer, NoOrder, UNCHANGED <<setup, book, closing, crashes>>,
         dust \subseteq dust'
  PROVE  Market
<1>1. WorldTyped' /\ OneAnswer' /\ (\A l \in Legs : held'[l] <= held[l])
  BY DEF Typed, WorldTyped, OneAnswer, NoOrder, Book, Counts, Close
<1>2. \A l \in Legs, i \in Int : Seen(l, i)' = Seen(l, i) /\ Executed(l, i)' = Executed(l, i)
  BY DEF NoOrder, Seen, Executed
<1> QED BY <1>1, <1>2 DEF Market

\* An order is executed.
LEMMA SaleMarket ==
  ASSUME Typed, OneAnswer, NEW k \in Legs, NEW id \in Int, NEW q \in Nat, NEW done \in 0 .. q,
         Executes(k, id, q, done),
         UNCHANGED <<setup, book, closing, crashes>>, dust \subseteq dust'
  PROVE  /\ Market
         /\ Seen(k, id)' /\ Executed(k, id)' = done
         /\ held'[k] = held[k] - done /\ done <= held[k] /\ done \in Nat
         /\ held'[Other(k)] = held[Other(k)]
<1> DEFINE r == [leg |-> k, id |-> id, done |-> done]
<1>1. /\ r.leg = k /\ r.id = id /\ r.done = done
      /\ r \in [leg : Legs, id : Int, done : Nat]
  OBVIOUS
<1>2. orders' = orders \cup {r} /\ ~Seen(k, id)
  BY DEF Executes
<1> HIDE DEF r
<1>3. held[k] \in Nat /\ held \in [Legs -> Nat]
  BY DEF Typed, WorldTyped
<1>4. done <= held[k] /\ done \in Nat
  BY <1>3 DEF Executes, Lesser
<1>5. held' = [held EXCEPT ![k] = held[k] - done]
  BY DEF Executes
<1>6. /\ held'[k] = held[k] - done /\ held'[Other(k)] = held[Other(k)]
      /\ held' \in [Legs -> Nat] /\ \A l \in Legs : held'[l] <= held[l]
  <2>1. held[k] - done \in Nat /\ held[k] - done <= held[k]
    BY <1>3, <1>4
  <2> QED BY <1>3, <1>5, <2>1, Legs2
<1>7. OneAnswer'
  BY <1>1, <1>2 DEF OneAnswer, Seen
<1>8. \A p \in orders' : Executed(p.leg, p.id)' = p.done
  <2> SUFFICES ASSUME NEW p \in orders' PROVE Executed(p.leg, p.id)' = p.done
    OBVIOUS
  <2>1. (CHOOSE o \in orders' : o.leg = p.leg /\ o.id = p.id) = p
    BY <1>7 DEF OneAnswer
  <2> QED BY <2>1 DEF Executed
<1>9. Seen(k, id)' /\ Executed(k, id)' = done
  BY <1>1, <1>2, <1>8 DEF Seen
<1>10. ASSUME NEW l \in Legs, NEW i \in Int, Seen(l, i)
       PROVE  Seen(l, i)' /\ Executed(l, i)' = Executed(l, i)
  <2>1. PICK p \in orders : p.leg = l /\ p.id = i
    BY <1>10 DEF Seen
  <2>2. p \in orders'
    BY <1>2
  <2> QED BY <1>8, <2>1, <2>2, ExecutedIs DEF Seen
<1>11. WorldTyped'
  BY <1>1, <1>2, <1>6 DEF Typed, WorldTyped, Book, Counts, Close
<1> QED BY <1>4, <1>6, <1>7, <1>9, <1>10, <1>11 DEF Market
-----------------------------------------------------------------------------
(* What a step leaves of the invariant. *)

LEMMA BeyondFalls ==
  ASSUME Typed, Market, NEW l \in Legs
  PROVE  /\ Beyond(l)' \in Nat /\ Beyond(l)' <= Beyond(l)
         /\ Over(l)' \in Nat /\ Over(l)' <= Over(l)
<1>1. /\ held[l] \in Nat /\ held'[l] \in Nat /\ held'[l] <= held[l]
      /\ book' = book /\ closing' = closing
  BY DEF Typed, WorldTyped, Market
<1>2. Taking(l)' = Taking(l) /\ Taking(l) \in Nat /\ book.matched \in Nat
  BY <1>1, OverIs DEF Taking, Taker
<1>3. /\ held'[l] + Taking(l) \in Nat /\ held[l] + Taking(l) \in Nat
      /\ held'[l] + Taking(l) <= held[l] + Taking(l)
  BY <1>1, <1>2
<1>4. Beyond(l)' = Less(held'[l] + Taking(l), book.matched)
  BY <1>1, <1>2 DEF Beyond
<1>5. Beyond(l)' \in Nat /\ Beyond(l)' <= Beyond(l)
  BY <1>2, <1>3, <1>4, LessIs, LessFalls DEF Beyond
<1>6. Over(l)' = Less(held'[l], book.matched)
  <2>1. Baseline(l)' = Baseline(l)
    BY <1>1 DEF Baseline
  <2> QED BY <2>1, OverIs DEF Over
<1>7. Less(held'[l], book.matched) \in Nat
  BY <1>1, <1>2, LessIs
<1>8. Less(held'[l], book.matched) <= Less(held[l], book.matched)
  BY <1>1, <1>2, LessFalls
<1>9. Over(l) = Less(held[l], book.matched)
  BY OverIs
<1> QED BY <1>5, <1>6, <1>7, <1>8, <1>9

\* The order a task asks about is an answered one, and stays it.
LEMMA AsksOn ==
  ASSUME Typed, OneAnswer, Market, NEW t \in Task, Names(t), Asks(t)
  PROVE  /\ Asks(t)' /\ Sold(t, t.leg)' = Sold(t, t.leg) /\ Sold(t, t.leg) \in Nat
<1>1. t.gap < 0 => Asks(t)' /\ Sold(t, t.leg)' = 0 /\ Sold(t, t.leg) = 0
  BY DEF Asks, Sold, Task
<1>2. CASE t.gap >= 0
  <2>1. Seen(t.leg, t.gap) /\ t.leg \in Legs /\ t.gap \in Int
    BY <1>2, NoTaskIs DEF Asks, Names, Task
  <2>2. Seen(t.leg, t.gap)' /\ Executed(t.leg, t.gap)' = Executed(t.leg, t.gap)
    BY <2>1 DEF Market
  <2> QED BY <1>2, <2>1, <2>2, ExecutedTyped DEF Asks, Sold
<1> QED BY <1>1, <1>2 DEF Task

\* The entry's task as far as it covers anything.
LEMMA CoveredOn ==
  ASSUME Typed, OneAnswer, Covered, Market,
         task'["entry"].leg = task["entry"].leg,
         task'["entry"].quantity = task["entry"].quantity,
         task'["entry"].gap = task["entry"].gap
  PROVE  Covered'
<1>1. PICK t \in Task : t = task["entry"] /\ Names(t) /\ Asks(t)
  BY Legs2 DEF Typed, TasksTyped
<1>2. /\ task'["entry"].leg = t.leg /\ task'["entry"].quantity = t.quantity
      /\ task'["entry"].gap = t.gap /\ t.quantity \in Nat
  BY <1>1 DEF Task
<1>3. Sold(t, t.leg)' = Sold(t, t.leg) /\ Sold(t, t.leg) \in Nat
  BY <1>1, AsksOn
<1>4. Sold(task["entry"], t.leg)' = Sold(t, t.leg)
  BY <1>2, <1>3 DEF Sold
<1>5. ASSUME NEW l \in Legs \ dust', Beyond(l)' > 0
      PROVE  t.leg = l /\ Beyond(l)' <= Less(t.quantity, Sold(t, t.leg))
  <2>1. l \in Legs \ dust
    BY DEF Market
  <2>2. Beyond(l)' <= Beyond(l) /\ Beyond(l) \in Nat /\ Beyond(l)' \in Nat
    BY BeyondFalls, OverIs
  <2>3. Beyond(l) > 0
    BY <1>5, <2>2
  <2>4. t.leg = l /\ Beyond(l) <= Less(t.quantity, Sold(t, t.leg))
    BY <1>1, <2>1, <2>3 DEF Covered
  <2>5. Less(t.quantity, Sold(t, t.leg)) \in Nat
    BY <1>2, <1>3, LessIs
  <2> QED BY <2>2, <2>4, <2>5
<1> QED BY <1>2, <1>4, <1>5 DEF Covered
\* The tasks and what is saved of them.
LEMMA TaskSet ==
  ASSUME Typed, OneAnswer, Market, NEW o \in Origins, NEW t \in Task, Names(t), Asks(t)',
         task' = [task EXCEPT ![o] = t]
  PROVE  /\ task' \in [Origins -> Task] /\ task'[o] = t
         /\ \A k \in Origins : Names(task'[k]) /\ Asks(task[k])'
         /\ \A k \in Origins : k # o => task'[k] = task[k]
<1>1. task \in [Origins -> Task]
  BY DEF Typed, TasksTyped
<1>2. ASSUME NEW k \in Origins, k # o
      PROVE  task'[k] = task[k] /\ Names(task'[k]) /\ Asks(task[k])'
  <2>1. PICK s \in Task : s = task[k] /\ Names(s) /\ Asks(s)
    BY <1>1 DEF Typed, TasksTyped
  <2>2. Asks(s)'
    BY <2>1, AsksOn
  <2>3. task'[k] = s
    BY <1>1, <1>2, <2>1
  <2> QED BY <2>1, <2>2, <2>3 DEF Asks, Names
<1>3. task'[o] = t
  BY <1>1
<1>4. Names(task'[o]) /\ Asks(task[o])'
  BY <1>3 DEF Asks, Names
<1> QED BY <1>1, <1>2, <1>3, <1>4

\* What is saved stays, or takes over the task as well.
LEMMA SavedOn ==
  ASSUME Typed, OneAnswer, Market, saved' = saved
  PROVE  /\ saved' \in [book : Book, task : [Origins -> Task]] /\ Counts(saved.book)'
         /\ \A k \in Origins : Names(saved.task[k])' /\ Asks(saved.task[k])'
<1>1. ASSUME NEW k \in Origins PROVE Asks(saved.task[k])' /\ Names(saved.task[k])'
  <2>1. PICK s \in Task : s = saved.task[k] /\ Names(s) /\ Asks(s)
    BY DEF Typed, TasksTyped
  <2>2. Asks(s)' /\ saved'.task[k] = s
    BY <2>1, AsksOn
  <2> QED BY <2>1, <2>2 DEF Asks, Names
<1> QED BY <1>1 DEF Typed, TasksTyped, Counts

\* A step that ends at idle, or goes on in the lanes, with the tasks as they are.
LEMMA TasksOn ==
  ASSUME Typed, OneAnswer, Market, UNCHANGED <<task, saved>>
  PROVE  TasksTyped'
<1>1. ASSUME NEW k \in Origins PROVE Asks(task[k])' /\ Names(task[k])'
  <2>1. PICK s \in Task : s = task[k] /\ Names(s) /\ Asks(s)
    BY DEF Typed, TasksTyped
  <2>2. Asks(s)' /\ task'[k] = s
    BY <2>1, AsksOn
  <2> QED BY <2>1, <2>2 DEF Asks, Names
<1>2. task' \in [Origins -> Task]
  BY DEF Typed, TasksTyped
<1> QED BY <1>1, <1>2, SavedOn DEF TasksTyped

LEMMA RememberedOn ==
  ASSUME Remembered, Market, UNCHANGED saved,
         task'["entry"].leg = task["entry"].leg,
         task'["entry"].quantity = task["entry"].quantity,
         task'["entry"].gap = task["entry"].gap \/ task["entry"].gap = -1
  PROVE  Remembered'
BY DEF Remembered, Market

\* The lane comes to rest.
Rests ==
  /\ step' = "idle" /\ cur' = "none" /\ ask' = NoAsk
  /\ UNCHANGED driftVars /\ again' \in BOOLEAN

LEMMA RestsFit ==
  ASSUME Typed, Market, Rests
  PROVE  SetupTyped' /\ WorldTyped' /\ StepTyped' /\ PassFits' /\ DriftFits'
<1>1. NoAsk \in [quantity : Nat, id : Nat \cup {-1}, excess : Nat]
  BY DEF NoAsk
<1>2. StepTyped' /\ SetupTyped' /\ WorldTyped'
  BY <1>1 DEF Typed, StepTyped, SetupTyped, Rests, driftVars, Market
<1> QED BY <1>2 DEF Rests, PassFits, DriftFits, Lanes, Drifting

LEMMA KeepOn ==
  ASSUME Owned, Market, Rests, NEW o \in Origins, NEW t \in Task,
         task' = [task EXCEPT ![o] = t], UNCHANGED saved, Names(t),
         t.leg = task[o].leg, t.quantity = task[o].quantity, t.gap = task[o].gap
  PROVE  Owned'
<1>1. Asks(task[o]) /\ task[o] \in Task /\ Names(task[o])
  BY DEF Owned, Typed, TasksTyped
<1>2. Asks(t)'
  <2>1. PICK s \in Task : s = task[o] /\ Names(s) /\ Asks(s)
    BY <1>1
  <2>2. Asks(s)'
    BY <2>1, AsksOn DEF Owned
  <2> QED BY <2>1, <2>2 DEF Asks
<1>3. TasksTyped'
  BY <1>2, TaskSet, SavedOn DEF Owned, TasksTyped
<1>4. /\ task'["entry"].leg = task["entry"].leg
      /\ task'["entry"].quantity = task["entry"].quantity
      /\ task'["entry"].gap = task["entry"].gap
  BY <1>2, TaskSet, Legs2 DEF Owned
<1>5. Covered' /\ Remembered'
  BY <1>4, CoveredOn, RememberedOn DEF Owned
<1> QED BY <1>3, <1>5, RestsFit DEF Owned, Typed, Market
LEMMA NoSaveIs ==
  /\ NoSave \in [book : Book, task : [Origins -> Task]] /\ Counts(NoSave.book)
  /\ \A k \in Origins : NoSave.task[k] = NoTask
<1>1. NoBook \in Book /\ Counts(NoBook)
  BY DEF NoBook, Book, Counts
<1>2. [k \in Origins |-> NoTask] \in [Origins -> Task]
  BY NoTaskIs
<1> QED BY <1>1, <1>2 DEF NoSave

\* A step that writes b and the tasks f.
LEMMA WritesOn ==
  ASSUME Typed, OneAnswer, Market, NEW b \in Book, Counts(b), NEW f \in [Origins -> Task],
         \A k \in Origins : Names(f[k]) /\ Asks(f[k])',
         saved' = IF crashes < MaxCrashes THEN [book |-> b, task |-> f] ELSE NoSave
  PROVE  /\ saved' \in [book : Book, task : [Origins -> Task]] /\ Counts(saved.book)'
         /\ \A k \in Origins : Names(saved.task[k])' /\ Asks(saved.task[k])'
<1>1. CASE crashes < MaxCrashes
  <2>1. saved' = [book |-> b, task |-> f]
    BY <1>1
  <2> QED BY <2>1 DEF Counts, Names, Asks
<1>2. CASE ~(crashes < MaxCrashes)
  <2>1. saved' = NoSave
    BY <1>2
  <2>2. \A k \in Origins : saved'.task[k] = NoTask
    BY <2>1, NoSaveIs
  <2>3. \A k \in Origins : Names(saved.task[k])' /\ Asks(saved.task[k])'
    BY <2>2, NoTaskIs DEF Names, Asks
  <2> QED BY <2>1, <2>3, NoSaveIs DEF Counts
<1> QED BY <1>1, <1>2

LEMMA OutcomeOn ==
  ASSUME Owned, Market, Rests, NEW o \in Origins, NEW t \in Task, Names(t), t.gap = -1,
         task' = [task EXCEPT ![o] = t], Writes([saved EXCEPT !.task[o] = t]),
         o = "entry" =>
           \A l \in Legs \ dust' : Beyond(l)' > 0 => t.leg = l /\ Beyond(l)' <= t.quantity
  PROVE  Owned'
<1>1. /\ Typed /\ OneAnswer /\ saved \in [book : Book, task : [Origins -> Task]]
      /\ Counts(saved.book) /\ task \in [Origins -> Task] /\ t.quantity \in Nat
  BY DEF Owned, Typed, TasksTyped, Task
<1>2. Asks(t)'
  BY DEF Asks
<1>3. PICK s \in [book : Book, task : [Origins -> Task]] :
        /\ s = saved /\ Counts(s.book)
        /\ \A k \in Origins : Names(s.task[k]) /\ Asks(s.task[k])
  BY <1>1 DEF Typed, TasksTyped
<1> DEFINE f == [s.task EXCEPT ![o] = t]
<1>4. f \in [Origins -> Task] /\ f[o] = t /\ (\A k \in Origins : k # o => f[k] = s.task[k])
  OBVIOUS
<1>5. saved' = IF crashes < MaxCrashes THEN [book |-> s.book, task |-> f] ELSE NoSave
  <2>1. [saved EXCEPT !.task[o] = t] = [book |-> s.book, task |-> f]
    BY <1>3
  <2> QED BY <2>1 DEF Writes
<1> HIDE DEF f
<1>6. ASSUME NEW k \in Origins PROVE Names(f[k]) /\ Asks(f[k])'
  <2>1. CASE k = o
    BY <1>2, <1>4, <2>1
  <2>2. CASE k # o
    <3>1. PICK r \in Task : r = s.task[k] /\ Names(r) /\ Asks(r)
      BY <1>3
    <3>2. Asks(r)' /\ f[k] = r
      BY <1>1, <1>4, <2>2, <3>1, AsksOn
    <3> QED BY <3>1, <3>2
  <2> QED BY <2>1, <2>2
<1>7. TasksTyped'
  <2>1. /\ task' \in [Origins -> Task]
        /\ \A k \in Origins : Names(task'[k]) /\ Asks(task[k])'
    BY <1>1, <1>2, TaskSet
  <2>2. /\ saved' \in [book : Book, task : [Origins -> Task]] /\ Counts(saved.book)'
        /\ \A k \in Origins : Names(saved.task[k])' /\ Asks(saved.task[k])'
    <3>1. PICK b \in Book : b = s.book /\ Counts(b)
      BY <1>3
    <3> QED BY <1>1, <1>4, <1>5, <1>6, <3>1, WritesOn
  <2> QED BY <2>1, <2>2 DEF TasksTyped
<1>8. CASE o = "entry"
  <2>1. task'["entry"] = t
    BY <1>1, <1>8
  <2>2. Covered'
    <3>1. ASSUME NEW l \in Legs \ dust', Beyond(l)' > 0
          PROVE  /\ task'["entry"].leg = l
                 /\ Beyond(l)' <= Less(task'["entry"].quantity, Sold(task["entry"], l)')
      <4>1. Sold(task["entry"], l)' = 0
        BY <2>1 DEF Sold
      <4>2. t.leg = l /\ Beyond(l)' <= t.quantity
        BY <1>8, <3>1
      <4> QED BY <1>1, <2>1, <4>1, <4>2, LessIs
    <3> QED BY <3>1 DEF Covered
  <2>3. Remembered'
    BY <1>3, <1>4, <1>5, <1>8, <2>1 DEF Owned, Remembered, Market
  <2> QED BY <1>7, <2>2, <2>3, RestsFit DEF Owned, Typed, Market
<1>9. CASE o # "entry"
  <2>1. task'["entry"] = task["entry"]
    BY <1>1, <1>9, Legs2
  <2>2. Covered'
    BY <2>1, CoveredOn DEF Owned
  <2>3. Remembered'
    BY <1>3, <1>4, <1>5, <1>9, <2>1, Legs2 DEF Owned, Remembered, Market
  <2> QED BY <1>7, <2>2, <2>3, RestsFit DEF Owned, Typed, Market
<1> QED BY <1>8, <1>9

\* The order is asked about in a later pass.
LEMMA GapOn ==
  ASSUME Owned, Market, Rests, NEW o \in Origins, NEW t \in Task, Names(t),
         task' = [task EXCEPT ![o] = t], UNCHANGED saved,
         t.leg = task[o].leg, t.quantity = task[o].quantity, t.gap >= 0, Seen(t.leg, t.gap)',
         task[o].gap = t.gap \/ task[o].gap = -1,
         o = "entry" => \A l \in Legs \ dust' :
           Beyond(l)' > 0 => t.leg = l /\ Beyond(l)' <= Less(t.quantity, Sold(t, t.leg)')
  PROVE  Owned'
<1>1. Asks(t)' /\ Typed /\ OneAnswer /\ task \in [Origins -> Task]
  BY DEF Asks, Owned, Typed, TasksTyped
<1>2. TasksTyped'
  BY <1>1, TaskSet, SavedOn DEF TasksTyped
<1>3. CASE o = "entry"
  <2>1. task'["entry"] = t
    BY <1>1, <1>3
  <2>2. Covered'
    <3>1. ASSUME NEW l \in Legs \ dust', Beyond(l)' > 0
          PROVE  /\ task'["entry"].leg = l
                 /\ Beyond(l)' <= Less(task'["entry"].quantity, Sold(task["entry"], l)')
      <4>1. t.leg = l /\ Beyond(l)' <= Less(t.quantity, Sold(t, t.leg)')
        BY <1>3, <3>1
      <4>2. Sold(task["entry"], l)' = Sold(t, t.leg)'
        BY <2>1, <4>1 DEF Sold
      <4> QED BY <2>1, <4>1, <4>2
    <3> QED BY <3>1 DEF Covered
  <2>3. Remembered'
    BY <1>3, <2>1 DEF Owned, Remembered, Market
  <2> QED BY <1>2, <2>2, <2>3, RestsFit DEF Owned, Typed, Market
<1>4. CASE o # "entry"
  <2>1. task'["entry"] = task["entry"]
    BY <1>1, <1>4, Legs2
  <2>2. Covered' /\ Remembered'
    BY <2>1, CoveredOn, RememberedOn DEF Owned
  <2> QED BY <1>2, <2>2, RestsFit DEF Owned, Typed, Market
<1> QED BY <1>3, <1>4
-----------------------------------------------------------------------------
(* The ends of a pass over one task. *)

LEMMA TaskIs ==
  ASSUME Typed, NEW o \in Origins
  PROVE  /\ task[o] \in Task /\ Names(task[o]) /\ Asks(task[o])
         /\ task[o].quantity \in Nat /\ TriesAfter(task[o]) \in Nat
         /\ task[o] # NoTask => task[o].leg \in Legs
         /\ task[o].gap \in Nat \cup {-1} /\ task[o].tries \in Nat
         /\ task[o].next \in Nat \cup {-1}
BY DEF Typed, TasksTyped, Task, Names, TriesAfter

LEMMA TriesSet ==
  ASSUME NEW t \in Task, NEW n \in Nat, NEW i \in Nat
  PROVE  /\ [t EXCEPT !.tries = n] \in Task
         /\ [t EXCEPT !.tries = n].leg = t.leg
         /\ [t EXCEPT !.tries = n].quantity = t.quantity
         /\ [t EXCEPT !.tries = n].gap = t.gap
         /\ [t EXCEPT !.gap = i, !.tries = n] \in Task
         /\ [t EXCEPT !.gap = i, !.tries = n].leg = t.leg
         /\ [t EXCEPT !.gap = i, !.tries = n].quantity = t.quantity
         /\ [t EXCEPT !.gap = i, !.tries = n].gap = i
BY DEF Task

LEMMA NextSet ==
  ASSUME NEW t \in Task, NEW m \in Nat \cup {-1}
  PROVE  /\ [t EXCEPT !.next = m] \in Task
         /\ [t EXCEPT !.next = m].leg = t.leg
         /\ [t EXCEPT !.next = m].quantity = t.quantity
         /\ [t EXCEPT !.next = m].gap = t.gap
BY DEF Task

\* Nothing is beyond the book but on the leg of the entry's task.
LEMMA OnlyLeg ==
  ASSUME Owned, Market, NEW l \in Legs \ dust', Beyond(l)' > 0
  PROVE  /\ task["entry"].leg = l /\ l \notin dust
         /\ Beyond(l)' <= Beyond(l) /\ Beyond(l) \in Nat /\ Beyond(l)' \in Nat
         /\ Beyond(l) <= Less(task["entry"].quantity, Sold(task["entry"], l))
<1>1. Beyond(l)' <= Beyond(l) /\ Beyond(l) \in Nat /\ Beyond(l)' \in Nat
  BY BeyondFalls, OverIs DEF Owned
<1>2. l \in Legs \ dust
  BY DEF Market
<1> QED BY <1>1, <1>2 DEF Owned, Covered

LEMMA RescheduleOn ==
  ASSUME Owned, Market, NEW o \in Origins, task[o] # NoTask,
         Reschedule(o, task[o]) \/ Keep(o, task[o]), UNCHANGED <<driftVars, again>>
  PROVE  Owned'
<1>1. Typed /\ task[o] \in Task /\ task[o].leg \in Legs /\ task[o].tries \in Nat
      /\ TriesAfter(task[o]) \in Nat
  BY TaskIs DEF Owned
<1>2. PICK t \in Task : Keep(o, t) /\ t.leg = task[o].leg /\ t.quantity = task[o].quantity
                       /\ t.gap = task[o].gap
  <2>1. CASE Keep(o, task[o])
    BY <1>1, <2>1
  <2>2. CASE Reschedule(o, task[o])
    <3>1. PICK n \in {task[o].tries, TriesAfter(task[o])} : Keep(o, [task[o] EXCEPT !.tries = n])
      BY <2>2 DEF Reschedule
    <3>2. n \in Nat
      BY <1>1
    <3> QED BY <1>1, <3>1, <3>2, TriesSet
  <2> QED BY <2>1, <2>2
<1>3. Rests /\ task' = [task EXCEPT ![o] = t] /\ UNCHANGED saved
  BY <1>1, <1>2 DEF Keep, Rests, Typed, StepTyped
<1>4. Names(t)
  BY <1>1, <1>2 DEF Names
<1> QED BY <1>2, <1>3, <1>4, KeepOn

LEMMA RetireOn ==
  ASSUME Owned, Market, NEW o \in Origins, Retire(o), UNCHANGED driftVars, again' \in BOOLEAN,
         NEW k, k = task[o].leg, k \in dust' \/ Beyond(k)' = 0
  PROVE  Owned'
<1>1. Rests
  BY DEF Retire, Outcome, Rests
<1>2. task' = [task EXCEPT ![o] = NoTask] /\ Writes([saved EXCEPT !.task[o] = NoTask])
  BY DEF Retire, Outcome
<1>3. o = "entry" => \A l \in Legs \ dust' : ~(Beyond(l)' > 0)
  <2> SUFFICES ASSUME o = "entry", NEW l \in Legs \ dust', Beyond(l)' > 0 PROVE FALSE
    OBVIOUS
  <2>1. task["entry"].leg = l
    BY OnlyLeg
  <2>2. k = l
    BY <2>1
  <2> QED BY <2>2
<1> QED BY <1>1, <1>2, <1>3, NoTaskIs, OutcomeOn
\* A fill: the task ends with the excess, or goes on for what is left of it.
LEMMA FilledOn ==
  ASSUME Owned, Market, NEW o \in Origins, NEW excess \in Nat, NEW done \in Nat,
         Filled(o, excess, done), UNCHANGED driftVars, again' \in BOOLEAN,
         NEW k \in Legs, k = task[o].leg,
         o = "entry" /\ k \notin dust' => Beyond(k)' <= Less(excess, done)
  PROVE  Owned'
<1>1. Rest(excess, done) \in Nat /\ Rest(excess, done) = Less(excess, done)
  BY LessIs DEF Rest
<1>2. Rests
  BY DEF Filled, Retire, Outcome, Rests
<1>3. PICK t \in Task :
        /\ Names(t) /\ t.gap = -1 /\ Outcome(o, t) /\ t.quantity = Rest(excess, done)
        /\ t.leg = k \/ t.quantity = 0
  <2>1. CASE Rest(excess, done) = 0
    BY <2>1, NoTaskIs DEF Filled, Retire
  <2>2. CASE Rest(excess, done) # 0
    <3> DEFINE t == [NoTask EXCEPT !.leg = k, !.quantity = Rest(excess, done)]
    <3>1. t \in Task /\ t.leg = k /\ t.gap = -1 /\ t.quantity = Rest(excess, done)
      BY <1>1 DEF NoTask, Task
    <3>2. Outcome(o, t)
      BY <2>2 DEF Filled
    <3> QED BY <3>1, <3>2 DEF Names
  <2> QED BY <2>1, <2>2
<1>4. ASSUME o = "entry", NEW l \in Legs \ dust', Beyond(l)' > 0
      PROVE  t.leg = l /\ Beyond(l)' <= t.quantity
  <2>1. task["entry"].leg = l /\ Beyond(l)' \in Nat
    BY <1>4, OnlyLeg
  <2>2. l = k
    BY <1>4, <2>1
  <2>3. Beyond(l)' <= t.quantity
    BY <1>1, <1>3, <1>4, <2>2
  <2>4. t.quantity # 0
    BY <1>4, <2>1, <2>3
  <2> QED BY <1>3, <2>2, <2>3, <2>4
<1>5. task' = [task EXCEPT ![o] = t] /\ Writes([saved EXCEPT !.task[o] = t])
  BY <1>3 DEF Outcome
<1> QED BY <1>2, <1>3, <1>4, <1>5, OutcomeOn

LEMMA RetainOn ==
  ASSUME Owned, Market, NEW o \in Origins, NEW id \in Nat, RetainGap(o, id),
         UNCHANGED <<driftVars, again>>,
         task[o].gap = id \/ task[o].gap = -1,
         NEW k \in Legs, k = task[o].leg, Seen(k, id)', NEW x, x = Executed(k, id)',
         o = "entry" /\ k \notin dust' => Beyond(k)' <= Less(task[o].quantity, x)
  PROVE  Owned'
<1>1. Typed /\ task[o] \in Task /\ TriesAfter(task[o]) \in Nat
  BY TaskIs DEF Owned
<1>2. PICK t \in Task : /\ Keep(o, t) /\ t.leg = task[o].leg
                       /\ t.quantity = task[o].quantity /\ t.gap = id
  <2>1. PICK s \in Task, n \in Nat : s = task[o] /\ n = TriesAfter(task[o])
    BY <1>1
  <2> DEFINE u == [s EXCEPT !.gap = id, !.tries = n]
  <2>2. Keep(o, u)
    BY <2>1 DEF RetainGap
  <2>3. u \in Task /\ u.leg = s.leg /\ u.quantity = s.quantity /\ u.gap = id
    BY TriesSet
  <2> HIDE DEF u
  <2> QED BY <2>1, <2>2, <2>3
<1>3. Rests /\ task' = [task EXCEPT ![o] = t] /\ UNCHANGED saved
  BY <1>1, <1>2 DEF Keep, Rests, Typed, StepTyped
<1>4. Names(t) /\ Seen(t.leg, t.gap)' /\ t.gap >= 0
  BY <1>2 DEF Names
<1>5. ASSUME o = "entry", NEW l \in Legs \ dust', Beyond(l)' > 0
      PROVE  t.leg = l /\ Beyond(l)' <= Less(t.quantity, Sold(t, t.leg)')
  <2>1. task["entry"].leg = l
    BY <1>5, OnlyLeg
  <2>2. l = k
    BY <1>5, <2>1
  <2>3. Sold(t, t.leg)' = x
    BY <1>2, <1>4 DEF Sold
  <2> QED BY <1>2, <1>5, <2>2, <2>3
<1> QED BY <1>2, <1>3, <1>4, <1>5, GapOn

\* The truth of the order is asked for.
LEMMA ResolvedOn ==
  ASSUME Owned, Market, NEW o \in Origins, NEW id \in Nat, NEW excess \in Nat,
         Resolved(o, id, excess), UNCHANGED <<driftVars, again, held, orders>>,
         task[o].gap = id \/ task[o].gap = -1,
         NEW k \in Legs, k = task[o].leg, Seen(k, id), ~Taker,
         o = "entry" /\ k \notin dust =>
           /\ Beyond(k) <= Less(excess, Executed(k, id))
           /\ excess <= task[o].quantity
  PROVE  Owned'
<1>1. PICK x \in Nat : x = Executed(k, id) /\ x = Executed(k, id)'
  <2>1. Executed(k, id) \in Nat
    BY ExecutedTyped DEF Owned
  <2>2. Executed(k, id)' = Executed(k, id)
    BY DEF Executed
  <2> QED BY <2>1, <2>2
<1>2. Typed /\ task[o].quantity \in Nat /\ Seen(k, id)' /\ again' \in BOOLEAN
  BY TaskIs DEF Owned, Seen, Typed, StepTyped
<1>3. Beyond(k)' \in Nat /\ Beyond(k)' <= Beyond(k) /\ Beyond(k) \in Nat
  BY <1>2, BeyondFalls, OverIs
<1>4. o = "entry" /\ k \notin dust' => Beyond(k)' <= Less(excess, x)
  <2>1. Less(excess, x) \in Nat
    BY LessIs
  <2> QED BY <1>1, <1>3, <2>1 DEF Market
<1>5. o = "entry" /\ k \notin dust' => Beyond(k)' <= Less(task[o].quantity, x)
  <2>1. Less(excess, x) \in Nat /\ Less(task[o].quantity, x) \in Nat
    BY <1>2, LessIs
  <2>2. excess <= task[o].quantity => Less(excess, x) <= Less(task[o].quantity, x)
    BY <1>2, LessFalls
  <2> QED BY <1>3, <1>4, <2>1, <2>2 DEF Market
<1>6. CASE RetainGap(o, id)
  BY <1>1, <1>2, <1>5, <1>6, RetainOn
<1>7. CASE Filled(o, excess, x)
  BY <1>2, <1>4, <1>7, FilledOn
<1>8. CASE Over(k) = 0 /\ Retire(o)
  <2>1. Beyond(k)' = 0
    BY <1>2, <1>3, <1>8, OverIs
  <2> QED BY <1>2, <1>8, <2>1, RetireOn
<1> QED BY <1>1, <1>6, <1>7, <1>8 DEF Resolved
-----------------------------------------------------------------------------
(* A pass over one task. *)

LEMMA ProbeFailsOn ==
  ASSUME Owned, NEW o \in Origins, ProbeFails(o), UNCHANGED driftVars
  PROVE  Owned'
<1>1. Market /\ task[o] # NoTask /\ Reschedule(o, task[o]) /\ UNCHANGED again
  BY StillMarket DEF ProbeFails, Takes, Owned
<1> QED BY <1>1, RescheduleOn

LEMMA NothingOverOn ==
  ASSUME Owned, NEW o \in Origins, NothingOver(o), UNCHANGED driftVars
  PROVE  Owned'
<1>1. /\ Market /\ task[o] # NoTask /\ UNCHANGED again /\ Over(task[o].leg) = 0 /\ ~Taker
      /\ Reschedule(o, task[o]) \/ Retire(o)
  BY StillMarket DEF NothingOver, Takes, LanesRun, Taker, Owned
<1>2. PICK k \in Legs : k = task[o].leg
  BY <1>1, TaskIs DEF Owned
<1>3. Beyond(k)' = 0 /\ again' \in BOOLEAN
  BY <1>1, <1>2, BeyondFalls, OverIs DEF Owned, Typed, StepTyped
<1> QED BY <1>1, <1>2, <1>3, RescheduleOn, RetireOn

LEMMA DustOn ==
  ASSUME Owned, NEW o \in Origins, Dust(o), UNCHANGED driftVars
  PROVE  Owned'
<1>1. /\ task[o] # NoTask /\ UNCHANGED again /\ dust \subseteq dust'
      /\ NoOrder /\ UNCHANGED <<setup, book, closing, crashes>>
      /\ \/ Reschedule(o, task[o]) \/ Keep(o, task[o])
         \/ Retire(o) /\ task[o].leg \in dust'
  BY DEF Dust, Takes
<1>2. Market /\ again' \in BOOLEAN
  BY <1>1, StillMarket DEF Owned, Typed, StepTyped
<1>3. PICK k \in Legs : k = task[o].leg
  BY <1>1, TaskIs DEF Owned
<1>4. CASE Retire(o) /\ task[o].leg \in dust'
  <2>1. k \in dust'
    BY <1>3, <1>4
  <2> QED BY <1>2, <1>3, <1>4, <2>1, RetireOn
<1> QED BY <1>1, <1>2, <1>4, RescheduleOn

\* What a pass that goes on has to fit.
LEMMA LaneOn ==
  ASSUME Owned, Market, UNCHANGED <<task, saved, cur, driftVars>>, step' \in Lanes,
         ask' \in [quantity : Nat, id : Nat \cup {-1}, excess : Nat], again' \in BOOLEAN,
         PassFits'
  PROVE  Owned'
<1>1. TasksTyped' /\ Covered' /\ Remembered'
  BY TasksOn, CoveredOn, RememberedOn DEF Owned
<1>2. StepTyped' /\ SetupTyped' /\ WorldTyped' /\ OneAnswer'
  BY DEF Owned, Typed, StepTyped, SetupTyped, driftVars, Market
<1>3. DriftFits'
  BY DEF DriftFits, Lanes, Drifting
<1> QED BY <1>1, <1>2, <1>3 DEF Owned, Typed

LEMMA SendOn ==
  ASSUME Owned, NEW o \in Origins, Send(o), UNCHANGED driftVars
  PROVE  Owned'
<1>1. /\ Market /\ task[o] # NoTask /\ task[o].gap = -1 /\ UNCHANGED <<again, saved, dust, held>>
      /\ ~Taker /\ step' = "sent" /\ cur' = o /\ Over(task[o].leg) >= setup.smallest
      /\ ask' = [quantity |-> Over(task[o].leg), id |-> NextId(task[o]),
                 excess |-> Over(task[o].leg)]
      /\ task' = [task EXCEPT ![o] = [task[o] EXCEPT !.next = -1]]
      /\ UNCHANGED <<book, closing>>
  BY StillMarket DEF Send, Takes, LanesRun, Taker, Owned, NoOrder
<1>2. PICK k \in Legs : k = task[o].leg
  BY <1>1, TaskIs DEF Owned
<1>3. /\ Typed /\ task[o] \in Task /\ Names(task[o]) /\ NextId(task[o]) \in Nat
      /\ task \in [Origins -> Task]
  <2>1. Typed /\ task \in [Origins -> Task]
    BY DEF Owned, Typed, TasksTyped
  <2>2. task[o].next \in Nat \cup {-1} /\ task[o].tries \in Nat
    BY <2>1, TaskIs
  <2> QED BY <2>1, <2>2, TaskIs DEF NextId
<1>4. PICK t \in Task : /\ t = [task[o] EXCEPT !.next = -1] /\ t.leg = k
                       /\ t.quantity = task[o].quantity /\ t.gap = -1
  <2>1. -1 \in Nat \cup {-1}
    OBVIOUS
  <2> DEFINE u == [task[o] EXCEPT !.next = -1]
  <2>2. u \in Task /\ u.leg = task[o].leg /\ u.quantity = task[o].quantity
        /\ u.gap = task[o].gap
    BY <1>3, <2>1, NextSet
  <2> QED BY <1>1, <1>2, <2>2
<1>5. Asks(t)' /\ Names(t)
  BY <1>4 DEF Asks, Names
<1>6. task' = [task EXCEPT ![o] = t]
  BY <1>1, <1>4
<1>7. /\ task'["entry"].leg = task["entry"].leg
      /\ task'["entry"].quantity = task["entry"].quantity
      /\ task'["entry"].gap = task["entry"].gap
  BY <1>1, <1>2, <1>3, <1>4, <1>6, Legs2
<1>8. TasksTyped'
  BY <1>1, <1>3, <1>5, <1>6, TaskSet, SavedOn DEF Owned, TasksTyped
<1>9. Covered' /\ Remembered'
  BY <1>1, <1>7, CoveredOn, RememberedOn DEF Owned
<1>10. /\ Over(k) \in Nat /\ Over(k)' = Over(k) /\ Over(k) = Less(held[k], book.matched)
       /\ held[k] \in Nat /\ book.matched \in Nat /\ Over(k) > 0 /\ Beyond(k) = Over(k)
       /\ Over(k)' = Less(held[k], book.matched)
  <2>1. setup.smallest \in Nat \ {0}
    BY <1>3 DEF Typed, SetupTyped
  <2> QED BY <1>1, <1>2, <1>3, <2>1, OverIs DEF Over, Baseline
<1>11. ask'.quantity = Over(k) /\ ask'.excess = Over(k) /\ ask'.id \in Nat
       /\ ask' \in [quantity : Nat, id : Nat \cup {-1}, excess : Nat]
  BY <1>1, <1>2, <1>3, <1>10
<1>12. L' = k /\ task'[cur'].gap = -1
  BY <1>1, <1>3, <1>4, <1>6 DEF L
<1>13. o = "entry" /\ k \notin dust' => ask'.excess <= task'["entry"].quantity
  <2> SUFFICES ASSUME o = "entry", k \notin dust PROVE Over(k) <= task["entry"].quantity
    BY <1>1, <1>7, <1>11
  <2>1. Beyond(k) <= Less(task["entry"].quantity, Sold(task["entry"], k))
    BY <1>10 DEF Owned, Covered
  <2>2. Sold(task["entry"], k) = 0
    BY <1>1 DEF Sold
  <2>3. task["entry"].quantity \in Nat
    BY <1>3, TaskIs, Legs2
  <2> QED BY <1>10, <2>1, <2>2, <2>3, LessIs
<1>14. ask'.quantity <= Less(held'[k] + closing'.closed[k], book'.matched)
  <2>1. closing.closed[k] \in Nat
    BY <1>3 DEF Typed, WorldTyped, Close
  <2>2. held[k] + closing.closed[k] \in Nat /\ held[k] <= held[k] + closing.closed[k]
    BY <1>10, <2>1
  <2>3. Less(held[k], book.matched) <= Less(held[k] + closing.closed[k], book.matched)
    BY <1>10, <2>2, LessFalls
  <2> QED BY <1>1, <1>10, <1>11, <2>3
<1>15. PassFits'
  BY <1>1, <1>10, <1>11, <1>12, <1>13, <1>14 DEF PassFits, Taker
<1>16. StepTyped' /\ SetupTyped' /\ WorldTyped' /\ OneAnswer'
  BY <1>1, <1>3, <1>11 DEF Typed, StepTyped, SetupTyped, driftVars, Market, Lanes
<1>17. DriftFits'
  BY <1>1 DEF DriftFits, Drifting
<1> QED BY <1>8, <1>9, <1>15, <1>16, <1>17 DEF Owned, Typed

LEMMA ResolveLaterOn ==
  ASSUME Owned, NEW o \in Origins, ResolveLater(o), UNCHANGED driftVars
  PROVE  Owned'
<1>1. /\ NoOrder /\ UNCHANGED <<setup, book, closing, crashes, dust, again, held, orders>>
      /\ task[o] # NoTask /\ task[o].gap >= 0 /\ ~Taker
      /\ Resolved(o, task[o].gap, task[o].quantity)
  BY DEF ResolveLater, outRest, LanesRun, Taker, NoOrder
<1>2. Market
  BY <1>1, StillMarket DEF Owned
<1>3. PICK k \in Legs : k = task[o].leg
  BY <1>1, TaskIs DEF Owned
<1>4. PICK id \in Nat : id = task[o].gap
  BY <1>1, TaskIs DEF Owned
<1>5. PICK x \in Nat : x = task[o].quantity
  BY TaskIs DEF Owned
<1>6. Seen(k, id)
  BY <1>1, <1>3, <1>4, TaskIs DEF Owned, Asks
<1>7. o = "entry" /\ k \notin dust => Beyond(k) <= Less(x, Executed(k, id))
  <2> SUFFICES ASSUME o = "entry", k \notin dust PROVE Beyond(k) <= Less(x, Executed(k, id))
    OBVIOUS
  <2>1. Beyond(k) \in Nat /\ Executed(k, id) \in Nat
    BY <1>6, OverIs, ExecutedTyped DEF Owned
  <2>2. Less(x, Executed(k, id)) \in Nat
    BY <2>1, LessIs
  <2>3. Sold(task["entry"], k) = Executed(k, id)
    BY <1>1, <1>4 DEF Sold
  <2> QED BY <1>5, <2>1, <2>2, <2>3 DEF Owned, Covered
<1> QED BY <1>1, <1>2, <1>3, <1>4, <1>5, <1>6, <1>7, ResolvedOn
-----------------------------------------------------------------------------
(* The order of the pass. *)

\* The pass, its leg and its order.
LEMMA PassIs ==
  ASSUME Owned, step \in Lanes
  PROVE  \E o \in Origins, k \in Legs, id \in Nat, q \in Nat, x \in Nat :
           /\ o = cur /\ k = L /\ k = task[o].leg /\ id = ask.id /\ q = ask.quantity
           /\ x = ask.excess /\ task[o].gap = -1 /\ ~Taker /\ task[o] # NoTask
           /\ Over(k) <= x /\ Beyond(k) = Over(k) /\ Over(k) \in Nat
           /\ o = "entry" /\ k \notin dust => x <= task[o].quantity
<1>1. /\ cur \in Origins /\ L \in Legs /\ ask.id >= 0 /\ task[cur].gap = -1 /\ ~Taker
      /\ cur = "entry" /\ L \notin dust => ask.excess <= task["entry"].quantity
      /\ Over(L) <= ask.excess
  BY DEF Owned, PassFits
<1>2. ask.quantity \in Nat /\ ask.id \in Nat /\ ask.excess \in Nat /\ Typed
  BY <1>1 DEF Owned, Typed, StepTyped
<1>3. Beyond(L) = Over(L) /\ Over(L) \in Nat /\ task[cur] # NoTask
  BY <1>1, <1>2, OverIs, NoTaskIs, Legs2 DEF L
<1>4. L = task[cur].leg
  BY DEF L
<1> HIDE DEF L
<1> QED BY <1>1, <1>2, <1>3, <1>4

\* What the order executes is taken from the measured excess.
LEMMA SaleOn ==
  ASSUME Owned, step \in Lanes, UNCHANGED outRest,
         NEW k \in Legs, k = L, NEW id \in Nat, NEW q \in Nat, NEW x \in Nat,
         x = ask.excess, Over(k) <= x, NEW done \in 0 .. q, Executes(k, id, q, done), ~Taker
  PROVE  /\ Market /\ Seen(k, id)' /\ Executed(k, id)' = done /\ done \in Nat
         /\ Over(k)' \in Nat /\ Over(k)' <= Less(x, done) /\ Beyond(k)' = Over(k)'
<1>1. /\ Market /\ Seen(k, id)' /\ Executed(k, id)' = done /\ done \in Nat
      /\ held'[k] = held[k] - done /\ done <= held[k]
  BY SaleMarket DEF Owned, outRest
<1>2. /\ held[k] \in Nat /\ book.matched \in Nat /\ Over(k) = Less(held[k], book.matched)
      /\ Baseline(k) = book.matched
  BY OverIs DEF Owned
<1>3. Less(held[k] - done, book.matched) <= Less(x, done)
  BY <1>1, <1>2, LessSold
<1>4. Over(k)' = Less(held[k] - done, book.matched)
  <2>1. Baseline(k)' = Baseline(k)
    BY DEF Baseline, outRest
  <2> QED BY <1>1, <1>2, <2>1 DEF Over
<1>5. Over(k)' \in Nat
  BY <1>1, BeyondFalls DEF Owned
<1>6. Beyond(k)' = Over(k)'
  <2>1. Taking(k)' = 0
    BY DEF Taking, Taker, outRest
  <2>2. held'[k] + 0 = held[k] - done /\ book' = book
    BY <1>1, <1>2 DEF outRest
  <2>3. Beyond(k)' = Less(held[k] - done, book.matched)
    BY <2>1, <2>2 DEF Beyond
  <2> QED BY <1>4, <2>3
<1> QED BY <1>1, <1>3, <1>4, <1>5, <1>6

LEMMA OrderAnsweredOn ==
  ASSUME Owned, OrderAnswered, UNCHANGED driftVars
  PROVE  Owned'
<1>1. step \in Lanes
  BY DEF OrderAnswered, Out, Lanes
<1>2. PICK o \in Origins, k \in Legs, id \in Nat, q \in Nat, x \in Nat :
           /\ o = cur /\ k = L /\ k = task[o].leg /\ id = ask.id /\ q = ask.quantity
           /\ x = ask.excess /\ ~Taker /\ Over(k) <= x
  BY <1>1, PassIs
<1>3. UNCHANGED outRest /\ UNCHANGED again /\ again' \in BOOLEAN
  BY DEF OrderAnswered, Owned, Typed, StepTyped
<1>4. PICK done \in 0 .. q : Executes(k, id, q, done) /\ Filled(o, x, done)
  BY <1>2 DEF OrderAnswered
<1>5. Market /\ done \in Nat /\ Beyond(k)' <= Less(x, done)
  BY <1>1, <1>2, <1>3, <1>4, SaleOn
<1> QED BY <1>2, <1>3, <1>4, <1>5, FilledOn

\* An order that failed is counted: only the count and the number change.
LEMMA OrderFailedOn ==
  ASSUME Owned, Market, NEW o \in Origins, task[o] # NoTask, NEW t \in Task,
         t.leg = task[o].leg, t.quantity = task[o].quantity, t.gap = task[o].gap,
         Keep(o, [t EXCEPT !.tries = @ + 1]), UNCHANGED <<driftVars, again>>
  PROVE  Owned'
<1>1. t.tries + 1 \in Nat /\ task[o].leg \in Legs /\ again' \in BOOLEAN
  BY TaskIs DEF Owned, Task, Typed, StepTyped
<1> DEFINE u == [t EXCEPT !.tries = t.tries + 1]
<1>2. u \in Task /\ u.leg = task[o].leg /\ u.quantity = task[o].quantity /\ u.gap = task[o].gap
  <2>1. PICK n \in Nat : n = t.tries + 1
    BY <1>1
  <2>2. u = [t EXCEPT !.tries = n]
    BY <2>1
  <2> HIDE DEF u
  <2> QED BY <2>2, TriesSet
<1>3. Keep(o, u)
  OBVIOUS
<1> HIDE DEF u
<1>4. Rests /\ task' = [task EXCEPT ![o] = u] /\ UNCHANGED saved
  BY <1>1, <1>3 DEF Keep, Rests
<1>5. Names(u)
  BY <1>1, <1>2 DEF Names
<1> QED BY <1>2, <1>4, <1>5, KeepOn

LEMMA FailedOn ==
  ASSUME Owned, Market, step \in Lanes, UNCHANGED <<driftVars, again>>,
         \/ OrderFailed(task[cur])
         \/ OrderFailed([task[cur] EXCEPT !.next = ask.id + 1])
  PROVE  Owned'
<1>1. PICK o \in Origins, id \in Nat : o = cur /\ id = ask.id /\ task[o] # NoTask
  BY PassIs
<1>2. task[o] \in Task
  BY TaskIs DEF Owned
<1>3. CASE OrderFailed(task[cur])
  <2>1. PICK t \in Task : t = task[o]
    BY <1>2
  <2>2. Keep(o, [t EXCEPT !.tries = @ + 1])
    BY <1>1, <1>3, <2>1 DEF OrderFailed
  <2> QED BY <1>1, <2>1, <2>2, OrderFailedOn
<1>4. CASE OrderFailed([task[cur] EXCEPT !.next = ask.id + 1])
  <2>1. PICK n \in Nat : n = ask.id + 1
    BY <1>1
  <2> DEFINE u == [task[o] EXCEPT !.next = n]
  <2>2. /\ u \in Task /\ u.leg = task[o].leg /\ u.quantity = task[o].quantity
        /\ u.gap = task[o].gap
    BY <1>2, <2>1, NextSet
  <2>3. PICK t \in Task : t = u
    BY <2>2
  <2>4. Keep(o, [t EXCEPT !.tries = @ + 1])
    BY <1>1, <1>4, <2>1, <2>3 DEF OrderFailed
  <2> HIDE DEF u
  <2> QED BY <1>1, <2>2, <2>3, <2>4, OrderFailedOn
<1> QED BY <1>3, <1>4

LEMMA OrderFailsOn ==
  ASSUME Owned, OrderFails, UNCHANGED driftVars
  PROVE  Owned'
<1>1. step \in Lanes /\ UNCHANGED outRest /\ UNCHANGED again /\ OrderFailed(task[cur])
  BY DEF OrderFails, Out, Lanes
<1>2. PICK k \in Legs, id \in Nat, q \in Nat, x \in Nat :
           /\ k = L /\ id = ask.id /\ q = ask.quantity
           /\ x = ask.excess /\ ~Taker /\ Over(k) <= x
  BY <1>1, PassIs
<1>3. CASE NoOrder
  BY <1>1, <1>3, StillMarket, FailedOn DEF Owned, outRest
<1>4. CASE \E done \in 0 .. q : Executes(k, id, q, done)
  BY <1>1, <1>2, <1>4, SaleOn, FailedOn
<1> QED BY <1>2, <1>3, <1>4 DEF OrderFails

LEMMA DuplicateRefusedOn ==
  ASSUME Owned, DuplicateUnknown \/ DuplicateAgain, UNCHANGED driftVars
  PROVE  Owned'
<1>1. /\ step \in Lanes /\ UNCHANGED outRest /\ UNCHANGED again /\ NoOrder
      /\ \/ OrderFailed(task[cur])
         \/ OrderFailed([task[cur] EXCEPT !.next = ask.id + 1])
  BY DEF DuplicateUnknown, DuplicateAgain, Out, Lanes
<1> QED BY <1>1, StillMarket, FailedOn DEF Owned, outRest
\* What was executed without a report is asked for.
LEMMA AckOnlyOn ==
  ASSUME Owned, AckOnly, UNCHANGED driftVars
  PROVE  Owned'
<1>1. /\ step \in Lanes /\ UNCHANGED outRest /\ UNCHANGED <<again, task, saved, cur, ask>>
      /\ step' = "resolve"
  BY DEF AckOnly, Out, Lanes
<1>2. PICK o \in Origins, k \in Legs, id \in Nat, q \in Nat, x \in Nat :
           /\ o = cur /\ k = L /\ k = task[o].leg /\ id = ask.id /\ q = ask.quantity
           /\ x = ask.excess /\ task[o].gap = -1 /\ ~Taker /\ Over(k) <= x /\ Over(k) \in Nat
           /\ o = "entry" /\ k \notin dust => x <= task[o].quantity
  BY <1>1, PassIs
<1>3. PICK done \in 0 .. q : Executes(k, id, q, done)
  BY <1>2 DEF AckOnly
<1>4. /\ Market /\ Seen(k, id)' /\ Executed(k, id)' = done /\ done \in Nat
      /\ Over(k)' \in Nat /\ Over(k)' <= Less(x, done) /\ Less(x, done) <= x
      /\ Less(x, done) \in Nat
  BY <1>1, <1>2, <1>3, SaleOn, LessIs
<1>5. L' = k /\ Seen(L, ask.id)' /\ Over(L)' <= ask.excess
      /\ Over(L)' <= Less(ask.excess, Executed(L, ask.id))'
  <2>1. L' = k /\ Over(L)' = Over(k)' /\ ask' = ask
    BY <1>1, <1>2 DEF L, Over, Baseline
  <2>2. Executed(L, ask.id)' = done /\ Seen(L, ask.id)'
    BY <1>1, <1>2, <1>4, <2>1 DEF Executed, Seen
  <2>3. Less(ask.excess, Executed(L, ask.id))' = Less(x, done)
    BY <1>2, <2>1, <2>2 DEF Less
  <2> QED BY <1>2, <1>4, <2>1, <2>2, <2>3
<1>6. PassFits'
  BY <1>1, <1>2, <1>5 DEF PassFits, Taker, outRest
<1>7. ask' \in [quantity : Nat, id : Nat \cup {-1}, excess : Nat] /\ again' \in BOOLEAN
  BY <1>1 DEF Owned, Typed, StepTyped
<1> QED BY <1>1, <1>4, <1>6, <1>7, LaneOn DEF Lanes

LEMMA DuplicateKnownOn ==
  ASSUME Owned, DuplicateKnown, UNCHANGED driftVars
  PROVE  Owned'
<1>1. /\ step \in Lanes /\ step = "sent" /\ UNCHANGED outRest
      /\ UNCHANGED <<again, task, saved, cur, ask>>
      /\ step' = "duplicate" /\ NoOrder /\ Seen(L, ask.id)
  BY DEF DuplicateKnown, Out, Lanes
<1>2. Market
  BY <1>1, StillMarket DEF Owned, outRest
<1>3. L' = L /\ Over(L)' = Over(L) /\ Seen(L, ask.id)'
  BY <1>1 DEF L, Over, Baseline, Seen, NoOrder, outRest
<1>4. ask' \in [quantity : Nat, id : Nat \cup {-1}, excess : Nat] /\ again' \in BOOLEAN
  BY <1>1 DEF Owned, Typed, StepTyped
<1>5. PassFits
  BY DEF Owned
<1>6. PassFits'
  <2>1. UNCHANGED <<again, task, cur, ask, book, closing, dust, held>>
    BY <1>1 DEF outRest, NoOrder
  <2>2. (L \in Legs)' /\ Taker' = Taker
    BY <1>1, <1>3, <1>5, <2>1 DEF PassFits, Taker
  <2>3. (held[L] + closing.closed[L])' = held[L] + closing.closed[L]
    BY <1>3, <2>1
  <2>4. Less(held[L] + closing.closed[L], book.matched)'
          = Less(held[L] + closing.closed[L], book.matched)
    BY <2>1, <2>3 DEF Less
  <2> HIDE DEF L
  <2> QED BY <1>1, <1>3, <1>5, <2>1, <2>2, <2>4 DEF PassFits
<1> QED BY <1>1, <1>2, <1>4, <1>6, LaneOn DEF Lanes

\* The second order of a pass asks for no more than the first, unless it is for
\* the whole leg.
LEMMA RetryLess ==
  ASSUME NEW q \in Nat, NEW done \in Nat, NEW live \in Nat \cup {-1},
         q = ask.quantity, Repeated(done, live)
  PROVE  /\ RetryQuantity(done, live) \in Nat
         /\ ~Full(done) => RetryQuantity(done, live) <= q
<1>1. CASE Full(done)
  <2>1. live > 0
    BY <1>1 DEF Repeated
  <2> QED BY <1>1, <2>1 DEF RetryQuantity
<1>2. CASE ~Full(done)
  <2>1. done > 0 /\ done < q
    BY <1>2 DEF Repeated, Full
  <2>2. q - done \in Nat /\ q - done <= q
    BY <2>1
  <2>3. RetryQuantity(done, live) = IF live > 0 THEN Lesser(q - done, live) ELSE q - done
    BY <1>2 DEF RetryQuantity
  <2>4. live > 0 => Lesser(q - done, live) \in Nat /\ Lesser(q - done, live) <= q - done
    BY <2>2 DEF Lesser
  <2>5. CASE live > 0
    BY <1>2, <2>2, <2>3, <2>4, <2>5
  <2>6. CASE ~(live > 0)
    BY <1>2, <2>2, <2>3, <2>6
  <2> QED BY <2>5, <2>6
<1> QED BY <1>1, <1>2

LEMMA DuplicateOn ==
  ASSUME Owned, Duplicate, UNCHANGED driftVars
  PROVE  Owned'
<1>1. step \in Lanes /\ step = "duplicate" /\ UNCHANGED outRest /\ NoOrder
  BY DEF Duplicate, Out, Lanes
<1>2. PICK o \in Origins, k \in Legs, id \in Nat, q \in Nat, x \in Nat :
           /\ o = cur /\ k = L /\ k = task[o].leg /\ id = ask.id /\ q = ask.quantity
           /\ x = ask.excess /\ task[o].gap = -1 /\ ~Taker /\ Over(k) <= x
           /\ Beyond(k) = Over(k) /\ Over(k) \in Nat
           /\ o = "entry" /\ k \notin dust => x <= task[o].quantity
  BY <1>1, PassIs
<1>3. Market /\ Typed /\ OneAnswer /\ held[k] \in Nat
  BY <1>1, StillMarket, OverIs DEF Owned, outRest
<1>4. Seen(k, id)
  BY <1>1, <1>2 DEF Owned, PassFits
<1>5. PICK done \in {0, Executed(k, id)}, live \in {-1, held[k]} :
         \/ /\ Cleared(done, live)
            /\ Retire(cur) /\ UNCHANGED again
         \/ /\ Repeated(done, live)
            /\ ask' = [ask EXCEPT !.quantity = RetryQuantity(done, live),
                                  !.id = Greater(task[cur].tries, ask.id) + 1]
            /\ step' = "retry"
            /\ again' = (again \/ Full(done))
            /\ UNCHANGED <<task, saved, cur>>
         \/ OrderFailed(task[cur]) /\ UNCHANGED again
  BY <1>2 DEF Duplicate
<1>6. done \in Nat /\ live \in Nat \cup {-1} /\ again \in BOOLEAN
  BY <1>3, <1>4, <1>5, ExecutedTyped DEF Typed, StepTyped
<1>7. CASE Cleared(done, live) /\ Retire(cur) /\ UNCHANGED again
  <2>1. live = 0
    BY <1>7 DEF Cleared
  <2>2. held[k] = 0
    BY <1>5, <2>1
  <2>3. Beyond(k)' = 0
    <3>1. book.matched \in Nat /\ Beyond(k) = Less(held[k], book.matched)
      BY <1>2, <1>3, OverIs
    <3>2. Beyond(k) = 0
      BY <2>2, <3>1, LessIs
    <3> QED BY <1>3, <3>2, BeyondFalls
  <2> QED BY <1>2, <1>3, <1>6, <1>7, <2>3, RetireOn
<1>8. CASE OrderFailed(task[cur]) /\ UNCHANGED again
  BY <1>1, <1>3, <1>8, FailedOn
<1>9. CASE /\ Repeated(done, live)
           /\ ask' = [ask EXCEPT !.quantity = RetryQuantity(done, live),
                                 !.id = Greater(task[cur].tries, ask.id) + 1]
           /\ step' = "retry"
           /\ again' = (again \/ Full(done))
           /\ UNCHANGED <<task, saved, cur>>
  <2>1. /\ RetryQuantity(done, live) \in Nat
        /\ ~Full(done) => RetryQuantity(done, live) <= q
    BY <1>2, <1>6, <1>9, RetryLess
  <2>2. Greater(task[cur].tries, ask.id) + 1 \in Nat
    <3>1. task[o].tries \in Nat
      BY <1>3, TaskIs
    <3> QED BY <1>2, <3>1 DEF Greater
  <2>3. ask \in [quantity : Nat, id : Nat \cup {-1}, excess : Nat]
    BY <1>3 DEF Typed, StepTyped
  <2>4. PICK n \in Nat, m \in Nat : n = RetryQuantity(done, live)
                                /\ m = Greater(task[cur].tries, ask.id) + 1
    BY <2>1, <2>2
  <2>5. /\ ask' = [ask EXCEPT !.quantity = n, !.id = m]
        /\ ask' \in [quantity : Nat, id : Nat \cup {-1}, excess : Nat]
        /\ ask'.quantity = n /\ ask'.id = m /\ ask'.excess = x
    BY <1>2, <1>9, <2>3, <2>4
  <2>6. L' = k /\ Over(k)' = Over(k) /\ held' = held /\ book' = book /\ closing' = closing
        /\ Over(L)' = Over(k)' /\ dust' = dust
    BY <1>1, <1>2, <1>9 DEF L, Over, Baseline, NoOrder, outRest
  <2>7. ~again' => n <= Less(held[k] + closing.closed[k], book.matched)
    <3> SUFFICES ASSUME ~again' PROVE n <= Less(held[k] + closing.closed[k], book.matched)
      OBVIOUS
    <3>1. ~again /\ n <= q
      BY <1>9, <2>1, <2>4
    <3>2. q <= Less(held[k] + closing.closed[k], book.matched)
      BY <1>1, <1>2, <3>1 DEF Owned, PassFits
    <3>3. held[k] + closing.closed[k] \in Nat /\ book.matched \in Nat
      BY <1>3, OverIs DEF Typed, WorldTyped, Close
    <3>4. Less(held[k] + closing.closed[k], book.matched) \in Nat
      BY <3>3, LessIs
    <3> QED BY <3>1, <3>2, <3>4
  <2>8. PassFits'
    BY <1>2, <1>9, <2>4, <2>5, <2>6, <2>7 DEF PassFits, Taker
  <2>9. again' \in BOOLEAN
    BY <1>6, <1>9 DEF Full
  <2> QED BY <1>3, <1>9, <2>5, <2>8, <2>9, LaneOn DEF Lanes
<1> QED BY <1>5, <1>7, <1>8, <1>9

LEMMA ResolveNowOn ==
  ASSUME Owned, ResolveNow, UNCHANGED driftVars
  PROVE  Owned'
<1>1. /\ step \in Lanes /\ step = "resolve" /\ UNCHANGED outRest /\ NoOrder
      /\ UNCHANGED again
  BY DEF ResolveNow, Out, Lanes
<1>2. PICK o \in Origins, k \in Legs, id \in Nat, x \in Nat :
           /\ o = cur /\ k = L /\ k = task[o].leg /\ id = ask.id
           /\ x = ask.excess /\ task[o].gap = -1 /\ ~Taker
           /\ Beyond(k) = Over(k) /\ Over(k) \in Nat
           /\ o = "entry" /\ k \notin dust => x <= task[o].quantity
  BY <1>1, PassIs
<1>3. Market
  BY <1>1, StillMarket DEF Owned, outRest
<1>4. Seen(k, id) /\ Over(k) <= Less(x, Executed(k, id)) /\ Resolved(o, id, x)
  BY <1>1, <1>2 DEF Owned, PassFits, ResolveNow
<1> QED BY <1>1, <1>2, <1>3, <1>4, ResolvedOn DEF NoOrder
-----------------------------------------------------------------------------
(* The drift check. *)

LEMMA DriftOn ==
  ASSUME Owned, Market, UNCHANGED driftRest, step' \notin Lanes, DriftFits',
         step' \in {"idle"} \cup Drifting,
         at' \in Legs, want' \in [Legs -> Nat], even' \in Nat, ok' \in BOOLEAN
  PROVE  Owned'
<1>1. TasksTyped' /\ Covered' /\ Remembered'
  BY TasksOn, CoveredOn, RememberedOn DEF Owned, driftRest
<1>2. StepTyped' /\ SetupTyped' /\ WorldTyped' /\ OneAnswer'
  BY DEF Owned, Typed, StepTyped, SetupTyped, driftRest, Market
<1>3. PassFits'
  BY DEF PassFits
<1> QED BY <1>1, <1>2, <1>3 DEF Owned, Typed

LEMMA BothLegs ==
  /\ \A l \in Legs : l = "long" \/ l = "short"
  /\ Other("long") = "short" /\ Other("short") = "long"
BY DEF Legs, Other

LEMMA DriftFoundOn == ASSUME Owned, DriftFound PROVE Owned'
<1>1. /\ Market /\ held \in [Legs -> Nat] /\ held' = held /\ closing' = closing
      /\ ~closing.on /\ UNCHANGED driftRest /\ step' = "flatten" /\ at' = "long" /\ ok' = TRUE
      /\ even' = Balanced /\ want' = [l \in Legs |-> Less(held[l], Balanced)]
  BY StillMarket DEF DriftFound, driftRest, NoOrder, Owned, Typed, WorldTyped
<1>2. PICK a \in Nat, b \in Nat : a = held["long"] /\ b = held["short"]
  BY <1>1, Legs2
<1>3. /\ Balanced \in Nat /\ Balanced <= a /\ Balanced <= b
      /\ Balanced = a \/ Balanced = b
  BY <1>2 DEF Balanced, Lesser
<1>4. PICK n \in Nat : n = Balanced
  BY <1>3
<1>5. /\ want'["long"] = Less(a, n) /\ want'["short"] = Less(b, n)
      /\ want' = [l \in Legs |-> Less(held[l], n)]
  BY <1>1, <1>2, <1>4, Legs2
<1>6. /\ Less(a, n) \in Nat /\ a = n + Less(a, n) /\ Less(b, n) \in Nat /\ b = n + Less(b, n)
      /\ Less(a, n) = 0 \/ Less(b, n) = 0
  BY <1>3, <1>4 DEF Less
<1>7. want' \in [Legs -> Nat]
  BY <1>1, <1>2, <1>5, <1>6, BothLegs
<1>8. \A l \in Legs : held'[l] = even' + want'[l]
  BY <1>1, <1>2, <1>4, <1>5, <1>6, BothLegs
<1>9. DriftFits'
  BY <1>1, <1>5, <1>6, <1>8 DEF DriftFits
<1> QED BY <1>1, <1>3, <1>7, <1>9, DriftOn, Legs2 DEF Lanes, Drifting

\* What becomes of one leg.
LEMMA FlattenOne ==
  ASSUME Owned, Flatten
  PROVE  /\ Market /\ UNCHANGED <<driftRest, want, even>> /\ ok' \in BOOLEAN
         /\ held'[Other(at)] = held[Other(at)]
         /\ ok' => ok /\ held'[at] = held[at] - want[at]
         /\ want[at] = 0 => held'[at] = held[at]
         /\ held \in [Legs -> Nat] /\ held' \in [Legs -> Nat]
<1>1. /\ Typed /\ OneAnswer /\ ok \in BOOLEAN /\ held \in [Legs -> Nat]
      /\ UNCHANGED <<setup, book, closing, crashes>> /\ dust \subseteq dust'
      /\ UNCHANGED <<driftRest, want, even>>
  BY DEF Owned, Typed, WorldTyped, StepTyped, Flatten, driftRest
<1>2. PICK k \in Legs, q \in Nat : k = at /\ q = want[k]
  BY <1>1 DEF Typed, StepTyped
<1>3. held[k] \in Nat /\ held[Other(k)] \in Nat
  BY <1>1, Legs2
<1>4. CASE q = 0 /\ NoOrder /\ UNCHANGED ok
  <2>1. held' = held /\ Market
    BY <1>1, <1>4, StillMarket DEF NoOrder
  <2> QED BY <1>1, <1>2, <1>3, <1>4, <2>1
<1>5. CASE NoOrder /\ q > 0 /\ ok' = FALSE
  <2>1. held' = held /\ Market
    BY <1>1, <1>5, StillMarket DEF NoOrder
  <2> QED BY <1>1, <1>2, <1>3, <1>5, <2>1
<1>6. ASSUME NEW done \in 0 .. q, Executes(k, DriftId, q, done), q > 0,
             ok' = (ok /\ done = q) \/ ok' = FALSE
      PROVE  /\ Market /\ ok' \in BOOLEAN /\ held' \in [Legs -> Nat]
             /\ held'[Other(k)] = held[Other(k)]
             /\ ok' => ok /\ held'[k] = held[k] - q
  <2>1. DriftId \in Int
    BY DEF DriftId
  <2>2. /\ Market /\ held'[k] = held[k] - done /\ held'[Other(k)] = held[Other(k)]
    BY <1>1, <1>6, <2>1, SaleMarket
  <2>3. held' \in [Legs -> Nat]
    BY <2>2 DEF Market, WorldTyped
  <2> QED BY <1>1, <1>6, <2>2, <2>3
<1>7. \/ q = 0 /\ NoOrder /\ UNCHANGED ok
      \/ NoOrder /\ q > 0 /\ ok' = FALSE
      \/ \E done \in 0 .. q : Executes(k, DriftId, q, done) /\ q > 0
                            /\ (ok' = (ok /\ done = q) \/ ok' = FALSE)
  BY <1>2 DEF Flatten
<1>8. CASE \E done \in 0 .. q : Executes(k, DriftId, q, done) /\ q > 0
                             /\ (ok' = (ok /\ done = q) \/ ok' = FALSE)
  <2>1. PICK done \in 0 .. q : Executes(k, DriftId, q, done) /\ q > 0
                             /\ (ok' = (ok /\ done = q) \/ ok' = FALSE)
    BY <1>8
  <2>2. /\ Market /\ ok' \in BOOLEAN /\ held' \in [Legs -> Nat]
        /\ held'[Other(k)] = held[Other(k)]
        /\ ok' => ok /\ held'[k] = held[k] - q
    BY <1>6, <2>1
  <2>3. want[at] = q /\ at = k /\ q # 0
    BY <1>2, <2>1
  <2> QED BY <1>1, <2>2, <2>3
<1> QED BY <1>4, <1>5, <1>7, <1>8

LEMMA FlattenOn == ASSUME Owned, Flatten PROVE Owned'
<1>1. /\ Market /\ UNCHANGED <<driftRest, want, even>> /\ ok' \in BOOLEAN
      /\ held'[Other(at)] = held[Other(at)]
      /\ ok' => ok /\ held'[at] = held[at] - want[at]
      /\ want[at] = 0 => held'[at] = held[at]
      /\ held \in [Legs -> Nat] /\ held' \in [Legs -> Nat]
  BY FlattenOne
<1>2. step = "flatten" /\ DriftFits /\ at \in Legs /\ want \in [Legs -> Nat] /\ even \in Nat
  BY DEF Flatten, Owned, Typed, StepTyped
<1>3. ~closing.on /\ ~closing'.on
  BY <1>1, <1>2 DEF DriftFits, Drifting, driftRest
<1>4. /\ held["long"] \in Nat /\ held["short"] \in Nat /\ held'["long"] \in Nat
      /\ held'["short"] \in Nat /\ want["long"] \in Nat /\ want["short"] \in Nat
  BY <1>1, <1>2, Legs2
<1>5. CASE at = "long" /\ at' = "short" /\ step' = "flatten"
  <2>1. /\ held["long"] = even + want["long"] /\ held["short"] = even + want["short"]
        /\ want["long"] = 0 \/ want["short"] = 0
    BY <1>2, <1>5, Legs2 DEF DriftFits
  <2>2. held'["short"] = even + want["short"]
    BY <1>1, <1>5, <2>1, BothLegs
  <2>3. ok' \/ want["short"] > 0 => held'["long"] = even
    BY <1>1, <1>2, <1>4, <1>5, <2>1
  <2>4. DriftFits'
    BY <1>1, <1>3, <1>5, <2>2, <2>3 DEF DriftFits
  <2> QED BY <1>1, <1>2, <1>5, <2>4, DriftOn, Legs2 DEF Lanes, Drifting
<1>6. CASE at = "short" /\ at' = at /\ step' = "verify"
  <2>1. /\ held["short"] = even + want["short"] /\ (ok => held["long"] = even)
    BY <1>2, <1>6 DEF DriftFits
  <2>2. ok' => held'["short"] = even /\ held'["long"] = even
    BY <1>1, <1>2, <1>4, <1>6, <2>1, BothLegs
  <2>3. ok' => EvenNow'
    BY <1>1, <2>2, BothLegs DEF EvenNow
  <2>4. DriftFits'
    BY <1>3, <1>6, <2>3 DEF DriftFits
  <2> QED BY <1>1, <1>2, <1>6, <2>4, DriftOn, Legs2 DEF Lanes, Drifting
<1> QED BY <1>5, <1>6 DEF Flatten

LEMMA NoWantIs == NoWant \in [Legs -> Nat]
BY DEF NoWant

LEMMA DriftFailsOn == ASSUME Owned, DriftFails PROVE Owned'
<1>1. Market /\ UNCHANGED driftRest
  BY StillMarket DEF DriftFails, driftRest, Owned
<1>2. /\ step' = "idle" /\ at' \in Legs /\ want' \in [Legs -> Nat] /\ even' \in Nat
      /\ ok' \in BOOLEAN
  BY NoWantIs, Legs2 DEF DriftFails, Ends
<1>3. DriftFits'
  BY <1>2 DEF DriftFits, Drifting
<1> QED BY <1>1, <1>2, <1>3, DriftOn DEF Lanes
-----------------------------------------------------------------------------
(* Steps that change the book, or what is saved of it: no order is sent. *)

LEMMA AsksSame ==
  ASSUME orders' = orders, NEW t, Asks(t)
  PROVE  Asks(t)' /\ \A l : Sold(t, l)' = Sold(t, l)
BY DEF Asks, Sold, Seen, Executed

LEMMA TasksSame ==
  ASSUME Typed, orders' = orders, UNCHANGED task
  PROVE  task' \in [Origins -> Task] /\ \A o \in Origins : Names(task[o])' /\ Asks(task[o])'
<1>1. ASSUME NEW o \in Origins PROVE Names(task[o])' /\ Asks(task[o])'
  <2>1. PICK t \in Task : t = task[o] /\ Names(t) /\ Asks(t)
    BY DEF Typed, TasksTyped
  <2>2. Asks(t)' /\ task'[o] = t
    BY <2>1, AsksSame
  <2> QED BY <2>1, <2>2 DEF Asks, Names
<1> QED BY <1>1 DEF Typed, TasksTyped

\* What is saved: a book, and the tasks f of memory or of the last save.
SavedTyped ==
  /\ saved \in [book : Book, task : [Origins -> Task]] /\ Counts(saved.book)
  /\ \A o \in Origins : Names(saved.task[o]) /\ Asks(saved.task[o])

LEMMA WritesSame ==
  ASSUME orders' = orders, NEW b \in Book, Counts(b), NEW f \in [Origins -> Task],
         \A o \in Origins : Names(f[o]) /\ Asks(f[o]), Writes([book |-> b, task |-> f])
  PROVE  SavedTyped'
<1>1. CASE crashes < MaxCrashes
  <2>1. saved' = [book |-> b, task |-> f]
    BY <1>1 DEF Writes
  <2>2. ASSUME NEW o \in Origins PROVE Names(saved.task[o])' /\ Asks(saved.task[o])'
    <3>1. PICK t \in Task : t = f[o] /\ Names(t) /\ Asks(t)
      OBVIOUS
    <3>2. Asks(t)' /\ saved'.task[o] = t
      BY <2>1, <3>1, AsksSame
    <3> QED BY <3>1, <3>2 DEF Asks, Names
  <2> QED BY <2>1, <2>2 DEF SavedTyped, Counts
<1>2. CASE ~(crashes < MaxCrashes)
  <2>1. saved' = NoSave
    BY <1>2 DEF Writes
  <2>2. \A k \in Origins : saved'.task[k] = NoTask
    BY <2>1, NoSaveIs
  <2>3. \A k \in Origins : Names(saved.task[k])' /\ Asks(saved.task[k])'
    BY <2>2, NoTaskIs DEF Names, Asks
  <2> QED BY <2>1, <2>3, NoSaveIs DEF Counts, SavedTyped
<1> QED BY <1>1, <1>2

LEMMA SavedSame ==
  ASSUME Typed, orders' = orders, UNCHANGED saved
  PROVE  SavedTyped'
<1>1. ASSUME NEW o \in Origins PROVE Names(saved.task[o])' /\ Asks(saved.task[o])'
  <2>1. PICK t \in Task : t = saved.task[o] /\ Names(t) /\ Asks(t)
    BY DEF Typed, TasksTyped
  <2>2. Asks(t)' /\ saved'.task[o] = t
    BY <2>1, AsksSame
  <2> QED BY <2>1, <2>2 DEF Asks, Names
<1> QED BY <1>1 DEF SavedTyped, Typed, TasksTyped, Counts

LEMMA AnswersSame ==
  ASSUME Typed, OneAnswer, orders' = orders, UNCHANGED setup, crashes' \in Nat
  PROVE  OneAnswer' /\ SetupTyped' /\ orders' \subseteq [leg : Legs, id : Int, done : Nat]
BY DEF Typed, OneAnswer, SetupTyped, WorldTyped

\* The entry's task covers what it covered, if nothing new is beyond the book.
LEMMA CoveredSame ==
  ASSUME Typed, OneAnswer, Covered, orders' = orders, dust' = dust,
         task'["entry"].leg = task["entry"].leg,
         task'["entry"].quantity = task["entry"].quantity,
         task'["entry"].gap = task["entry"].gap \/ task'["entry"].gap = -1,
         \A l \in Legs : Beyond(l)' \in Nat /\ Beyond(l)' <= Beyond(l)
  PROVE  Covered'
<1>1. PICK t \in Task : t = task["entry"] /\ Names(t) /\ Asks(t)
  BY Legs2 DEF Typed, TasksTyped
<1>2. t.quantity \in Nat
  BY DEF Task
<1>3. ASSUME NEW l \in Legs \ dust', Beyond(l)' > 0
      PROVE  /\ task'["entry"].leg = l
             /\ Beyond(l)' <= Less(task'["entry"].quantity, Sold(task["entry"], l)')
  <2>1. Beyond(l) \in Nat /\ Beyond(l) > 0 /\ Beyond(l)' \in Nat /\ Beyond(l)' <= Beyond(l)
    BY <1>3, OverIs
  <2>2. t.leg = l /\ Beyond(l) <= Less(t.quantity, Sold(t, l))
    BY <1>1, <2>1 DEF Covered
  <2>3. Sold(t, l) \in Nat
    <3>1. t.gap >= 0 => Seen(l, t.gap)
      BY <1>1, <2>2 DEF Asks
    <3>2. t.gap >= 0 => Executed(l, t.gap) \in Nat
      BY <3>1, ExecutedTyped
    <3> QED BY <3>2 DEF Sold
  <2>4. PICK n : n = Sold(task["entry"], l)'
    OBVIOUS
  <2>5. n = Sold(t, l) \/ n = 0
    <3>1. PICK g : g = task'["entry"].gap
      OBVIOUS
    <3>2. n = IF g >= 0 THEN Executed(l, g)' ELSE 0
      BY <2>4, <3>1 DEF Sold, Executed
    <3>3. Executed(l, g)' = Executed(l, g)
      BY DEF Executed
    <3>4. g = t.gap \/ g = -1
      BY <1>1, <3>1
    <3> QED BY <3>2, <3>3, <3>4 DEF Sold
  <2>6. /\ Less(t.quantity, Sold(t, l)) \in Nat /\ Less(t.quantity, n) \in Nat
        /\ Less(t.quantity, Sold(t, l)) <= Less(t.quantity, n)
    <3>1. PICK a \in Nat, b \in Nat : a = t.quantity /\ b = Sold(t, l)
      BY <1>2, <2>3
    <3>2. Less(a, b) \in Nat /\ Less(a, b) <= a /\ Less(a, 0) = a
      BY LessIs
    <3> QED BY <2>5, <3>1, <3>2
  <2>7. Beyond(l)' <= Less(t.quantity, n)
    BY <2>1, <2>2, <2>6
  <2> QED BY <1>1, <2>2, <2>4, <2>7
<1> QED BY <1>3 DEF Covered


LEMMA EndsTyped == Ends => at' \in Legs /\ want' \in [Legs -> Nat] /\ even' \in Nat /\ ok' \in BOOLEAN
BY NoWantIs, Legs2 DEF Ends

LEMMA SaveTasks ==
  ASSUME Typed
  PROVE  task \in [Origins -> Task] /\ \A o \in Origins : Names(task[o]) /\ Asks(task[o])
BY DEF Typed, TasksTyped

LEMMA DriftCorrectedOn == ASSUME Owned, DriftCorrected PROVE Owned'
<1>1. /\ Typed /\ OneAnswer /\ step = "verify" /\ ~closing.on /\ even \in Nat
      /\ held \in [Legs -> Nat] /\ \A l \in Legs : held[l] = even
  BY DEF Owned, DriftCorrected, DriftFits, Drifting, Typed, StepTyped, WorldTyped, EvenNow
<1>2. PICK b \in Book : /\ b = [open |-> even > 0, matched |-> even, leg |-> [l \in Legs |-> even]]
                        /\ b.matched = even /\ Counts(b)
  <2> DEFINE b == [open |-> even > 0, matched |-> even, leg |-> [l \in Legs |-> even]]
  <2>1. b \in Book
    BY <1>1 DEF Book
  <2>2. b.matched = even /\ Counts(b)
    <3>1. b.matched = even
      OBVIOUS
    <3>2. CASE even = 0
      BY <3>1, <3>2 DEF Counts
    <3>3. CASE even > 0
      <4>1. b.open
        BY <3>3
      <4> QED BY <3>1, <4>1 DEF Counts
    <3> QED BY <1>1, <3>1, <3>2, <3>3
  <2>3. b = [open |-> even > 0, matched |-> even, leg |-> [l \in Legs |-> even]]
    OBVIOUS
  <2> HIDE DEF b
  <2> QED BY <2>1, <2>2, <2>3
<1>3. /\ book' = b /\ Writes([book |-> b, task |-> task]) /\ Ends
      /\ UNCHANGED <<held, orders, setup, closing, task, cur, ask, dust, again, crashes>>
  BY <1>2 DEF DriftCorrected, NoOrder
<1> HIDE DEF Counts
<1>4. SavedTyped'
  BY <1>1, <1>2, <1>3, WritesSame, SaveTasks
<1>5. TasksTyped'
  BY <1>1, <1>3, <1>4, TasksSame DEF TasksTyped, SavedTyped
<1>6. WorldTyped'
  <2>1. Counts(book)'
    BY <1>2, <1>3 DEF Counts
  <2> QED BY <1>2, <1>3, <2>1 DEF Owned, Typed, WorldTyped
<1>7. StepTyped' /\ SetupTyped'
  BY <1>1, <1>3, EndsTyped DEF Typed, StepTyped, SetupTyped, Ends
<1>8. \A l \in Legs : Beyond(l)' = 0
  <2> SUFFICES ASSUME NEW l \in Legs PROVE Beyond(l)' = 0
    OBVIOUS
  <2>1. Beyond(l)' = Less(held[l] + 0, even)
    BY <1>1, <1>2, <1>3 DEF Beyond, Taking, Taker
  <2>2. held[l] + 0 = even
    BY <1>1
  <2> QED BY <1>1, <2>1, <2>2, LessIs
<1>9. Covered'
  BY <1>8 DEF Covered
<1>10. Remembered'
  <2>1. crashes < MaxCrashes => saved'.book = book' /\ saved'.task = task'
    BY <1>3 DEF Writes
  <2>2. crashes' = crashes /\ book'.matched \in Nat
    BY <1>1, <1>2, <1>3
  <2> QED BY <2>1, <2>2 DEF Remembered
<1>11. OneAnswer' /\ PassFits' /\ DriftFits'
  BY <1>1, <1>3 DEF OneAnswer, PassFits, DriftFits, Ends, Lanes, Drifting
<1> QED BY <1>5, <1>6, <1>7, <1>9, <1>10, <1>11 DEF Owned, Typed
-----------------------------------------------------------------------------
(* Closes. *)

LEMMA NoCloseIs ==
  /\ NoClose \in Close /\ ~NoClose.on /\ NoClose.kind = "taker"
  /\ \A l \in Legs : NoClose.closed[l] = 0
BY DEF NoClose, Close

\* What a step of a close, a snapshot or a restart has in common.
LEMMA BookOn ==
  ASSUME Owned, orders' = orders, UNCHANGED <<setup, dust, again>>, crashes' \in Nat,
         held' \in [Legs -> Nat], book' \in Book, Counts(book)',
         closing' \in Close, ~closing'.on => closing' = NoClose,
         TasksTyped', StepTyped', Covered', Remembered', PassFits', DriftFits'
  PROVE  Owned'
<1>1. WorldTyped' /\ SetupTyped' /\ OneAnswer'
  BY DEF Owned, Typed, WorldTyped, SetupTyped, OneAnswer
<1> QED BY <1>1 DEF Owned, Typed

LEMMA StepSame ==
  ASSUME Typed, UNCHANGED <<step, cur, ask, at, want, even, ok, again>>
  PROVE  StepTyped'
BY DEF Typed, StepTyped

LEMMA TasksStay ==
  ASSUME Typed, orders' = orders, UNCHANGED <<task, saved>>
  PROVE  TasksTyped'
BY TasksSame, SavedSame DEF TasksTyped, SavedTyped

LEMMA CloseBeginsOn ==
  ASSUME Owned, NEW kind \in {"taker", "maker"}, CloseBegins(kind) PROVE Owned'
<1>1. /\ Typed /\ OneAnswer /\ step = "idle" /\ ~closing.on
      /\ closing' = [NoClose EXCEPT !.on = TRUE, !.kind = kind]
      /\ UNCHANGED <<closeRest, held, book, task, saved>>
  BY DEF Owned, CloseBegins
<1>2. closing' \in Close /\ closing'.on /\ \A l \in Legs : closing'.closed[l] = 0
  BY <1>1 DEF NoClose, Close
<1>3. \A l \in Legs : Beyond(l)' = Beyond(l)
  <2> SUFFICES ASSUME NEW l \in Legs PROVE Beyond(l)' = Beyond(l)
    OBVIOUS
  <2>1. Taking(l)' = 0 /\ Taking(l) = 0
    BY <1>1, <1>2 DEF Taking, Taker
  <2> QED BY <1>1, <2>1 DEF Beyond
<1>4. \A l \in Legs : Beyond(l)' \in Nat /\ Beyond(l)' <= Beyond(l)
  BY <1>1, <1>3, OverIs
<1>5. TasksTyped' /\ StepTyped'
  BY <1>1, TasksStay, StepSame DEF closeRest, driftVars
<1>6. Covered'
  BY <1>1, <1>4, CoveredSame DEF Owned, closeRest
<1>7. Remembered' /\ PassFits' /\ DriftFits'
  BY <1>1 DEF Owned, Remembered, PassFits, DriftFits, closeRest, Lanes, Drifting
<1>8. held' \in [Legs -> Nat] /\ book' \in Book /\ Counts(book)' /\ crashes' \in Nat
  BY <1>1 DEF Typed, WorldTyped, SetupTyped, Counts, closeRest
<1> QED BY <1>1, <1>2, <1>5, <1>6, <1>7, <1>8, BookOn DEF closeRest

\* What is held and what a close has closed of it are one quantity.
LEMMA FillKeepsSum ==
  ASSUME Typed, NEW k \in Legs, CloseFills(k)
  PROVE  /\ held' \in [Legs -> Nat] /\ closing' \in Close /\ closing.on
         /\ closing'.on = closing.on /\ closing'.kind = closing.kind
         /\ \A l \in Legs : /\ held'[l] <= held[l]
                            /\ held'[l] + closing'.closed[l] = held[l] + closing.closed[l]
<1>1. /\ held \in [Legs -> Nat] /\ closing \in Close /\ closing.on /\ held[k] > 0
      /\ held' = [held EXCEPT ![k] = @ - 1]
      /\ closing' = [closing EXCEPT !.closed[k] = @ + 1]
  BY DEF Typed, WorldTyped, CloseFills
<1>2. PICK a \in Nat, f \in [Legs -> Nat] : a = held[k] /\ f = closing.closed
  BY <1>1 DEF Close
<1>3. a - 1 \in Nat /\ a - 1 <= a /\ f[k] \in Nat /\ f[k] + 1 \in Nat
      /\ (a - 1) + (f[k] + 1) = a + f[k]
  BY <1>1, <1>2
<1>4. held' = [held EXCEPT ![k] = a - 1]
  BY <1>1, <1>2
<1>5. held' \in [Legs -> Nat] /\ held'[k] = a - 1 /\ \A l \in Legs : l # k => held'[l] = held[l]
  BY <1>1, <1>3, <1>4
<1>6. /\ closing' = [closing EXCEPT !.closed = [f EXCEPT ![k] = f[k] + 1]]
      /\ [f EXCEPT ![k] = f[k] + 1] \in [Legs -> Nat]
  BY <1>1, <1>2, <1>3
<1>7. /\ closing' \in Close /\ closing'.on = closing.on /\ closing'.kind = closing.kind
      /\ closing'.closed = [f EXCEPT ![k] = f[k] + 1]
  BY <1>1, <1>6 DEF Close
<1>8. /\ closing'.closed[k] = f[k] + 1
      /\ \A l \in Legs : l # k => closing'.closed[l] = f[l]
  BY <1>2, <1>7
<1>9. ASSUME NEW l \in Legs
      PROVE  /\ held'[l] <= held[l]
             /\ held'[l] + closing'.closed[l] = held[l] + closing.closed[l]
  <2>1. CASE l = k
    BY <1>2, <1>3, <1>5, <1>8, <2>1
  <2>2. CASE l # k
    BY <1>1, <1>2, <1>5, <1>8, <2>2
  <2> QED BY <2>1, <2>2
<1> QED BY <1>1, <1>5, <1>7, <1>9

LEMMA CloseFillsOn == ASSUME Owned, NEW k \in Legs, CloseFills(k) PROVE Owned'
<1>1. /\ Typed /\ OneAnswer /\ closing.on /\ UNCHANGED <<closeRest, book, task, saved, closes>>
      /\ held \in [Legs -> Nat] /\ held' \in [Legs -> Nat] /\ closing' \in Close
      /\ closing'.on = closing.on /\ closing'.kind = closing.kind
      /\ \A l \in Legs : /\ held'[l] <= held[l]
                         /\ held'[l] + closing'.closed[l] = held[l] + closing.closed[l]
  BY FillKeepsSum DEF Owned, Typed, WorldTyped, CloseFills
<1>2. (Taker' <=> Taker) /\ closing'.on
  BY <1>1 DEF Taker
<1>3. ASSUME NEW l \in Legs
      PROVE  /\ Beyond(l)' \in Nat /\ Beyond(l)' <= Beyond(l)
             /\ Over(l)' \in Nat /\ Over(l)' <= Over(l)
  <2>1. held[l] \in Nat /\ held'[l] \in Nat /\ held'[l] <= held[l] /\ book.matched \in Nat
    BY <1>1, OverIs
  <2>2. Beyond(l) \in Nat /\ Over(l) \in Nat /\ Over(l) = Less(held[l], book.matched)
    BY <1>1, OverIs
  <2>3. Baseline(l)' = book.matched
    <3>1. Baseline(l)' = Baseline(l)
      BY <1>1 DEF Baseline
    <3> QED BY <1>1, <3>1, OverIs
  <2>4. Over(l)' = Less(held'[l], book.matched)
    BY <2>3 DEF Over
  <2>5. Less(held'[l], book.matched) \in Nat
    BY <2>1, LessIs
  <2>6. Less(held'[l], book.matched) <= Less(held[l], book.matched)
    BY <2>1, LessFalls
  <2>7. CASE Taker
    <3>1. Taking(l) = closing.closed[l] /\ Taking(l)' = closing'.closed[l]
      BY <1>2, <2>7 DEF Taking
    <3>2. Beyond(l)' = Beyond(l)
      BY <1>1, <3>1 DEF Beyond
    <3> QED BY <2>2, <2>4, <2>5, <2>6, <3>2
  <2>8. CASE ~Taker
    <3>1. Taking(l)' = 0 /\ held'[l] + 0 = held'[l]
      BY <1>2, <2>1, <2>8 DEF Taking
    <3>2. Beyond(l)' = Less(held'[l], book.matched)
      BY <1>1, <3>1 DEF Beyond
    <3>3. Beyond(l) = Over(l)
      BY <1>1, <2>8, OverIs
    <3> QED BY <2>2, <2>4, <2>5, <2>6, <3>2, <3>3
  <2> QED BY <2>7, <2>8
<1>4. TasksTyped' /\ StepTyped'
  BY <1>1, TasksStay, StepSame DEF closeRest, driftVars
<1>5. Covered'
  BY <1>1, <1>3, CoveredSame DEF Owned, closeRest
<1>6. Remembered' /\ DriftFits'
  BY <1>1 DEF Owned, Remembered, DriftFits, closeRest, Drifting
<1>7. PassFits'
  <2> SUFFICES ASSUME step \in Lanes PROVE PassFits'
    BY <1>1 DEF PassFits, closeRest
  <2>1. /\ cur \in Origins /\ L \in Legs /\ ask.id >= 0 /\ task[cur].gap = -1 /\ ~Taker
        /\ (cur = "entry" /\ L \notin dust => ask.excess <= task["entry"].quantity)
        /\ Over(L) <= ask.excess
        /\ (step \in {"duplicate", "resolve"} => Seen(L, ask.id))
        /\ (step = "resolve" => Over(L) <= Less(ask.excess, Executed(L, ask.id)))
        /\ (~again /\ step # "resolve" =>
              ask.quantity <= Less(held[L] + closing.closed[L], book.matched))
    BY DEF Owned, PassFits
  <2>2. PICK l \in Legs, i \in Nat, x \in Nat : l = L /\ i = ask.id /\ x = ask.excess
    BY <1>1, <2>1 DEF Typed, StepTyped
  <2>3. /\ L' = l /\ ask' = ask /\ ask'.id = i /\ ask'.excess = x
        /\ UNCHANGED <<orders, step, cur, task, dust, again, book>>
    BY <1>1, <2>2 DEF L, closeRest
  <2>4. Over(l)' \in Nat /\ Over(l)' <= Over(l) /\ Over(l) \in Nat
    BY <1>1, <1>3, OverIs
  <2>5. (Seen(l, i)' <=> Seen(l, i)) /\ Executed(l, i)' = Executed(l, i)
    BY <2>3 DEF Seen, Executed
  <2>6. Over(l)' <= x
    BY <2>1, <2>2, <2>4
  <2>7. step = "resolve" => Over(l)' <= Less(x, Executed(l, i))
    <3> SUFFICES ASSUME step = "resolve" PROVE Over(l)' <= Less(x, Executed(l, i))
      OBVIOUS
    <3>1. Seen(l, i) /\ Over(l) <= Less(x, Executed(l, i))
      BY <2>1, <2>2
    <3>2. Executed(l, i) \in Nat
      BY <1>1, <3>1, ExecutedTyped
    <3>3. Less(x, Executed(l, i)) \in Nat
      BY <3>2, LessIs
    <3> QED BY <2>4, <3>1, <3>3
  <2>8. /\ Over(L)' = Over(l)' /\ Seen(L, ask.id)' = Seen(l, i)'
        /\ Executed(L, ask.id)' = Executed(l, i)'
    BY <2>3 DEF Over, Baseline, Seen, Executed
  <2>9. (Seen(L, ask.id)' <=> Seen(L, ask.id))
    BY <2>2, <2>5, <2>8
  <2>10. step' = "resolve" => Over(L)' <= Less(ask'.excess, Executed(L, ask.id)')
    BY <2>3, <2>5, <2>7, <2>8
  <2>11. ask'.quantity = ask.quantity
         /\ Less(held'[L'] + closing'.closed[L'], book'.matched)
              = Less(held[L] + closing.closed[L], book.matched)
    BY <1>1, <2>2, <2>3
  <2>12. ~Taker' /\ ask'.id >= 0 /\ task'[cur'].gap = -1 /\ L' \in Legs /\ Over(L)' <= ask'.excess
    BY <1>2, <2>1, <2>2, <2>3, <2>6, <2>8
  <2> QED BY <2>1, <2>2, <2>3, <2>9, <2>10, <2>11, <2>12 DEF PassFits
<1>8. book' \in Book /\ Counts(book)' /\ crashes' \in Nat
  BY <1>1 DEF Typed, WorldTyped, SetupTyped, Counts, closeRest
<1> QED BY <1>1, <1>2, <1>4, <1>5, <1>6, <1>7, <1>8, BookOn DEF closeRest

\* The record of a close: the book it leaves, if the position is out of it.
LEMMA RecordedOn ==
  ASSUME Typed, Remembered, orders' = orders, Writes(Recorded), crashes' = crashes,
         book' \in Book, Counts(book)', book'.matched <= book.matched,
         task'["entry"] = task["entry"]
  PROVE  SavedTyped' /\ Remembered'
<1>1. PICK s \in [book : Book, task : [Origins -> Task]] :
        /\ s = saved /\ Counts(s.book)
        /\ \A o \in Origins : Names(s.task[o]) /\ Asks(s.task[o])
  BY DEF Typed, TasksTyped
<1>2. PICK b \in Book : b = (IF book'.open THEN s.book ELSE book') /\ Counts(b)
  BY <1>1 DEF Counts
<1>3. Recorded = [book |-> b, task |-> s.task]
  BY <1>1, <1>2 DEF Recorded
<1>4. Writes([book |-> b, task |-> s.task])
  BY <1>3 DEF Writes
<1>5. SavedTyped'
  BY <1>1, <1>2, <1>4, WritesSame
<1>6. ASSUME crashes < MaxCrashes
      PROVE  book'.matched <= b.matched
  <2>1. CASE book'.open
    <3>1. b = s.book
      BY <1>2, <2>1
    <3>2. book.matched <= s.book.matched
      BY <1>1, <1>6 DEF Remembered
    <3>3. book'.matched \in Nat /\ book.matched \in Nat /\ s.book.matched \in Nat
      BY <1>1 DEF Typed, WorldTyped, Book
    <3> QED BY <3>1, <3>2, <3>3
  <2>2. CASE ~book'.open
    <3>1. b = book' /\ book'.matched \in Nat
      BY <1>2, <2>2 DEF Book
    <3> QED BY <3>1
  <2> QED BY <2>1, <2>2
<1>7. crashes < MaxCrashes => saved'.book = b /\ saved'.task = saved.task
  BY <1>1, <1>4 DEF Writes
<1>8. Remembered'
  BY <1>6, <1>7 DEF Remembered
<1> QED BY <1>5, <1>8

LEMMA CloseEndsOn ==
  ASSUME Owned, UNCHANGED <<closeRest, held>>, Writes(Recorded), step = "idle",
         closing.on, closing' = NoClose, book' \in Book, Counts(book)',
         book'.matched <= book.matched, task'["entry"] = task["entry"],
         \A l \in Legs : Beyond(l)' \in Nat /\ Beyond(l)' <= Beyond(l),
         NEW f \in [Origins -> Task], task' = f, \A o \in Origins : Names(f[o]) /\ Asks(f[o])
  PROVE  Owned'
<1>1. /\ Typed /\ OneAnswer /\ orders' = orders
      /\ UNCHANGED <<setup, held, dust, again, crashes, step, cur, ask, at, want, even, ok>>
  BY DEF Owned, closeRest, driftVars
<1>2. SavedTyped' /\ Remembered'
  BY <1>1, RecordedOn DEF Owned
<1>3. TasksTyped'
  <2>1. ASSUME NEW o \in Origins PROVE Names(task[o])' /\ Asks(task[o])'
    <3>1. PICK t \in Task : t = f[o] /\ Names(t) /\ Asks(t)
      OBVIOUS
    <3>2. Asks(t)' /\ task'[o] = t
      BY <1>1, <3>1, AsksSame
    <3> QED BY <3>1, <3>2 DEF Asks, Names
  <2> QED BY <1>2, <2>1 DEF TasksTyped, SavedTyped
<1>4. Covered'
  BY <1>1, CoveredSame DEF Owned
<1>5. StepTyped' /\ PassFits' /\ DriftFits'
  BY <1>1, StepSame DEF PassFits, DriftFits, Lanes, Drifting
<1>6. held' \in [Legs -> Nat] /\ crashes' \in Nat
  BY <1>1 DEF Typed, WorldTyped, SetupTyped
<1> QED BY <1>1, <1>2, <1>3, <1>4, <1>5, <1>6, NoCloseIs, BookOn

LEMMA MakerEndsOn == ASSUME Owned, MakerEnds PROVE Owned'
<1>1. /\ Typed /\ UNCHANGED <<closeRest, held, task>> /\ Writes(Recorded) /\ step = "idle"
      /\ closing.on /\ closing' = NoClose /\ book' = NoBook /\ \A l \in Legs : held[l] = 0
  BY DEF Owned, MakerEnds
<1>2. book' \in Book /\ Counts(book)' /\ book'.matched = 0
  BY <1>1 DEF NoBook, Book, Counts
<1>3. book'.matched <= book.matched
  BY <1>1, <1>2 DEF Typed, WorldTyped, Book
<1>4. \A l \in Legs : Beyond(l)' \in Nat /\ Beyond(l)' <= Beyond(l)
  <2> SUFFICES ASSUME NEW l \in Legs PROVE Beyond(l)' \in Nat /\ Beyond(l)' <= Beyond(l)
    OBVIOUS
  <2>1. Beyond(l)' = Less(0 + 0, 0)
    BY <1>1, <1>2, NoCloseIs DEF Beyond, Taking, Taker
  <2>2. Beyond(l)' = 0
    BY <2>1 DEF Less
  <2> QED BY <1>1, <2>2, OverIs
<1>5. task' = task /\ task \in [Origins -> Task] /\ \A o \in Origins : Names(task[o]) /\ Asks(task[o])
  BY <1>1, SaveTasks
<1> QED BY <1>1, <1>2, <1>3, <1>4, <1>5, CloseEndsOn

\* What both legs closed leaves the book, and no leg closed less.
LEMMA TakenLeaves ==
  ASSUME NEW h \in Nat, NEW m \in Nat, NEW c \in Nat, NEW least \in Nat, least <= c
  PROVE  /\ Less(m, least) \in Nat /\ Less(m, least) <= m
         /\ Less(h, Less(m, least)) \in Nat /\ Less(h, Less(m, least)) <= Less(h + c, m)
BY DEF Less

LEMMA ResidueIs ==
  ASSUME NEW l \in Legs, NEW n \in Nat
  PROVE  /\ [NoTask EXCEPT !.leg = l, !.quantity = n] \in Task
         /\ Names([NoTask EXCEPT !.leg = l, !.quantity = n])
         /\ Asks([NoTask EXCEPT !.leg = l, !.quantity = n])
<1>1. PICK s \in Task : s = NoTask /\ s.gap = -1
  BY NoTaskIs
<1> DEFINE u == [s EXCEPT !.leg = l, !.quantity = n]
<1>2. u \in Task /\ u.leg = l /\ u.gap = -1
  BY <1>1 DEF Task
<1>3. u = [NoTask EXCEPT !.leg = l, !.quantity = n]
  BY <1>1
<1> HIDE DEF u
<1>4. Names(u) /\ Asks(u)
  BY <1>2 DEF Names, Asks
<1> QED BY <1>2, <1>3, <1>4

LEMMA TakerEndsOn == ASSUME Owned, TakerEnds PROVE Owned'
<1>1. /\ Typed /\ UNCHANGED <<closeRest, held>> /\ Writes(Recorded)
      /\ closing.on /\ closing.kind = "taker" /\ closing' = NoClose /\ book' = AfterClose
  BY DEF Owned, TakerEnds
<1>2. step = "idle"
  BY <1>1 DEF Owned, Typed, StepTyped, PassFits, DriftFits, Taker
<1>3. PICK c \in [Legs -> Nat], m \in Nat, g \in [Legs -> Nat] :
        c = closing.closed /\ m = book.matched /\ g = book.leg
  BY <1>1 DEF Typed, WorldTyped, Close, Book
<1>4. PICK least \in Nat : least = Lesser(c["long"], c["short"]) /\ \A l \in Legs : least <= c[l]
  BY Legs2, BothLegs DEF Lesser
<1>5. PICK left \in Nat : left = Less(m, least) /\ left <= m
  BY LessIs
<1>6. book' = [open |-> left > 0, matched |-> left, leg |-> [l \in Legs |-> Less(g[l], c[l])]]
  BY <1>1, <1>3, <1>4, <1>5 DEF AfterClose
<1>7. [l \in Legs |-> Less(g[l], c[l])] \in [Legs -> Nat]
  BY LessIs
<1>8. book' \in Book /\ book'.matched = left /\ (left > 0 => book'.open)
  <2>1. PICK x \in BOOLEAN, y \in [Legs -> Nat] :
          (left > 0 => x) /\ book' = [open |-> x, matched |-> left, leg |-> y]
    <3>1. PICK y \in [Legs -> Nat] : y = [l \in Legs |-> Less(g[l], c[l])]
      BY <1>7
    <3>2. CASE left > 0
      <4>1. book' = [open |-> TRUE, matched |-> left, leg |-> y]
        BY <1>6, <3>1, <3>2
      <4> QED BY <4>1
    <3>3. CASE ~(left > 0)
      <4>1. (left > 0) = FALSE
        BY <3>3
      <4>2. book' = [open |-> (left > 0), matched |-> left, leg |-> y]
        BY <1>6, <3>1
      <4>3. book' = [open |-> FALSE, matched |-> left, leg |-> y]
        BY ONLY <4>1, <4>2
      <4> QED BY <3>3, <4>3
    <3> QED BY <3>2, <3>3
  <2> QED BY <2>1 DEF Book
<1>9. Counts(book)' /\ book'.matched <= book.matched
  BY <1>3, <1>5, <1>8 DEF Counts
<1>10. ASSUME NEW l \in Legs PROVE Beyond(l)' \in Nat /\ Beyond(l)' <= Beyond(l)
  <2>1. held[l] \in Nat /\ c[l] \in Nat /\ least <= c[l]
    BY <1>1, <1>4, OverIs
  <2>2. Beyond(l) = Less(held[l] + c[l], m)
    BY <1>1, <1>3 DEF Beyond, Taking, Taker
  <2>3. Beyond(l)' = Less(held[l] + 0, left)
    BY <1>1, <1>8, NoCloseIs DEF Beyond, Taking, Taker
  <2>4. held[l] + 0 = held[l]
    BY <2>1
  <2>5. Less(held[l], Less(m, least)) \in Nat
        /\ Less(held[l], Less(m, least)) <= Less(held[l] + c[l], m)
    BY <2>1, TakenLeaves
  <2> QED BY <1>5, <2>2, <2>3, <2>4, <2>5
<1>11. PICK t \in Task : Names(t) /\ Asks(t) /\ task' = [task EXCEPT !["close"] = t]
  <2>1. CASE UNCHANGED task
    <3>1. PICK t \in Task : t = task["close"] /\ Names(t) /\ Asks(t)
      BY <1>1, TaskIs, Legs2
    <3>2. task' = [task EXCEPT !["close"] = t]
      BY <1>1, <2>1, <3>1, SaveTasks
    <3> QED BY <3>1, <3>2
  <2>2. ASSUME NEW l \in Legs, Residual(l) > 0,
               task' = [task EXCEPT !["close"] = [NoTask EXCEPT !.leg = l, !.quantity = Residual(l)]]
        PROVE  \E t \in Task : Names(t) /\ Asks(t) /\ task' = [task EXCEPT !["close"] = t]
    <3>1. PICK n \in Nat : n = Residual(l)
      BY <1>3, LessIs, Legs2 DEF Residual
    <3> DEFINE u == [NoTask EXCEPT !.leg = l, !.quantity = n]
    <3>2. u \in Task /\ Names(u) /\ Asks(u)
      BY ResidueIs
    <3>3. task' = [task EXCEPT !["close"] = u]
      BY <2>2, <3>1
    <3> HIDE DEF u
    <3> QED BY <3>2, <3>3
  <2> QED BY <2>1, <2>2 DEF TakerEnds
<1>12. PICK f \in [Origins -> Task] :
         /\ task' = f /\ f["entry"] = task["entry"]
         /\ \A o \in Origins : Names(f[o]) /\ Asks(f[o])
  <2>1. task \in [Origins -> Task] /\ \A o \in Origins : Names(task[o]) /\ Asks(task[o])
    BY <1>1, SaveTasks
  <2>2. /\ task' \in [Origins -> Task] /\ task'["close"] = t
        /\ \A o \in Origins : o # "close" => task'[o] = task[o]
    BY <1>11, <2>1, Legs2
  <2>3. ASSUME NEW o \in Origins PROVE Names(task'[o]) /\ Asks(task'[o])
    <3>1. CASE o = "close"
      BY <1>11, <2>2, <3>1
    <3>2. CASE o # "close"
      BY <2>1, <2>2, <3>2
    <3> QED BY <3>1, <3>2
  <2>4. task'["entry"] = task["entry"]
    BY <2>2, Legs2
  <2> QED BY <2>2, <2>3, <2>4
<1> QED BY <1>1, <1>2, <1>8, <1>9, <1>10, <1>12, CloseEndsOn
-----------------------------------------------------------------------------
(* Snapshots, restarts, and the whole. *)

LEMMA SaveOn == ASSUME Owned, Save PROVE Owned'
<1>1. /\ Typed /\ OneAnswer /\ crashes < MaxCrashes /\ Writes([book |-> book, task |-> task])
      /\ UNCHANGED <<setup, held, orders, book, closing, repairVars, driftVars, crashes>>
  BY DEF Owned, Save
<1>2. PICK b \in Book : b = book /\ Counts(b)
  BY <1>1 DEF Typed, WorldTyped
<1>3. PICK f \in [Origins -> Task] : f = task /\ \A o \in Origins : Names(f[o]) /\ Asks(f[o])
  BY <1>1, SaveTasks
<1>4. SavedTyped'
  BY <1>1, <1>2, <1>3, WritesSame
<1>5. TasksTyped'
  BY <1>1, <1>4, TasksSame DEF TasksTyped, SavedTyped, repairVars
<1>6. StepTyped'
  BY <1>1, StepSame DEF repairVars, driftVars
<1>7. \A l \in Legs : Beyond(l)' \in Nat /\ Beyond(l)' <= Beyond(l)
  <2> SUFFICES ASSUME NEW l \in Legs PROVE Beyond(l)' \in Nat /\ Beyond(l)' <= Beyond(l)
    OBVIOUS
  <2>1. Beyond(l)' = Beyond(l)
    BY <1>1 DEF Beyond, Taking, Taker
  <2> QED BY <1>1, <2>1, OverIs
<1>8. Covered'
  BY <1>1, <1>7, CoveredSame DEF Owned, repairVars
<1>9. Remembered'
  <2>1. saved'.book = book' /\ saved'.task = task' /\ book'.matched \in Nat
    BY <1>1, <1>2 DEF Writes, repairVars, Book
  <2> QED BY <2>1 DEF Remembered
<1>10. PassFits' /\ DriftFits'
  <2>1. step' = "idle"
    BY <1>1 DEF Save, repairVars
  <2> QED BY <2>1 DEF PassFits, DriftFits, Lanes, Drifting
<1>11. /\ held' \in [Legs -> Nat] /\ book' \in Book /\ Counts(book)' /\ crashes' \in Nat
       /\ closing' \in Close /\ (~closing'.on => closing' = NoClose)
  BY <1>1 DEF Typed, WorldTyped, SetupTyped, Counts
<1> QED BY <1>1, <1>5, <1>6, <1>8, <1>9, <1>10, <1>11, BookOn DEF repairVars

LEMMA CrashOn == ASSUME Owned, Crash PROVE Owned'
<1>1. /\ Typed /\ OneAnswer /\ crashes < MaxCrashes /\ crashes' = crashes + 1
      /\ book' = saved.book /\ task' = saved.task
      /\ saved' = (IF crashes' < MaxCrashes THEN saved ELSE NoSave)
      /\ closing' = (IF closing.kind = "maker" THEN closing ELSE NoClose)
      /\ Ends /\ cur' = "none" /\ ask' = NoAsk
      /\ UNCHANGED <<setup, held, orders, dust, again>>
  BY DEF Owned, Crash
<1>2. /\ book.matched <= saved.book.matched
      /\ saved.task["entry"].leg = task["entry"].leg
      /\ saved.task["entry"].quantity = task["entry"].quantity
      /\ saved.task["entry"].gap >= 0 => saved.task["entry"].gap = task["entry"].gap
  BY <1>1 DEF Owned, Remembered
<1>3. /\ closing' \in Close /\ (~closing'.on => closing' = NoClose) /\ ~Taker'
  BY <1>1, NoCloseIs DEF Typed, WorldTyped, Taker
<1>4. crashes' \in Nat
  BY <1>1 DEF Typed, SetupTyped
<1>5. PICK s \in [book : Book, task : [Origins -> Task]] :
        /\ s = saved /\ Counts(s.book)
        /\ \A o \in Origins : Names(s.task[o]) /\ Asks(s.task[o])
  BY <1>1 DEF Typed, TasksTyped
<1>6. ASSUME NEW o \in Origins PROVE Names(task[o])' /\ Asks(task[o])'
  <2>1. PICK t \in Task : t = s.task[o] /\ Names(t) /\ Asks(t)
    BY <1>5
  <2>2. Asks(t)' /\ task'[o] = t
    BY <1>1, <1>5, <2>1, AsksSame
  <2> QED BY <2>1, <2>2 DEF Asks, Names
<1>7. SavedTyped'
  <2>1. CASE crashes' < MaxCrashes
    <3>1. saved' = saved
      BY <1>1, <2>1
    <3> QED BY <1>1, <3>1, SavedSame
  <2>2. CASE ~(crashes' < MaxCrashes)
    <3>1. saved' = NoSave
      BY <1>1, <2>2
    <3>2. \A k \in Origins : saved'.task[k] = NoTask
      BY <3>1, NoSaveIs
    <3>3. \A k \in Origins : Names(saved.task[k])' /\ Asks(saved.task[k])'
      BY <3>2, NoTaskIs DEF Names, Asks
    <3> QED BY <3>1, <3>3, NoSaveIs DEF Counts, SavedTyped
  <2> QED BY <2>1, <2>2
<1>8. TasksTyped'
  BY <1>1, <1>5, <1>6, <1>7 DEF TasksTyped, SavedTyped
<1>9. StepTyped'
  <2>1. NoAsk \in [quantity : Nat, id : Nat \cup {-1}, excess : Nat]
    BY DEF NoAsk
  <2>2. step' = "idle" /\ again' \in BOOLEAN
    BY <1>1 DEF Ends, Typed, StepTyped
  <2> QED BY <1>1, <2>1, <2>2, EndsTyped DEF StepTyped
<1>10. \A l \in Legs : Beyond(l)' \in Nat /\ Beyond(l)' <= Beyond(l)
  <2> SUFFICES ASSUME NEW l \in Legs PROVE Beyond(l)' \in Nat /\ Beyond(l)' <= Beyond(l)
    OBVIOUS
  <2>1. PICK h \in Nat, m \in Nat, c \in Nat, w \in Nat :
          h = held[l] /\ m = book.matched /\ c = Taking(l) /\ w = s.book.matched
    BY <1>1, OverIs DEF Book
  <2>2. m <= w
    BY <1>2, <1>5, <2>1
  <2>3. Beyond(l)' = Less(h + 0, w)
    BY <1>1, <1>3, <1>5, <2>1 DEF Beyond, Taking
  <2>4. Beyond(l) = Less(h + c, m)
    BY <2>1 DEF Beyond
  <2>5. Less(h + 0, w) \in Nat /\ Less(h + 0, w) <= Less(h + c, m)
    BY <2>2 DEF Less
  <2> QED BY <2>3, <2>4, <2>5
<1>11. task'["entry"].gap = task["entry"].gap \/ task'["entry"].gap = -1
  <2>1. s.task["entry"].gap \in Nat \cup {-1}
    BY Legs2 DEF Task
  <2> QED BY <1>1, <1>2, <1>5, <2>1
<1>12. Covered'
  BY <1>1, <1>2, <1>10, <1>11, CoveredSame DEF Owned
<1>13. Remembered'
  <2>1. book'.matched \in Nat
    BY <1>1, <1>5 DEF Book
  <2>2. crashes' < MaxCrashes => saved'.book = book' /\ saved'.task = task'
    BY <1>1
  <2> QED BY <2>1, <2>2 DEF Remembered
<1>14. PassFits' /\ DriftFits'
  BY <1>1 DEF PassFits, DriftFits, Ends, Lanes, Drifting
<1>15. held' \in [Legs -> Nat] /\ book' \in Book /\ Counts(book)'
  BY <1>1, <1>5 DEF Typed, WorldTyped, Counts
<1> QED BY <1>1, <1>3, <1>4, <1>8, <1>9, <1>12, <1>13, <1>14, <1>15, BookOn

LEMMA InitOwned == ASSUME Init PROVE Owned
<1>1. PICK e \in ExcessLegs, x \in Excess :
        /\ held = [l \in Legs |-> IF l = e THEN Matched + x ELSE Matched]
        /\ task = [o \in Origins |->
              IF o = "entry" THEN [NoTask EXCEPT !.leg = e, !.quantity = x] ELSE NoTask]
  BY DEF Init
<1>2. e \in Legs /\ x \in Nat \ {0} /\ setup.smallest \in Nat \ {0} /\ Matched \in Nat \ {0}
  <2>1. setup.smallest \in Smallest
    BY DEF Init
  <2> QED BY <2>1, RepairConstants
<1>3. /\ book = [open |-> TRUE, matched |-> Matched, leg |-> [l \in Legs |-> Matched]]
      /\ saved = [book |-> book, task |-> task] /\ orders = {} /\ closing = NoClose
      /\ step = "idle" /\ cur = "none" /\ ask = NoAsk /\ dust = {} /\ again = FALSE
      /\ at = "long" /\ want = NoWant /\ even = 0 /\ ok = TRUE /\ crashes = 0
  BY DEF Init
<1>4. PICK t \in Task : /\ t = [NoTask EXCEPT !.leg = e, !.quantity = x] /\ Names(t) /\ Asks(t)
                        /\ t.leg = e /\ t.quantity = x /\ t.gap = -1
  <2>1. /\ [NoTask EXCEPT !.leg = e, !.quantity = x].leg = e
        /\ [NoTask EXCEPT !.leg = e, !.quantity = x].quantity = x
        /\ [NoTask EXCEPT !.leg = e, !.quantity = x].gap = -1
    BY DEF NoTask
  <2> DEFINE u == [NoTask EXCEPT !.leg = e, !.quantity = x]
  <2>2. u \in Task /\ Names(u) /\ Asks(u)
    BY <1>2, ResidueIs
  <2>3. u.leg = e /\ u.quantity = x /\ u.gap = -1
    BY <2>1
  <2>4. u = [NoTask EXCEPT !.leg = e, !.quantity = x]
    OBVIOUS
  <2> HIDE DEF u
  <2> QED BY <2>2, <2>3, <2>4
<1>5. /\ task = [o \in Origins |-> IF o = "entry" THEN t ELSE NoTask] /\ task["entry"] = t
      /\ task \in [Origins -> Task] /\ \A o \in Origins : Names(task[o]) /\ Asks(task[o])
  <2>1. task = [o \in Origins |-> IF o = "entry" THEN t ELSE NoTask]
    BY <1>1, <1>4
  <2> QED BY <1>4, <2>1, NoTaskIs, Legs2
<1>6. book \in Book /\ Counts(book) /\ book.matched = Matched
  BY <1>2, <1>3 DEF Book, Counts
<1>7. /\ held \in [Legs -> Nat] /\ held[e] = Matched + x
      /\ \A l \in Legs : l # e => held[l] = Matched
  BY <1>1, <1>2
<1>8. TasksTyped
  <2>1. saved.book = book /\ saved.task = task /\ saved \in [book : Book, task : [Origins -> Task]]
    BY <1>3, <1>5, <1>6
  <2> QED BY <1>5, <1>6, <2>1 DEF TasksTyped
<1>9. StepTyped
  <2>1. NoAsk \in [quantity : Nat, id : Nat \cup {-1}, excess : Nat]
    BY DEF NoAsk
  <2> QED BY <1>3, <2>1, NoWantIs, Legs2 DEF StepTyped
<1>10. SetupTyped /\ WorldTyped /\ OneAnswer
  BY <1>1, <1>2, <1>3, <1>6, <1>7, NoCloseIs DEF SetupTyped, WorldTyped, OneAnswer
<1>11. Covered
  <2> SUFFICES ASSUME NEW l \in Legs, Beyond(l) > 0
               PROVE  t.leg = l /\ Beyond(l) <= Less(t.quantity, Sold(t, l))
    BY <1>5 DEF Covered
  <2>1. Beyond(l) = Less(held[l] + 0, Matched)
    BY <1>3, <1>6, NoCloseIs DEF Beyond, Taking, Taker
  <2>2. l = e
    <3>1. CASE l # e
      <4>1. held[l] + 0 = Matched
        BY <1>2, <1>7, <3>1
      <4>2. Beyond(l) = 0
        BY <1>2, <2>1, <4>1, LessIs
      <4> QED BY <4>2
    <3> QED BY <3>1
  <2>3. Beyond(l) = x
    <3>1. held[l] + 0 = Matched + x
      BY <1>2, <1>7, <2>2
    <3>2. Less(Matched + x, Matched) = x
      BY <1>2 DEF Less
    <3> QED BY <2>1, <3>1, <3>2
  <2>4. Sold(t, l) = 0
    BY <1>4 DEF Sold
  <2>5. Less(x, 0) = x
    BY <1>2, LessIs
  <2> QED BY <1>2, <1>4, <2>2, <2>3, <2>4, <2>5
<1>12. Remembered
  BY <1>2, <1>3, <1>6 DEF Remembered
<1>13. PassFits /\ DriftFits
  BY <1>3 DEF PassFits, DriftFits, Lanes, Drifting
<1> QED BY <1>8, <1>9, <1>10, <1>11, <1>12, <1>13 DEF Owned, Typed

LEMMA PassOn == ASSUME Owned, NEW o \in Origins, Pass(o), UNCHANGED driftVars PROVE Owned'
BY ProbeFailsOn, NothingOverOn, DustOn, SendOn, ResolveLaterOn DEF Pass

LEMMA LaneStepOn == ASSUME Owned, LaneStep, UNCHANGED driftVars PROVE Owned'
BY OrderAnsweredOn, OrderFailsOn, AckOnlyOn, DuplicateRefusedOn, DuplicateKnownOn, DuplicateOn,
   ResolveNowOn DEF LaneStep

LEMMA StutterOn == ASSUME Owned, UNCHANGED vars PROVE Owned'
<1>1. /\ Typed /\ OneAnswer
      /\ UNCHANGED <<setup, held, orders, book, closing, saved, task, step, cur, ask, dust, again,
                     at, want, even, ok, crashes>>
  BY DEF Owned, vars, repairVars, driftVars
<1>2. Typed' /\ OneAnswer'
  <2>1. SetupTyped' /\ OneAnswer' /\ StepTyped'
    BY <1>1 DEF Typed, SetupTyped, OneAnswer, StepTyped
  <2>2. WorldTyped'
    BY <1>1 DEF Typed, WorldTyped, Counts
  <2>3. TasksTyped'
    BY <1>1, TasksStay
  <2> QED BY <2>1, <2>2, <2>3 DEF Typed
<1>3. Covered' /\ Remembered'
  BY <1>1 DEF Owned, Covered, Remembered, Beyond, Taking, Taker, Sold, Executed
<1>4. PassFits' /\ DriftFits'
  BY <1>1 DEF Owned, PassFits, DriftFits, Taker, L, Over, Baseline, Seen, Executed, EvenNow
<1> QED BY <1>2, <1>3, <1>4 DEF Owned

LEMMA NextOwned == ASSUME Owned, [Next]_vars PROVE Owned'
<1>1. CASE \E o \in Origins : Pass(o) /\ UNCHANGED driftVars
  BY <1>1, PassOn
<1>2. CASE LaneStep /\ UNCHANGED driftVars
  BY <1>2, LaneStepOn
<1>3. CASE DriftFound \/ DriftStep
  BY <1>3, DriftFoundOn, FlattenOn, DriftCorrectedOn, DriftFailsOn DEF DriftStep
<1>4. CASE \E kind \in {"taker", "maker"} : CloseBegins(kind)
  BY <1>4, CloseBeginsOn
<1>5. CASE \E l \in Legs : CloseFills(l)
  BY <1>5, CloseFillsOn
<1>6. CASE TakerEnds \/ MakerEnds
  BY <1>6, TakerEndsOn, MakerEndsOn
<1>7. CASE Save \/ Crash
  BY <1>7, SaveOn, CrashOn
<1>8. CASE UNCHANGED vars
  BY <1>8, StutterOn
<1> QED BY <1>1, <1>2, <1>3, <1>4, <1>5, <1>6, <1>7, <1>8 DEF Next

LEMMA AlwaysOwned == Spec => []Owned
<1>1. Init => Owned
  BY InitOwned
<1>2. Owned /\ [Next]_vars => Owned'
  BY NextOwned
<1> QED BY <1>1, <1>2, PTL DEF Spec

LEMMA OwnedShows == ASSUME Owned PROVE ExcessOwned
<1> SUFFICES ASSUME step = "idle", ~closing.on, NEW l \in Legs, Over(l) > 0, l \notin dust
             PROVE  \E o \in Origins : task[o].leg = l
  BY DEF ExcessOwned
<1>1. Beyond(l) = Over(l)
  BY OverIs DEF Owned, Taker
<1>2. task["entry"].leg = l
  BY <1>1 DEF Owned, Covered
<1> QED BY <1>2, Legs2

\* What a leg holds beyond the matched quantity has an owner as long as the
\* position lives: the task of the entry that left it (residual_repair_runtime.py)
\* survives refused orders, lost answers, partial fills, duplicate ids, closes of
\* either kind, the drift check and restarts, until the rest is let go as dust.
THEOREM ExcessIsOwned == Spec => []ExcessOwned
BY AlwaysOwned, OwnedShows, PTL
-----------------------------------------------------------------------------
(* What the orders of the two lanes leave. *)

\* An order for what is beyond the book, less what a close has still to close.
LEMMA SaleLeaves ==
  ASSUME NEW h \in Nat, NEW c \in Nat, NEW m \in Nat, NEW d \in Nat, d <= h,
         d <= Less(h + c, m)
  PROVE  d = 0 \/ h - d >= Less(m, c)
BY DEF Less

LEMMA LeastOf ==
  ASSUME NEW a \in Nat, NEW b \in Nat, NEW n \in Nat, n >= a \/ n >= b
  PROVE  n >= Lesser(a, b)
BY DEF Lesser

\* A leg keeps the lesser of the two bounds if it keeps one of them.
LEMMA LeavesOne ==
  ASSUME Typed, NEW k \in Legs, NEW n \in Nat, held' = [held EXCEPT ![k] = n],
         \/ n = held[k]
         \/ n >= Less(Baseline(k), closing.closed[k])
         \/ n >= held[Other(k)]
  PROVE  LeavesPair
<1> SUFFICES ASSUME NEW l \in Legs, held'[l] # held[l]
             PROVE  held'[l] >= Lesser(Less(Baseline(l), closing.closed[l]), held[Other(l)])
  BY DEF LeavesPair
<1>1. held \in [Legs -> Nat] /\ closing.closed[k] \in Nat
  BY DEF Typed, WorldTyped, Close
<1>2. l = k /\ held'[k] = n /\ n # held[k]
  BY <1>1
<1>3. PICK a \in Nat, b \in Nat :
        a = Less(Baseline(k), closing.closed[k]) /\ b = held[Other(k)]
  <2>1. Baseline(k) \in Nat
    BY OverIs
  <2> QED BY <1>1, <2>1, LessIs, Legs2
<1> QED BY <1>2, <1>3, LeastOf

LEMMA SaleKeepsPair ==
  ASSUME Owned, ~again, step \in {"sent", "retry"},
         NEW done \in 0 .. ask.quantity, Executes(L, ask.id, ask.quantity, done)
  PROVE  LeavesPair
<1>1. /\ Typed /\ L \in Legs
      /\ ask.quantity <= Less(held[L] + closing.closed[L], book.matched)
  BY DEF Owned, PassFits, Lanes
<1>2. PICK k \in Legs : k = L
  BY <1>1
<1>3. PICK h \in Nat, c \in Nat, m \in Nat, q \in Nat :
        h = held[k] /\ c = closing.closed[k] /\ m = book.matched /\ q = ask.quantity
  BY <1>1, OverIs DEF Typed, WorldTyped, Close, StepTyped
<1>4. done \in Nat /\ done <= q /\ done <= h
  BY <1>2, <1>3 DEF Executes, Lesser
<1>5. Less(h + c, m) \in Nat /\ q <= Less(h + c, m)
  BY <1>1, <1>2, <1>3, LessIs
<1>6. done <= Less(h + c, m)
  BY <1>3, <1>4, <1>5
<1>7. PICK n \in Nat : n = h - done
  BY <1>4
<1>8. n = h \/ n >= Less(m, c)
  <2>1. done = 0 \/ h - done >= Less(m, c)
    BY <1>4, <1>6, SaleLeaves
  <2> QED BY <1>7, <2>1
<1>9. held' = [held EXCEPT ![k] = n]
  BY <1>2, <1>3, <1>7 DEF Executes
<1>10. Baseline(k) = m
  BY <1>1, <1>3, OverIs
<1> QED BY <1>1, <1>3, <1>8, <1>9, <1>10, LeavesOne

LEMMA FlattenKeepsPair == ASSUME Owned, Flatten PROVE LeavesPair
<1>1. /\ Typed /\ step = "flatten" /\ at \in Legs /\ want \in [Legs -> Nat] /\ even \in Nat
      /\ held \in [Legs -> Nat]
  BY DEF Owned, Flatten, Typed, StepTyped, WorldTyped
<1>2. CASE orders' = orders
  BY <1>2 DEF LeavesPair
<1>3. ASSUME want[at] > 0, NEW done \in 0 .. want[at], Executes(at, DriftId, want[at], done)
      PROVE  LeavesPair
  <2>1. PICK k \in Legs, w \in Nat : k = at /\ w = want[k]
    BY <1>1
  <2>2. held[k] = even + w /\ even = held[Other(k)]
    <3>1. CASE at = "long"
      BY <1>1, <1>3, <2>1, <3>1, BothLegs, Legs2 DEF Owned, DriftFits
    <3>2. CASE at = "short"
      BY <1>1, <1>3, <2>1, <3>2, BothLegs, Legs2 DEF Owned, DriftFits
    <3> QED BY <1>1, <3>1, <3>2, BothLegs
  <2>3. done \in Nat /\ done <= w
    BY <1>3, <2>1
  <2>4. PICK n \in Nat : n = held[k] - done /\ n >= even
    BY <1>1, <2>2, <2>3
  <2>5. held' = [held EXCEPT ![k] = n]
    BY <1>3, <2>1, <2>4 DEF Executes
  <2> QED BY <1>1, <2>2, <2>4, <2>5, LeavesOne
<1> QED BY <1>1, <1>2, <1>3 DEF Flatten, NoOrder

LEMMA NextKeepsPair == ASSUME Owned, [Next]_vars, ~again' PROVE LeavesPair
<1>1. CASE orders' = orders
  BY <1>1 DEF LeavesPair
<1>2. CASE OrderAnswered \/ OrderFails \/ AckOnly
  <2>1. step \in {"sent", "retry"} /\ ~again
    BY <1>2 DEF OrderAnswered, OrderFails, AckOnly, Out
  <2>2. CASE \E done \in 0 .. ask.quantity : Executes(L, ask.id, ask.quantity, done)
    BY <2>1, <2>2, SaleKeepsPair
  <2>3. \/ \E done \in 0 .. ask.quantity : Executes(L, ask.id, ask.quantity, done)
        \/ orders' = orders
    BY <1>2 DEF OrderAnswered, OrderFails, AckOnly, NoOrder
  <2> QED BY <1>1, <2>2, <2>3
<1>3. CASE Flatten
  BY <1>3, FlattenKeepsPair
<1>4. ASSUME NEW o \in Origins, Pass(o) PROVE orders' = orders
  BY <1>4 DEF Pass, ProbeFails, NothingOver, Dust, Send, ResolveLater, NoOrder
<1>5. CASE DuplicateUnknown \/ DuplicateKnown \/ DuplicateAgain \/ Duplicate \/ ResolveNow
  BY <1>1, <1>5 DEF DuplicateUnknown, DuplicateKnown, DuplicateAgain, Duplicate, ResolveNow, NoOrder
<1>6. CASE DriftFound \/ DriftCorrected \/ DriftFails
  BY <1>1, <1>6 DEF DriftFound, DriftCorrected, DriftFails, NoOrder
<1>7. ASSUME NEW kind \in {"taker", "maker"}, CloseBegins(kind) PROVE orders' = orders
  BY <1>7 DEF CloseBegins, closeRest
<1>8. ASSUME NEW l \in Legs, CloseFills(l) PROVE orders' = orders
  BY <1>8 DEF CloseFills, closeRest
<1>9. CASE TakerEnds \/ MakerEnds \/ Save \/ Crash \/ UNCHANGED vars
  BY <1>1, <1>9 DEF TakerEnds, MakerEnds, Save, Crash, closeRest, vars
<1> QED
  BY <1>1, <1>2, <1>3, <1>4, <1>5, <1>6, <1>7, <1>8, <1>9 DEF Next, LaneStep, DriftStep

\* No order of the repair lane or of the drift check (runtime.py) sells what the
\* two legs share, whatever was filled, answered, closed or lost between the
\* measurement and the order, unless a duplicate id was answered with an order
\* for the whole leg.
THEOREM OnlyExcessIsSold == Spec => OnlyExcessSold
<1>1. Owned /\ [Next]_vars => [~again' => LeavesPair]_vars
  BY NextKeepsPair
<1> QED BY <1>1, AlwaysOwned, PTL DEF Spec, OnlyExcessSold
=============================================================================
