-------------------------- MODULE PassiveOrderProofs --------------------------
(***************************************************************************)
(* What holds the lane back, for every capacity, refill, interval, limit   *)
(* of failures and cooldown, and any number of restarts.                   *)
(*                                                                         *)
(* The manager counts in its own way: it refills when it is asked and keeps *)
(* the end of a cooldown; the books count what was sent, tick by tick.     *)
(* Sound relates the two, for the lane and for the snapshot alike: tokens  *)
(* that a refill would give are in the books' bucket, the books' failures  *)
(* are no more than the manager's, and a wait of the books is no longer    *)
(* than the manager's.                                                     *)
(***************************************************************************)
EXTENDS PassiveOrder, TLAPS

Managers == [kind : {"manager"}, price : Prices \cup {0}, since : Never..Forever,
             stale : Never..Forever, tokens : 0..Capacity,
             failures : 0..(MaxFailures + 1), quiet : Never..Cooldown]
Dicts == [kind : {"dict"}, price : Prices, since : 0..Forever, failures : Nat]
Books == [bucket : Int, failures : 0..MaxFailures, wait : 0..Cooldown]

\* The tokens a refill gives now are in the bucket of the books.
Covered(m, b) ==
    IF m.stale = Never THEN b.bucket = Capacity
    ELSE b.bucket = Capacity \/ m.tokens + m.stale * Refill <= b.bucket

Left(m) == IF m.quiet > 0 THEN m.quiet ELSE 0

\* Failures that reached the limit were noted, and their cooldown runs or is over.
Noted(m) ==
    /\ m.since = Never => m.failures = 0
    /\ m.failures >= MaxFailures => m.since + Left(m) >= Cooldown

Sound(s, b) ==
    /\ b \in Books /\ b.bucket <= Capacity
    /\ IF s.kind = "manager"
       THEN /\ s \in Managers /\ Covered(s, b) /\ Noted(s)
            /\ b.failures <= s.failures /\ b.wait <= Left(s)
       ELSE (s = None \/ s \in Dicts) /\ b = Clean

Inductive ==
    /\ mid \in Prices
    /\ Sound(lane, books.now) /\ Sound(saved, books.saved)
    /\ books = [now |-> books.now, saved |-> books.saved]

-----------------------------------------------------------------------------
(* Numbers. *)

LEMMA Limits ==
  /\ One \in Nat /\ One > 0 /\ Capacity \in Nat /\ Capacity >= 2 * One
  /\ Refill \in Nat /\ Refill > 0 /\ MinAmend \in Nat /\ MinAmend > 0
  /\ MaxFailures \in Nat /\ MaxFailures > 0 /\ Cooldown \in Nat /\ Cooldown > 0
  /\ Never = -1
BY PassiveOrderAssumption DEF Never

LEMMA MaxOfTwo ==
  ASSUME NEW a \in Int, NEW b \in Int
  PROVE  Max({a, b}) = (IF a >= b THEN a ELSE b)
<1>1. CASE a >= b
  BY <1>1 DEF Max
<1>2. CASE a < b
  BY <1>2 DEF Max
<1> QED BY <1>1, <1>2

LEMMA MinOfTwo ==
  ASSUME NEW a \in Int, NEW b \in Int
  PROVE  Min({a, b}) = (IF a <= b THEN a ELSE b)
<1>1. CASE a <= b
  BY <1>1 DEF Min
<1>2. CASE a > b
  BY <1>2 DEF Min
<1> QED BY <1>1, <1>2

LEMMA MaxOfThree ==
  ASSUME NEW a \in Nat, NEW b \in Nat, NEW c \in Nat
  PROVE  /\ Max({a, b, c}) \in Nat
         /\ Max({a, b, c}) >= a /\ Max({a, b, c}) >= b /\ Max({a, b, c}) >= c
<1>1. \E most \in {a, b, c} : \A x \in {a, b, c} : most >= x
  <2>1. CASE a >= b /\ a >= c
    BY <2>1
  <2>2. CASE b >= a /\ b >= c
    BY <2>2
  <2>3. CASE c >= a /\ c >= b
    BY <2>3
  <2> QED BY <2>1, <2>2, <2>3
<1> QED BY <1>1 DEF Max

\* As many refills as that fill a bucket.
LEMMA FillsUp ==
  ASSUME NEW c \in Nat, NEW r \in Nat, r > 0
  PROVE  c \div r + 1 \in Nat /\ (c \div r + 1) * r >= c
OBVIOUS

LEMMA MoreFills ==
  ASSUME NEW r \in Nat, NEW n \in Nat, NEW m \in Nat, n >= m
  PROVE  n * r >= m * r
OBVIOUS

LEMMA OneMoreFill ==
  ASSUME NEW r \in Nat, NEW n \in Nat
  PROVE  (n + 1) * r = n * r + r /\ n * r \in Nat
OBVIOUS

LEMMA ForeverIsLong ==
  /\ Forever \in Nat /\ Forever >= MinAmend /\ Forever >= Cooldown
  /\ Forever * Refill >= Capacity
<1> DEFINE full == Capacity \div Refill + 1
<1>1. full \in Nat /\ full * Refill >= Capacity
  BY Limits, FillsUp
<1>2. Forever = Max({MinAmend, Cooldown, full})
  BY DEF Forever
<1> HIDE DEF full
<1>3. /\ Forever \in Nat /\ Forever >= MinAmend /\ Forever >= Cooldown
      /\ Forever >= full
  BY <1>1, <1>2, Limits, MaxOfThree
<1>4. Forever * Refill >= full * Refill
  BY <1>1, <1>3, Limits, MoreFills
<1>5. Forever * Refill \in Nat /\ full * Refill \in Nat
  BY <1>1, <1>3, Limits, OneMoreFill
<1> QED BY <1>1, <1>3, <1>4, <1>5, Limits

LEMMA OlderAge ==
  ASSUME NEW age \in Never..Forever
  PROVE  /\ Older(age, 1) \in Never..Forever
         /\ age = Never => Older(age, 1) = Never
         /\ age # Never => Older(age, 1) = (IF age = Forever THEN Forever ELSE age + 1)
<1>1. Forever \in Nat /\ Never = -1
  BY ForeverIsLong, Limits
<1>2. CASE age = Never
  BY <1>1, <1>2 DEF Older
<1>3. CASE age # Never
  <2>1. Older(age, 1) = (IF age + 1 <= Forever THEN age + 1 ELSE Forever)
    BY <1>1, <1>3, MinOfTwo DEF Older
  <2> QED BY <1>1, <1>3, <2>1
<1> QED BY <1>2, <1>3

LEMMA SoonerLeft ==
  ASSUME NEW left \in Never..Cooldown
  PROVE  /\ Sooner(left, 1) \in Never..Cooldown
         /\ left = Never => Sooner(left, 1) = Never
         /\ left # Never => Sooner(left, 1) = (IF left = 0 THEN 0 ELSE left - 1)
<1>1. Cooldown \in Nat /\ Never = -1
  BY Limits
<1>2. CASE left = Never
  BY <1>1, <1>2 DEF Sooner
<1>3. CASE left # Never
  <2>1. Sooner(left, 1) = (IF left - 1 >= 0 THEN left - 1 ELSE 0)
    BY <1>1, <1>3, MaxOfTwo DEF Sooner
  <2> QED BY <1>1, <1>3, <2>1
<1> QED BY <1>2, <1>3

-----------------------------------------------------------------------------
(* The manager's operations. *)

LEMMA ManagerFields ==
  ASSUME NEW m \in Managers
  PROVE  /\ m.kind = "manager" /\ m.price \in Prices \cup {0}
         /\ m.since \in Never..Forever /\ m.stale \in Never..Forever
         /\ m.tokens \in 0..Capacity /\ m.failures \in 0..(MaxFailures + 1)
         /\ m.quiet \in Never..Cooldown /\ Left(m) \in 0..Cooldown
<1>1. m.quiet \in Never..Cooldown
  BY DEF Managers
<1>2. Left(m) \in 0..Cooldown
  BY <1>1, Limits DEF Left
<1> QED BY <1>2 DEF Managers

LEMMA InRange ==
  /\ 0 \in Never..Forever /\ Never \in Never..Forever
  /\ Never \in Never..Cooldown /\ 0 \in Never..Cooldown /\ Cooldown \in Never..Cooldown
  /\ 0 \in 0..(MaxFailures + 1) /\ Capacity \in 0..Capacity
  /\ 0 \in 0..MaxFailures /\ 0 \in 0..Cooldown /\ Cooldown \in 0..Cooldown
BY Limits, ForeverIsLong

LEMMA FreshIs == Fresh \in Managers /\ Sound(Fresh, Clean)
<1>1. Fresh \in Managers
  BY InRange DEF Fresh, Managers
<1>2. /\ Fresh.kind = "manager" /\ Fresh.stale = Never /\ Fresh.since = Never
      /\ Fresh.failures = 0 /\ Fresh.quiet = Never
  BY DEF Fresh
<1>3. Clean \in Books /\ Clean.bucket = Capacity /\ Clean.failures = 0 /\ Clean.wait = 0
  BY Limits, InRange DEF Clean, Books
<1>4. Noted(Fresh) /\ Left(Fresh) = 0
  BY <1>2, Limits DEF Noted, Left
<1> QED BY <1>1, <1>2, <1>3, <1>4, Limits DEF Sound, Covered

\* A refill gives no more than the books have.
LEMMA RefilledIs ==
  ASSUME NEW m \in Managers, NEW b \in Books, b.bucket <= Capacity, Covered(m, b)
  PROVE  /\ Refilled(m) \in Managers
         /\ Refilled(m).tokens <= b.bucket /\ Refilled(m).stale = 0
         /\ Refilled(m).price = m.price /\ Refilled(m).since = m.since
         /\ Refilled(m).failures = m.failures /\ Refilled(m).quiet = m.quiet
<1> DEFINE given == m.tokens + m.stale * Refill
           tokens == IF m.stale = Never THEN Capacity ELSE Min({Capacity, given})
<1>1. m.tokens \in Nat /\ m.tokens <= Capacity /\ m.stale \in Never..Forever
  BY ManagerFields, Limits
<1>2. m.stale # Never => m.stale \in Nat /\ given \in Nat
  <2>1. m.stale # Never => m.stale \in Nat
    BY <1>1, Limits, ForeverIsLong
  <2> QED BY <1>1, <2>1, Limits, OneMoreFill
<1>3. b.bucket \in Int /\ (m.stale # Never => b.bucket = Capacity \/ given <= b.bucket)
      /\ (m.stale = Never => b.bucket = Capacity)
  BY DEF Books, Covered
<1> HIDE DEF given
<1>4. tokens \in 0..Capacity /\ tokens <= b.bucket
  <2>1. CASE m.stale = Never
    BY <1>3, <2>1, Limits
  <2>2. CASE m.stale # Never
    <3>1. tokens = IF Capacity <= given THEN Capacity ELSE given
      BY <1>2, <2>2, MinOfTwo, Limits
    <3> QED BY <1>2, <1>3, <2>2, <3>1, Limits
  <2> QED BY <2>1, <2>2
<1>5. Refilled(m) = [m EXCEPT !.stale = 0, !.tokens = tokens]
  BY DEF Refilled, given, Managers
<1> HIDE DEF tokens
<1> QED BY <1>4, <1>5, InRange DEF Managers

\* A second refill at the same time gives nothing.
LEMMA RefilledAtOnce ==
  ASSUME NEW m \in Managers, m.stale = 0
  PROVE  Refilled(m) = m
<1>1. m.tokens \in Nat /\ m.tokens <= Capacity /\ m.tokens + 0 * Refill = m.tokens
  BY ManagerFields, Limits
<1>2. Min({Capacity, m.tokens + 0 * Refill}) = m.tokens
  BY <1>1, Limits, MinOfTwo
<1>3. 0 # Never
  BY Limits
<1>4. Refilled(m) = [m EXCEPT !.stale = 0, !.tokens = m.tokens]
  BY <1>2, <1>3 DEF Refilled, Managers
<1> QED BY <1>4 DEF Managers

LEMMA NoteOperationIs ==
  ASSUME NEW m \in Managers, m.stale = 0, m.tokens >= One
  PROVE  /\ NoteOperation(m) \in Managers
         /\ NoteOperation(m).tokens = m.tokens - One
         /\ NoteOperation(m).stale = 0 /\ NoteOperation(m).since = 0
         /\ NoteOperation(m).price = m.price /\ NoteOperation(m).failures = m.failures
         /\ NoteOperation(m).quiet = m.quiet
<1> DEFINE rest == m.tokens - One
<1>1. rest \in 0..Capacity
  BY ManagerFields, Limits
<1>2. Max({0, m.tokens - One}) = rest
  BY <1>1, MaxOfTwo, ManagerFields, Limits
<1>3. NoteOperation(m) = [m EXCEPT !.tokens = rest, !.since = 0]
  BY <1>2, RefilledAtOnce DEF NoteOperation, Managers
<1> HIDE DEF rest
<1>4. /\ NoteOperation(m) \in Managers /\ NoteOperation(m).tokens = rest
      /\ NoteOperation(m).stale = 0 /\ NoteOperation(m).since = 0
      /\ NoteOperation(m).price = m.price /\ NoteOperation(m).failures = m.failures
      /\ NoteOperation(m).quiet = m.quiet
  BY <1>1, <1>3, InRange DEF Managers
<1> QED BY <1>4 DEF rest

LEMMA NoteSuccessIs ==
  ASSUME NEW m \in Managers, m.stale = 0
  PROVE  /\ NoteSuccess(m) \in Managers
         /\ NoteSuccess(m).tokens = m.tokens /\ NoteSuccess(m).stale = 0
         /\ NoteSuccess(m).since = 0 /\ NoteSuccess(m).failures = 0
         /\ NoteSuccess(m).quiet = Never /\ NoteSuccess(m).price = m.price
<1>1. NoteSuccess(m) = [m EXCEPT !.failures = 0, !.since = 0, !.quiet = Never]
  BY RefilledAtOnce DEF NoteSuccess
<1> QED BY <1>1, InRange DEF Managers

\* One failure more, up to one above the limit.
Again(n) == IF n <= MaxFailures THEN n + 1 ELSE MaxFailures + 1

LEMMA AgainIs ==
  ASSUME NEW n \in 0..(MaxFailures + 1)
  PROVE  /\ Min({n + 1, MaxFailures + 1}) = Again(n)
         /\ Again(n) \in 0..(MaxFailures + 1)
         /\ Again(n) >= 1 /\ Again(n) >= n
BY Limits, MinOfTwo DEF Again

LEMMA NoteFailureIs ==
  ASSUME NEW m \in Managers, m.stale = 0
  PROVE  /\ NoteFailure(m) \in Managers
         /\ NoteFailure(m).tokens = m.tokens /\ NoteFailure(m).stale = 0
         /\ NoteFailure(m).since = 0 /\ NoteFailure(m).price = m.price
         /\ NoteFailure(m).failures = Again(m.failures)
         /\ Again(m.failures) >= MaxFailures => NoteFailure(m).quiet = Cooldown
         /\ Again(m.failures) < MaxFailures => NoteFailure(m).quiet = m.quiet
<1> DEFINE n == Again(m.failures)
           quiet == IF n >= MaxFailures THEN Cooldown ELSE m.quiet
<1>1. m.failures \in 0..(MaxFailures + 1) /\ m.quiet \in Never..Cooldown
  BY ManagerFields
<1>2. n \in 0..(MaxFailures + 1) /\ Min({m.failures + 1, MaxFailures + 1}) = n
  BY <1>1, AgainIs
<1>3. quiet \in Never..Cooldown
  BY <1>1, InRange
<1>4. NoteFailure(m) = [m EXCEPT !.failures = n, !.since = 0, !.quiet = quiet]
  BY <1>2, RefilledAtOnce DEF NoteFailure, Managers
<1> HIDE DEF n, quiet
<1>5. /\ NoteFailure(m) \in Managers
      /\ NoteFailure(m).tokens = m.tokens /\ NoteFailure(m).stale = 0
      /\ NoteFailure(m).since = 0 /\ NoteFailure(m).price = m.price
      /\ NoteFailure(m).failures = n /\ NoteFailure(m).quiet = quiet
  BY <1>2, <1>3, <1>4, InRange DEF Managers
<1>6. (n >= MaxFailures => quiet = Cooldown) /\ (n < MaxFailures => quiet = m.quiet)
  BY <1>2, Limits DEF quiet
<1> QED BY <1>5, <1>6 DEF n

-----------------------------------------------------------------------------
(* Sound stays. *)

LEMMA SoundManager ==
  ASSUME NEW s, NEW b, Sound(s, b), s.kind = "manager"
  PROVE  /\ s \in Managers /\ b \in Books /\ b.bucket <= Capacity /\ Covered(s, b)
         /\ Noted(s) /\ b.failures <= s.failures /\ b.wait <= Left(s)
BY DEF Sound

LEMMA SoundElse ==
  ASSUME NEW s, NEW b, Sound(s, b), s.kind # "manager"
  PROVE  (s = None \/ s \in Dicts) /\ b = Clean
BY DEF Sound

LEMMA BooksFields ==
  ASSUME NEW b \in Books
  PROVE  b.bucket \in Int /\ b.failures \in 0..MaxFailures /\ b.wait \in 0..Cooldown
BY DEF Books

LEMMA DecidedSound ==
  ASSUME NEW m, NEW b, Sound(m, b), m.kind = "manager"
  PROVE  /\ Decided(m) \in Managers /\ Sound(Decided(m), b)
         /\ Decided(m).price = m.price /\ Decided(m).since = m.since
         /\ Decided(m).failures = m.failures
         /\ ~Cooling(m) => /\ Decided(m).stale = 0 /\ Decided(m).quiet = Never
                           /\ Decided(m).tokens <= b.bucket /\ b.wait = 0
<1>1. /\ m \in Managers /\ b \in Books /\ b.bucket <= Capacity /\ Covered(m, b)
      /\ Noted(m) /\ b.failures <= m.failures /\ b.wait <= Left(m)
  BY SoundManager
<1>2. CASE Cooling(m)
  BY <1>1, <1>2 DEF Decided
<1>3. CASE ~Cooling(m)
  <2> DEFINE r == Refilled(m)
             d == [r EXCEPT !.quiet = Never]
  <2>1. /\ r \in Managers /\ r.tokens <= b.bucket /\ r.stale = 0 /\ r.price = m.price
        /\ r.since = m.since /\ r.failures = m.failures
    BY <1>1, RefilledIs
  <2>2. Decided(m) = d
    BY <1>3 DEF Decided
  <2> HIDE DEF r
  <2>3. /\ d \in Managers /\ d.tokens <= b.bucket /\ d.stale = 0 /\ d.price = m.price
        /\ d.since = m.since /\ d.failures = m.failures /\ d.quiet = Never
    BY <2>1, InRange DEF Managers
  <2> HIDE DEF d
  <2>4. Left(m) = 0 /\ Left(d) = 0
    BY <1>3, <2>3, Limits DEF Left, Cooling
  <2>5. Noted(d)
    BY <1>1, <2>3, <2>4 DEF Noted
  <2>6. Covered(d, b)
    <3>1. d.tokens \in Int /\ b.bucket \in Int /\ 0 # Never
      BY <2>3, ManagerFields, BooksFields, <1>1, Limits
    <3>2. d.tokens + 0 * Refill <= b.bucket
      BY <2>3, <3>1, Limits
    <3> QED BY <2>3, <3>1, <3>2 DEF Covered
  <2>7. b.wait = 0
    BY <1>1, <2>4, BooksFields
  <2>8. Sound(d, b)
    BY <1>1, <2>3, <2>4, <2>5, <2>6, <2>7, ManagerFields DEF Sound
  <2> QED BY <2>2, <2>3, <2>7, <2>8
<1> QED BY <1>2, <1>3

LEMMA PriceSound ==
  ASSUME NEW m, NEW b, Sound(m, b), m.kind = "manager", NEW p \in Prices
  PROVE  /\ Sound([m EXCEPT !.price = p], b)
         /\ [m EXCEPT !.price = p] \in Managers
<1> DEFINE n == [m EXCEPT !.price = p]
<1>1. /\ m \in Managers /\ b \in Books /\ b.bucket <= Capacity /\ Covered(m, b)
      /\ Noted(m) /\ b.failures <= m.failures /\ b.wait <= Left(m)
  BY SoundManager
<1>2. /\ n \in Managers /\ n.kind = "manager" /\ n.since = m.since /\ n.stale = m.stale
      /\ n.tokens = m.tokens /\ n.failures = m.failures /\ n.quiet = m.quiet
  BY <1>1 DEF Managers
<1> HIDE DEF n
<1>3. Left(n) = Left(m) /\ Noted(n) /\ Covered(n, b)
  BY <1>1, <1>2 DEF Left, Noted, Covered
<1>4. Sound(n, b)
  BY <1>1, <1>2, <1>3 DEF Sound
<1> QED BY <1>2, <1>4 DEF n

\* A tick: the age of the last refill grows with the bucket, a wait ends with
\* the cooldown.
LEMMA LaterSound ==
  ASSUME NEW s, NEW b, Sound(s, b) PROVE Sound(Later(s, 1), Passed(b))
<1> DEFINE c == Passed(b)
           more == b.bucket + Refill
           bucket == Min({Capacity, more})
           wait == Sooner(b.wait, 1)
<1>0. b \in Books /\ b.bucket <= Capacity
  BY DEF Sound
<1>1. /\ more \in Int /\ bucket \in Int /\ bucket <= Capacity
      /\ bucket = (IF Capacity <= more THEN Capacity ELSE more)
  BY <1>0, BooksFields, Limits, MinOfTwo
<1>2. wait \in 0..Cooldown /\ wait = (IF b.wait = 0 THEN 0 ELSE b.wait - 1)
  <2>1. b.wait \in 0..Cooldown /\ b.wait \in Never..Cooldown /\ b.wait # Never
    BY <1>0, BooksFields, Limits
  <2>2. wait = (IF b.wait = 0 THEN 0 ELSE b.wait - 1)
    BY <2>1, SoonerLeft
  <2> QED BY <2>1, <2>2, Limits
<1>3. c = [b EXCEPT !.bucket = bucket, !.wait = wait]
  BY <1>0 DEF Passed, Books
<1> HIDE DEF bucket, wait, c
<1>4. c \in Books /\ c.bucket = bucket /\ c.wait = wait /\ c.failures = b.failures
  BY <1>0, <1>1, <1>2, <1>3 DEF Books
<1>5. CASE s.kind = "manager"
  <2> DEFINE n == Later(s, 1)
  <2>1. /\ s \in Managers /\ Covered(s, b) /\ Noted(s)
        /\ b.failures <= s.failures /\ b.wait <= Left(s)
    BY <1>5, SoundManager
  <2>2. n = [s EXCEPT !.since = Older(s.since, 1), !.stale = Older(s.stale, 1),
                      !.quiet = Sooner(s.quiet, 1)]
    BY <1>5, <2>1 DEF Later, Managers
  <2>3. /\ s.since \in Never..Forever /\ s.stale \in Never..Forever
        /\ s.quiet \in Never..Cooldown
    BY <2>1, ManagerFields
  <2>4. /\ Older(s.since, 1) \in Never..Forever /\ Older(s.stale, 1) \in Never..Forever
        /\ Sooner(s.quiet, 1) \in Never..Cooldown
    BY <2>3, OlderAge, SoonerLeft
  <2> HIDE DEF n
  <2>5. /\ n \in Managers /\ n.kind = "manager" /\ n.since = Older(s.since, 1)
        /\ n.stale = Older(s.stale, 1) /\ n.quiet = Sooner(s.quiet, 1)
        /\ n.tokens = s.tokens /\ n.failures = s.failures
    BY <2>1, <2>2, <2>4 DEF Managers
  <2>6. Left(n) = (IF Left(s) > 0 THEN Left(s) - 1 ELSE 0)
    <3>1. CASE s.quiet = Never
      BY <2>3, <2>5, <3>1, SoonerLeft, Limits DEF Left
    <3>2. CASE s.quiet # Never
      <4>1. n.quiet = (IF s.quiet = 0 THEN 0 ELSE s.quiet - 1) /\ s.quiet \in Nat
        BY <2>3, <2>5, <3>2, SoonerLeft, Limits
      <4> QED BY <4>1 DEF Left
    <3> QED BY <3>1, <3>2
  <2>7. Covered(n, c)
    <3>1. CASE s.stale = Never
      <4>1. n.stale = Never /\ b.bucket = Capacity
        BY <2>1, <2>3, <2>5, <3>1, OlderAge DEF Covered
      <4>2. bucket = Capacity
        BY <1>1, <4>1, Limits
      <4> QED BY <1>4, <4>1, <4>2 DEF Covered
    <3>2. CASE s.stale # Never
      <4>1. s.stale \in Nat /\ s.stale <= Forever /\ s.tokens \in Nat
            /\ b.bucket \in Int
        BY <1>0, <2>1, <2>3, <3>2, ManagerFields, BooksFields, Limits
      <4>2. b.bucket = Capacity \/ s.tokens + s.stale * Refill <= b.bucket
        BY <2>1, <3>2 DEF Covered
      <4>3. CASE bucket = Capacity
        <5>1. n.stale # Never
          BY <2>3, <2>5, <3>2, <4>1, OlderAge, ForeverIsLong, Limits
        <5> QED BY <1>4, <4>3, <5>1 DEF Covered
      <4>4. CASE bucket # Capacity
        <5>1. s.tokens + s.stale * Refill <= b.bucket /\ bucket = b.bucket + Refill
              /\ b.bucket < Capacity
          BY <1>0, <1>1, <4>1, <4>2, <4>4, Limits
        <5>2. s.stale # Forever
          <6>1. Forever * Refill \in Nat
            BY ForeverIsLong, Limits, OneMoreFill
          <6> QED BY <4>1, <5>1, <6>1, ForeverIsLong, Limits
        <5>3. n.stale = s.stale + 1
          BY <2>3, <2>5, <3>2, <5>2, OlderAge
        <5>4. n.stale * Refill = s.stale * Refill + Refill /\ s.stale * Refill \in Nat
          BY <4>1, <5>3, Limits, OneMoreFill
        <5>5. n.tokens + n.stale * Refill <= bucket
          BY <2>5, <4>1, <5>1, <5>4, Limits
        <5>6. n.stale # Never
          BY <4>1, <5>3, Limits
        <5> QED BY <1>4, <5>5, <5>6 DEF Covered
      <4> QED BY <4>3, <4>4
    <3> QED BY <3>1, <3>2
  <2>8. Noted(n)
    <3>1. n.since = Never <=> s.since = Never
      BY <2>3, <2>5, OlderAge, ForeverIsLong, Limits
    <3>2. ASSUME n.failures >= MaxFailures PROVE n.since + Left(n) >= Cooldown
      <4>1. s.since # Never /\ s.since + Left(s) >= Cooldown
        BY <2>1, <2>5, <3>2, Limits DEF Noted
      <4>2. n.since = (IF s.since = Forever THEN Forever ELSE s.since + 1)
        BY <2>3, <2>5, <4>1, OlderAge
      <4>3. Left(s) \in 0..Cooldown /\ s.since \in Nat /\ Forever >= Cooldown
            /\ Forever \in Nat
        BY <2>1, <2>3, <4>1, ManagerFields, ForeverIsLong, Limits
      <4> QED BY <2>6, <4>1, <4>2, <4>3, Limits
    <3>3. n.since = Never => n.failures = 0
      BY <2>1, <2>5, <3>1 DEF Noted
    <3> QED BY <3>2, <3>3 DEF Noted
  <2>9. c.failures <= n.failures /\ c.wait <= Left(n)
    <3>1. Left(s) \in 0..Cooldown /\ b.wait \in 0..Cooldown
      BY <1>0, <2>1, ManagerFields, BooksFields
    <3> QED BY <1>2, <1>4, <2>1, <2>5, <2>6, <3>1
  <2> QED BY <1>1, <1>4, <2>5, <2>7, <2>8, <2>9 DEF Sound, n, c
<1>6. CASE s.kind # "manager"
  <2>1. (s = None \/ s \in Dicts) /\ b = Clean
    BY <1>6, SoundElse
  <2>2. c = Clean
    <3>1. b.bucket = Capacity /\ b.wait = 0
      BY <2>1 DEF Clean
    <3>2. bucket = Capacity /\ wait = 0
      BY <1>1, <1>2, <3>1, Limits
    <3> QED BY <1>3, <2>1, <3>2 DEF Clean
  <2>3. Later(s, 1) = None \/ Later(s, 1) \in Dicts
    <3>1. CASE s = None
      BY <3>1 DEF Later, None
    <3>2. CASE s \in Dicts
      <4>1. s.kind = "dict" /\ s.since \in Never..Forever /\ s.since # Never
        BY <3>2, ForeverIsLong, Limits DEF Dicts
      <4>2. Older(s.since, 1) \in 0..Forever
        BY <4>1, OlderAge, ForeverIsLong, Limits
      <4>3. Later(s, 1) = [s EXCEPT !.since = Older(s.since, 1)]
        BY <3>2, <4>1 DEF Later, Dicts
      <4> QED BY <3>2, <4>2, <4>3 DEF Dicts
    <3> QED BY <2>1, <3>1, <3>2
  <2>4. Later(s, 1).kind # "manager"
    BY <2>3 DEF None, Dicts
  <2> QED BY <1>1, <1>4, <2>2, <2>3, <2>4 DEF Sound, c
<1> QED BY <1>5, <1>6

\* Read back from the snapshot, with the books of the snapshot.
LEMMA RestoredSound ==
  ASSUME NEW s, NEW b, Sound(s, b) PROVE Sound(Restored(s), b)
<1>0. b \in Books /\ b.bucket <= Capacity
  BY DEF Sound
<1>1. CASE s = None
  BY <1>1 DEF Restored, None
<1>2. CASE s \in Dicts
  <2>1. s.kind = "dict" /\ s.price \in Prices
    BY <1>2 DEF Dicts
  <2>2. b = Clean
    BY <2>1, SoundElse
  <2>3. Restored(s) = [Fresh EXCEPT !.price = s.price]
    BY <2>1 DEF Restored
  <2>4. Fresh.kind = "manager"
    BY FreshIs, ManagerFields
  <2> QED BY <2>1, <2>2, <2>3, <2>4, FreshIs, PriceSound
<1>3. CASE s.kind = "manager"
  <2> DEFINE again == IF s.since = Never THEN 0 ELSE Min({s.failures, MaxFailures})
             noted == IF again >= MaxFailures THEN Max({0, Cooldown - s.since}) ELSE Never
             quiet == IF s.quiet = Never THEN noted ELSE s.quiet
             n == Restored(s)
  <2>1. /\ s \in Managers /\ Covered(s, b) /\ Noted(s)
        /\ b.failures <= s.failures /\ b.wait <= Left(s)
    BY <1>3, SoundManager
  <2>2. /\ s.since \in Never..Forever /\ s.failures \in 0..(MaxFailures + 1)
        /\ s.quiet \in Never..Cooldown
    BY <2>1, ManagerFields
  <2>3. /\ again \in 0..MaxFailures
        /\ again = (IF s.failures <= MaxFailures THEN s.failures ELSE MaxFailures)
    <3>1. s.since = Never => s.failures = 0
      BY <2>1 DEF Noted
    <3>2. Min({s.failures, MaxFailures}) =
            (IF s.failures <= MaxFailures THEN s.failures ELSE MaxFailures)
      BY <2>2, Limits, MinOfTwo
    <3> QED BY <2>2, <3>1, <3>2, Limits
  <2> HIDE DEF again
  <2>4. /\ noted \in Never..Cooldown
        /\ again >= MaxFailures => noted + s.since >= Cooldown /\ noted >= 0
    <3>1. CASE again >= MaxFailures
      <4>1. s.since # Never
        BY <2>1, <2>2, <2>3, <3>1, Limits DEF Noted
      <4>2. s.since \in Nat
        BY <2>2, <4>1, Limits, ForeverIsLong
      <4>3. noted = (IF 0 >= Cooldown - s.since THEN 0 ELSE Cooldown - s.since)
        BY <3>1, <4>2, Limits, MaxOfTwo
      <4> HIDE DEF noted
      <4> QED BY <4>2, <4>3, Limits
    <3>2. CASE again < MaxFailures
      BY <2>3, <3>2, InRange, Limits
    <3> QED BY <2>3, <3>1, <3>2, Limits
  <2>5. Restored(s) = [s EXCEPT !.failures = again, !.quiet = quiet]
    BY <1>3, <2>1 DEF Restored, again, Managers
  <2> HIDE DEF noted
  <2>6. quiet \in Never..Cooldown
    BY <2>2, <2>4
  <2>7. again \in 0..(MaxFailures + 1)
    BY <2>3, Limits
  <2> HIDE DEF quiet, n
  <2>8. /\ n \in Managers /\ n.kind = "manager" /\ n.since = s.since /\ n.stale = s.stale
        /\ n.tokens = s.tokens /\ n.failures = again /\ n.quiet = quiet
    BY <2>1, <2>5, <2>6, <2>7 DEF Managers, n
  <2>9. Left(s) <= Left(n) /\ (again >= MaxFailures => n.since + Left(n) >= Cooldown)
    <3>1. CASE s.quiet = Never
      <4>1. quiet = noted
        BY <3>1 DEF quiet
      <4>2. Left(s) = 0
        BY <3>1, Limits DEF Left
      <4>3. Left(n) = (IF noted > 0 THEN noted ELSE 0)
        BY <2>8, <4>1 DEF Left
      <4> QED BY <2>2, <2>4, <2>8, <4>2, <4>3, Limits, ForeverIsLong
    <3>2. CASE s.quiet # Never
      <4>1. Left(n) = Left(s)
        BY <2>8, <3>2 DEF Left, quiet
      <4>2. again >= MaxFailures => s.failures >= MaxFailures
        BY <2>2, <2>3, Limits
      <4>3. Left(s) \in 0..Cooldown
        BY <2>1, ManagerFields
      <4> QED BY <2>1, <2>8, <4>1, <4>2, <4>3 DEF Noted
    <3> QED BY <3>1, <3>2
  <2>10. Noted(n)
    <3>1. s.failures = 0 => again = 0
      BY <2>3, Limits
    <3> QED BY <2>1, <2>8, <2>9, <3>1 DEF Noted
  <2>11. Covered(n, b)
    BY <2>1, <2>8 DEF Covered
  <2>12. b.failures <= n.failures /\ b.wait <= Left(n)
    <3>1. b.failures \in 0..MaxFailures /\ b.wait \in 0..Cooldown
      BY <1>0, BooksFields
    <3>2. Left(s) \in 0..Cooldown /\ Left(n) \in 0..Cooldown
      BY <2>1, <2>8, ManagerFields
    <3> QED BY <2>1, <2>2, <2>3, <2>8, <2>9, <3>1, <3>2, Limits
  <2>13. Sound(n, b)
    BY <1>0, <2>8, <2>10, <2>11, <2>12 DEF Sound
  <2> QED BY <2>13 DEF n
<1> QED BY <1>1, <1>2, <1>3, SoundElse

-----------------------------------------------------------------------------
(* The lane's actions. *)

\* The manager an event of the books asks.
LEMMA ManagerSound ==
  ASSUME Inductive
  PROVE  Sound(Manager, books.now) /\ Manager.kind = "manager"
<1>1. CASE lane.kind = "manager"
  BY <1>1 DEF Manager, Inductive
<1>2. CASE lane.kind # "manager"
  <2>1. Manager = Fresh /\ books.now = Clean
    BY <1>2, SoundElse DEF Manager, Inductive
  <2> QED BY <2>1, FreshIs, ManagerFields
<1> QED BY <1>1, <1>2

LEMMA InitInductive == Init => Inductive
<1>1. Clean \in Books /\ Clean.bucket <= Capacity
  BY FreshIs DEF Sound
<1>2. Sound(None, Clean)
  BY <1>1 DEF Sound, None
<1> QED BY <1>2 DEF Init, Inductive

LEMMA TickInductive == ASSUME Inductive, Tick PROVE Inductive'
<1>1. Sound(Later(lane, 1), Passed(books.now)) /\ Sound(Later(saved, 1), Passed(books.saved))
  BY LaterSound DEF Inductive
<1>2. /\ lane' = Later(lane, 1) /\ saved' = Later(saved, 1) /\ mid' = mid
      /\ books' = [now |-> Passed(books.now), saved |-> Passed(books.saved)]
  BY DEF Tick
<1>3. books'.now = Passed(books.now) /\ books'.saved = Passed(books.saved)
  BY <1>2
<1>4. Sound(lane', books'.now) /\ Sound(saved', books'.saved)
  BY <1>1, <1>2, <1>3
<1> QED BY <1>2, <1>3, <1>4 DEF Inductive, Sound, Covered, Noted, Left

LEMMA ObserveInductive == ASSUME Inductive, Observe PROVE Inductive'
<1>1. Sound(Decided(Manager), books.now) /\ Decided(Manager) \in Managers
  BY ManagerSound, DecidedSound
<1>2. Sound([Decided(Manager) EXCEPT !.price = mid], books.now)
  BY <1>1, PriceSound, ManagerFields DEF Inductive
<1>3. Sound(lane', books.now)
  BY <1>1, <1>2 DEF Observe
<1> QED BY <1>3 DEF Observe, Inductive, Sound, Covered, Noted, Left

\* A cancel-replace asks for two tokens.
LEMMA ReplacedManager ==
  ASSUME Inductive, Decision(Manager, mid) = "replace"
  PROVE  /\ ~Cooling(Manager)
         /\ Decided(Manager).tokens >= 2 * One
<1> DEFINE d == Decided(Manager)
<1>1. d \in Managers
  BY ManagerSound, DecidedSound
<1>2. d.tokens \in Nat
  BY <1>1, ManagerFields, Limits
<1>3. ~Cooling(Manager)
  BY DEF Decision
<1>4. ~(d.tokens < 2 * One)
  BY <1>2, Limits DEF Decision
<1> QED BY <1>2, <1>3, <1>4, Limits

LEMMA ReplaceInductive == ASSUME Inductive, Replace PROVE Inductive' /\ books.now.wait = 0
<1> DEFINE d == Decided(Manager)
           o == NoteOperation(d)
           m == NoteOperation(o)
           b == books.now
           rest == d.tokens - 2 * One
<1>1. ~Cooling(Manager) /\ d.tokens >= 2 * One
  BY ReplacedManager DEF Replace
<1>2. /\ d \in Managers /\ d.failures = Manager.failures /\ d.stale = 0
      /\ d.quiet = Never /\ d.tokens <= b.bucket /\ b.wait = 0
  BY <1>1, ManagerSound, DecidedSound
<1>3. /\ b \in Books /\ b.bucket <= Capacity /\ b.failures <= Manager.failures
      /\ b.bucket \in Int /\ b.failures \in 0..MaxFailures
  BY ManagerSound, SoundManager, BooksFields
<1>4. d.tokens \in 0..Capacity /\ d.failures \in 0..(MaxFailures + 1)
  BY <1>2, ManagerFields
<1> HIDE DEF d, b
<1>5. /\ o \in Managers /\ o.tokens = d.tokens - One /\ o.stale = 0
      /\ o.failures = d.failures /\ o.quiet = Never
  <2>1. d.tokens >= One
    BY <1>1, <1>4, Limits
  <2> QED BY <1>2, <2>1, NoteOperationIs
<1>6. o.tokens >= One
  BY <1>1, <1>4, <1>5, Limits
<1> HIDE DEF o
<1>7. /\ m \in Managers /\ m.tokens = o.tokens - One /\ m.stale = 0
      /\ m.failures = d.failures /\ m.quiet = Never
  BY <1>5, <1>6, NoteOperationIs
<1>8. m.tokens = rest /\ rest <= b.bucket - 2 * One /\ rest \in Nat
  BY <1>1, <1>2, <1>3, <1>4, <1>5, <1>7, Limits
<1> HIDE DEF m, rest
<1>9. PICK drive \in Drives :
        /\ lane' = IF drive.raised THEN NoteFailure(m) ELSE [NoteSuccess(m) EXCEPT !.price = mid]
        /\ books' = [books EXCEPT !.now = Accounted(@, drive.raised)]
  BY DEF Replace, m, o, d
<1>10. mid \in Prices /\ UNCHANGED <<mid, saved>>
       /\ books = [now |-> books.now, saved |-> books.saved]
  BY DEF Replace, Inductive
<1> DEFINE c == Accounted(b, drive.raised)
<1>11. books' = [now |-> c, saved |-> books.saved]
  BY <1>9, <1>10 DEF b
<1>12. c.bucket = b.bucket - 2 * One /\ c.bucket \in Int /\ c.bucket <= Capacity
       /\ rest <= c.bucket
  BY <1>3, <1>8, Limits DEF Accounted
<1>13. CASE drive.raised
  <2> DEFINE n == NoteFailure(m)
             f == IF b.failures + 1 <= MaxFailures THEN b.failures + 1 ELSE MaxFailures
  <2>1. /\ n \in Managers /\ n.tokens = rest /\ n.stale = 0 /\ n.since = 0
        /\ n.failures = Again(d.failures)
        /\ Again(d.failures) >= MaxFailures => n.quiet = Cooldown
        /\ Again(d.failures) < MaxFailures => n.quiet = Never
    BY <1>7, <1>8, NoteFailureIs
  <2>2. Min({b.failures + 1, MaxFailures}) = f /\ f \in 0..MaxFailures
    BY <1>3, MinOfTwo, Limits
  <2> HIDE DEF f
  <2>3. c = [bucket |-> b.bucket - 2 * One, failures |-> f,
             wait |-> IF f >= MaxFailures THEN Cooldown ELSE 0]
    BY <1>13, <2>2 DEF Accounted
  <2>4. c.failures = f /\ c.wait = (IF f >= MaxFailures THEN Cooldown ELSE 0)
    BY <2>3
  <2>5. c \in Books
    BY <1>3, <2>2, <2>3, Limits, InRange DEF Books
  <2> HIDE DEF n, c
  <2>6. Again(d.failures) \in 0..(MaxFailures + 1) /\ f <= Again(d.failures)
        /\ Again(d.failures) >= 1
    BY <1>2, <1>3, <1>4, <2>2, AgainIs, Limits DEF Again, f
  <2>7. Left(n) \in 0..Cooldown /\ (Again(d.failures) >= MaxFailures => Left(n) = Cooldown)
    BY <2>1, ManagerFields, Limits DEF Left
  <2>8. Noted(n)
    BY <2>1, <2>6, <2>7, Limits DEF Noted
  <2>9. Covered(n, c)
    <3>1. n.stale * Refill = 0
      BY <2>1, Limits
    <3>2. n.tokens + n.stale * Refill <= c.bucket
      BY <1>8, <1>12, <2>1, <3>1
    <3> QED BY <2>1, <3>2, Limits DEF Covered
  <2>10. c.failures <= n.failures /\ c.wait <= Left(n)
    BY <2>1, <2>2, <2>4, <2>6, <2>7, Limits
  <2>11. Sound(n, c)
    BY <1>12, <2>1, <2>5, <2>8, <2>9, <2>10, ManagerFields DEF Sound
  <2>12. lane' = n /\ books'.now = c /\ books'.saved = books.saved
    <3>1. lane' = NoteFailure(m)
      BY <1>9, <1>13
    <3>2. books'.now = c /\ books'.saved = books.saved
      BY <1>11
    <3> QED BY <3>1, <3>2 DEF n
  <2>13. /\ Sound(lane', books'.now) /\ Sound(saved', books'.saved) /\ mid' \in Prices
        /\ books' = [now |-> books'.now, saved |-> books'.saved]
    BY <1>10, <1>11, <2>11, <2>12 DEF Inductive
  <2> QED BY <1>2, <2>13 DEF b, Inductive, Sound, Covered, Noted, Left
<1>14. CASE ~drive.raised
  <2> DEFINE n == NoteSuccess(m)
  <2>1. /\ n \in Managers /\ n.tokens = rest /\ n.stale = 0 /\ n.since = 0
        /\ n.failures = 0 /\ n.quiet = Never
    BY <1>7, <1>8, NoteSuccessIs
  <2>2. c = [bucket |-> b.bucket - 2 * One, failures |-> 0, wait |-> 0]
    BY <1>14, Limits DEF Accounted
  <2>3. c \in Books /\ c.failures = 0 /\ c.wait = 0
    BY <1>3, <1>12, <2>2, Limits, InRange DEF Books
  <2> HIDE DEF n, c
  <2>4. Left(n) = 0 /\ Noted(n)
    BY <2>1, Limits DEF Left, Noted
  <2>5. Covered(n, c)
    <3>1. n.stale * Refill = 0
      BY <2>1, Limits
    <3>2. n.tokens + n.stale * Refill <= c.bucket
      BY <1>8, <1>12, <2>1, <3>1
    <3> QED BY <2>1, <3>2, Limits DEF Covered
  <2>6. Sound(n, c)
    BY <1>12, <2>1, <2>3, <2>4, <2>5, ManagerFields DEF Sound
  <2>7. Sound([n EXCEPT !.price = mid], c)
    BY <1>10, <2>1, <2>6, PriceSound, ManagerFields
  <2>8. lane' = [n EXCEPT !.price = mid] /\ books'.now = c /\ books'.saved = books.saved
    BY <1>9, <1>11, <1>14 DEF n
  <2>9. /\ Sound(lane', books'.now) /\ Sound(saved', books'.saved) /\ mid' \in Prices
        /\ books' = [now |-> books'.now, saved |-> books'.saved]
    BY <1>10, <1>11, <2>7, <2>8 DEF Inductive
  <2> QED BY <1>2, <2>9 DEF b, Inductive, Sound, Covered, Noted, Left
<1> QED BY <1>13, <1>14

LEMMA SidecarInductive == ASSUME Inductive, Sidecar PROVE Inductive'
<1>1. mid \in Prices /\ Sound(lane, books.now) /\ UNCHANGED <<mid, saved, books>>
  BY DEF Inductive, Sidecar
<1>2. lane.kind # "manager"
  BY DEF Sidecar
<1>3. lane' \in Dicts
  <2>1. CASE lane' = [kind |-> "dict", price |-> mid, since |-> 0, failures |-> 0]
    BY <1>1, <2>1, ForeverIsLong DEF Dicts
  <2>0. 0 \in 0..Forever
    BY ForeverIsLong
  <2>2. CASE lane.kind = "dict" /\ lane' = [lane EXCEPT !.price = mid, !.since = 0, !.failures = 0]
    <3>1. lane \in Dicts
      BY <1>1, <1>2, <2>2, SoundElse DEF None
    <3> QED BY <1>1, <2>0, <2>2, <3>1 DEF Dicts
  <2>3. CASE lane.kind = "dict" /\ lane' = [lane EXCEPT !.since = 0, !.failures = @ + 1]
    <3>1. lane \in Dicts
      BY <1>1, <1>2, <2>3, SoundElse DEF None
    <3> DEFINE more == lane.failures + 1
    <3>2. more \in Nat
      BY <3>1 DEF Dicts
    <3>3. lane' = [lane EXCEPT !.since = 0, !.failures = more]
      BY <2>3
    <3> HIDE DEF more
    <3> QED BY <2>0, <3>1, <3>2, <3>3 DEF Dicts
  <2> QED BY <2>1, <2>2, <2>3 DEF Sidecar
<1>4. lane'.kind # "manager" /\ books.now = Clean
  BY <1>1, <1>2, <1>3, SoundElse DEF Dicts
<1>5. Sound(lane', books.now)
  BY <1>1, <1>3, <1>4 DEF Sound
<1> QED BY <1>1, <1>5 DEF Inductive, Sound, Covered, Noted, Left

LEMMA SaveInductive == ASSUME Inductive, Save PROVE Inductive'
<1>1. /\ saved' = lane /\ UNCHANGED <<mid, lane>>
      /\ books' = [now |-> books.now, saved |-> books.now]
  BY DEF Save, Inductive
<1>2. books'.now = books.now /\ books'.saved = books.now
  BY <1>1
<1>3. Sound(lane', books'.now) /\ Sound(saved', books'.saved)
  BY <1>1, <1>2 DEF Inductive
<1> QED BY <1>1, <1>2, <1>3 DEF Inductive, Sound, Covered, Noted, Left

LEMMA RestartInductive == ASSUME Inductive, Restart PROVE Inductive'
<1>1. Sound(Restored(saved), books.saved)
  BY RestoredSound DEF Inductive
<1>2. /\ lane' = Restored(saved) /\ saved' = Restored(saved) /\ mid' = mid
      /\ books' = [now |-> books.saved, saved |-> books.saved]
  BY DEF Restart, Inductive
<1>3. books'.now = books.saved /\ books'.saved = books.saved
  BY <1>2
<1>4. Sound(lane', books'.now) /\ Sound(saved', books'.saved)
  BY <1>1, <1>2, <1>3
<1> QED BY <1>2, <1>3, <1>4 DEF Inductive, Sound, Covered, Noted, Left

LEMMA NextInductive == ASSUME Inductive, [Next]_vars PROVE Inductive'
<1>1. CASE Move
  BY <1>1 DEF Move, Inductive, Sound, Covered, Noted, Left
<1>2. CASE UNCHANGED vars
  BY <1>2 DEF vars, Inductive, Sound, Covered, Noted, Left
<1> QED BY <1>1, <1>2, TickInductive, ObserveInductive, ReplaceInductive, SidecarInductive,
        SaveInductive, RestartInductive DEF Next

LEMMA AlwaysInductive == Spec => []Inductive
BY InitInductive, NextInductive, PTL DEF Spec

-----------------------------------------------------------------------------
(* What follows. *)

\* The tokens of PassiveOrderManager stay in the bucket, its failures are
\* counted to one above the limit, a cooldown is no longer than configured: in
\* the lane and in the snapshot.
THEOREM TypesHold == Spec => []TypeOK
<1>1. Inductive => TypeOK
  BY SoundManager, ManagerFields DEF Inductive, TypeOK
<1> QED BY <1>1, AlwaysInductive, PTL

\* decide() never lets out more than a bucket that is refilled tick by tick,
\* however seldom the manager refills and however often the process restarts.
THEOREM BudgetIsHeld == Spec => []BudgetHeld
<1>1. ASSUME Inductive PROVE BudgetHeld
  <2>1. CASE lane.kind = "manager"
    <3>1. lane \in Managers /\ books.now \in Books /\ Covered(lane, books.now)
      BY <1>1, <2>1, SoundManager DEF Inductive
    <3>2. lane.tokens \in Nat /\ books.now.bucket \in Int /\ lane.stale \in Never..Forever
      BY <3>1, ManagerFields, BooksFields, Limits
    <3>3. lane.stale # Never => lane.stale * Refill \in Nat
      <4>1. lane.stale # Never => lane.stale \in Nat
        BY <3>2, Limits, ForeverIsLong
      <4> QED BY <4>1, Limits, OneMoreFill
    <3> QED BY <3>1, <3>2, <3>3, Limits DEF Covered, BudgetHeld
  <2>2. CASE lane.kind # "manager"
    <3>1. books.now = Clean
      BY <1>1, <2>2, SoundElse DEF Inductive
    <3> QED BY <3>1, Limits DEF Clean, BudgetHeld
  <2> QED BY <2>1, <2>2
<1> QED BY <1>1, AlwaysInductive, PTL

\* After max_consecutive_failures drives that raised nothing is sent until
\* failure_cooldown_ms have passed, whatever restarts in between.
THEOREM CooldownIsHonoured == Spec => CooldownHonoured
<1>1. ASSUME Inductive, [Next]_vars PROVE [driven' # "nothing" => books.now.wait = 0]_vars
  <2>1. CASE Replace
    BY <1>1, <2>1, ReplaceInductive
  <2>2. CASE Tick \/ Move \/ Observe \/ Sidecar \/ Save \/ Restart
    BY <2>2 DEF Tick, Move, Observe, Sidecar, Save, Restart
  <2> QED BY <1>1, <2>1, <2>2 DEF Next
<1> QED BY <1>1, AlwaysInductive, PTL DEF Spec, CooldownHonoured

-----------------------------------------------------------------------------
(* A manager that was read back decides alike. *)

Counted(n) == IF n <= MaxFailures THEN n ELSE MaxFailures

\* What reading it back changes: the count above the limit, and a cooldown that
\* is over is there again, with nothing left.
LEMMA RestoredIs ==
  ASSUME NEW s \in Managers, Noted(s)
  PROVE  \E quiet \in Never..Cooldown :
            /\ Restored(s) = [s EXCEPT !.failures = Counted(s.failures), !.quiet = quiet]
            /\ s.quiet # Never => quiet = s.quiet
            /\ s.quiet = Never => quiet \in {Never, 0}
<1> DEFINE again == IF s.since = Never THEN 0 ELSE Min({s.failures, MaxFailures})
           noted == IF again >= MaxFailures THEN Max({0, Cooldown - s.since}) ELSE Never
           quiet == IF s.quiet = Never THEN noted ELSE s.quiet
<1>1. /\ s.kind = "manager" /\ s.since \in Never..Forever
      /\ s.failures \in 0..(MaxFailures + 1) /\ s.quiet \in Never..Cooldown
  BY ManagerFields
<1>2. again = Counted(s.failures) /\ again \in 0..MaxFailures
  <2>1. s.since = Never => s.failures = 0
    BY DEF Noted
  <2>2. Min({s.failures, MaxFailures}) = Counted(s.failures)
    BY <1>1, Limits, MinOfTwo DEF Counted
  <2> QED BY <1>1, <2>1, <2>2, Limits DEF Counted
<1> HIDE DEF again
<1>3. s.quiet = Never => noted \in {Never, 0}
  <2> SUFFICES ASSUME s.quiet = Never, again >= MaxFailures PROVE noted = 0
    BY <1>2, Limits
  <2>1. Left(s) = 0
    BY Limits DEF Left
  <2>2. s.failures >= MaxFailures /\ s.failures # 0
    BY <1>1, <1>2, Limits DEF Counted
  <2>3. s.since # Never /\ s.since + Left(s) >= Cooldown
    BY <2>2 DEF Noted
  <2>4. s.since \in Nat /\ s.since >= Cooldown
    BY <1>1, <2>1, <2>3, Limits, ForeverIsLong
  <2>5. Max({0, Cooldown - s.since}) = 0
    BY <2>4, Limits, MaxOfTwo
  <2> QED BY <2>5
<1>4. Restored(s) = [s EXCEPT !.failures = again, !.quiet = quiet]
  BY <1>1 DEF Restored, again, Managers
<1> HIDE DEF noted
<1>5. quiet \in Never..Cooldown
  BY <1>1, <1>3, InRange
<1> QED BY <1>2, <1>3, <1>4, <1>5

\* A manager at some later time.
Aged == [kind : {"manager"}, price : Prices \cup {0}, since : Int, stale : Int,
         tokens : Int, failures : Int, quiet : Int]

LEMMA ManagersAge ==
  ASSUME NEW m \in Managers, NEW n \in 0..Forever
  PROVE  /\ Later(m, n) \in Aged
         /\ Later(m, n).price = m.price /\ Later(m, n).tokens = m.tokens
         /\ Later(m, n).since = Older(m.since, n)
         /\ Later(m, n).stale = Older(m.stale, n)
         /\ Later(m, n).quiet = Sooner(m.quiet, n)
<1>1. /\ m.kind = "manager" /\ m.since \in Int /\ m.stale \in Int /\ m.quiet \in Int
      /\ m.tokens \in Int /\ m.failures \in Int /\ n \in Int /\ Forever \in Int
      /\ Never \in Int
  BY ManagerFields, Limits, ForeverIsLong
<1>2. \A age \in Int : Older(age, n) \in Int /\ Sooner(age, n) \in Int
  <2> TAKE age \in Int
  <2>1. Min({age + n, Forever}) \in Int
    BY <1>1, MinOfTwo
  <2>2. Max({age - n, 0}) \in Int
    BY <1>1, MaxOfTwo
  <2> QED BY <1>1, <2>1, <2>2 DEF Older, Sooner
<1>3. /\ Older(m.since, n) \in Int /\ Older(m.stale, n) \in Int /\ Sooner(m.quiet, n) \in Int
  BY <1>1, <1>2
<1>4. Later(m, n) = [m EXCEPT !.since = Older(m.since, n), !.stale = Older(m.stale, n),
                              !.quiet = Sooner(m.quiet, n)]
  BY <1>1 DEF Later, Managers
<1> QED BY <1>1, <1>3, <1>4 DEF Managers, Aged

\* decide() looks at the price, the tokens, the two ages and whether it cools.
LEMMA SameDecision ==
  ASSUME NEW a \in Aged, NEW c \in Aged, NEW p,
         a.price = c.price, a.tokens = c.tokens, a.since = c.since, a.stale = c.stale,
         Cooling(a) <=> Cooling(c)
  PROVE  Decision(a, p) = Decision(c, p)
<1>1. CASE Cooling(a)
  BY <1>1 DEF Decision
<1>2. CASE ~Cooling(a)
  <2> DEFINE tokens == IF a.stale = Never THEN Capacity
                       ELSE Min({Capacity, a.tokens + a.stale * Refill})
             d == Decided(a)
             e == Decided(c)
  <2>1. tokens \in Int
    <3>1. a.tokens + a.stale * Refill \in Int
      BY Limits DEF Aged
    <3> QED BY <3>1, Limits, MinOfTwo
  <2> HIDE DEF tokens
  <2>2. /\ d = [a EXCEPT !.stale = 0, !.tokens = tokens, !.quiet = Never]
        /\ e = [c EXCEPT !.stale = 0, !.tokens = tokens, !.quiet = Never]
    BY <1>2 DEF Decided, Refilled, tokens, Aged
  <2>3. /\ d.tokens = tokens /\ e.tokens = tokens
        /\ d.price = a.price /\ e.price = a.price
        /\ d.since = a.since /\ e.since = a.since
    BY <2>2 DEF Aged
  <2> HIDE DEF d, e
  <2>4. CASE tokens < One
    BY <1>2, <2>3, <2>4 DEF Decision, d, e
  <2>5. CASE tokens >= One
    <3>1. ~(tokens < One)
      BY <2>1, <2>5, Limits
    <3>2. CASE a.price = 0
      BY <1>2, <2>3, <2>5, <3>1, <3>2 DEF Decision, d, e
    <3>3. CASE a.price # 0
      BY <1>2, <2>3, <2>5, <3>1, <3>3 DEF Decision, d, e
    <3> QED BY <3>2, <3>3
  <2> QED BY <2>1, <2>4, <2>5, Limits
<1> QED BY <1>1, <1>2

\* A failure noted above the limit is one noted at the limit.
LEMMA FailureAlike ==
  ASSUME NEW m \in Managers
  PROVE  NoteFailure([m EXCEPT !.failures = Counted(m.failures)]) = NoteFailure(m)
<1> DEFINE counted == Counted(m.failures)
           k == [m EXCEPT !.failures = counted]
           n == Min({m.failures + 1, MaxFailures + 1})
           quiet == IF n >= MaxFailures THEN Cooldown ELSE m.quiet
           tokens == IF m.stale = Never THEN Capacity
                     ELSE Min({Capacity, m.tokens + m.stale * Refill})
<1>1. m.failures \in 0..(MaxFailures + 1) /\ counted \in 0..MaxFailures
  BY ManagerFields, Limits DEF Counted
<1>2. Min({counted + 1, MaxFailures + 1}) = n
  <2>1. n = (IF m.failures + 1 <= MaxFailures + 1 THEN m.failures + 1 ELSE MaxFailures + 1)
    BY <1>1, Limits, MinOfTwo
  <2>2. Min({counted + 1, MaxFailures + 1}) =
          (IF counted + 1 <= MaxFailures + 1 THEN counted + 1 ELSE MaxFailures + 1)
    BY <1>1, Limits, MinOfTwo
  <2> QED BY <1>1, <2>1, <2>2, Limits DEF Counted
<1> HIDE DEF counted, n
<1>3. /\ k.failures = counted /\ k.quiet = m.quiet /\ k.stale = m.stale
      /\ k.tokens = m.tokens
  BY DEF Managers
<1>4. /\ Refilled(m) = [m EXCEPT !.stale = 0, !.tokens = tokens]
      /\ Refilled(k) = [k EXCEPT !.stale = 0, !.tokens = tokens]
  BY <1>3 DEF Refilled, Managers
<1> HIDE DEF tokens
<1>5. NoteFailure(m) = [Refilled(m) EXCEPT !.failures = n, !.since = 0, !.quiet = quiet]
  BY <1>4 DEF NoteFailure, n, Managers
<1>6. NoteFailure(k) = [Refilled(k) EXCEPT !.failures = n, !.since = 0, !.quiet = quiet]
  BY <1>2, <1>3, <1>4 DEF NoteFailure, Managers
<1> HIDE DEF quiet
<1>7. NoteFailure(k) = NoteFailure(m)
  <2> DEFINE noted == [kind |-> "manager", price |-> m.price, since |-> 0, stale |-> 0,
                       tokens |-> tokens, failures |-> n, quiet |-> quiet]
  <2>1. NoteFailure(m) = noted
    BY <1>4, <1>5 DEF Managers
  <2>2. NoteFailure(k) = noted
    BY <1>4, <1>6 DEF Managers
  <2> QED BY <2>1, <2>2
<1> QED BY <1>7 DEF counted

LEMMA RestoredAlike ==
  ASSUME NEW s, NEW b, Sound(s, b), s.kind = "manager"
  PROVE  /\ \A n \in 0..Forever, p \in Prices :
              Decision(Later(s, n), p) = Decision(Later(Restored(s), n), p)
         /\ NoteFailure(Decided(s)) = NoteFailure(Decided(Restored(s)))
<1> DEFINE counted == Counted(s.failures)
           r == Restored(s)
<1>1. s \in Managers /\ Noted(s)
  BY SoundManager
<1>2. /\ s.quiet \in Never..Cooldown /\ s.failures \in 0..(MaxFailures + 1)
  BY <1>1, ManagerFields
<1>3. counted \in 0..(MaxFailures + 1)
  BY <1>2, Limits DEF Counted
<1> HIDE DEF counted
<1>4. PICK quiet \in Never..Cooldown :
        /\ r = [s EXCEPT !.failures = counted, !.quiet = quiet]
        /\ s.quiet # Never => quiet = s.quiet
        /\ s.quiet = Never => quiet \in {Never, 0}
  BY <1>1, RestoredIs DEF counted
<1> HIDE DEF r
<1>5. /\ r \in Managers /\ r.price = s.price /\ r.tokens = s.tokens /\ r.since = s.since
      /\ r.stale = s.stale /\ r.failures = counted /\ r.quiet = quiet
  BY <1>1, <1>3, <1>4 DEF Managers
<1>6. Cooling(s) <=> Cooling(r)
  BY <1>2, <1>4, <1>5, Limits DEF Cooling
<1>7. ASSUME NEW n \in 0..Forever, NEW p \in Prices
      PROVE  Decision(Later(s, n), p) = Decision(Later(r, n), p)
  <2>1. Cooling(Later(s, n)) <=> Cooling(Later(r, n))
    <3>1. CASE s.quiet # Never
      <4>1. Later(s, n).quiet = Sooner(s.quiet, n) /\ Later(r, n).quiet = Sooner(r.quiet, n)
        BY <1>1, <1>5, ManagersAge
      <4> QED BY <1>4, <1>5, <3>1, <4>1 DEF Cooling
    <3>2. CASE s.quiet = Never
      <4>1. n \in Nat
        BY ForeverIsLong
      <4>2. ~(Sooner(Never, n) > 0)
        BY Limits DEF Sooner
      <4>3. ~(Sooner(0, n) > 0)
        <5>1. Max({0 - n, 0}) = 0
          BY <4>1, MaxOfTwo
        <5> QED BY <5>1, Limits DEF Sooner
      <4>4. ~(Sooner(s.quiet, n) > 0) /\ ~(Sooner(r.quiet, n) > 0)
        BY <1>4, <1>5, <3>2, <4>2, <4>3
      <4>5. Later(s, n).quiet = Sooner(s.quiet, n) /\ Later(r, n).quiet = Sooner(r.quiet, n)
        BY <1>1, <1>5, ManagersAge
      <4> QED BY <4>4, <4>5 DEF Cooling
    <3> QED BY <3>1, <3>2
  <2>2. /\ Later(s, n) \in Aged /\ Later(r, n) \in Aged
        /\ Later(s, n).price = Later(r, n).price /\ Later(s, n).tokens = Later(r, n).tokens
        /\ Later(s, n).since = Later(r, n).since /\ Later(s, n).stale = Later(r, n).stale
    BY <1>1, <1>5, ManagersAge
  <2> QED BY <2>1, <2>2, SameDecision
<1>8. NoteFailure(Decided(s)) = NoteFailure(Decided(r))
  <2> DEFINE d == Decided(s)
  <2>1. d \in Managers /\ d.failures = s.failures
    BY DecidedSound
  <2>2. Decided(r) = [d EXCEPT !.failures = counted]
    <3>1. CASE Cooling(s)
      <4>1. quiet = s.quiet /\ d = s /\ Decided(r) = r
        BY <1>2, <1>4, <1>6, <3>1, Limits DEF Cooling, Decided
      <4> QED BY <1>1, <1>4, <4>1 DEF Managers
    <3>2. CASE ~Cooling(s)
      <4> DEFINE tokens == IF s.stale = Never THEN Capacity
                           ELSE Min({Capacity, s.tokens + s.stale * Refill})
      <4>1. Refilled(s) = [s EXCEPT !.stale = 0, !.tokens = tokens]
        BY <1>1 DEF Refilled, Managers
      <4>2. Refilled(r) = [r EXCEPT !.stale = 0, !.tokens = tokens]
        BY <1>5 DEF Refilled, Managers
      <4> HIDE DEF tokens
      <4>3. /\ d = [Refilled(s) EXCEPT !.quiet = Never]
            /\ Decided(r) = [Refilled(r) EXCEPT !.quiet = Never]
        BY <1>6, <3>2 DEF Decided
      <4> HIDE DEF d
      <4> QED BY <1>1, <1>4, <4>1, <4>2, <4>3 DEF Managers
    <3> QED BY <3>1, <3>2
  <2> HIDE DEF d
  <2>3. NoteFailure([d EXCEPT !.failures = counted]) = NoteFailure(d)
    BY <2>1, FailureAlike DEF counted
  <2> QED BY <2>2, <2>3 DEF d
<1> QED BY <1>7, <1>8 DEF r

\* What _restore_passive_order_manager_states reads back decides as what
\* _sync_passive_order_manager_states wrote, at every price and later time, and
\* after one failure more.
THEOREM RestoringIsFaithful == Spec => []RestoredDecidesAlike
<1>1. ASSUME Inductive PROVE RestoredDecidesAlike
  <2>1. CASE saved.kind = "manager"
    BY <1>1, <2>1, RestoredAlike DEF Inductive, RestoredDecidesAlike
  <2>2. CASE saved.kind # "manager"
    BY <2>2 DEF RestoredDecidesAlike
  <2> QED BY <2>1, <2>2
<1> QED BY <1>1, AlwaysInductive, PTL
=============================================================================
