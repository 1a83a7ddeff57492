--------------------------- MODULE CloseExecutor ---------------------------
(***************************************************************************)
(* The aggressive close of one hedged position (engine/close_executor.py). *)
(* execute_close buys the short leg back and sells the long leg with       *)
(* reduce-only IOC orders, chunk by chunk, retries an order whose answer   *)
(* is not known, flattens both venues when a leg cannot be settled, and    *)
(* writes what it closed back to the state.  A position is closed more     *)
(* than once: a risk delever closes a part of it, a later call the rest.   *)
(*                                                                         *)
(* Client order ids are deterministic in position, stage and attempt, and  *)
(* a venue refuses one that it has seen; here an id is the name of the     *)
(* venue's order too.  Prices, fees and the wording of answers are left    *)
(* out; fees and entry prices are taken as known, so that the only gap of  *)
(* a bill is an order whose outcome is not known.                          *)
(***************************************************************************)
EXTENDS Integers, FiniteSets, FiniteSetsExt

CONSTANTS
    Quantity,     \* what each leg holds at first
    ChunkCaps,    \* the most one chunk may close, by configuration
    Recognised,   \* sets of legs whose venue's duplicate refusal the code knows
    MaxAttempts,  \* CloseExecConfig.max_close_retries
    MaxFlatten,   \* _MAX_EMERGENCY_FLATTEN_ATTEMPTS
    MaxCloses,    \* bound: calls of execute_close
    MaxLost,      \* bound: submissions whose answer is lost
    MaxRefused,   \* bound: submissions refused on their merits
    MaxBlind      \* bound: reads of a position or an order that fail

ASSUME CloseConstants ==
    /\ Quantity \in Nat \ {0}
    /\ ChunkCaps \subseteq Nat \ {0}
    /\ Recognised \subseteq SUBSET {"short", "long"}
    /\ MaxAttempts \in Nat \ {0} /\ MaxFlatten \in Nat \ {0}
    /\ MaxCloses \in Nat /\ MaxLost \in Nat /\ MaxRefused \in Nat /\ MaxBlind \in Nat

VARIABLES
    cap,          \* the configured chunk cap
    recognised,   \* the one that holds here
    orders,       \* the venues: orders accepted, with what they executed
    venue,        \* the venues: what each leg still holds
    position,     \* EngineState.open_positions: quantities of the record
    open,         \* the record is there
    failClosed,   \* enter_fail_closed was called
    residual,     \* pending_residual_repairs of this position (at most one)
    pendings,     \* EngineState.pending_closes
    owners,       \* EngineState.pending_close_reconciliations
    billed,       \* orders named by an exit.closed or a reconciled bill
    dropped,      \* history: orders whose identity the code let go
    reused,       \* history: an id was submitted again by another close or another chunk
    step,         \* where execute_close waits: "idle", a leg, "probe", "flatten",
                  \* and, without an await, "failed" and "write"
    at,           \* the leg that compensation works on
    chunk, chunks, total,
    request, attempt,
    fills,        \* short_legs and long_legs
    unknown,      \* the unresolved submission identities
    calls, lost, refused, blind

callVars == <<chunk, chunks, total>>
bookVars == <<position, open, residual, pendings, owners, billed>>
config == <<cap, recognised>>
setup == <<config, reused>>
vars == <<cap, recognised, orders, venue, position, open, failClosed, residual, pendings,
          owners, billed, dropped, reused, step, at, chunk, chunks, total, request, attempt,
          fills, unknown, calls, lost, refused, blind>>

Legs == {"short", "long"}
Cid(stage, n) == [stage |-> stage, n |-> n]
Stages == {"exit", "again", "flatten", "reflatten"}
Cids == [stage : Stages, n : 0..(Quantity + MaxAttempts + MaxFlatten + 1)]
Name(o) == [leg |-> o.leg, cid |-> o.cid]
NoRequest == [cid |-> Cid("exit", 0), quantity |-> 0]

Lesser(a, b) == IF a <= b THEN a ELSE b
\* mutant: a quantity below zero
LessThanNothing(a, b) == a - b
Less(a, b) == IF a > b THEN a - b ELSE 0
QuantityOf(S, l) == MapThenSumSet(LAMBDA o : o.quantity, {o \in S : o.leg = l})

\* the venue has an order of this id; another call of execute_close sent it, or
\* another chunk of this one: the id of a retry does not name the chunk
Taken(l, c) == \E o \in orders : o.leg = l /\ o.cid = c
Foreign(l, c) == \E o \in orders : o.leg = l /\ o.cid = c /\ <<o.call, o.chunk>> # <<calls, chunk>>
Executed(l, c) == QuantityOf({o \in orders : o.cid = c}, l)

\* compute_close_chunks, with the notional cap as a quantity
ChunkCount(q) == (q + cap - 1) \div cap
ChunkSize(n) ==
    LET base == total \div chunks
    IN  IF n = chunks THEN total - base * (chunks - 1) ELSE base
ExitCid(n) == Cid("exit", IF chunks = 1 THEN 0 ELSE n)
ExitRequest(n) == [cid |-> ExitCid(n), quantity |-> ChunkSize(n)]

Init ==
    /\ cap \in ChunkCaps
    /\ recognised \in Recognised
    /\ orders = {}
    /\ venue = [l \in Legs |-> Quantity]
    /\ position = [matched |-> Quantity, short |-> Quantity, long |-> Quantity]
    /\ open = TRUE
    /\ failClosed = FALSE
    /\ residual = {} /\ pendings = {} /\ owners = {} /\ billed = {} /\ dropped = {}
    /\ reused = FALSE
    /\ step = "idle" /\ at = "short"
    /\ chunk = 1 /\ chunks = 1 /\ total = 0
    /\ request = NoRequest /\ attempt = 1
    /\ fills = {} /\ unknown = {}
    /\ calls = 0 /\ lost = 0 /\ refused = 0 /\ blind = 0

-----------------------------------------------------------------------------
(* Where the call goes next.                                               *)

\* the outcome of a leg lets the call go on: short, then long, then the next chunk
NextLeg ==
    /\ UNCHANGED at
    /\ attempt' = 1
    /\ \/ /\ step = "short"
          /\ step' = "long" /\ request' = ExitRequest(chunk)
          /\ UNCHANGED chunk
       \/ /\ step = "long" /\ chunk < chunks
          /\ step' = "short" /\ chunk' = chunk + 1 /\ request' = ExitRequest(chunk + 1)
       \/ /\ step = "long" /\ chunk = chunks
          /\ step' = "write" /\ UNCHANGED <<chunk, request>>

\* compensate_failed_full_close probes the short venue first
Compensate ==
    /\ step' = "probe" /\ at' = "short" /\ attempt' = 1
    /\ UNCHANGED <<chunk, request>>

\* the same request once more
TryAgain ==
    /\ attempt' = attempt + 1
    /\ UNCHANGED <<step, at, chunk, request>>

\* an attempt without a known outcome; the last one is the leg's outcome
Unsure ==
    LET mine == {[leg |-> step, cid |-> request.cid]}
    IN  \/ /\ attempt < MaxAttempts
           /\ unknown' = unknown \cup mine
           /\ TryAgain
        \/ /\ attempt = MaxAttempts
           /\ unknown' = unknown \cup mine \cup {[leg |-> step, cid |-> ExitCid(chunk)]}
           /\ Compensate

\* execute_close returns; what of the call goes unrecorded is noted
Leave(gone) ==
    /\ step' = "idle" /\ at' = "short"
    /\ chunk' = 1 /\ chunks' = 1 /\ total' = 0
    /\ request' = NoRequest /\ attempt' = 1
    /\ fills' = {} /\ unknown' = {}
    /\ dropped' = dropped \cup gone

\* a short leg refused: return None, whatever earlier attempts and chunks did
ReturnNothing ==
    /\ Leave({Name(f) : f \in fills} \cup unknown)
    /\ UNCHANGED <<bookVars, failClosed>>

\* a long leg refused: compensation
Rejected ==
    \/ step = "short" /\ ReturnNothing
    \/ /\ step = "long" /\ Compensate
       /\ UNCHANGED <<bookVars, failClosed, dropped, chunks, total, fills, unknown>>

(* The venue takes an order and executes a part of it.                     *)
Execute(l, x) ==
    /\ ~Taken(l, request.cid) /\ venue[l] > 0
    /\ orders' = orders \cup {[leg |-> l, cid |-> request.cid, quantity |-> x,
                               call |-> calls, chunk |-> chunk]}
    /\ venue' = [venue EXCEPT ![l] = @ - x]
IocResult(l) == 0..Lesser(request.quantity, venue[l])
ExecuteNothing == UNCHANGED <<orders, venue>>

-----------------------------------------------------------------------------
(* _submit_close_leg_with_retry                                            *)

\* mutant: what was asked for counts as filled
AddFillAsRequested(l, c, q, n) ==
    fills' = fills \cup {[leg |-> l, cid |-> c, quantity |-> request.quantity, chunk |-> n]}

AddFill(l, c, q, n) == fills' = fills \cup {[leg |-> l, cid |-> c, quantity |-> q, chunk |-> n]}

Begin ==
    /\ step = "idle" /\ open /\ calls < MaxCloses
    /\ \E q \in 1..position.matched :
          /\ total' = q /\ chunks' = ChunkCount(q)
          /\ step' = "short" /\ chunk' = 1 /\ attempt' = 1
          /\ request' = [cid |-> Cid("exit", IF ChunkCount(q) = 1 THEN 0 ELSE 1),
                         quantity |-> IF ChunkCount(q) = 1 THEN q ELSE q \div ChunkCount(q)]
    /\ calls' = calls + 1
    /\ UNCHANGED <<setup, orders, venue, bookVars, failClosed, dropped, at, fills, unknown,
                   lost, refused, blind>>

Submitting == step \in Legs

\* the fill is answered
Filled ==
    /\ Submitting
    /\ \E x \in IocResult(step) \ {0} : Execute(step, x) /\ AddFill(step, request.cid, x, chunk)
    /\ NextLeg
    /\ UNCHANGED <<setup, bookVars, failClosed, dropped, chunks, total, unknown, calls, lost,
                   refused, blind>>

\* a zero fill is answered, or no answer comes back
Unanswered ==
    /\ Submitting
    /\ \/ Execute(step, 0) /\ UNCHANGED lost
       \/ /\ lost < MaxLost /\ lost' = lost + 1
          /\ \/ \E x \in IocResult(step) : Execute(step, x)
             \/ ExecuteNothing
    /\ Unsure
    /\ reused' = (reused \/ Foreign(step, request.cid))
    /\ UNCHANGED <<config, bookVars, failClosed, dropped, chunks, total, fills, calls, refused,
                   blind>>

\* a reduce-only order at a flat venue counts as a fill of nothing
NothingToReduce ==
    /\ Submitting /\ ~Taken(step, request.cid) /\ venue[step] = 0
    /\ AddFill(step, request.cid, 0, chunk)
    /\ NextLeg
    /\ UNCHANGED <<setup, orders, venue, bookVars, failClosed, dropped, chunks, total, unknown,
                   calls, lost, refused, blind>>

\* refused on its merits
Refuse ==
    /\ Submitting /\ refused < MaxRefused /\ refused' = refused + 1
    /\ Rejected
    /\ UNCHANGED <<setup, orders, venue, calls, lost, blind>>

\* refused because of a pending reduce-only order of the account
Conflict ==
    /\ Submitting /\ refused < MaxRefused /\ refused' = refused + 1
    /\ attempt < MaxAttempts /\ TryAgain
    /\ UNCHANGED <<setup, orders, venue, bookVars, failClosed, dropped, chunks, total, fills,
                   unknown, calls, lost, blind>>

\* a duplicate refusal that reads like any other refusal
DuplicateRefused ==
    /\ Submitting /\ Taken(step, request.cid) /\ step \notin recognised
    /\ Rejected
    /\ reused' = (reused \/ Foreign(step, request.cid))
    /\ UNCHANGED <<config, orders, venue, calls, lost, refused, blind>>

\* resolve_duplicate_conflict: q is what the order with this id executed as
\* far as it could be read, live what the venue holds if that could be read
Full(q, target) == q >= target /\ q > 0
Decision(q, target, read, live) ==
    CASE Full(q, target) /\ ~read -> "recheck"
      [] Full(q, target) /\ read /\ live > 0 -> "again"
      [] Full(q, target) /\ read /\ live = 0 -> "clear"
      [] ~Full(q, target) /\ read /\ live = 0 -> "clear"
      [] ~Full(q, target) /\ ~(read /\ live = 0) /\ q > 0 -> "again"
      [] OTHER -> "recheck"
RetryQuantity(q, target, read, live) ==
    LET remaining == IF Full(q, target) THEN live ELSE target - q
    IN  IF read THEN Lesser(remaining, live) ELSE remaining

\* a duplicate refusal that is recognised is resolved from order and position
DuplicateResolved ==
    /\ Submitting /\ Taken(step, request.cid) /\ step \in recognised
    /\ \E readOrder, read \in BOOLEAN :
          LET target == request.quantity
              q == IF readOrder THEN Executed(step, request.cid) ELSE 0
              decision == Decision(q, target, read, venue[step])
              last == attempt = MaxAttempts
              partial == decision = "again" /\ ~Full(q, target)
          IN  /\ blind + (IF readOrder /\ read THEN 0 ELSE 1) <= MaxBlind
              /\ blind' = blind + (IF readOrder /\ read THEN 0 ELSE 1)
              /\ \/ /\ decision = "clear" /\ q = 0
                    /\ NextLeg /\ UNCHANGED <<fills, unknown>>
                 \/ /\ q > 0 /\ (decision = "clear" \/ (partial /\ last))
                    /\ AddFill(step, request.cid, q, chunk) /\ NextLeg /\ UNCHANGED unknown
                 \/ /\ decision = "again" /\ ~last
                    /\ request' = [cid |-> Cid("again", attempt + 1),
                                   quantity |-> RetryQuantity(q, target, read, venue[step])]
                    /\ attempt' = attempt + 1
                    /\ UNCHANGED <<step, at, chunk, fills, unknown>>
                 \/ /\ decision = "recheck" \/ (decision = "again" /\ last /\ ~partial)
                    /\ unknown' = unknown \cup {[leg |-> step, cid |-> ExitCid(chunk)]}
                    /\ Compensate /\ UNCHANGED fills
    /\ reused' = (reused \/ Foreign(step, request.cid))
    /\ UNCHANGED <<config, orders, venue, bookVars, failClosed, dropped, chunks, total, calls,
                   lost, refused>>

-----------------------------------------------------------------------------
(* register_close_accounting_reconciliation                                *)

KnownOrders == {[leg |-> f.leg, cid |-> f.cid, quantity |-> f.quantity] :
                  f \in {g \in fills : g.quantity > 0}}
Unconfirmed == {u \in unknown : u \notin {Name(o) : o \in KnownOrders}}
Closed(l) == QuantityOf(fills, l)
IsFinal == \A l \in Legs : Less(position[l], Closed(l)) = 0

\* the owner of this call's bill: exact orders, and zero placeholders for
\* submissions whose outcome is not known
Owner ==
    [kind |-> IF IsFinal THEN "final" ELSE "partial",
     legs |-> KnownOrders \cup {[leg |-> u.leg, cid |-> u.cid, quantity |-> 0] : u \in Unconfirmed},
     owned |-> [l \in Legs |-> IF IsFinal THEN position[l] ELSE Closed(l)],
     snapshot |-> [l \in Legs |-> position[l]],
     unresolved |-> {u.leg : u \in Unconfirmed},
     call |-> calls]

Named(e) == {Name(o) : o \in e.legs}
Coverage(e, l) == Cardinality({o \in e.legs : o.leg = l})

\* enqueue_pending_close_reconciliation: one owner of a kind, replaced by one
\* that names other orders and no fewer of them on either leg
Enqueue(e) ==
    LET same == {f \in owners : f.kind = e.kind}
        replaced == {f \in same : Named(e) # Named(f)
                                  /\ \A l \in Legs : Coverage(e, l) >= Coverage(f, l)}
    IN  IF same = {} THEN owners \cup {e} ELSE IF replaced = {} THEN owners
        ELSE (owners \ replaced) \cup {e}
NamedBy(S) == UNION {Named(e) : e \in S}

\* what is named by neither the owners nor a bill after an owner was enqueued
Displaced(e) == (NamedBy(owners) \cup Named(e)) \ NamedBy(Enqueue(e))

-----------------------------------------------------------------------------
(* compensate_failed_full_close: per venue, short first, flatten what the  *)
(* position read shows, in a few attempts and a hard stop.  A position     *)
(* read between two attempts is taken to succeed: a failed one is made     *)
(* good by the next.                                                       *)

\* the next venue is probed; after the long venue the call writes back
NextVenue ==
    /\ attempt' = 1 /\ request' = NoRequest
    /\ UNCHANGED chunk
    /\ \/ at = "short" /\ at' = "long" /\ step' = "probe"
       \/ at = "long" /\ step' = "write" /\ UNCHANGED at

\* CompensationFailedError: fail closed, and the identities are registered
CompensationFails ==
    /\ failClosed' = TRUE
    /\ owners' = Enqueue(Owner)
    /\ Leave(Displaced(Owner))
    /\ UNCHANGED <<position, open, residual, pendings, billed>>

Probe ==
    /\ step = "probe"
    /\ UNCHANGED <<setup, orders, venue, calls, lost, refused>>
    /\ \/ /\ blind < MaxBlind /\ blind' = blind + 1
          /\ CompensationFails
       \/ /\ venue[at] = 0
          /\ NextVenue
          /\ UNCHANGED <<bookVars, failClosed, dropped, chunks, total, fills, unknown, blind>>
       \/ /\ venue[at] > 0
          /\ step' = "flatten" /\ attempt' = 1
          /\ request' = [cid |-> Cid("flatten", 1), quantity |-> venue[at]]
          /\ UNCHANGED <<bookVars, failClosed, dropped, at, callVars, fills, unknown, blind>>

\* one attempt is over and the venue still holds the leg: one more attempt,
\* the hard stop after the last, and nothing after that
NotFlat ==
    /\ UNCHANGED <<bookVars, failClosed, dropped, at, callVars>>
    /\ \/ /\ attempt <= MaxFlatten
          /\ attempt' = attempt + 1
          /\ request' = [cid |-> Cid("flatten", attempt + 1), quantity |-> venue'[at]]
          /\ UNCHANGED step
       \/ /\ attempt > MaxFlatten
          /\ step' = "failed"
          /\ UNCHANGED <<request, attempt>>
AfterAttempt(flat) ==
    \/ flat /\ NextVenue /\ UNCHANGED <<bookVars, failClosed, dropped, chunks, total>>
    \/ ~flat /\ NotFlat

Flattening == step = "flatten"
\* mutant: the identity of an unconfirmed compensation order is not kept
RetainFilled(q) ==
    /\ fills' = IF q = 0 THEN fills
                ELSE fills \cup {[leg |-> at, cid |-> request.cid, quantity |-> q, chunk |-> 0]}
    /\ UNCHANGED unknown

Retain(q) ==
    /\ fills' = IF q = 0 THEN fills
                ELSE fills \cup {[leg |-> at, cid |-> request.cid, quantity |-> q, chunk |-> 0]}
    /\ unknown' = IF q = 0 THEN unknown \cup {[leg |-> at, cid |-> request.cid]} ELSE unknown

\* _compensate_close_leg_exposure with an answer
FlattenAnswered ==
    /\ Flattening
    /\ \E x \in IocResult(at) :
          /\ Execute(at, x)
          /\ Retain(x)
          /\ AfterAttempt(x >= request.quantity \/ venue'[at] = 0)
    /\ UNCHANGED <<setup, calls, lost, refused, blind>>

\* ... without one: the identity is kept and the position read
FlattenLost ==
    /\ Flattening /\ lost < MaxLost /\ lost' = lost + 1
    /\ ~Taken(at, request.cid)
    /\ \/ \E x \in IocResult(at) : Execute(at, x)
       \/ ExecuteNothing
    /\ Retain(0)
    /\ AfterAttempt(venue'[at] = 0)
    /\ UNCHANGED <<setup, calls, refused, blind>>

\* ... refused: on its merits, or as a duplicate that is not resolved
FlattenRefused ==
    /\ Flattening /\ ExecuteNothing
    /\ \/ /\ refused < MaxRefused /\ refused' = refused + 1
       \/ /\ Taken(at, request.cid)
          /\ at \notin recognised \/ request.cid.stage = "reflatten"
          /\ UNCHANGED refused
    /\ NotFlat
    /\ reused' = (reused \/ Foreign(at, request.cid))
    /\ UNCHANGED <<config, fills, unknown, calls, lost, blind>>

\* ... refused as a duplicate that is resolved from order and position; of an
\* order that could not be read nothing is kept
FlattenDuplicate ==
    /\ Flattening /\ Taken(at, request.cid) /\ at \in recognised
    /\ request.cid.stage = "flatten" /\ ExecuteNothing
    /\ \E readOrder, read \in BOOLEAN :
          LET q == IF readOrder THEN Executed(at, request.cid) ELSE 0
          IN  /\ blind + (IF readOrder /\ read THEN 0 ELSE 1) <= MaxBlind
              /\ blind' = blind + (IF readOrder /\ read THEN 0 ELSE 1)
              /\ IF readOrder THEN Retain(q) ELSE UNCHANGED <<fills, unknown>>
              /\ \/ /\ Decision(q, request.quantity, read, venue[at]) = "again"
                    /\ request' = [cid |-> Cid("reflatten", attempt),
                                   quantity |-> RetryQuantity(q, request.quantity, read, venue[at])]
                    /\ UNCHANGED <<bookVars, failClosed, dropped, step, at, callVars, attempt>>
                 \/ /\ Decision(q, request.quantity, read, venue[at]) = "recheck"
                    /\ NotFlat
    /\ reused' = (reused \/ Foreign(at, request.cid))
    /\ UNCHANGED <<config, calls, lost, refused>>

\* attempts and hard stop are used up and the venue still holds the leg
GiveUp ==
    /\ step = "failed"
    /\ CompensationFails
    /\ UNCHANGED <<setup, orders, venue, calls, lost, refused, blind>>

-----------------------------------------------------------------------------
(* The end of execute_close and _writeback_to_state.                       *)

\* mutant: the leg that closed more decides
MatchedClosedByMore == IF Closed("short") > Closed("long") THEN Closed("short") ELSE Closed("long")

MatchedClosed == Lesser(Closed("short"), Closed("long"))
Remaining(l) == Less(position.matched, Closed(l))

\* mutant: the repair is queued for the leg that closed more
ResidualOfMore ==
    {[leg |-> p[1], quantity |-> Remaining(p[2]) - Remaining(p[1])] :
        p \in {q \in Legs \X Legs : Remaining(q[1]) < Remaining(q[2])}}

\* split_close_fill_residual: the leg that closed less, and by how much
Residual ==
    {[leg |-> p[1], quantity |-> Remaining(p[1]) - Remaining(p[2])] :
        p \in {q \in Legs \X Legs : Remaining(q[1]) > Remaining(q[2])}}

NothingClosed ==
    /\ step = "write" /\ fills = {} /\ unknown = {}
    /\ Leave({})
    /\ UNCHANGED <<setup, orders, venue, bookVars, failClosed, calls, lost, refused, blind>>

WriteBack ==
    /\ step = "write" /\ fills \cup unknown # {}
    /\ position' = [matched |-> Less(position.matched, MatchedClosed),
                    short |-> Less(position.short, Closed("short")),
                    long |-> Less(position.long, Closed("long"))]
    /\ open' = (position'.matched > 0)
    /\ residual' = IF Residual = {} THEN residual ELSE Residual
    /\ IF unknown = {}
       THEN /\ billed' = billed \cup {Name(o) : o \in KnownOrders}
            /\ UNCHANGED <<owners, pendings>>
            /\ Leave({})
       ELSE /\ owners' = Enqueue(Owner)
            /\ pendings' = pendings \cup
                  {[call |-> calls, legs |-> KnownOrders, closed |-> [l \in Legs |-> Closed(l)]]}
            /\ Leave(Displaced(Owner))
            /\ UNCHANGED billed
    /\ UNCHANGED <<setup, orders, venue, failClosed, calls, lost, refused, blind>>

Submit == Filled \/ Unanswered \/ NothingToReduce \/ Refuse \/ Conflict
          \/ DuplicateRefused \/ DuplicateResolved
Flatten == FlattenAnswered \/ FlattenLost \/ FlattenRefused \/ FlattenDuplicate
CloseStep == Submit \/ Probe \/ Flatten \/ GiveUp \/ NothingClosed \/ WriteBack
=============================================================================
