# LightFeeV2 in TLA+

Specifications of LightFeeV2, an arbitrage engine that earns funding rates by
holding opposite perpetual positions on two exchanges (`src/lightfee/`). The
engine opens a pair by resting a post-only *maker* order on one venue and
hedging its fills with IOC orders on the other, keeps a durable record of what
it is doing, and reconciles that record with what the venues report.

The specifications are translated from the Python source. `PROJECT.json` names,
for every definition, the lines it stands for.

## 1. The system

The live engine is **one asyncio task**: `LiveRuntime.run_loop`
(`engine/runtime.py:4910`) runs its lanes one after another, and every `await`
of a venue call is a point where the venues, and the coroutines of the market
data and private streams, act. The interleavings that matter are therefore
those of one engine with its venues, not of engine threads with each other.

| Component | State it keeps | Operations | What makes it correct |
|---|---|---|---|
| Venue rate limiter (`rate_limit/engine.py`) | tokens, cooldown, failures, last request of every scope | wait for a slot, feed back a 429/418, hot reload | never more requests than the budget; no request during a ban; waits end |
| Pending entry (`engine/pending_entry_*.py`, `engine/state.py`, `runtime.py` 5525-7835, 8912-9905) | fills of both legs, remainder slices, the maker order, the hedge in flight, the zero-fill phase | maintenance pass, reconciliation, finalize, abandon, abort | live exposure always has an owner; no duplicate order; a matched position is really there |
| Reconciliation (`engine/reconciliation.py`, `exchange_truth.py`) | none of its own | read orders and positions of both legs | evidence is never taken for more than it is |
| Entry dispatch (`entry_dispatch_runtime.py`, `entry_sync.py`) | durable owner claim | claim, submit, hand off | a crash neither loses nor doubles an entry |
| Passive order manager (`passive_order_manager.py`, lanes in `passive_maker_runtime.py`) | operation tokens, consecutive failures, cooldown | decide, note operation, success, failure, save, restore | amends and replaces within the operations budget, also across a restart |
| Order submission and request pacing (`venues/transport.py` 935-1045, 2390-3160) | cooldown and last slot of every scope, clock offset | sign, wait, pace, send, retry, call the outcome | slots spaced, cooldown respected, at most one order behind a request, no order behind a rejection |
| Aggressive close (`close_executor.py`, `close_runtime.py`) | chunks, pending closes, billing owners | submit, retry, resolve duplicates, compensate, write back, settle | no executed order is lost; what leaves the books is flat; what stays is at least what the venues hold |
| Passive close (`passive_close.py`) | close record: chunk, phase, maker ids, fills of both legs | maker order, hedge, amend, replace, fallback, restart | one maker order at a time; hedges follow the maker; an overdue close ends |
| Residual repair (`residual.py`, `residual_repair_runtime.py`) | queued tasks | measure, sell, resolve, let go as dust | every excess has an owner; only the excess is sold; every task ends |
| Position drift check (`runtime.py` 3202-3503) | time of the last check | compare, flatten, verify, correct the book | the book says what the venues hold |
| Recovery (`recovery*.py`, `v1_lifecycle_closure.py`) | ledger, owner index | rebuild at start, decide, release | running resumes only without work left |
| Lifecycle, risk, supervisor (`lifecycle.py`, `risk_actions.py`, `supervisor.py`, `risk/`) | lifecycle, risk mode | escalate, clear | a block is cleared only by the decision core |
| Run loop (`runtime.py` 4910-5056, `loop_control.py`) | due times, backoff | lanes | a failing lane does not starve the others |
| Persistence (`persistence/`) | journal, snapshot, projections, lease | append, checkpoint, project | replay yields the state that was lost |
| Market data (`marketdata/`) | local books, private streams | snapshot, delta, resync | a book is never used across a gap |
| Order truth (`order_truth_ledger.py`) | none | classify an order's evidence | an unknown outcome is never a zero fill |
| Sidecar, operations, offline analysis, applications | files | fetch, report | - |

How they interact: a scan dispatches an entry; its resting order becomes a
*pending entry* in `state.pending_entries`; maintenance and reconciliation (two
lanes of the loop) work on it by venue calls that pass through the rate
limiter; it ends by being replaced by an *open position* and, for what the legs
differ by, a *residual repair task*, or by reduce-only orders. Everything that
is owned lives in `EngineState`, is journalled, and is written to the snapshot
at the end of a loop iteration.

The behaviours that are hard: reads of two venues that are not atomic; orders
whose outcome is unknown; cancels that are acknowledged and take effect later;
resubmissions that landed although they failed; partial failures in a flatten
of two legs; totals that are updated from several kinds of evidence; and, for
the limiter, sleeping callers that wake in any order. `PROJECT.json` lists
them, each at its line, with the property that covers it.

## 2. Modules

| Module | What it models | EXTENDS |
|---|---|---|
| `RateLimit` | the limiter and the wait loop of its callers | |
| `PendingEntry` | the entry record, its questions about itself, the two venues, and where a pass goes next | |
| `PendingEntryMaker` | the maintenance pass: progress, hedge, cancel, zero-fill cycles, leg switch, repost | `PendingEntry` |
| `PendingEntryRelease` | fill details, exchange truth, hand-off, cleanup, abort | `PendingEntry` |
| `PendingEntryReconcile` | reconciliation: reads, write-back, forced terminalization, decision | `PendingEntry` |
| `PendingEntryReprice` | the maker-event lane: cancel and replace the maker order | `PendingEntry` |
| `PendingEntryLifecycle` | composition of the four, properties | all of them |
| `FactLog` | abstract: a log of facts that only grows | |
| `Journal` | journal file, archives, snapshot, crash, restart; refines `FactLog` | |
| `RunLoop` | the lanes of the main loop, their due times and backoff | |
| `PassiveOrder` | the passive order manager and the two lanes that use it | |
| `OrderSubmit` | an order request from signing to its verdict | |
| `RiskMode` | lifecycle, risk mode and everything that sets them | |
| `CloseExecutor` | one call of `execute_close` | |
| `CloseLedger` | the lanes that settle what such a call leaves | `CloseExecutor` |
| `PassiveClose` | maker, hedge and round of a passive close | |
| `PassiveCloseLifecycle` | its start, deadline, fallback, crash and restart | `PassiveClose` |
| `ResidualRepair` | the repair lane | |
| `PositionDrift` | the drift check beside it, closes, snapshots, crashes | `ResidualRepair` |
| `PlatformProofs` (the limiter and the journal), `PendingEntryProofs`, `LaneProofs` (the run loop, and the passive close that one of its lanes drives), `PassiveOrderProofs`, `OrderSubmitProofs`, `RiskModeProofs`, `CloseLedgerProofs`, `PositionDriftProofs` | theorems and proofs | the component's module or modules and `TLAPS` |
| `MC...` | the constants of a TLC run | the module of that name |

In all of them an action is what the engine does between two awaits, with the
answer it awaited; what a venue answers, and when, is a choice. Constants that
start with `Max` are bounds of the model checking, not of the code, unless the
module says otherwise.

### 2.1 RateLimit

A step is one evaluation of the body of `async_wait_until_ready_for_scopes`,
which contains no await before its sleep: `Call` and `Wake` run `Attempt`,
which either charges all buckets (`Consume`) or refuses for a cooldown, an
interval or a budget, in the order of `try_consume_scopes`, and sleeps or gives
up. `Limited` is `record_rate_limit_for_scopes`; `Reload` is
`RateLimitRuntime.refresh` with a changed file. Tokens are integers; one token
stands for the smallest amount weights and refills use, so the tolerance
`1e-9` of the code disappears. The budget phase refills the buckets it reaches
before the first short one, as the code does (`Reached`). The variables `mark`,
`spent`, `reloadsSince` and `told` are observers: nothing reads them but the
properties.

### 2.2 The pending entry

`e` is the `PendingEntry` object with the fields of its passive order and phase
state that decide anything; `owned` says whether it is in
`state.pending_entries`. Quantities are lots. `pc` is the venue call being
awaited, and the action of a `pc` is the answer of that call **together with
everything the engine computes from it up to its next await**; the local
variables that survive an await are `probe` (answers so far), `goal` (what the
exchange truth is being read for) and `cont` (whether a hedge or an abort is
part of step 2 of a pass that goes on after it). Between any two engine steps a
venue may fill a live maker order by one lot (`MakerFills`) or end it
(`MakerEnds`); an acknowledged cancel is only a flag of the entry, so an order
fills on after it. Hedge orders are IOC: they execute when they are sent.

What is a choice in the model: every answer may be missing or an error; timers
(poll interval, ages, deadlines, backoff, hard ceiling), the request budget and
the tradeability of the candidate may go either way. A read that fails, or an
open order, settles every decision of the release against it, so the reads
that follow it are not modelled one by one.

Where the code is: `Start`, `ProgressAnswered`, `GoOn`, `CancelProgressAnswered`
are steps 1 to 4 of `_maintain_pending_entry_passive_orders`;
`ZeroFillCycle`, `ZeroFillRetry`, `ZeroFillOver`, `RemainderOrFinalize`,
`HedgeRemainder` are its step 5; `DriveHedge` with `HedgeAnswered`,
`HedgeRefusedForGood`, `HedgeChecked` is `_drive_missing_hedge_live`;
`Resubmitted` the submission with retries; `MakerDetails`, `HedgeDetails` are
`_ensure_pending_entry_open_fill_details`; `LongOrders` to `ShortPosition` are
the exchange truth and the decisions on it; `CleanupLeg` is the owned one-leg
cleanup; `AbortOrder` to `StopHedge` are `_abort_pending_entry`; `Reconcile` to
`ShortLive` are `_reconcile_pending_state` around `reconcile_position`.

The maker-event lane (`engine/passive_maker_runtime.py`,
`drive_pending_entry_hedge` in `entry_sync.py`) is `RepriceMaker`,
`CancelAnswered`, `ReplacementAnswered`; the book and the verdict of the
passive order manager are a choice, and it runs between two passes like any
other lane. `LaneEnabled` is the setting `maker_event_lane_enabled`. The lane
writes the replacement's id to `maker_order_id` and leaves `passive_order` as it
was, so the entry names its order twice: `e.named` and `e.order`. Maintenance
polls and cancels `e.order` (`Asked`); the identifiers that reconciliation, fill
details and abort use combine the order id of the one with the client id of the
other (`_pending_entry_maker_order_identifiers`), and a venue may answer for
either (`Identified`).

A client id is made of stage, cycle and attempt (`ClientId`, `Stage`). An
attempt that would take is refused, and the next one has another id
(`runtime.py:5756-5799`); any other failure ends the pass, and the next pass
starts over with attempt 0 (6673), or with `passive_attempt_count` for a
remainder (6364). A venue refuses the id of an order that is open (`InBooks`)
and no other: an order whose answer was lost keeps its own id out of the book
while it rests, and none beside it. So `Resubmitted` can rest a second order
beside one the entry does not know. `orders[i].acked` is a history variable: the
engine saw the acceptance of the order; nothing in the model reads it but
properties. `orders[i].cid` of an order of the lane is an id of its own: the
lane sends none.

Not modelled: the terminal taker fallback, entries recorded as rejected,
competing owners of the same symbol, fills of the wrong direction, paper mode,
the fail-closed mark of the engine (it stops *new* entries; the pending entry
goes on), an IOC fill that becomes visible only after the order was answered,
and the plain `Exception` branch of the hedge (`runtime.py:9648`).

### 2.3 Journal and FactLog

`Journal` is `persistence/journal.py`, `persistence/snapshot_store.py` and
`recover_from_snapshot`. A record takes two cells of a file, so that a file can
end in the middle of one; slot 0 is the live file, the others are the archives
`.1`, `.2`, ... Each file has an inode, because a checkpoint names inode and
offset. `Record` appends, rotating first when the file is full; `WriteSnapshot`
stores what is known with the current checkpoint; `Crash` stops between two
records, `CrashInWrite` in the middle of one, so that the file ends in a torn
line, `CrashInRotation` between two steps of a rotation, `PowerLoss`
drops what was not synced; `Restart` reads the snapshot and replays the records
behind its checkpoint if `Provable` says the tail is complete.

`FactLog` says what a client of both may rely on: the facts known are a
sequence that grows at its end; only a fault of the storage may take some, and
what is left is in order. `Journal` implements it under
`Log == INSTANCE FactLog WITH Facts <- 1 .. MaxFacts, known <- Durable`, where
`Durable` is what a restart at this moment would know.

A checkpoint can be proved only while its file is kept, so the log is complete
only if a snapshot is written before the archives have turned over.
`CadenceAssumption` says so of the bounds: between two snapshots no more is
recorded than the archives hold, and before the first no more than the live
file. The code does not count records: `start()` writes a snapshot once
it has read a venue's fees (`runtime.py:2126`) and every iteration of the loop
ends with one (`runtime.py:5033`), against six files of 128 MiB by default
(`config/schema.py:309-311`). An iteration that records more than
the archives hold is outside of the theorem.

### 2.4 RunLoop

`run_loop` (`runtime.py:4910-5056`): the lanes in their order, `Skip` when one
is not due, `Succeeds`, `Fails` with its backoff, `LeavesLoop` for an exception
nothing catches, `Restarted` by systemd (`Restart=always`), `Sleep` at the end
of an iteration. Time is what is left of every deadline, so no clock bounds a
run; a lane takes any of `LaneMs`.

### 2.5 PassiveOrder

`PassiveOrderManager` and the lanes that drive it. `Tick`, `Move` are time and
market; `Observe` is the lane's decision, `Replace` the cancel-replace and what
is noted of its result, `Sidecar` the second lane; `Save` and `Restart` write
and restore the manager. `books` observes the operations a bucket refilled
tick by tick would have allowed; only a property reads it. An amendment is
unreachable: no adapter overrides `amend_order`.

### 2.6 OrderSubmit

`VenueTransport._request` for orders: `Sign` (with a sample of the venue's
clock when it is stale), `Ready` and `Pace` (cooldown and pacing slot), `Send`,
`Limited` (429), `Stamped` (clock error, signed again), `Retry`, `End` with the
verdict filled, rejected or uncertain, `Tick`, `Reload`. All requests use the
scopes of one endpoint; the token buckets are in `RateLimit`, and here may make
a request wait at any time.

### 2.7 RiskMode

Every writer of `lifecycle` and `risk_mode`: `Drift` and `Plan` of the active
lane (`supervisor.py`, `risk_actions.py`), `Supervise`, `Reconcile` (close
accounting, `close_runtime.py:2640-2732`), `Probe` (account truth with the
recovery decision core), `Save`, `Restart` with the commands an operator may
have written meanwhile; `Enter`, `Close`, `Move`, `OrderMoves` are the world.
A delever whose close raises is executed in part and not counted
(`supervisor.py:527-537`); `MaxRaises` bounds how often. A pair on the venues
that no record names is adopted (`Adopt`, journalled as
`recovery.live_detected`); any other leg is closed or blocks.
`MaxSteps` is the code's limit of delever steps, 0 means no limit, as in the
code. A restart may find an entry cut off whose fills no snapshot names, so an
entry is only made where the gates (`MayEnter`) are open.

### 2.8 CloseExecutor and CloseLedger

`CloseExecutor` is one call of `execute_close`: `Begin` splits the quantity,
`Submitting` waits for an order, whose answers are `Filled`, `Unanswered`,
`Refuse`, `NothingToReduce`, `Conflict`, `DuplicateRefused`,
`DuplicateResolved`; the compensation flattens both venues
(`Probe`, `FlattenAnswered`, `FlattenLost`, `FlattenRefused`,
`FlattenDuplicate`, `GiveUp`); of a duplicate the lookup of the order or of the
position may fail, and at most `MaxBlind` such reads do; `WriteBack` changes
the book, registers the billing owner and the residual. `CloseLedger` adds
`ResolvePendingClose`, `Settle` and `Terminalize`, which run between two calls.
Client order ids are deterministic in position, stage and attempt and name the
venue's orders. Taken as given: position reads between two attempts of a
flatten succeed, fees and entry prices are known, a failed write has no await
in it; the cap of 256 entries of the owner queue is left out.

### 2.9 PassiveClose and PassiveCloseLifecycle

`drive_pending_passive_close` is split as the code splits it: the maker order
(`MakerStep`: submit, poll, hold, replace), the hedge (`HedgeStep`: submit,
accept, ask, resolve a duplicate) and the rest of a round (`RoundStep`: gap,
chunk, zero-fill cycle and phase). `PassiveCloseLifecycle` starts the close,
lets its deadline pass, runs the pass once per `Tick`, hands over to the taker
fallback (`FallbackLive`, `FallbackBlind`, `FallbackHedged`, ...), saves and
crashes; a restart reads the record of the snapshot and the claims journalled
after it. The aggressive close it may call is seen as its caller sees it:
executions written back, or an outcome that is not known. An amendment changes
the price only, not the quantity the order asks for, and an id the venue gives
the amended order stands for the same order; one that fails asks for the order
and may find what it filled meanwhile (`AmendFails`). A fill below the smallest
order waits for more.

### 2.10 ResidualRepair and PositionDrift

`ResidualRepair` is `recover_residual_repairs` for the tasks of one position,
one of an entry and one of a close. A pass over a task is `ProbeFails`,
`NothingOver`, `Dust` or `Send`; the order that is sent ends in
`OrderAnswered`, `OrderFails`, `AckOnly` with `ResolveNow` or a later
`ResolveLater`, or as a duplicate (`DuplicateUnknown`, `DuplicateKnown`,
`Duplicate`, `DuplicateAgain`). What becomes of the task is `Outcome`, which is
journalled, or `Keep`, which only the next snapshot holds. Venues differ in
their least order, in whether their refusal of a known id is recognised, and in
what becomes of an excess too small to order (`setup.dust`: it waits; it is let
go when a close left it; it is let go in any case because it is within the
tolerance of 2 %). `PositionDrift` adds `_maybe_check_active_position_drift`
(`DriftFound`, `Flatten`, `DriftCorrected`, `DriftFails`), closes of either
kind as what they do to venues and book, `Save` and `Crash`. `MaxTries` is the
count after which a task is paused; the count has no other effect than to name
orders, so where it does not name one it stops there.

## 3. Runs

| Run | Bounds | What it shows |
|---|---|---|
| `rate` | 2 callers, 3 scopes in 2 buckets, weights 1 and 2, clock to 4, 2 limit answers with and without Retry-After, 1 reload, observer from 2 | `TypeOK`, `WindowBudget`, `RetryIsExact`, `LongestBanHonoured`, `GrantsSpaced`, `WaitsEnd` |
| `entry` | target 2, hedge minimum 1, 2 cycles per phase, 1 repost, 2 attempts, 3 maker orders, 1 hedge, lane off | `TypeOK`, `RestingIsPolled`, `NoOrphanExposure`, `PublishedIsBacked`, `LegSwitchSafe` |
| `entry_lane` | target 2, hedge minimum 2, 1 cycle per phase, 2 attempts, 2 maker orders, 1 hedge, lane on | `NoOrphanExposure` |
| `journal` | 2 records per file, 2 archives, 4 inodes (symmetric), 5 facts, snapshot at least every 4 | `FactsSurvive` (the refinement of `FactLog`) |
| `loop` | poll 4, active poll 2, backoff 6 to 12, lanes take 0 or 2, 1 stop | `SupervisedInTime`, `LanesServed` |
| `passive_order` | both lanes, 2 prices, capacity 4, refill 2, 2 failures to a cooldown of 3, 1 restart | `BudgetHeld`, `RestoredDecidesAlike`, `CooldownHonoured`, `PriceFollowed` |
| `submit` | 2 requests, both kinds of venue, 1 limit answer, 1 reload | `RejectedMeansNothing`, `AtMostOneOrder`, `SlotsApart`, `QuietWhenTold`, `EveryRequestEnds` |
| `risk` | 1 delever step, cooldown 2, 1 position, 2 moves of health, 1 unknown order, 1 start, 1 raised close, both commands | `OperatorHolds`, `DeleverBounded`, `NakedNeverReleased`, `FlatResumes` |
| `close` | quantity 2 in one or two chunks, 2 attempts (3 in the code), 1 flatten attempt and the hard stop (3), 2 closes, 1 lost answer, 1 refusal, 1 blind read, either venue recognised | `NoSilentLoss`, `GoneIsFlat`, `BookNotBelowVenue`, `NothingNaked` |
| `passive_close` | quantity 2 in one or two chunks, least order 1 or 2, 1 zero-fill cycle, 2 maker orders, 1 fault, 1 crash | `GoneIsFlat`, `BookNotBelowVenue`, `OneCloseOrder`, `HedgeFollows`, `OverdueEnds` |
| `residual` | matched 2, excess 1 or 2 on the long leg, least order 1 or 2, 1 fault, 1 crash, 1 close | `ExcessOwned`, `OnlyExcessSold`, `RepairEnds` |
| `residual_whole_leg` | as `residual` | violation: `MatchedIsKept` |

The bounds let every interesting case happen. A target of two lots has zero,
partial and full fills of either leg; with a hedge minimum of one the remainder
is hedged and reposted (`entry`), with one of two it is dust (`entry_lane`).
Three maker orders are the first, one whose answer was lost and one accepted
beside it under the id of another attempt, before and after a leg switch. In the
journal, five facts in files of two records rotate twice and expire an archive,
and four inodes let one be used again. Two callers or two requests are a race.
Two closes of two lots are a partial close and the rest, in chunks of one
filled or not; one lost answer, one refusal and one failed read meet in one
behaviour. The passive close was also run with three maker orders, with two
faults and with two zero-fill cycles. An excess of two is repaired in part,
leaves a rest below the least order of two, and meets a close that takes one
leg and not the other; the legs are alike but for the order in which they are
flattened, so the excess is put on one. Bounds named `Max...` appear in guards
only; properties of liveness hold with them because what is bounded is what
disturbs (faults, crashes, moves of health), not what helps.

Deadlock is checked in `passive_order` and `risk`. Elsewhere a behaviour ends
when its subject has: the entry or the position is gone, every request has its
verdict, the clock or the number of facts is at its bound.

**Fairness.**

* `loop`: `WF(Next)`. The event loop runs on, a lane returns or raises (its
  venue calls have timeouts), and systemd starts the process again.
* `passive_order`: `WF` of the clock, of both lanes and of the answer to a
  cancel-replace. The lanes are part of every iteration.
* `submit`: `WF` of the clock and of every request: a coroutine that can go on
  does. Nothing is assumed of the answers.
* `risk`: `WF` of the loop's step, `SF` of each periodic lane, and `SF` of a
  probe with complete truth: the probe is repeated, and venues that can be read
  are at some time both read. Without the last, a start never leaves its block.
* `passive_close`: `WF` of the steps of a pass, of the lane's tick, of the
  snapshot and of the deadline. Fills are not fair: nobody has to trade with a
  resting order.
* `residual`: `SF` of the pass over each task, since the lanes and the tasks
  take turns in one loop, `WF` of the steps of an order and of the drift check,
  and of the end of a close.

**The violation.** `residual_whole_leg`: a repair of an excess of two fills
one. `retry_count` is set back to 0 (`residual_repair_runtime.py:991`) and the
client order id is made of position and count, so the order for the rest has
the id of the first. Where the refusal is recognised as a duplicate (Bybit,
Bitget), `resolve_duplicate_conflict` finds an order that filled as much as is
asked for and a leg that is not flat, and asks for *the whole live leg*
(`order_truth_ledger.py:490-498`); the lane sends it under a new id. The leg is
sold below what the pair shares, without any fault, crash or close.
`docs/bugs/cards/residual-repair-live-truth.md:57` says: "One-sided and
partial-match residuals repair only live excess instead of full-closing matched
positions." `OnlyExcessSold`, which leaves the behaviours after such an answer
out, holds.

### Known divergences

What else was met while modelling: places where code and its own words differ,
or that a reader should know. Where a definition is named, it is in the module
and fails under a configuration of the same shape with that property.

*Pending entry.*
* `OneMakerOrder`, without the lane: the first order ends without a fill; of the
  resubmission attempt 0 is refused because it would take, attempt 1 rests and
  its answer is lost; the next pass sends attempt 0 again (`runtime.py:6673`),
  whose id no venue has seen, and it rests beside the other. `venues/cid.py:46`
  says that exchange idempotency holds because the pair of position and stage is
  unique per logical attempt; two passes over one cycle are one submission under
  two ids. The unknown order is neither polled nor cancelled: it is found when
  the entry is let go (`NoOrphanExposure`). If it fills, the maker may have moved
  to the other leg meanwhile, which `pending_entry_lifecycle.py:232` calls a
  route "changed before any fill" (`Unanswered` in `LegSwitchSafe`).
* `OneMakerOrder` with the lane on (target 1): the lane submits
  the replacement as soon as the cancel returns (`entry_sync.py:1167`), though
  maintenance takes the same acknowledgement for a request only
  (`runtime.py:5669`), and `entry_sync.py:1199` keeps a replacement back for
  just that reason.
* `HedgeWithinMaker` (target 2, 3 hedges): `runtime.py:9766` sets the total of
  the hedge leg to what the latest hedge filled.
* `EndedOrderCounted` (target 2, 1 maker order): after a failed cancel
  (`runtime.py:6833`) the progress contributes its state and not its quantity.
* The claim of an entry that is being sent is lost in a crash: the comment at
  `entry_dispatch_runtime.py:1474-1476` says that such a crash "must recover the
  position as an entry in progress, never as an unrelated orphan", but `start()`
  refreshes fee snapshots and writes a snapshot with the current checkpoint
  (`runtime.py:2126`) before the owner index is read (1957), and the first
  iteration writes one too (5033).

*Journal.*
* `CriticalSurvives`: a critical record is flushed, not synced
  (`journal.py:179`), and after a power loss the checkpoint may lie behind the
  end of the file.
* `RetainedIsReplayed`: a torn rotation leaves a gap in the archive numbers
  (`journal.py:263`), after which no older checkpoint is provable although the
  records are there.
* The replay of `exit.partial_closed` reads `matched_closed`
  (`recovery.py:1446`), which its producer (`close_executor.py:1516-1540`) does
  not write: it does nothing, though `recovery.py:945` says it reduces the
  matched quantity. The drift check repairs the book later.

*Loop, passive order manager.*
* The backoff of a failing lane does not double: `runtime.py:12414` compares
  with a deadline that has passed when the lane runs again.
* `VainDrivesCool`: a cancel that failed or a replacement that was refused is
  returned and not raised, so the lane notes a success
  (`passive_maker_runtime.py:320`).
* The sidecar lane stops for good after the allowed failures in a row, and
  after a restart, which restores a tuple where a dict is read
  (`passive_maker_runtime.py:381-389`).

*Order submission.*
* `RejectedIsNothing` at Binance and Aster: an order answered by a gateway
  error is sent again (`transport.py:3138`), and the refusal of the second is
  the verdict on both.
* The sample of the venue's clock includes the wait for the limiter
  (`transport.py:2430`); a reload forgets a Retry-After (`transport.py:1001`).

*Risk mode.*
* `LatchReleased`: a pair that was in trouble and is healthy again is not
  released while its position is open (`supervisor.py:337`).
* A restart releases `fail_closed` with a naked leg when the snapshot has no
  position for it (`runtime.py:10051`); the accounting lane sets RUNNING over a
  block that another lane set in the same iteration (`close_runtime.py:2704`);
  `resume_if_safe` leaves the reason `operator_fail_closed`
  (`ops/commands.py:264`).

*Aggressive close.*
* `FillsKept`: when the short leg is refused at a retry, `execute_close` returns
  `None` (`close_executor.py:1149`) and forgets an earlier attempt whose answer
  was lost and the chunks before it, though `close_executor.py:978` says that
  "The close ledger therefore retains the exact ID (or its CID fallback) until
  reconciliation establishes its fill." `NoSilentLoss` leaves that return out.
* Ids depend on position and stage, so the second close of a position sends
  those of the first (`supervisor.py:527`), though `cid.py:46` says
  "Exchange idempotency holds because the (position_id, stage) tuple is unique
  per logical attempt". The same happens in one close: the id of an exit names
  the chunk, the id of its retry after a resolved duplicate does not
  (`close_executor.py:1978`). Quantity 9 in chunks of 4 and 5, three attempts: the
  exit of either chunk executes 1 and its answer is lost; the retry of the first
  executes 3; the retry of the second meets that order, finds 3 of the 4 it
  wanted, and on the last attempt counts them once more. 6 are booked as closed
  where 5 were, and the position is recorded smaller than the venue holds it.
  The properties leave such states out (`reused`). A second owner of the same position and kind
  takes the place of the first (`state.py:1561-1572`, `Displaced`). A zero
  placeholder whose look-up failed is skipped (`close_runtime.py:222-242`).
* After an asymmetric close the matched quantity shrinks by what *both* legs
  closed (`close_executor.py:1454`), while its definition is "min(long_qty,
  short_qty)" (`state.py:88`) and the executor's own helper computes that
  (`close_executor.py:312`). The repair task of such a close then finds no
  excess over the matched quantity and is retired as `already_flat`
  (`residual_repair_runtime.py:410-434`), and the drift check, which compares
  leg by leg, finds the book right: the legs stay unequal and nobody owns the
  difference. A second such close queues the repair of its own difference only,
  over the first one's: `NothingNaked` speaks of closes of which one at most was
  asymmetric (`Lopsided`). `PairOwned` fails for it in `PositionDrift` (constants of
  `residual`), one lot closed on one leg and none on the other.

*Passive close.*
* The id of a hedge is made of position, stage and chunk
  (`passive_close.py:2955`): the second hedge of a chunk, or one sent again after
  a crash, is a duplicate. Where that is not recognised the first fill is
  recorded again, and the close can end with a position at the venue:
  `ClosedIsFlat` fails without any fault, though `passive_close.py:4578` says
  "Emit the normal terminal event only when both legs are known flat and no
  residual task was created". Where it is, the retry is for the whole live leg
  (`HedgeFollows` leaves that out).
* A query that failed counts as a dead order (`passive_close.py:7272-7285`); a
  replacement whose answer was lost is not asked for, and `_advance_chunk`
  (4368) and a phase switch (1898-1914) forget an order that may rest. An
  uncertain submission that never arrived is not sent again.
* The fallback closes the whole live quantity (6985-7013; docstring 6921 "Never
  flatten the entire position"); it keeps a record with nothing left to do
  (6928) and waits for open orders that nobody cancels (6291-6313): both are the
  cases of `Blocked`.
* `_finalize_passive_close` splits the residual after it reduced the matched
  quantity (4549-4562), so an asymmetric close leaves no task.

*Residual repair, drift check.*
* An accepted repair order that executed nothing keeps its task for ever
  (`residual_repair_runtime.py:1448-1461`), as does an excess too small for an
  order at most venues (500), and a position that is gone while only the other
  leg is held (398-409): the cases of `Blocked` in `PositionDrift`.
* The id of a drift flatten is made of position, leg and symbol
  (`runtime.py:3468`): the second correction of a leg is refused, and the engine
  fails closed. The check tolerates nothing, while the repair lane lets an
  entry's dust go up to 2 %.

## 4. Proofs

`PlatformProofs`, the limiter and the journal:

* `TypeCorrect`: `Spec => []TypeOK`, for all constants that satisfy the
  assumptions of `RateLimit` (bucket and interval functions typed, the scopes of
  a request distinct, `Backoff` the doubled and capped delay).
* `BudgetKept`: `Spec => []WindowBudget`. `WindowBudget` alone is not inductive:
  it says nothing of the tokens that are still in the bucket. The invariant that
  is says that what was spent since the mark *plus what the bucket would hold
  now* never exceeds the bound; a grant moves tokens from one to the other, a
  refill is bounded by the clock, a reload adds at most one capacity. It was
  checked with TLC before it was proved.
* `WaitsBounded`: `Spec => WaitsEnd`. A wait with a deadline sleeps for at least
  one millisecond, never past its deadline, and keeps the deadline when it goes
  on: neither the budget's retry time (`BudgetRetryPositive`) nor the rest of a
  cooldown or an interval is zero when the request is refused
  (`SleepOrGiveUpWell`, `AttemptWell`). It is the safety part of "a bounded wait
  ends"; that a sleeping coroutine is woken is asyncio's.
* `RetryExact`: `Spec => []RetryIsExact`. The time a short caller is told is the
  rounded-up quotient of what is missing and the refill; the proof is the
  arithmetic of that quotient (`OneMore`, `BudgetRetryPositive` and what they
  rest on), for every state of the right types.
* `BansHonoured` and `GrantsApart`: `Spec => LongestBanHonoured` and
  `Spec => GrantsSpaced`, from `Remembered`: the cooldown of a bucket ends no
  earlier than the longest ban told for it, and the last request of a scope is
  not later than now. A reload forgets the bans and the requests, which is why
  both properties speak of the time since the last one.
* `JournalKeepsFacts`: `JournalSpec => FactsSurvive`, the refinement of `FactLog`
  for any number of facts, file size, number of archives and inodes: every step
  of the journal is a step of the log or leaves `Durable` as it is. Two
  inductive invariants carry it.
  `InSequence` holds whatever faults there were: the files have distinct inodes,
  what they hold was recorded in their order (`Ordered`), what follows the
  snapshot's checkpoint is newer than what the snapshot knows (`Ahead`), and so
  whatever is recovered rises (`Knows`): a step that is a fault is `Log!Fault`.
  `Exact` holds while no fault happened: the files are a chain without a gap,
  the live one ends with a whole record, and the checkpoint's file is still
  within reach (`Kept`, `Reaches`), so `Recovered` is what the engine knew. An
  append then adds its own number to what a restart would read (`RecordExact`,
  with or without a rotation before it), a snapshot moves facts from the files to
  the state and leaves the sum (`SnapshotExact`), a crash and a restart change
  nothing (`RestartExact`).
  What reading the files gives is a function on sequences (`FlattenSeq`); the
  facts needed of it are proved by induction on the length, from the
  well-foundedness of `<` (`CountingUp`).
  The theorem uses `CadenceAssumption` (2.3), and needs it: with five facts
  between two snapshots on the run's files (two archives of two records) and
  seven facts, TLC finds `FactsSurvive` violated without any fault.

`PendingEntryProofs`:

* `EntryTypeCorrect`: `Spec => []TypeOK`, from `QuantityAssumption` alone,
  with the lane enabled or not - no
  bound on the orders, the hedges or the slices is used. `TypeOK` needs one
  strengthening (`CallsFit`): a hedge that is asked for was sent, and a
  remainder that is resubmitted is less than the target. `Follows(n)` says what
  every helper that ends a step leaves behind, and is proved once for each
  (`LeaveFollows`, `AbortFollows`, `DecideFollows`, ...); an action then only
  has to say which entry it continues with.
* `PolledOrder`: `~LaneEnabled => (Spec => []RestingIsPolled)`. The lane is left
  out because it cancels and replaces on its own. The property is not inductive,
  since a submission is made long after the entry saw its order end. `OneOrder`
  says that an entry which takes its order for ended is right, that so are the
  answers a pass has collected, and that a pass at a submission takes it for
  ended. Three places report an end; `Honest` and `Passes` say what each must
  leave. Orders whose answer was lost may rest beside, in any number: that there
  are none is false (`OneMakerOrder`, section 3).
* `LegSwitchLeavesNothingKnown`: `~LaneEnabled => (Spec => LegSwitchSafe)`. The
  code decides on its own records, and positions are not among them. `Untouched`
  says what the records are worth: an entry without a hedge owes everything it
  counts to its one order (`Clean`: its checkpoint is 0, and it counts no fill, no
  slice and no hedge in flight of an order that has none), no other acknowledged
  order has filled (`OthersEmpty`), and while its order has no fill, a leg holds
  something only if an unanswered order of that leg filled (`Explained`). So "no
  fill counted, cancelled and ended" means that every acknowledged order is dead
  and empty. The reads of a reconciliation are part of the invariant
  (`ReadsFill`), since a position counts only beside a fill that was read. With
  the lane orders are acknowledged that the entry does not poll, hence the
  assumption.
* `ExposureHandedOver`: `Spec => []NoOrphanExposure`. The property alone is not
  inductive, for two reasons. The reads of the exchange truth are not atomic:
  `Reads` says that what was read is still so - after both open-order lists were
  empty nothing can fill, and so nothing moves between the two positions. And a
  release inside step 2 of a maintenance pass lets the rest of the pass run on
  an entry that is gone: `StepTwo` says such a pass is at a hedge that cannot be
  sent (`Stuck`), and `Detached` that all it can still do is finalize or abort
  what is there no more - it never reaches a submission. That argument rests on
  `SlicesBacked`: an entry with something to hedge has a fill, so the zero-fill
  branches, which would submit, are closed to it. `Contained` is the conjunction;
  it was checked with TLC before it was proved. The lane adds nothing to it: it
  starts only for an entry that is owned, and nothing is removed while it waits.
* `PublicationBacked`: `Spec => PublishedIsBacked`, from the same invariant: only
  a finalization publishes, at the end of the reads, and it compares the matched
  quantity with both positions.

`LaneProofs` (the definitions of `RunLoop` are named so that one module can
extend it and `PassiveCloseLifecycle`):

* `SupervisionInTime`: `Spec => []SupervisedInTime`, for every poll interval,
  backoff and set of lane times with a longest one (every venue call has a time
  limit). The bound alone does not survive a step: it does not know how close
  the full tick is. `InTime` adds it. While the full tick is not due, the time
  since housekeeping and the time until it is due add up to a poll interval
  (`Waiting`), an iteration without ticks runs two lanes at most (`Without`), and
  one on its way to housekeeping is late by the lanes it has run (`Towards`). An
  exception leaves the loop within the same bound, also into the backoff.
* `OneOrderRests`: `Spec => []OneCloseOrder` of `PassiveCloseLifecycle`, for every
  quantity, chunk plan and number of faults, crashes and orders. That two orders
  never rest is not inductive: what keeps the second one away is the record. An
  order is claimed in the pending record and in the journal, under its number,
  before it is sent, and numbers are not used twice (`Records`); an order that
  rests at the venue is the one that the pending record names, and, when the
  engine stops now, the one that the saved record names or the journal makes it
  guess (`OneRests`, `Watches`); and a pass that is about to send one has a
  record that names none (`Stages`).
* `PassiveBookCovers`: `Spec => []BookNotBelowVenue`; `PassiveGoneIsFlat`:
  `Spec => []GoneIsFlat`; `HedgesWithinMakers`: `Spec => []HedgeFollows`, all of
  `PassiveCloseLifecycle` and for every quantity, chunk plan, least order and
  number of faults, crashes and orders. The first two follow from a balance
  (`Covers`): a leg of the book is at least what the venue holds, *plus* what the
  record counted as closed, what the order it watches executed beyond that
  (`Unseen`) and the hedges it has not counted (`Unread`). A venue that executes,
  and a pass that counts, move quantity within the sum; a chunk that ends takes
  off the book what was counted, no more. The invariant (`Books`) says it of the
  pending record with the book *and* of the saved record with the saved book,
  because each pass may journal the record without the book and a crash goes back
  to that pair; so it also needs that the book never exceeds the saved one. The sum
  is right only as long as a fill is counted for the order that made it:
  `Good` says that a record's order is one of its own chunk and leg and that
  its sum is an execution of one of them, `Counts` that a counted hedge is at
  the venue, `Sent` that a hedge under way is for no more than the maker fill.
  Which chunk and leg an order was claimed for is in no variable of the code once
  the record goes on; the invariant quantifies a function that says it (`home`),
  and a claim extends it (`Rehome`). `HedgesWithinMakers` comes out of the same
  facts: every hedge has an order of its chunk on the other leg that executed as
  much (`Venues`), and no order has two, so the sums compare (`SumWithin`).
  `Grows`, `Accounted` and `Journaled` are what each step is shown to do to venue,
  record and journal, `Moves` that this keeps the books. Neither uses a bound on
  faults or crashes. The sums over functions are proved first, as in
  `CloseLedgerProofs`.

`PassiveOrderProofs`:

* `BudgetIsHeld`: `Spec => []BudgetHeld`, `CooldownIsHonoured`:
  `Spec => CooldownHonoured`, for all capacities of at least one
  cancel-replace (two operations), refills, intervals, failure limits, cooldowns
  and any number of restarts. The manager refills when it is asked, the property's
  books refill by the tick. `Sound` relates the two - what a refill would give now
  the books have, the books' failures and wait are no more than the manager's -
  and holds of the lane with its books *and* of the snapshot with the books that
  were saved with it, or a restart could not keep it.
* `RestoringIsFaithful`: `Spec => []RestoredDecidesAlike`. Reading back cuts the
  failure count above the limit and may set again a cooldown that is over; neither
  changes a decision, at any price, at any later time, or after one failure
  more (`Aged`, `FailureAlike`). It needs `Noted`, that a count at the limit was
  noted with its cooldown.

`OrderSubmitProofs`, for any number of requests, limits and reloads:

* `RejectionIsFinal` and `OneOrderAtMost`: `RejectedMeansNothing` and
  `AtMostOneOrder`, both for venues whose gateway errors are not retried, which
  the properties say themselves (section 3 has what happens with the others).
  `OrdersKnown` is the invariant: as long as a request may still be sent, the
  venue holds nothing of it - without that retry only a clock error is sent
  again, and the venue refused that one.
* `PacedApart`: `SlotsApart`. The next slot of the limiter lies an interval after
  every slot that is waited for (`SlotsBehind`).
* `QuietWhileTold`: `QuietWhenTold`, until the first reload, as the property
  says: the engine's cooldown is at least the wait the venue asked for
  (`EngineWaits`), and a reload forgets it.

`RiskModeProofs`, for any limit, cooldown and number of restarts and of raised closes:

* `OperatorStays`: `OperatorHolds`. `Obeyed` says it of the snapshot too.
* `DeleversBounded`: `DeleverBounded`. The step of a position is counted in memory
  before the iteration's snapshot; `Counted` says that a crash, or a close
  that raised, forgets one step at most (`Forgotten`), and at which places of the
  iteration there is one to forget.
* `NakedStaysClosed`: `NakedNeverReleased`, before the first restart, as the
  property says. `Closed` is the invariant: a single leg is there only with a
  position in the book and fail_closed, and the reason is one of the artifacts,
  which the account truth clears only when it is complete. A start decides
  without that truth, so nothing like it holds later.

`CloseLedgerProofs`, for every quantity, chunk cap and number of attempts:

* `NothingIsLost`: `Spec => []NoSilentLoss`. The property speaks of the time
  between two calls of `execute_close`; inside one, an identity may also be in the
  call's hands, as a fill or as an unresolved submission (`AllNoted`, `Hands`).
  What a fill or a bill says of an identity is read back from the venue by id, so
  the invariant needs that a venue takes an id once (`OncePerId`): only then is
  what is read the quantity that order executed (`ExecutedIs`), and a bill of it
  not empty.
* `BookCoversVenue`: `Spec => []BookNotBelowVenue`; `GoneMeansFlat`:
  `Spec => []GoneIsFlat`. Both follow from `Accounts`, a balance of sums that
  holds inside a call as well: a leg of the record is at least what the venue
  holds *plus what this call's orders executed of it* (`Recorded`). The
  write-back takes off the sum of the fills, and that is no more than the sum of
  the executions (`ClosedWithin`), because every fill is one order of this call
  with its quantity (`FillsTold`) and no order is two fills (`FillsOnce`). A
  lost answer is where that could fail: a duplicate is resolved into a fill, and
  it must be an order nobody counted. So the invariant follows the ids a call
  uses, chunk by chunk and attempt by attempt (`AtLeg`, `AtFlatten`); the
  identity without a chunk (section 3) breaks it, which `reused` remembers. A
  bill that is promoted removes a position of which another call wrote nothing:
  the snapshot of a partial owner is at least what the venues hold plus all that
  executed since (`Partials`), so what its lookups find, each order once
  (`FoundWithin`), reaches the snapshot only at flat venues. Neither theorem needs
  that no identity was let go, which the properties allow themselves.
  `NextTypes` and `NextSound` are the step. The sums over sets are proved first,
  by an induction over a *set of naturals* that the library's minimum of a
  well-founded relation (`WFMin`) gives without a predicate as parameter:
  what a sum is with one element more or less (`TotalWith`, `TotalWithout`), and
  that a set whose elements have counterparts in another sums to no more
  (`TotalWithin`).
* `NakedIsRepaired`: `Spec => []NothingNaked`. Which call was uneven is judged by
  what its orders executed; its repair is computed from its fills, and `Recorded`
  alone says only that the fills are no more. The missing half is `Handed`: an
  executed order of the running call is one of its fills or unresolved, so with
  every outcome known the two sums are equal (`ClosedIs`), and what remains of a
  leg is not cut off at zero. `Level` and `Repaired` follow the legs from call to
  call by what they held when the running call began (`Start`): they are equal,
  or differ by the one uneven call's difference, which the repair has. A step of a
  call either goes on (`Works`), lets identities go or executed nothing (`Drops`),
  fails closed (`Fails`) or writes back (`CallWorks`). A pending close is outside of the
  property while it lasts, and it ends at flat venues (`Gone`, `PromotedFlat`).

`PositionDriftProofs`, for every matched quantity, excess, least order, rule for
dust and number of faults, crashes and closes:

* `ExcessIsOwned`: `Spec => []ExcessOwned`; `OnlyExcessIsSold`:
  `Spec => OnlyExcessSold`. Three lanes write the tasks, two sell, closes shrink
  both sides at once, and a crash brings back an older book. What makes it true
  is the task of the entry alone, and `Owned` says so: it covers the excess of the
  venues over the book whatever the close and its task do (`Covered`); the snapshot
  holds the same task, or the journalled outcome that ended it, with a book that
  is no smaller (`Remembered`); an order of a pass that is under way is not for
  more than the excess it measured, or a duplicate said otherwise (`PassFits`),
  and between the orders of a flatten and the correction of the book the legs are
  even (`DriftFits`). `OnlyExcessSold` is an action property and follows from the
  last two. As in its run, the steps after a duplicate answered with the whole
  leg are left out of it: they are the violation of section 3.

Each of the inductive invariants was checked with TLC on the instance of its
run before it was proved. The bounds `Max...` are arbitrary naturals in all of
them; no theorem uses more of the constants than the `ASSUME`s of the modules
say.

Only model-checked: liveness (`LanesServed`, `PriceFollowed`,
`EveryRequestEnds`, `FlatResumes`, `OverdueEnds`, `RepairEnds`), which is outside
of what the prover does. Every invariant and every action property of a passing
run is a theorem.

## 5. Not modelled

* Entry dispatch, gates and scan (`entry_dispatch_runtime.py`,
  `entry_gate_runtime.py`, `scanner*`): an entry whose maker order rests is the
  initial state of the pending entry. The gates are pure decisions on market
  data; the durable claim and its crash are the next module of the plan.
* Recovery ledger and owner adoption (`recovery*.py`): the decisions on the mode
  are in `RiskMode`, the replay in `Journal`; what each event does to the state
  only where a module needs it (passive close claims, repair outcomes).
* Market data and private streams, venue adapters: answers are choices; parsing,
  signing and instrument rules have no state that the properties depend on,
  except the local book, which is planned.
* In the close: single-side protection (its effect is in `RiskMode`), automatic
  history evidence, the entry-side `accepted_order_truth_gap`, the queue's cap.
* Sidecar processes, operations, offline analysis and applications: they read
  files and report.

## 6. Plan

Modules: `EntryDispatch` (claim, submission, hand-off, crash), `RecoveryLedger`
(events and owners at a start), `LocalBook` and `PrivateStream` (gaps, resync,
reconnection), the accepted-order gap of the entry side; liveness of the release
of a pending entry under truthful answers; `EntryOwnership`, the abstract
promise of a pending entry, with `PendingEntryLifecycle` refining it.

Proofs: the sums over finite sets of `LaneProofs` and `CloseLedgerProofs` are one
theory and belong in a module that both extend.
