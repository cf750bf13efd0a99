# A formal model of the live order path

StockOptionsTrader is a Python trading desk: strategies, backtests and research
on one side, and on the other a lane that places real orders at E\*TRADE. This
directory models the second side in TLA+, because that is where a wrong
interleaving, a lost answer or a crash costs money. The modules are checked by
TLC on small instances; the theorems are proved by TLAPS for every value of the
constants. Source paths below are relative to `src/`.

## 1. The system

### Components

| Component | State it keeps | Operations | Modelled in |
|---|---|---|---|
| Risk reservation ledger `portfolio/risk_reservations.py` | SQLite tables `risk_reservations`, `risk_reservation_orders` | `check_and_reserve`, `bind_order`, `revalue`, `record_order_update`, `release` | `RiskLedger` (complete) |
| Live risk gate `execution/live_risk_gate.py` | none of its own; writes ledger, book, switch, audit | hooks `begin`, `before_attempt`, `accepted`, `rejected`, `unknown`, `order_update` | `LiveOrder` |
| E\*TRADE client `brokers/etrade_client.py` | an HTTP session | `place_order` and its idempotency dance, `order_status`, `cancel_order`, lookups | `LiveOrder` (place, lookup, status), `TradingCycle` (its daily-loss check) |
| Local book `brokers/local_book.py` | `local_book_orders`, positions, cash, fills | `track_order`, `apply_cumulative_order_fill`, bootstrap, replace, clear | `LiveOrder` (orders and their fills) |
| Reconciliation `brokers/reconcile.py` | none | compare book with broker, engage the switch on drift | `LiveOrder` (positions) |
| Live execution context `execution/live_context.py` | leases, closed flag, tracked orders | lease, shutdown, bootstrap, sync of tracked orders, reconciliation | `LiveOrder` (sync, reconciliation) |
| Kill switch and audit `utils/kill_switch.py`, `utils/audit.py` | a flag row; an append-only hash chain | engage, disengage, record, verify | `LiveOrder`, `DailyLoss`, `Deployment` (flag, failing writes) |
| Patient executor `execution/patient_executor.py` | one parent order, its child orders, what has filled | work, reprice, cancel and confirm, replace, error path | `PatientExecutor`; its polls also in `LiveOrder` |
| Daily-loss breaker `brokers/circuit_breaker.py` | start-of-day value, in memory and in the audit log | check, recover, capture, breach | `DailyLoss` (complete) |
| Deployment control `deployment/state.py`, `deployment/live.py` | manifest, its state, approvals, order authorisations | stage, approve, activate, arm, start, pause, revoke, recover, authorize | `DeploymentStore` (the manifests), `Deployment` (the controller) |
| Live session, scheduler `utils/live_session.py`, `utils/scheduler.py` | the loop's thread, its events, the first cycle's outcome | start, hold, release, stop; `evaluate_once` | `Deployment` (thread), `TradingCycle` (a target-native cycle) |
| Targets `portfolio/targets.py` | none | order deltas from positions, working orders, reservations | `TradingCycle` |
| GUI routes `gui/routes/` | cache of previewed orders | preview, place; connect, renew, disconnect, start and stop of the keep-alive, resumption | `LiveOrder` (cache), `AuthSession` (session) |
| Authentication `brokers/etrade_auth.py`, `utils/token_keepalive.py` | table `etrade_tokens`, pending request token, cached signing session; the keep-alive thread, its stop event, flags and failure count | `start_auth`, `submit_verifier`, `renew`, `status`, `get_session`, `mark_expired`, `disconnect`; `start`, `stop`, the loop | `AuthSession` |
| Paper trader, jobs, backtests, desks, research, market data | own tables or in-memory | simulation, numerical work, I/O | not modelled, see section 7 |

### How they interact

An order is placed by a thread: the live loop through `PatientExecutor`, or a
request of the GUI. The thread calls `EtradeClient.place_order`, which calls
back into `LiveRiskGate` around every POST:

    place_order:  kill switch? -> begin -> before_attempt -> POST -> accepted
                                   |           |              |- refused: rejected (release)
                              (reserve)    (revalue)          |- ambiguous: lookup, adopt or retry once
                                                              `- anything else: unknown (keep, alarm)

Each hook reads the broker or writes SQLite in transactions of its own; nothing
holds a lock from one hook to the next. Meanwhile other threads place orders,
`order_status` polls apply fills (first to the book, then to the ledger, in two
transactions), the live loop syncs every order the book tracks and reconciles
the book with the broker, an operator or a failing component flips the kill
switch, and the process may die anywhere and restart from the databases. The
broker is a party of its own: it takes orders whose answers are lost, fills and
cancels them at any time.

Above the lane stands the live loop: the scheduler's thread runs the session's
`evaluate_once`, which consults the daily-loss gate, reads reservations and
book, asks the desk for a target, and hands the difference to the executor:

    scheduler -> evaluate_once: switch? -> daily loss -> reservations, book -> target
                                       -> difference -> guard -> executor -> place_order

And above the loop the deployment controller: it starts the scheduler only for a
manifest that two people approved, holds it after its first cycle until that
cycle is proven, and authorizes each order against the manifest's limits. Pause,
revoke and the kill switch come from other threads at any time.

Every call to E\*TRADE, whichever of these threads makes it, is signed with one
cached session and holds one reentrant lock from the choice of the session to
the handling of the answer. The keep-alive thread renews the token between those
calls, a route may connect or disconnect, and at midnight in New York every
token dies:

    thread -> lock -> get_session -> HTTP -> 401? mark_expired -> unlock
    keep-alive -> status -> lock -> renew -> unlock -> status again, count, pause

### What is hard here, and what must hold

* Capacity. No interleaving of submitters may give one piece of capacity away
  twice, and no sequence of reprices, replacements, fills and releases may leave
  the ledger with more or less risk than the orders can still cause.
* Ambiguity. After a lost answer there must be neither two orders for one
  intent, nor an order that nothing covers, nor an order that is lost silently.
* Two stores. Book and ledger are updated in two transactions; between them, and
  after a crash between them, the difference must be on the safe side and must
  go away. Whoever reads both reads them at different times.
* Progress. Placements end, capacity comes back, a stray fill stops the lane,
  an activation ends, a thread that was told to stop stops.
* Control. Pause, revoke, a failed start and a restart must win over whatever
  was running; limits per day hold over threads and restarts.
* Loss limit. A day has one start-of-day value, whichever thread asks first,
  over restarts and midnight, and nobody trades below its limit.
* Targets. Cycle after cycle the account goes to the target and never past it,
  although orders of earlier cycles are still at work.
* Session. No call is signed with a token that was replaced or given up, no
  refusal of one token expires another, and the renewal never ends unnoticed.
* Replacement. Cancel, confirm and replace must not fill more than the parent
  order asked for, nor spend more than was authorized, and the report must account
  for every fill.

`PROJECT.json` lists each hazard at its line with the properties that cover it.

## 2. The modules

| Module | What it is |
|---|---|
| `Totals` | Sums over a finite set of keys, defined by counting pairs instead of recursion, so that they can be proved about |
| `CapacityPool` | Abstract: claims on a limited pool, opened once, raised only while there is room, closed once |
| `RiskLedger` | The ledger, one action per public method |
| `LiveOrder` | The order lane: previews, `place_order`, the gate's hooks, polls, sync, reconciliation, switch, broker, crash. Uses `RiskLedger` through `INSTANCE`, so that every ledger step of the lane is a ledger operation |
| `ParentOrder` | Abstract: an order of which one child works at a time, each for what is left |
| `PatientExecutor` | One execution: place, poll, reprice, cancel and confirm, the error path; the broker, the clock and the operator |
| `DeploymentStore` | The durable manifests: states, approvals, authorized orders, one action per transaction. It is also what `Deployment` implements |
| `Deployment` | The controller's calls step by step, the scheduler's thread, other rails, crash and recovery, over `DeploymentStore` |
| `DailyLoss` | The daily-loss gate and its callers, the audit log's rows, midnight, restarts |
| `TradingCycle` | The cycles of a session: extends `DailyLoss` with snapshot, target, order, fills and polls |
| `TokenLife` | Abstract: a token becomes active once, may expire, and is given up for good |
| `AuthSession` | The token table, the cached session, the calls on the wire, the keep-alive thread, the routes that connect, start and stop; midnight, the idle time-out, crash and resumption |
| `RiskLedgerProofs`, `TotalsProofs`, `PatientExecutorProofs`, `LiveOrderProofs`, `DeploymentProofs`, `TradingCycleProofs` (with the theorems about `DailyLoss`), `AuthSessionProofs` | Lemmas and theorems |
| `MCRiskLedger`, `MCLiveOrder`, `MCPatientExecutor`, `MCDeployment`, `MCTradingCycle`, `MCAuthSession` | Instances for TLC |

What composes what: `LiveOrder` runs `RiskLedger`; `Deployment` runs
`DeploymentStore`; `TradingCycle` runs `DailyLoss`, whose gate the session
passes twice in each cycle. An execution is one step in `Deployment` (it places,
it ends), one order in `TradingCycle`, its children in `PatientExecutor`, and one
placement of a child in `LiveOrder`.

### RiskLedger

`status`, `intent`, `remaining` are columns of `risk_reservations`; `binding` is
`risk_reservation_orders`. Each public method runs in one `BEGIN IMMEDIATE`
transaction and rolls back when it raises, so it is one action, and a call that
raises is no step. What makes it raise is its `Can...` predicate; `LiveOrder`
uses the negation for its error paths.

Abstractions.
* The code keeps the requested risk vector of the whole order and scales it by
  `1 - filled/units` in floating point. The model keeps the vector of one unit,
  which makes the scaled vector integral. Rounding is therefore not modelled.
* `CANCELLED` stands for the four spellings the code releases on alike
  (`CANCELED`, `REJECTED`, `EXPIRED`); `OPEN` for all statuses the ledger does
  not treat specially.
* `Capacity` is a constant. The code computes the limits from the net asset value
  and passes them with each call. A limit that shrinks below what is held would
  make "held is within the current limit" false by design, so the property is
  about limits that stay. For orders that only reduce positions the caller
  passes no limits and a zero vector (`Limits`, `Unfilled`).
* Metadata of a repeated `check_and_reserve` is left out; in `LiveOrder` a
  repeated reservation may therefore raise even for an equal intent.
* `base`, the usage by positions held, is a parameter as it is in the code.

### LiveOrder

A request has a `clientOrderId`, one of `ReservationIds`; `ref` says whether it is
not built yet (`new`), `cached` behind an `order_ref` of the GUI, or `gone`. The
GUI previews a request, which caches it, and a place request consumes it: it may
also expire, be evicted, or be lost with the process. An executor (`Watchers`)
builds one for each placement. So two submitters may reach for the same request;
that only one gets it is `consume_order_ref`, and its mutant shows that
`Covered` and `OneOrderPerIntent` depend on it: the refusal of the second
placement would release the reservation that covers the first.

One submitter is one call of `place_order`; `client` is the request it took, `pc`
says where it stands:

| `pc` | Code |
|---|---|
| idle, begin | the order reference, `_pre_trade_checks`; `begin` has read its valuation |
| check, revalue | `before_attempt`: valuation, then the ledger's transaction |
| post | the POST of `_attempt` |
| placed, refused, ambiguous, garbled | what came back: an order id, `EtradeApiError`, timeout or 5xx, any other exception |
| bind | `accepted`, between `track_order` and `bind_order` |
| done, closed, failed, dead | placed; its poller has seen the end; ended with an error; died with the process |

A poll (`obs`) is the observation `order_status` has read and is applying. Its
stages follow `order_update`: at `read` it looks whether the ledger has the order
bound (`ReadBinding`, a read of its own before anything is booked); then it books,
knowing the order as bound (`settle`) or not (`book`); only from `settle` does it go
on to the `ledger`, even if the order was bound meanwhile. For the sync loop
`rebook` follows, since `_sync_tracked_orders` applies the result of `order_status`
once more. A GUI placement polls nothing: its order is left to the sync loop, which
skips what the book has as over. A sync that raises engages the switch when
`run_reconciliation` made it; `working_orders` makes one too and engages nothing, so
`Finish` allows both.

`Alarm` is `_engage_unknown`: engage the switch, then write the audit row, either
of which may fail (`engage` rolls its flag back when its own audit row fails).
`Faults` names what may go wrong in a run: `crash`, `audit` (a write of the audit
log or the book raises, or a poll's write of the ledger; so an update may be booked
and not reach the ledger, or reach it and raise on its audit row), `late` (a POST
reaches the broker after the client gave up on it - which also stands for an accepted order a lookup does not list, for
example behind the page limit), `malformed` (an accepted order answered by a 200
without order ids).

Assumptions about the broker, which is external: it never fills more than was
ordered, `order_status` finds the order it is asked for, fills and cancellations
come at any time. Positions start at zero and orders open positions; the two
sides of a target are `TradingCycle`'s. Whether E\*TRADE takes two orders with one
`clientOrderId` is not known from this repository. If it does, a POST that
arrives after the lookup and a retry that succeeds make two live orders of one
intent; `OneOrderPerIntent` is therefore checked without the fault `late`, and
what is promised with it is `LossIsLoud`.

### PatientExecutor

`pc` says where the execution stands: *idle* (before the call), then in `_run`
*begin* (arrival quote and the first look at the
switch), *place* (`_place_child`), *landed* (the poll after it), *wait*, *poll*,
*decide* (edge, deadline, reprice), *cancel* and *confirm* (`_cancel_confirmed`),
*abort* and *last* (the handler of any error: cancel, then one poll), *over*.
`child`, `booked`, `remaining`, `spent`, `limit` are the locals `order_id`,
`order_filled` (with its cost), `remaining`, `filled_notional`, `limit`. Each call
to the broker is one step; `order` and `sent` are the broker's.

Abstractions.
* A BUY of one asset under an opening envelope. A sale and a package have the same
  control with other signs, and no envelope when they close.
* Prices are a few ticks; a fresh quote may move the limit to any of them, so the
  25% rule and its rounding are covered by every outcome. A fill is one unit at a
  price no worse than the limit. Costs are sums, where the code backs the price of
  each slice out of a moving average in floating point.
* A call that raises: `down` in `Faults`. A child the broker takes although its
  placement raises: `lost`. A working child that `order_status` does not find:
  `unlisted`. The refusal of a placement needs no fault; it includes the kill
  switch of `place_order`.
* The deadline, a stop and the flips of the switch come at any time. `told` is
  the cancel event or the stop event; both set are as the stop event alone.
  `execute` clears the first and keeps the second, `closed` is the answer of
  `close`, which waits for `Idle` (and may time out, which is no step).
* Of what `execute` does around `_run`, the envelope armed and consumed and the
  snapshots for the GUI are not modelled; a second call while one is active
  raises and is no step.

### DeploymentStore and Deployment

`DeploymentStore` has the tables of `deployment/state.py`: `state` of each
manifest (`unstaged`, where there is no row, to `revoked`), who approved the risk and the operations, and the
ledger of authorized orders with intent, date, notional and whether it opens.
Each method is one transaction, so one action; a call that raises is no step. An
authorisation that repeats an intent returns what is there and is a stutter.

`Deployment` interleaves three threads of the process over it:

| Variable | Code |
|---|---|
| `lead` | the thread in `prepare` or `start`: *activate*, *bind*, *unbind*; *arm*, then the body of start's `try` (*open* the switch, *launch*, *await* the first cycle, *verify*, *close* the switch, *prove*, *mark*, *reopen*, *release*), and the roll-back *undo_switch*, *undo_stop*, *undo_join*, *undo_pause* |
| `stopper` | the thread in `pause` or `revoke`: engage, then *stop*, *join*, *reconcile*, *record* |
| `thread`, `running`, `stopping`, `released`, `first` | the scheduler: where `_run` and `evaluate_once` stand, `_running`, `_stop_event`, `_first_cycle_release_event`, `_first_cycle_outcome` |
| `engaged`, `working` | the kill switch; an order at work at the broker |
| `up`, `bound`, `incomplete` | the process and its constructor's recovery; the manifest the session is configured for; a roll-back rail that failed |

Everything but the stores, the switch and the broker's order is forgotten by a
crash; `_recover_interrupted_deployments` then engages the switch and pauses what
it finds active before the controller exists.

Abstractions.
* The evidence of the preflight (hashes, provenance, checkpoint, expiry,
  universe) is an input: the call goes on or raises. So is what a cycle decides:
  it asks for any next intent, ends well, or halts.
* `start` may raise at any place of its `try` (a write, a drift, a time-out, an
  interrupt): `StartRaises`. The time-out of the wait for the first cycle is one
  of these.
* `HaltCycle` is the end of a cycle that halts in one step. In the code the outcome
  is published first, then `_pause` runs and the thread leaves its loop: `start` may
  see the bad outcome while the thread is still on its way out.
* The scheduler pauses itself on one error under the controlled policy; its
  `paused_reason` only makes the first cycle a bad one (`first = "bad"`).
* One call of each kind at a time: a second concurrent `prepare` or `start`
  meets the same guards of the store and of the scheduler. A person who turns the
  switch off by hand is not modelled, since every property here is about the
  switch as the code uses it. `rehearse` is a script over the same calls.

### DailyLoss and TradingCycle

`DailyLoss` is `DailyLossGate` with the breaker behind it. A caller reads the
account value and the US/Eastern date before it takes the lock (`Enter`); under
the lock it finds the start-of-day value in memory (`Remember`), in the audit log
(`Recover`) or makes its own value the day's (`Capture`), and compares. These are
one step each, because nobody sees the state in between. A breach writes its row
and engages the switch in a step of its own. Faults: the row of a capture cannot
be written (`capture`: the value stays in memory under the old date, exactly as
the code assigns them), a call from before midnight meets this after midnight
(`overrun`), the halt cannot be written (`halt`), the log cannot be read (`read`;
the code goes on without it).

`TradingCycle` extends it: the session is one caller, the GUI another. A cycle
(`cycle`) passes the gate, reads first the reservations, then the book, meets the
desk's target, and sends the difference through the client's gate again to
`Post`. `order` keeps, for each order, what the broker has (`filled`, `open`), what
the book has (`booked`) and what its reservation has (`ledgered`, `active`,
`bound`); `poll` is an observation between the two updates.

Abstractions.
* One asset, long only, which the session alone trades: manual orders of the GUI
  on the same asset move the position under the session by design. Several assets
  are independent, but for the risk gate, which is `LiveOrder`'s.
* The target is an input of each cycle; that `apply_risk` drops an intent is an
  outcome. Its stop-loss intents and the netting of several desks are left out.
* The executor's children are folded into one order, which may still work when
  the executor gives up. A poll that sees nothing new is left out; it changes
  nothing.
* An order that is tracked and not bound is never booked here. In the code a poll
  may book its fills while its reservation stays full, so that the plan counts
  them twice. The slack of `NeverBeyondTargets` is the whole quantity of such an
  order, and `OrdersCompleteTheTarget` speaks of accounts without one.
* A placement with an unknown outcome has a reservation that knows no order; it
  can neither be polled nor cancelled, and stays. If the broker never had the
  order, it is as one that `Close` ends at once.

### AuthSession

`life` and `since` are the columns `status` and the date of `token_issued_at` of
`etrade_tokens`; `pending` and `session` are `_pending` and `_session`; `loop` is
the place of the keep-alive thread in `_run`, `stop`, `running`, `reason` and
`failures` its fields. `broker` is what E\*TRADE makes of each token: `live`,
`idle` after two hours without a use (a renewal revives it), `dead` after
midnight. A call to E\*TRADE is two steps, the one that sends and the one that
handles the answer; in between `wire` says whose call it is and with which token
it was signed, and the lock is taken (`LockFree`). What E\*TRADE makes of a call
is fixed when it is sent, whatever becomes of the answer. Everything under the
lock that makes no call is one step.

`start` and `stop` of the loop are not under this lock but under the scheduler's
own, which `stop` gives up while it joins: hence the places `joining` and
`overtaken` of a route, and the audit rows after it (`started`, `stopped`), from
which `resume_keepalive_if_desired` reads the last intent.

Faults: `transport` (a call fails, or E\*TRADE acts and the answer is lost),
`audit` (an audit row fails: the caller meets an exception after the state has
changed, exactly where the code appends), `status` (reading the table raises),
`calendar`, `late` (the join times out), `crash`.

Abstractions.
* One environment (sandbox or production); configuration checks are left out,
  and so are the counters that the page shows beside `running` and the reason.
* The keep-alive sleeps by leaving its step open: the model does not count
  minutes, so the interval and the two hours meet in every order.
* A request is any signed call of any thread; what it asks for is `LiveOrder`'s.
  The retries of `_get` are further requests, since it gives the lock up between
  attempts.
* A 401 without `oauth_problem` counts as any other status.

## 3. The runs

| Run | Question | Result |
|---|---|---|
| `ledger` | every sequence of ledger calls: 2 reservations, 2 orders, 3 unit prices in 2 dimensions, 2 states of the positions, 2 units | holds |
| `live_order` | two place requests of the GUI over two previewed requests (2 units and 1), prices that may double, failing audit writes, one crash, sync loop | holds |
| `live_order_fair` | one placement of 2 units, by an executor that polls it or by the GUI; POSTs may be late, the sync loop polls; liveness | holds |
| `malformed_answer` | is a working order always covered? | violated |
| `stale_usage` | can fills and working orders exceed the limits? | violated |
| `lost_ledger_update` | does over-counted capacity come back after a crash? | violated |
| `executor` | one execution of 3 units, up to 3 children, 3 prices, an envelope of 6, calls that fail and placements that are lost | holds |
| `unlisted_child` | does cancel and replace ever overbuy when the scan misses the child? | violated |
| `deployment` | one manifest from staging to revocation under every fault: prepare, start, pause, revoke, the thread, restarts; liveness | holds |
| `revoke_race` | is the kill switch off only for a loop that may trade? | violated |
| `trading_cycle` | two callers of the gate over two days, cycles between two targets with orders at work, unknown outcomes, restarts | holds |
| `auth_session` | two routes and the keep-alive, two tokens, a midnight, lost answers, failing reads and audit rows, a restart | holds |

The properties, and why each could have failed:

* `ActiveWithinCapacity`, `ImplementsPool`: `revalue` raises a vector without
  looking at its own old one, a replacement chain adds orders to one intent.
* `RemainingIsUnfilledShare`: the stored vector is rewritten by four operations;
  it must equal a function of the bindings after each.
* `ClosedForGood`, `OrdersMoveForward`: late, repeated and reordered updates.
* `Covered`: relates the broker's working orders to the ledger over every path
  through the lost answers, failing hooks and a crash, and over two requests
  that reach for one previewed order.
* `OneOrderPerIntent`: the dance itself; it needs the lookup to list orders that
  are already over, which its mutant shows.
* `LossIsLoud`: no failed submission leaves an unbound order without an audited
  alarm and its reservation.
* `BookNeverBehindLedger`: the order of the two stores under two pollers, the
  executor and the sync loop; its theorem is for any number of them.
* `SwitchDrains`: the switch is read once per placement, before up to two POSTs and
  any delay on the wire. What it still guarantees is that nothing else comes.
* `PlacementEnds`, `StrayFillStopsTrading`: liveness of the call and of the
  reconciliation.
* `EndReachesLedger`: liveness; two pollers and a binding race over three steps of
  `order_update`. What is held for an order that is over is given back, if its
  executor still polls it, or the sync loop does not yet have it as over and has
  not read it as unbound. Its left side says exactly that much and no more:
  without it the property is `OverCountIsTemporary`, which fails (section 4, 3).
  Its mutant is an executor that also skips what the book has as over: the sync
  loop may have booked the end before the binding.
* `NeverOverfills`, `ImplementsParent`: fills race every cancellation, and the
  replacement is sized by books that must be up to date at that moment.
* `ReportIsExact`: relates the report to what the broker has, over every way an
  execution ends but an error.
* `WithinEnvelope`: the limits rise from child to child, while part of the money
  is spent and part of it may still be, on a child not yet confirmed dead.
* `EndsWhenTold`: from wherever the stop or the deadline finds the loop.
* `QuietAfterClose`: the shutdown of the lane races a cycle that is about to call
  `execute`; the stop must survive the reset that `execute` begins with, and the
  answer of `close` must wait for the one in progress.
* `TwoPeopleAgreed`: approvals are given in separate transactions before the
  activation; no manifest trades with one person behind it.
* `DailyLimits`: sums over the authorized orders of a date, whichever process and
  generation of the thread authorized them.
* `StoppedForGood`: a pause or revoke is never undone by a start that is still in
  progress, by its roll-back, or by a thread that outlives its join.
* `RunningIsProven`: the proof is collected over several steps of `start`, any of
  which pause, revoke and other rails may overtake.
* `OneCycleUntilProven`: the loop must be held between its first outcome and the
  release, whoever sets which event in which order.
* `OnlyBoundTrades`: a restart inherits no deployment that may trade.
* `FailedStartIsRolledBack`: from every place `start` may fail, with a stopper in
  between.
* `ActivationEnds`, `StopEndsThread`: liveness; no deployment stays armed, no
  thread waits for a release that does not come.
* `OneBaselinePerDay`: two threads, restarts and midnight race for the first row
  of a day.
* `PassedWithinLimit`: the value compared was read before the lock, the baseline
  found after it; also when the switch was turned off after a breach.
* `NeverBeyondTargets`: a bound on the account for every sequence of cycles, fills,
  cancellations and lost answers. Two cycles and an order still at work are the
  least that can break it.
* `OrdersCompleteTheTarget`: each order makes up exactly what is missing, although
  reservations and book are read at different times. Reading the book first
  would count a fill twice; that is its mutant.
* `OneCurrentRow`, `SessionIsCurrent`: rows are superseded in one place, given up
  in another and expired in four; the cached session is reused without a look at
  the row it was built for.
* `CallsOwnTheToken`, `ExpiredForCause`: between a call and its 401 there must be
  no renewal and no reconnection, or `mark_expired` throws away a good token.
* `EndsLoudly`, `RunningIsTrue`: the flags of the loop are written by the thread,
  by `start` and by a `stop` whose join may have been overtaken.
* `LivesOnce`: the table implements `TokenLife`; no token comes back, under any
  race of renewal, expiry, reconnection and disconnection.

**Bounds.** Two reservations and two orders are the least with competition for
capacity and with a replacement; a third unit price and a second dimension make
a limited and an unlimited dimension differ, and let a price double while an
order is half filled. `live_order` has two submitters because every race of the
lane is between two of them, or one and a poll; more would repeat the pairs. They
are alike, so the run is symmetric in them. Two
units give a partial fill. Two broker orders are one more than one intent should
ever have. `MaxCrashes` is 1: what survives a crash is durable state, and a
second one starts from a state that the first could have left. Attempts need no
bound; the code stops at two. The liveness run has one request, because its
properties are about one placement and its pollers; an executor or the GUI takes
it, so that both kinds of placement are explored, with and without a poller of
their own.

In `executor`, three units over three children allow a partial fill of each of
two children and a third for the rest; with three prices a replacement can cost
more or less than its predecessor; an envelope of 6 pays for all units at the
middle price, and decides whether the limit may rise after a cheap fill. Two
confirmation polls allow one that is answered too early and one that is not.
`MaxChildren` bounds repricing, which in the code only the deadline bounds.

`deployment` has one manifest, because a second one never meets the threads: the
session is bound to one manifest for the life of the process. One person may
approve the risk and two the operations, so that one of them may try both. Two
intents with notionals 1 and 2, an order limit of 2 and a daily notional of 3
make the last order fit or not; with two intents the daily count of 2 is reached
but not exceeded, which the theorem covers for every count.

`trading_cycle` has the session and the GUI at the gate, two account values of
which the lower one is a loss of exactly the limit (2 of 100), two days, targets
0 and 2 from a position of 1 (so a cycle may buy or sell one or two units, and
partly), two orders, one of them possibly with an unknown outcome. Two orders are the
least in which the second is placed beside the first. Larger instances (three
orders with two unknown outcomes, 9.3 million states) hold as well but do not fit
the time of a run; the theorems need no such bound.

`auth_session` has two routes, so that one may connect, disconnect, start or stop
while the other waits for an answer or a join; with the keep-alive that is three
threads at one lock. Two tokens give a reconnection, two days one midnight, after
which every token is dead; the failure limit of 1 makes the first failure a
storm. The run has every fault but `late`, which would double it: a start that
overtakes a stop is the harder case of the two. The theorems take any limit and
all faults together.

Type invariants are proved for every module (section 5); TLC repeats only the
ledger's, whose types relate two tables.

**Fairness.** `Fairness` of `LiveOrder` assumes of the code's threads only that
they go on:
* a thread inside `place_order` takes its next step (no lock is held across
  steps; HTTP calls have timeouts);
* a poll that has read the broker is applied;
* an executor polls the order it placed until it sees it end. (It stops earlier
  when a cancellation is not confirmed in its allotted attempts; then it raises
  and the loop halts, which is not modelled here);
* the sync loop polls each order the book tracks as not over, and reconciles -
  but only while the kill switch is off. `evaluate_once` halts when it is on, and
  the scheduler pauses; an operator starts it again. Hence the strong fairness of
  a step *with* the switch off, and the `engaged` disjunct in `EndReachesLedger`,
  `OverCountIsTemporary` and `StrayFillStopsTrading`.
No fairness is assumed of the broker, the operator or faults. In `FairSpec` of
`PatientExecutor` only the thread itself goes on (weak fairness of `Run`); the
broker need not fill or cancel anything, and the deadline need not pass:
`EndsWhenTold` speaks of executions whose time is up.

In `FairSpec` of `Deployment` a call in progress, the recovery of a constructor
and the scheduler's thread go on. The executor's end (`ExecEnds`) has a fairness
of its own, because its deadline bounds an execution however often it reprices;
without it `Place` could be repeated for ever. Nobody need prepare, start or stop
a deployment, restart the process, or fill an order, and `first` may never become
`ok`: then `start` raises at its time-out.

## 4. Findings

Each is the counterexample of a violation run; `PROJECT.json` quotes the lines.

1. `malformed_answer`. A 200 without order ids is classed as a refusal and the
   reservation released, although the comment beside the next handler says that
   a malformed success is no proof of refusal.
2. `stale_usage`. The ledger's transaction excludes concurrent reservations, but
   the usage of the positions it adds to them was read from the broker before. A
   fill in between is counted nowhere.
3. `lost_ledger_update`. The over-count that `order_update` calls temporary is
   permanent after a crash between its transactions: the sync loop skips orders
   the book has as over, and the recovery helper has no caller. The crash is the
   run's way there. A second one needs no crash and no fault: an order placed from
   the GUI is tracked, the sync loop polls it and reads it as over and not bound
   (`live_risk_gate.py:279`), `bind_order` binds it, and the poll books the end and
   leaves the ledger alone (`:299-306`). No poll comes back to it
   (`live_context.py:446-448`), and the reservation stays ACTIVE for ever. With
   `Watchers = {}` and `Faults = {}` in `MCLostLedgerUpdate.cfg` TLC shows this trace.
4. `unlisted_child`. A scan of the order pages that stops at its limit answers
   like one that knows the order is gone, and `_cancel_confirmed` takes both for
   dead: the replacement may double what works.
5. `revoke_race`. `start` turns the switch off for good without another look at
   the manifest. A revoke or pause that lands between the proof of the first
   cycle and that step leaves a stopped deployment with the switch off, although
   the docs say that the switch is released only for an approved running loop.

`Covered` holds without the fault of 1 and `NeverOverfills` without the fault of 4;
that is what the passing runs show. What remains of the promise in 3, without a
crash or a failing write, is `EndReachesLedger`: capacity comes back for an order
its executor goes on polling, and for one of the GUI if its end is read after the
binding. In
the race of 5 the manifest stays revoked and the guard refuses every order of the
loop (`StoppedForGood`, `DailyLimits`); what is open is the switch for others.

Smaller disagreements met while modelling, which have no run:
* At the deadline the executor does not look at what remains after the confirmed
  cancellation (`patient_executor.py:622-625`): if the last unit fills in between, the
  report is `partial`, although the docstring calls a full fill `filled`.
* `stop` of a keep-alive that has paused, or was not resumed, returns before it
  writes its intent (`token_keepalive.py:134-136`): a later restart resumes the loop
  although the last explicit wish was to stop.
* `start` is ignored while the old thread is alive, also when it has paused and is
  about to end (`token_keepalive.py:113-115`): a connect at that moment leaves no loop.
* A `status()` that raises at the first look of a cycle is taken for a token that
  nobody has connected, where the docstring says that it counts as a failure
  (`token_keepalive.py:239-243`, `:253-255`).
* An authorization that is begun over a connected token and not finished hides the
  token (`etrade_auth.py:350`): the loop idles until it goes cold.

## 5. Proofs

`RiskLedgerProofs`, for any finite sets of reservations and orders, any prices,
positions, dimensions and capacities:

| Theorem | Says |
|---|---|
| `TypeCorrect` | `Spec => []TypeOK` |
| `CapacityRespected` | `Spec => []ActiveWithinCapacity` |
| `RemainingTracksFills` | `Spec => []RemainingIsUnfilledShare` |
| `ClosedStaysClosed` | `Spec => ClosedForGood` |
| `OrdersNeverMoveBack` | `Spec => OrdersMoveForward` |
| `LedgerImplementsPool` | `Spec => Pool!Spec`, with `phase` and `held` read off the ledger |

The argument. The invariant is `TypeOK /\ RemainingIsUnfilledShare /\
ActiveWithinCapacity`. `ActiveWithinCapacity` is not inductive alone: a partial
fill rewrites the remaining vector from the intent and the fills, and that this
does not raise it follows only if the old vector was that function of the old
fills. `RemainingIsUnfilledShare` in turn needs the types: an order bound to a
reservation that does not exist would give fills of no intent. With the three
together each operation either checks the pool (reserve, revalue), or lowers one
vector (fill, release), or leaves all of them alone (bindings: a new binding
starts at fill zero, so that the sum over the chain stays). The refinement uses
the same invariant: a fill maps to `Adjust` downwards or to `CloseClaim`, a
revaluation to `Adjust` with room, a binding to a stutter.

`TotalsProofs` has the lemmas on sums (over the empty set, with one key changed,
added or removed, monotone), by counting: `Total` is the cardinality of a set of
pairs, so that the library's facts on cardinality apply without induction.

`LiveOrderProofs`, for any submitters, requests, units, prices and capacities:

| Theorem | Says | Faults |
|---|---|---|
| `LaneTypeCorrect` | `Spec => []TypeOK` | all |
| `BookKeepsUp` | `Spec => []BookNeverBehindLedger` | all |
| `LaneUsesLedger` | the lane implements `RiskLedger`: every step is a ledger step or leaves it alone | all |
| `LaneWithinCapacity` | so `ActiveWithinCapacity` holds in the lane | all |
| `LaneMovesForward` | so do `ClosedForGood` and `OrdersMoveForward` | all |
| `LaneImplementsPool` | and the lane implements `CapacityPool`: the two refinements compose | all |
| `OneOrderEach` | `Spec => []OneOrderPerIntent` | no `late` |
| `WorkingOrdersCovered` | `Spec => []Covered` | no `late`, no `malformed` |
| `LossesAreLoud` | `Spec => []LossIsLoud` | no `audit`, no `malformed` |
| `SwitchDrainsTheLane` | `Spec => SwitchDrains` | all |

Without the excluded faults the properties are false, in the model and in the
code (findings 1 and the text on `late` above; with a failing audit write the
alarm itself is lost). The invariant comes in layers. `Lane` says what the stores
and the observations agree on, whatever goes wrong: bound orders are tracked and
booked at least as far as the ledger has them, an observation lies between what is
booked by its reader and what the broker has, an order in hand is the broker's
and of the submitter's own request. It gives `BookNeverBehindLedger`. `Course` says
how far each placement has come: a request is handed to one submitter and not
cached again (`Requests`), before a first POST the broker knows nothing of it
(`Fresh`, `Unsent`), from the reservation to the end of the attempts its row is
active, holds the units of the request and is unbound (`Held`, `Rows`). On top of these, one more conjunct for each
theorem: `Single` says that while a submitter may still send there is no order
under its request, `Backed` that a refusal leaves none and a working order has an
active row, `Loud` follows a lost order to the alarm.
`SwitchDrains` needs one fact of its own: a POST that is on its way is not counted
among those its placement may still send (`Sent`), so that whatever the broker takes
uses up exactly one of the POSTs outstanding.

`PatientExecutorProofs`, for any quantity, prices, envelope, number of polls and of
children, under every fault but `unlisted` (with it `NeverOverfills` is false, as
`unlisted_child` shows):

| Theorem | Says |
|---|---|
| `TypeCorrect` | `Spec => []TypeOK`; in particular `remaining` is never negative |
| `NoDoubleExecution` | `Spec => []NeverOverfills` |
| `ReportsAreExact` | `Spec => []ReportIsExact` |
| `ExecutionImplementsParent` | `Spec => Parent!Spec`, with `filled` and `working` the sums over the children |
| `EnvelopeRespected` | `Spec => []WithinEnvelope` |
| `StaysQuiet` | `Spec => QuietAfterClose`, with the fault `unlisted` as well |

`NeverOverfills` says nothing about the executor's own books, so a replacement
could break it. The invariant `IInv` adds four things: only the last child can be
working (`Shape`); what has been banked of the child agrees with the broker up to
fills not yet polled (`Books`); where a replacement is placed, and where a report
other than an error is given, the child is over and banked in full (`Placeable`,
`Reported`); and the last child asks for exactly what the others left (`Exact`).
A terminal child cannot fill any more, which is why banking on the poll that sees
the terminal status, as `_cancel_confirmed` does, is enough. The refinement reads
both sums off the last child and the total.

`WithinEnvelope` needs money as well as units: what has been banked is what was
paid, but for fills of the current child not yet polled (`Accounts`); nothing is
left to bank where a child is placed (`Paid`), so that the check of
`_check_opening_budget` counts every unit; and what is paid plus the rest of the
last child at its limit stays within the budget (`Funded`), because a fill costs
no more than the limit it takes out of that rest.

`DeploymentProofs`, for any manifests, people, intents, dates and limits, under
every fault:

| Theorem | Says |
|---|---|
| `LimitsRespected`, `TwoApprovals`, `StoppedStays` | `DailyLimits`, `TwoPeopleAgreed`, `StoppedForGood` of the store alone |
| `TypeCorrect` | `Spec => []TypeOK` |
| `ImplementsStore` | `Spec => StoreSpec`: every step of the controller is a store transition or leaves the store alone |
| `TradingLimits`, `TradingAgreed`, `HaltedStays` | the three properties for the controller, through `ImplementsStore` |
| `OneCycle` | `Spec => []OneCycleUntilProven` |
| `BoundTrades` | `Spec => []OnlyBoundTrades` |
| `FailedStarts` | `Spec => []FailedStartIsRolledBack` |
| `Proven` | `Spec => RunningIsProven` |

The store's properties are about durable state only, so they are proved once and
inherited. Those of the controller relate a call to the thread it started. The
invariant says for each place of `start` what is known there: which manifest is
bound and that no thread runs before the launch (`Process`), that a thread with
an outcome is held or gone until this call releases it (`Handshake`), what may
have become of the row (`Standing`), and what the roll-back has already achieved
(`RolledBack`). A stopper may overtake at any place, so each part says what is
true whether or not it has.

`TradingCycleProofs`, for any callers, values, limit, days,
targets and bounds:

| Theorem | Says | Faults |
|---|---|---|
| `OneBaseline`, `OneBaselineInTheCycle` | `OneBaselinePerDay` of the gate and of the cycle | no `read` |
| `LossLimit`, `LossLimitInTheCycle` | `PassedWithinLimit` | no `read`, no `overrun` |
| `TypeCorrect` | `Spec => []TypeOK` | no `read` |
| `WithinTargets` | `Spec => []NeverBeyondTargets` | all |
| `CompletesTheTarget` | `Spec => OrdersCompleteTheTarget` | all |

With `read`, `_persisted_baseline` answers as if there were no row and the next
call makes its own value the day's: a second row, and a loss measured from there.
The code does so knowingly (it logs and goes on), so no property claims
otherwise. With `overrun`, a call that read its date before midnight fails to
write after it and leaves its value in memory under the new day's date
(`circuit_breaker.py:227-234`); every later call of that day in this process is then
measured from the wrong value, and `PassedWithinLimit` is neither checked nor proved
for it. `DayInv` ties the gate's memory to the
one row of its date (`Captures`, `Memory`) and what a caller carries to that row
(`Copies`), but for a date that is over when captures may fail (`Sure`). For the
cycle the invariant `Course` says why a stale snapshot does no harm. The most and
the least the account may come to hold can be told from the book and the orders,
whatever is filled but not yet booked (`Balance`), and stay within the targets
(`Bounded`). A cycle that found an active order it could cancel ends without
placing (`Obsolete`); one that found none read its reservations when every order
with a known outcome was over and booked (`Going`, `Quiet`), so nothing was left
to change between its two reads, and no other thread places.

`AuthSessionProofs`, for any threads, tokens, days and failure limit, under every
fault:

| Theorem | Says |
|---|---|
| `SessionInvariant` | `Spec => []IInv`, the invariant the others follow from |
| `TypeCorrect` | `Spec => []TypeOK`; failures never pass the limit |
| `OneCurrent`, `SessionCurrent` | `OneCurrentRow`, `SessionIsCurrent` |
| `CallsOwn`, `ExpiryHasCause` | `CallsOwnTheToken`, `ExpiredForCause` |
| `NoSilentEnd`, `RunningTrue` | `EndsLoudly`, `RunningIsTrue` |
| `TokensLiveOnce` | `Spec => LivesOnce`: every step connects, expires or gives up one token of `TokenLife`, or leaves the table alone |

None of the four properties of the desk is inductive alone. That
a 401 expires the right row needs the row to be the one the call was signed with
(`CallsOwnTheToken`), which needs the lock (`OneCall`: at most one call is on the
wire) and a session that is current. That the expiry has a cause needs the 401
to be still true when it is heard: nothing but a renewal revives a token, and a
renewal needs the lock (`Refused`). That a row whose day is over has a dead token
(`Dated`) covers the expiries that are noticed without a call, and a token on its
way is new to the table (`Minted`, `Known`), so that connecting it revives
nothing; this last is also what the refinement needs. The thread's half says that
it waits only for its renewal (`Listening`), is short of its limit while it goes
on (`Patient`), and that behind each join is a stop (`Joining`), so that a stop
may clear `running` when its join has timed out.

The assumptions are the named ones of the modules: finite sets of ids, natural
numbers, an owner that is no reservation, a manifest that is none, a positive
quantity, at least one price. TLC evaluates them in every run.

## 6. Only model-checked

Liveness under fairness is out of the prover's reach: `PlacementEnds`,
`EndReachesLedger`, `StrayFillStopsTrading`, `EndsWhenTold`, `ActivationEnds`,
`StopEndsThread`. So would be recursion over data; the modules have none, sums
being defined by counting. Every invariant and action property of the passing
runs has a theorem.

## 7. Not modelled

* `_ensure_book_ready` of `begin`, the valuation of options and spreads, and
  the numeric limits from configuration: values, not order of steps.
* The local book beside orders and positions: cash, average prices, options,
  bootstrap from the broker, clear; a second execution record under one
  execution id.
* The context's leases and the rest of its shutdown (`PatientExecutor` has what it
  asks of the executor). The wait of `shutdown` is bounded by design:
  what outlives it is a placement without its later hooks, which is the crash of
  `LiveOrder`. `reset_execution_context` clears the global before it shuts the
  old context down, so that for a while two contexts may exist; nothing is
  promised for this time.
* Liveness of the keep-alive: that a loop which runs renews an idle token in time,
  or shows that it no longer runs. It depends on the lock being given to the thread
  in the end, which a Python `RLock` does not promise.
* The hash chain of the audit log: each row is appended under one lock, in one
  transaction, over the hash of the last.
* Preview as a call, request building, retries of idempotent GETs, XML/JSON parsing.
* Desks, strategies, backtesting, risk formulas, research evidence, promotion:
  sequential computation over files and market data, most of the repository's
  lines. None of it shares state with another thread; what it needs is tests of
  its numbers.
* The paper trader and the job table: one worker, no external party.
* Market data, warehouse, alerts, reporting, GUI rendering: I/O.

## 8. Plan

Done: `RiskLedger`, `CapacityPool`, `LiveOrder` with the previewed requests,
`PatientExecutor`, `ParentOrder`, `DeploymentStore`, `Deployment`, `DailyLoss`,
`TradingCycle`, `TokenLife`, `AuthSession`, and theorems for every safety property of the passing runs.

Left, in this order:

1. The shutdown of the live context, with its leases, as a third way to stop in
   `Deployment`.
2. Sells and packages in `PatientExecutor`.
3. The local book's cash and average prices over partial fills and bootstrap.
4. Several assets and conflicting targets in `TradingCycle`; manual orders
   beside the session.
5. The audit hash chain; then the paper trader and promotion levels if the
   models stay small.

## 9. Running

    tlc -workers 2 -config MCRiskLedger.cfg MCRiskLedger
    tlc -workers 2 -config MCLiveOrder.cfg MCLiveOrder            # a minute and a half
    tlc -workers 2 -config MCPatientExecutor.cfg MCPatientExecutor
    tlc -workers 2 -config MCDeployment.cfg MCDeployment          # a minute and a half
    tlc -workers 2 -config MCTradingCycle.cfg MCTradingCycle      # a minute and a half
    tlc -workers 2 -config MCAuthSession.cfg MCAuthSession        # a minute and a half
    for m in RiskLedger LiveOrder PatientExecutor Deployment TradingCycle \
             AuthSession Totals; do tlapm ${m}Proofs.tla; done

The runs, their properties, a mutant for each property (a plausible bug in the
code, which TLC must catch) and the source lines behind each definition are in
`PROJECT.json`.
