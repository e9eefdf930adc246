# A TLA+ verification project for the trading bot ("Galaxy Vast AI")

This directory holds TLA+ models of the parts of the repository whose correctness depends on
order, failure and concurrency: the order registry, the path from an approved signal to a broker
position and back, the services around it, the safeguards of account and keys, and the candle
patterns the signals start from. TLC checks the models on small instances; TLAPS proves most of
their safety properties for every instance.

Contents

1. The system: components, state, operations, interactions
2. What is hard about it
3. The modules and how they correspond to the code
4. The runs: what each checks and what it shows
5. Bounds
6. Fairness
7. Proofs
8. Divergences found
9. What is not modelled, and why
10. Plan

## 1. The system

The backend is a Python 3.11 asyncio application (`src/backend`). It produces signals (analysis,
agents, voting), filters them through risk gates, sends orders over HTTP to a gateway process
(`src/mt5_gateway/agent.py`) that drives a MetaTrader 5 terminal, and offers a REST API, a Telegram
bot, licensing and billing. An MQL5 expert advisor (`src/mql5`) can trade the same signals by
polling the API. State is in memory or in a Supabase (Postgres) database.

| component | state | operations | talks to |
|---|---|---|---|
| Order state machine (`backend/execution/order_state_machine.py`) | an ordered store ticket -> (state, registered_at), at most `max_tickets` | register, transition, expire_stale_tickets, queries | called by the execution service |
| Execution service (`backend/execution/execution_service.py`) | none of its own: the loop variables of each call | execute, close (retry loops) | connector, order state machine, kill switch, database |
| MT5 connector (`backend/execution/mt5_connector.py`) | `_connected`, an HTTP session | connect, place_order, close_position, modify_position, queries | the gateway, over HTTP with a total timeout |
| MT5 gateway (`mt5_gateway/agent.py`) | the terminal's positions | order/open, order/close, order/modify, queries | the broker |
| Failure recovery (`backend/execution/failure_recovery.py`) | a bounded retry queue, a dead-letter deque, a retry task | start, stop, handle_failure, the retry loop | a retry callback |
| Position reconciliation (`backend/execution/position_reconciliation.py`) | none | run, reconciler_loop | connector, order state machine |
| Order journal (`backend/execution/order_journal.py`) | a ring buffer, fire-and-forget write tasks | record, queries | database |
| Billing engine (`backend/billing/engine.py`) | invoices, subscriptions, dunning counters | checkout, confirm_from_webhook, admin_confirm, suspend, revoke, cancel | payment provider, licence callbacks |
| Payment webhook (`backend/billing/webhook.py`) | the set of event ids already seen | process | billing engine |
| Payment providers (`backend/billing/provider.py`) | none (a mock keeps its payments) | create_payment, confirm_payment, refund | Stripe, Zarinpal |
| Circuit breaker (`backend/circuit_breaker.py`) | state, failure and success counters, half-open counter | can_execute, record_success, record_failure, reset, async context manager | whatever it guards |
| Kill switch (`backend/risk/kill_switch.py`) | active flag, high-water mark, equity history, a lock | check, activate, reset, callbacks | risk orchestrator, execution service, operators |
| Equity protection (`backend/risk/equity_protection.py`) | status, high-water mark, daily loss, time of the halt | initialize, update_equity, persist and restore the halt | trade service, database |
| Risk gates (`backend/risk/*.py`) | daily counters, exposure tables | assess and one check per gate | the orchestrator combines them |
| Trade and signal services (`backend/services/`) | database rows | create, update, close | database, equity protection |
| Scheduler (`backend/services/scheduler.py`) | tasks and their handles | register, start, stop | jobs |
| Semi-automatic approval (`backend/telegram/handlers/semi_auto.py`) | pending signals, an enabled flag | push, approve, reject | execution service |
| Telegram control (`backend/telegram/handlers/control.py`) | none | status, pause, resume, kill, close | kill switch, execution service |
| Refresh-token rotation (`backend/core/refresh_rotation.py`) | token families | issue, rotate, revoke, purge | the auth API |
| Two-level cache (`backend/core/cache.py`) | L1 entries, L2 entries | get, set, delete | Redis |
| Incident response (`backend/core/incident.py`) | kill switches with an index by target, incidents, the set of escalated ones | activate, reset, purge, open_incident, transition, check_escalations | security administrators |
| Key rotation (`backend/core/secret_rotation.py`) | keys by version with status and grace period | generate, activate, rotate, revoke, report_compromise, expire, extend | whoever signs or verifies |
| Replay (`backend/research/replay`) | one task, its controls, the frames sent | start, pause, resume, jump_to, stop | a WebSocket |
| Price action engine (`backend/analysis/price_action_engine.py`) | recent breakouts, the time of the last compression | analyze, after each closed bar | the signal engine |
| Other signal analysis and voting (`backend/analysis`, `backend/agents`) | none | pure computation over candles | database, decision engine |
| Expert advisor (`mql5/Experts/MT5Trading`) | emergency flag, daily counters | OnTimer, OnTick | the API |

Interactions. A Telegram handler or the semi-automatic approval calls the execution service; the
execution service asks the kill switch, calls the connector in a retry loop and records the ticket
in the order state machine; the connector posts to the gateway; the gateway asks the broker. A
payment provider posts an event to the webhook processor, which calls the billing engine, which
changes the subscription and calls the licence callback.

Some of the packages cannot be imported as committed (`backend/core/__init__.py`,
`backend/risk/__init__.py` and `backend/execution/__init__.py` import names that do not exist, and
several files under `backend/api` are base64 text). The models take the classes as they are
written. Nothing under `src/` outside the tests calls `OrderStateMachine.register`,
`expire_stale_tickets`, `reconciler_loop` or `MT5Connector.connect`; they are modelled as the
operations a caller may use, at any time.

## 2. What is hard about it

`PROJECT.json` lists the hazards one by one, each at its line, with the property that covers it.
They are of six kinds: requests whose answer is lost or late, followed by a retry; state read
before an await (or, in the key manager, between two locked calls) and used after it; a step that
fails after an earlier one has taken effect (the broker filled, the database did not); stores and
queues at capacity; transition tables that the callers' sequences of calls do not follow; and, in
the analyzer, state that one analysis leaves for the next and limits at which the two sides of the
market are treated differently.

## 3. The modules and how they correspond to the code

Each module names its source file in its header, and `PROJECT.json` maps every definition to the
lines it stands for. All of them describe coroutines on one event loop: a stretch of code without
an `await`, or one under a lock that never awaits, is one action, and everything else interleaves.

* `OrderLifecycle` - the abstract specification: what one ticket may do in its life. States and
  edges are `_TRANSITIONS`, plus the edges the code takes without the table: an unknown ticket
  becomes PENDING (or what the first transition makes of it), a live one may expire to ERROR, any
  may be forgotten.
* `OrderStateMachine` - the registry. `order` is the key order of the `OrderedDict`, `state` the
  recorded states, `stale` the number of oldest entries past the TTL (registration order is age
  order, so the entries past it are a prefix). `Register`, `Transition` and `SweepExpires` each run
  under the lock and are one step; `SweepReadsClock` is the read of the clock before the lock is
  taken, and `due` what it selects. Eviction is part of every insertion.
  `OrderStateMachineProofs` has the theorems.
* `OrderExecution` - `execute()` and `close()` of the service over the connector, the gateway, the
  broker and an INSTANCE of `OrderStateMachine`, whose `Transition` is the one both calls make and
  whose sweep may run between any two of their steps (`RegistrySweep`). A call is a process with a
  program counter (`pc`) and an attempt counter; each attempt's request has a fate of its own
  (`net`), so a request the caller timed out on can still be served. The gateway refuses a request
  before anything is sent to the broker (`GatewayRefuses`), answers 200 (`Settled`), or answers 502
  for every other result of `order_send()` (`GatewayDoubts`), when the broker may have opened the
  position or not ("unconfirmed", "doubted"); the caller reads the same error in all but one case.
  `fills` is the broker's log of opened positions, `live` those still open. `wired` says whether the
  service was built with a kill switch.
* `FailureRecovery` - the retry queue, the dead-letter deque and any number of retry loops. A loop is
  `waiting` for the queue, has `taken` an order, is `sleeping` in its backoff or `calling` the retry
  callback. `taken` exists because Python 3.11's `asyncio.wait_for` does not pass on a cancellation
  that arrives when the inner `get()` has completed: `stop()` then waits for a loop that goes on.
* `CircuitBreaker` - state, failure window, success and probe counters. The guarded call runs between
  `Enter` and `Leave`, so its outcome may be recorded in another state than the one that admitted
  it. `failures` keeps the window as a count for each age.
* `Billing` - engine, webhook processor and provider. Events are a log the provider appends to and
  delivers from in any order and any number of times, with or without an id; `seen` is the nonce
  store. `grants` and `failed` record what the engine did, for the properties.
* `KillSwitch` - `queue` is the lock with its waiters in order of arrival (asyncio locks are fair), its
  head the holder; the task that trips the switch keeps the lock while `cb` walks over the
  callbacks. `history` is the equity window with ages in ticks, `hwm` the high-water mark.
* `TradingControl` - extends `KillSwitch` with the assessments of the risk orchestrator, whose first
  gate is `check()`, and with the stop and resume commands of the REST API and of Telegram as the
  code carries them out. What the later gates decide is left open (`Approve` or `Reject`).
* `Scheduler` - `start()` is one step; `stop()` is a process that holds a snapshot (`todo`) and the task
  it waits for. Tasks have handles in `handle` and go on without one when it is overwritten.
* `EquityProtection` - one action for a report of equity, for the report a closed trade makes (always
  zeros), for each helper, for the clock and for a restart. `age` is the time since the halt,
  `row` the persisted halt. `unchecked` marks the time between the end of a cooldown and the next
  report, `dayStart` the equity when the daily loss was last zeroed; both are for the properties.

* `PositionReconciliation` - `run()` as a sequence of awaits: read the broker, read the registry, then
  one repair after another, while positions are filled, registered and closed. `unwell` lets reads
  and repairs fail, a failed read being an empty set as in the code. `openThen` is what was open
  when the broker was read.
* `SignalApproval` - the dict of signals awaiting an operator. A tap is a process (`tap`): its handler
  awaits `query.answer()`, and only then looks the signal up and takes it off the dict. `pushed`,
  `executed` and `declined` count, for the property.
* `TradeRecords` - the trades table and the calls on their way to it; every query may fail, and a failed
  insert may have been carried out. `raced` and `blind` record why a second row may exist.
* `TwoLevelCache` - `l1` is the LRU list with ages, `l2` what Redis holds, `op` the call each task is in;
  a request is carried out some time after it was sent and its answer used later still. `certain`
  is the value of a write that nothing overlapped.
* `ReplaySession` - the replay task between its three awaits and the controls that come in between;
  `frames` is what was sent, each with the jump the loop could have heard of when it took the
  candle (`heard`, from `jump`), and `late` counts those shown since the last pause.
* `IncidentResponse` - the kill switches (`entries`, `byTarget`, `globalActive`), the incidents, and the
  escalation pass, which iterates over the manager's dict step by step and ends when the dict has
  grown. `stands` is the set of switches thrown and neither reset nor run out.
* `RefreshRotation` - tokens are numbered in the order of issue, so the expired ones are a prefix
  (`stale`). One action per operation; each is synchronous in the code.
* `KeyRotation` - the manager's operations as sequences of key-store calls, each under the store's lock,
  on the keys of every tenant and of none; a key is a tenant and a version. `call` is the tenant a
  thread works for and the keys it holds between two of its calls. `ActiveFor(NoTenant)` is every
  tenant's, as in `active_key()`, and `crossed` records the keys of tenants that a rotation for none
  sent to GRACE.
* `CandlePatterns` - the candle-pattern detectors, with both branches of each as the code has them, on
  integer prices. The level lists are sorted from above, and each detector looks at as many of the
  highest as the code's slice does (`Highest(3, _)`, and 5 for a breakout). `PriceAction` adds the
  analyzer that is called after each bar and keeps the last compression and the breakouts, which
  are never pruned, from call to call; ages are counted up to a bound past which they no longer
  matter. `calm` and `spent` (bars since the market compressed and since an expansion was reported
  before) are for the properties. `MCPriceAction` gives TLC candles and contexts.

How they compose. `OrderExecution` instantiates `OrderStateMachine`, which implements
`OrderLifecycle`; `TradingControl` extends `KillSwitch`; `PriceAction` extends `CandlePatterns`. The other
components meet through calls that carry no state back (a retry callback, a licence callback, a
report of equity), and each is modelled with its caller left free. They share no variable, so
`Ledgers` (order registry, failure recovery, billing), `SignalPath` (price action, order execution),
`Services` (breaker, scheduler, reconciler, cache, trade rows, approval, replay) and `Safeguards` (equity
protection, incidents, refresh tokens, keys) put them side by side: a variable `part` chooses the
component whose turn a whole behaviour is, and the others rest in their initial states.
Interleaving components that share nothing would only multiply their states: every property is
about the variables of one of them, and for those a behaviour of the composition and one of the
component alone are the same up to stuttering. `ServicesRunEach`,
`SafeguardsRunEach`, `LedgersRunEach` and `PathRunsEach` prove one half of this; the other half is that each
component's initial states and steps occur with its own `part`, which is how all four compositions are
written (`SignalPath` lets the resting part begin in one of its initial states, as it has many).

## 4. The runs

| run | module | checks | shows |
|---|---|---|---|
| `ledgers` | `Ledgers` | `StoreOK`, `LiveEvictedLast`, `FreshNeverExpires`, `ImplementsLifecycle`; `OnePlace`, `LostOnlyByStopOrOverflow`, `QueuedIsSettled`, `StopReturns`; `AccountsAgree`, `RevokedIsTerminal`, `PaymentIsCredited` | the order registry keeps its capacity and its order, never revives an ended ticket, forgets a live one only when it must, and never expires a fresh entry although the sweep reads the clock before it locks; a failed order is in one place however many loops run, vanishes only in the hands of a cancelled loop or off a full dead-letter deque, is given up only when nothing is left to try, and is settled while the engine runs; whatever the order, repetition and loss of ids of events, a payment grants once and is credited, dunning counts failures, and revocation holds |
| `signal_path` | `SignalPath` | `MirrorSymmetry`, `StopsProtect`, `ExpansionSpendsCompression`; `DuplicateNeedsLostAnswer`, `RegistryMatchesBroker`, `ConfirmedCloseIsFlat` | with at most three levels of each kind the detectors see a market and its mirror image alike, but for the ties, which are bearish in both; the stop of a candle pattern or a new breakout lies on the losing side of the last close; an expansion is reported only after a compression within `Fresh` bars and after the last expansion; a signal has exactly the position its caller was told of and one for every executed request whose answer was lost or was a 502; whatever is swept, the registry holds only tickets the broker issued, and every acknowledged one it has room for; a confirmed close leaves nothing open even when the call reports failure, which it always does |
| `control` | `TradingControl` | `CallbacksOnce`, `StopOutlastsCallbacks`, `PassedIsNearPeak`, `EveryCallReturns`, `ActiveSwitchAdmitsNothing` | the lock makes activation, its callbacks and reset exclude one another; a reset does not let a drawn-down account pass; no call waits for ever; only an assessment past gate 1 before the switch was activated can still be approved |
| `services` | `Services` | `BreakerBounded`, `OpenIsProbed`; `LoopsAreHandled`, `StopReturns`; `OpenIsRejectedOnlyBlind`, `RegistryConverges`; `LoneWriteIsSeen`, `LevelsConverge`; `OneRowPerSignal`; `DecidedOncePerPush`; `FramesFollowControls` | a half-open breaker admits at most one probe more than configured, is stuck only after a failure that did not open it, and an open one is tested again; a job has one loop, known to `stop()`, unless a start ran inside a stop; the reconciler wrongs an open position only blind or late, and gets the registry right once things calm down; a write that ran alone is never read past, and a stale L1 entry goes away; a signal has two rows only after a race or a failed check; a push is decided once; a pause that took effect lets at most one more frame through, frames follow one another without a gap where nobody jumped, and a finished replay has shown its last candle |
| `safeguards` | `Safeguards` | `WithinLimits`, `DailyLossCovered`, `HaltLastsCooldown`; `StandingSwitchBlocks`, `OverdueEscalates`; `OneChainPerSession`; `RotationServes` | trading is allowed only within both limits, except between the end of a cooldown and the next report; losses are counted in full; a halt lasts its cooldown; a target is refused exactly while a switch on it stands; an overdue incident is escalated although passes are cut short; a session is one chain of tokens; the newest key of each holder that ever served is active until it is revoked or, if a tenant's, a rotation for no tenant takes it |
| `execution_duplicate` | `OrderExecution` | `OnePositionPerSignal` (violated) | section 8 |
| `execution_close` | `OrderExecution` | `CloseAdvances` (violated) | section 8 |
| `billing_refund` | `Billing` | `RefundTakesEffect` (violated) | section 8 |
| `control_pause` | `TradingControl` | `PauseActivates` (violated) | section 8 |
| `replay_jump` | `ReplaySession` | `JumpTakesEffect` (violated) | section 8 |
| `keys_tenants` | `KeyRotation` | `TenantsAreIsolated` (violated) | section 8 |
| `analysis_retest` | `MCPriceAction` | `RetestIsRecent` (violated) | section 8 |

The type invariant of each module is a conjunct of one of its properties. Every property has a mutant
in `PROJECT.json`: a plausible slip in one definition under which TLC finds the property violated.

## 5. Bounds

* `ledgers`. Registry: three tickets and a store of two, so that eviction happens with every pair of a
  terminal or live first entry and a terminal or live second, and a ticket can return after it was
  evicted. Recovery: three orders for a queue of two and a dead-letter deque of one, so both
  overflow; two loops, the least that overlap; two retries, so that an order is put back once.
  Billing: one user (users share nothing but the nonce store), two plans, two invoices, two events and
  a nonce store of two: a payment and the failure or refund that it may race, or a failure of either
  invoice. `MaxEvents`, `MaxInvoices` and `MaxHours` bound logs and the clock, so the model stops when
  they are used up: the run does not check for deadlock. The dunning counter is capped at
  `MaxDunning`, the three failures that suspend, for deliveries without an id may repeat for ever.
  More events are covered by the proofs of section 7.
* `signal_path`. Execution: one signal, one close, two attempts each: one retry is enough to lose an
  answer and to repeat the order. `MaxPositions` (3) bounds the broker's log and exceeds what the
  signal can open, so that the bound never hides a position and a close can name a ticket that does
  not exist. `MaxTickets` is 2, which both positions of the signal fit and a third ticket does not.
  Analysis: three shapes of bars (a pin, a marubozu, one so small that it raises inside of the
  others), their mirror images and a cross, on the prices 0 to 20, in windows of four; three
  contexts that between them give and withhold each bonus, with up to three levels of each kind, the
  most `MirrorSymmetry` speaks of (with more the two sides differ, section 8). `compression_lookback` (10 in the code) is 2 bars and the
  four hours of a compression are `Fresh` = 1 bar, so that the window holds every bar a detector
  reads; `RetestBars` is 1, to keep ages small, and `MaxBreakouts` = 1 bounds the list the code never
  prunes. Calls and tickets are used up: the run does not check for deadlock.
* `control`: two tasks, readings on both sides of the floor, of the drawdown and of the flash-crash
  limit, two callbacks and at most `MaxReadings` (2) readings within a window.
* `services`. Breaker: thresholds of three failures and three successes, two half-open places and four
  callers, so that one caller can be late while the others use up the probes; failures are counted
  for `Window` (2) ticks. Scheduler: two jobs, a `stop()`, four tasks; a task that has ended and that
  nobody refers to is used again, so the number of starts is not bounded. Reconciler: two tickets,
  each given out once, so that one is wronged while the other is right. Cache: two keys for an L1 of
  one entry, so that keys push one another out; two values, two tasks, a time to live of one tick.
  Trade rows: one signal, two callers, two rows. Approval: one signal pushed twice, three taps.
  Replay: three candles. A replay ends, taps are used up: the run does not check for deadlock.
* `safeguards`. Equity: readings on both sides of the warning, drawdown and daily limits and of zero; a
  cooldown of two ticks; `MaxLoss` bounds the daily loss and lets the whole account be lost once and
  more. Incidents: two ids for switches, each drawn once (they are uuids; a reset does not free one), one device
  beside the global target, two incidents, a ttl of one tick and an SLA that the first tick exceeds. With finitely many
  incidents passes cannot be cut short for ever, which is also what keeps `OverdueEscalates` true:
  a program that opens an incident during every pass would never finish one. Tokens: two users with
  two sessions each and four tokens. Keys: two threads, one tenant beside none, two versions of each and three keys in all.
* `execution_duplicate`, `execution_close`: as above with two positions, the first without a close.
  `keys_tenants`: one thread, for no race is needed. `replay_jump`: three candles. `analysis_retest`: the
  code's five bars, two breakouts, three bars and one context.

## 6. Fairness

Weak fairness of what the event loop and bounded waits guarantee, and nothing else. The
compositions state the same conditions, each for the turn of its component.

* `FailureRecovery`: the steps of each loop; the retry callback returns, as `execute()` always does.
  Nobody need call `start()` or `stop()`.
* `CircuitBreaker` (in `Services`): time passes, guarded calls end, callers keep coming - `OpenIsProbed` is
  about a breaker that is still used.
* `Billing`: an event emitted is delivered at least once with its id, which is what Stripe promises.
* `KillSwitch`: the holder of the lock goes on; `wait_for(..., 10)` bounds each callback.
* `Scheduler`: jobs end, sleeps end, a waiting `stop()` is resumed. No fairness on `start()`.
* `PositionReconciliation`: the reconciler loop goes on. `RegistryConverges` supposes, as a hypothesis and not
  as fairness, that broker and registry answer from some time on; positions are finite in number.
* `TwoLevelCache`: Redis answers or the request fails, and cached entries age. `LevelsConverge` supposes
  that writes cease.
* `IncidentResponse`: somebody calls `check_escalations()` again and again, its loop goes on, time passes.

`OrderStateMachine`, `OrderExecution`, `EquityProtection`, `TradeRecords`, `SignalApproval`, `ReplaySession`,
`RefreshRotation`, `KeyRotation` and `PriceAction` assume no fairness: only safety is checked of them.

## 7. Proofs

`OrderStateMachineProofs` proves, for every set of tickets and every positive capacity
(`MaxTicketsAssumption`, the only assumption), that the registry is type-correct and `StoreOK`
(`StoreCorrect`), the three action properties (`TerminalTicketsAreFinal`, `LiveTicketsEvictedLast`,
`FreshTicketsNeverExpire`) and the refinement of `OrderLifecycle` (`RefinesLifecycle`). The
inductive invariant is `TypeOK /\ StoreOK`. `StoreOK` is inductive only as a whole: that the store
lists each tracked ticket exactly once is what makes removing one position from `order` and one
ticket from `state` the same eviction, and that what a pending sweep will expire is in the stale
prefix (`due`) is what survives an eviction between the two halves of the sweep. The oldest
terminal position is a CHOOSE; that it exists is a lemma from the well-foundedness of the naturals.

`OrderExecutionProofs` proves `DuplicateNeedsLostAnswer` (`DuplicatesAreLostAnswers`),
`RegistryMatchesBroker` (`RegistryIsTheBrokers`) and `ConfirmedCloseIsFlat` (`ConfirmedClosesAreFlat`) for any
sets of calls, number of attempts, registry size and number of positions (`ExecutionAssumption`: an
execute is not a close, there is at least one attempt and room for one ticket). All three hold with the
sweeps of the registry in any order with the calls; that a ticket never gets past PENDING is no
part of them, it is a divergence (`execution_close`, section 8). None of the three is inductive. `ExecutionInv` ties each caller's program counter to the fate of its requests
(`CallOK`: nothing is sent beyond the attempts made; `SignalOK`: an answer was read exactly if the
call is past recording it), the broker's log to the requests that were executed, answered by a 200, by a
502 or not at all, one each (`BrokerOK`),
what was closed to what is no longer live (`ClosedOK`), and the registry to the log (`RegistryOK`). What
the registry does in each step comes from `OrderStateMachineProofs`, instantiated as `Store`; that its
definitions are those of the instance in the model is a lemma (`SameRegistry`).

`LedgersProofs` proves `AccountsAgree` (`AccountsAlwaysAgree`) and `RevokedIsTerminal` (`RevokedStaysRevoked`)
for any users, plans, events and nonce store. `BillingAssumption` says that the provider is one of the
three, the bounds are numbers and "trial" is a plan; `NoneAssumption` that the value for "no subscription"
is not one. `BillingInv` adds that invoices not yet made granted nothing (`GrantsOK`), that every event is
about an invoice that exists (`EventsOK`), and that while each event came with its id and the nonce
store has room, every counted failure is in it (`SeenOK`) - without which a second delivery could be
counted again.

`FailureRecoveryProofs` proves `OnePlace` (`OrdersAreInOnePlace`) and `LostOnlyByStopOrOverflow`
(`OrdersAreNotForgotten`) for any sizes of the two queues, any number of attempts and of loops
(`RecoveryAssumption`). The invariant `RecoveryInv` adds to it that a loop
which `start()` has not created yet holds nothing - or a new loop would begin with somebody's order -
and that a loop which sleeps has an attempt left, which is what keeps the counters within bounds.
Lemmas say what entering and leaving a sequence does to what it contains (`AppendIn`, `TailIn`,
`PushIn`, and for what stays `AppendKeeps`, `TailDrops`, `PushDrops`); every loop step is then a take, a move or a putting back.

`TradingControlProofs` proves, for any tasks, callbacks and readings (`KillSwitchAssumption`),
`CallbacksOnce` (`EachCallbackOnce`), `ActiveSwitchAdmitsNothing` (`StopsWhatComesLater`),
`StopOutlastsCallbacks` (`StopOutlasts`) and `PassedIsNearPeak` (`PassesNearPeak`, supposing a hard drawdown between
1 and 100 percent and positive equities: at an equity of zero and no floor the code's guard lets a
zero pass). The invariant `SwitchInv` says that callbacks are under way only while the switch is
active, that whoever came during the activation has not passed, and that the mark is never below an
equity that was let through. The types of `CallbacksOnce` need a second one, `LockInv`: nobody stands
twice in the queue of the lock and whoever trips the switch is still in it while the callbacks run
(`QueueOK`), and the equity window is in order of age, with a place kept for every check that waits
(`ReadingsOK`). The code filters that window by age; the model takes a suffix, and
`RecentIsTheWindow` proves that for a window in order the two are the same.

`ServicesProofs` proves of the components of `Services`: `DecidedOncePerPush` (`SignalDecidedOnce`),
`OpenIsRejectedOnlyBlind` (`OpenNotRejected`), `OneRowPerSignal` (`RowsAreSingle`), `FramesFollowControls`
(`ReplayFollowsControls`), `BreakerBounded` (`BreakerIsBounded`), `LoopsAreHandled` (`LoopsStayHandled`) and
`LoneWriteIsSeen` (`LoneWritesAreSeen`), each for every value of its constants. The strengthenings are what ties
the unfinished calls to the state: a ghost still to be repaired was not open when the run read the
broker (`GhostsWereClosed`); unless calls raced or a check failed, whoever inserts for a signal does so
alone and finds no row (`Alone`); the candle of a replay lies past every frame shown, and a paused
loop has at most the frame in hand to show (`Placed`, `Held`); every probe of a half-open breaker but
the first was counted, and while nothing failed is inside or was a success (`ProbesCounted`);
outside an overlap a live task is the handle of its job, a waiting `stop()` has all of them before
it, and a stopped scheduler has none (`Covered`); and while the value of a cached key is certain, a
reader on its way to L1 carries that value, and a write on its way to Redis carries it and is the
only call on its key (`CertainCalls`). `LoneWriteIsSeen` alone is not inductive: it says nothing of what a
late reader holds. Assumed are positive thresholds with `success_threshold` at most one above
`half_open_max_calls` (the defaults are 2 and 3), at least one key and room for one entry in L1, and
that the stand-ins for "none" are none of the values.
`ServicesRunEach` carries the components' theorems to the composition: `ServicesAreSafe` is the
conjunction of the seven for every behaviour of `ServicesSpec`.

`SafeguardsProofs` does the same for the components of `Safeguards`.

* Equity protection: for every choice of limits, cooldown, fallback balance and readings
  (`ProtectionAssumption`: the daily and drawdown limits and the cooldown are positive), type
  correctness (`TypeCorrect`), `WithinLimits` (`TradesWithinLimits`), `DailyLossCovered`
  (`LossesAreCounted`) and `HaltLastsCooldown` (`HaltsLastTheirCooldown`). The inductive invariant is
  the conjunction of the three state properties. `WithinLimits` needs the type invariant for a
  positive high-water mark - with a mark of zero a fresh account would be over its limit - and the
  products of limit and mark are kept opaque outside two lemmas (`FreshMark`, `FreshDay`).
* Incidents: `StandingSwitchBlocks` (`SwitchesBlock`, without any fairness): entries and index agree in both
  directions, and `stands` is exactly the entries that have time left.
* Refresh tokens: `OneChainPerSession` (`SessionsAreChains`): the invariant adds that a family is named by its
  first token, which is of the same user, and that a token comes from an earlier one, which is used.
* Keys: `RotationServes` (`NewestKeyServes`), for any tenants: the invariant (`CallOK`) says what a call knows
  about the keys it holds, however old the knowledge: what it demotes has a newer key of the same
  holder that has served, and so has what it lets expire. The exception is a call for no tenant,
  which may hold a tenant's key; what it demotes is in `crossed`, and that this happens is a
  divergence (`keys_tenants`, section 8).
* The composition: `SafeguardsRunEach`, and from it `SafeguardsAreSafe`, the conjunction of all six.

`SignalPathProofs` proves, for every set of candles with a high above and a low below open and close
(`CandleAssumption`), every set of contexts of the engine's type with finitely many levels
(`ContextAssumption`) and any bounds (`ActionAssumption`), `MirrorSymmetry` (`EngineHasNoSide`), `StopsProtect`
(`StopsAlwaysProtect`) and `ExpansionSpendsCompression` (`ExpansionsNeedCompression`). `MirrorSymmetry` claims its
mirror image for contexts with at most three levels of each kind (`FewLevels`), where the cut to the
three highest leaves all of them; with more, the engine does treat the two sides differently
(section 8). It leaves out the patterns in which both sides could be reported (`Tied`) and says of those that
the bearish side wins in both markets. `StopsProtect` is about the candle patterns and the breakouts.
The first two rest on one lemma for each detector and side: what it reports of a window is mirrored
by what it reports of the mirrored window, with the same confidence, and its invalidation lies
beyond the last close. The inductive invariant adds to the types that a compression that stands
was one of the market within its age and is younger than the last reported expansion (`Spent`), and that
a new breakout has its level behind the close (`NewAreBroken`). A doji has no invalidation: its stop
stays 0 and is not mirrored.

`PathIsSafe` and `LedgersAreSafe` (`LedgersProofs`) carry the theorems of the parts to `SignalPath` and `Ledgers`.

Only model-checked: the liveness properties `QueuedIsSettled`, `StopReturns` (of the recovery engine and of the
scheduler), `PaymentIsCredited`, `EveryCallReturns`, `OpenIsProbed`, `RegistryConverges`, `LevelsConverge` and
`OverdueEscalates`, because fairness and ENABLED are out of the prover's reach. Every safety property
a passing run checks is also proved.

## 8. Divergences found

Seven statements of the repository have a run in which TLC finds the code doing otherwise; the
quotations are under "findings" in `PROJECT.json`.

* `execution_duplicate`: `execute()` repeats an order whose answer was lost, or was a 502 given after
  `order_send()`, without looking whether it was filled, and opens a second position.
* `execution_close`: `close()` promises to advance the ticket to CLOSED, and the tests take it from
  PENDING to OPEN to CLOSED; `_TRANSITIONS` leads from PENDING to neither, so that a close the gateway
  confirmed leaves a ticket that is not CLOSED, and is reported as failed.
* `billing_refund`: a refund of a paid invoice is dropped by the early return for succeeded invoices.
* `control_pause`: `/pause` and `/kill` of the Telegram bot create the coroutine `activate()` and never
  await it; the switch stays inactive.
* `analysis_retest`: `_detect_retest()` compares indices counted within each call's window, so a breakout
  of any age counts as one of the last five candles.
* `replay_jump`: the loop of a replay that plays never reads `current_index` and overwrites it with each
  frame, so that `jump_to()` has no effect.
* `keys_tenants`: `active_key(kt, None)` ranges over the keys of every tenant, so `rotate_key()` without a
  tenant may demote a tenant's newest key and leave the tenant without an ACTIVE one.

Others met on the way are visible in the models, as comments at the action concerned or as a
property weaker than the documented one:

* `transition()` of an unknown ticket registers it instead of raising the documented `KeyError`
  (`Transition`).
* One network error marks the shared connector disconnected, and every other call's next attempt
  fails without being sent until somebody connects again, which nothing in the retry loop does
  (`NetworkError`, `Attempt`).
* `execute()` reads `order.open_price`, which the connector's `OrderResult` lacks, and raises after the
  order was filled and persisted (`FinishExecute`); with a kill switch wired it always raises,
  because `is_active` is a property (`ExecuteWithKillSwitch`).
* `FailureRecoveryEngine.stop()` loses the order a loop is working on, although the module is
  documented as guaranteed execution (`LostOnlyByStopOrOverflow`).
* A half-open breaker admits `half_open_max_calls + 1` probes (`ProbesBounded`), counts late successes
  of calls admitted earlier (`Succeed`), and can be locked half-open for ever (`LockoutNeedsSetback`).
* `_activate()` renews plan and licence of a REVOKED subscription (`Activate`; only the status is
  safe, `RevokedIsTerminal`), nothing ever expires a subscription, and Stripe's payment events are
  read as PENDING when their status is under `data.object` (`Outcomes`), so `PaymentIsCredited`
  speaks of readable ones.
* The flash crash is measured from the oldest reading of the window, not from its peak
  (`FlashCrash`); an assessment past gate 1 is approved although the switch has been activated
  (`ActiveSwitchAdmitsNothing`); `halt_trading()` sets a flag that nothing on the order path reads
  (`ApiHalt`); both resume commands call a method that does not exist (`Resume`).
* Of the eight gates of `assess()` only gates 1 and 7 can reject. Gates 2, 3 and 6 ask for `NewsFilter`,
  `DailyLimits` and `ExposureControl`, and the modules define `NewsFilterGate`, `DailyLimitsEngine` and
  `ExposureControlEngine`; the modules of gates 4 and 8 do not exist; gate 5 leaves out an argument of
  `CorrelationFilter.check()`, and its `TypeError` is swallowed (`Approve`, `Reject`).
* A `start()` in the middle of a `stop()` leaves loops that no later `stop()` cancels;
  `LoopsAreHandled` is about the histories without one (`overlapped`).
* A restart forgets a halt whose row was not written, and nothing writes it: `HaltLastsCooldown` exempts
  the restart and the restored row (`Restart`, `RestoreHaltState`).
* `close_trade()` reports an equity and a balance of zero, which halts the account (`CloseTrade`); the
  configured `cooldown_minutes` is ignored in favour of sixty; `equity_protection_state` is never
  written or read, because its two helpers have no caller.
* The reconciler calls `get_open_tickets`, `reject` and `register_orphan` on the registry, and the committed
  `OrderStateMachine` has none of them: with it each run reads an empty registry, and its repairs
  fail. The model gives it the registry it expects (`PositionReconciliation`).
* The semi-automatic flag is written by `/semiauto` and read by nobody (`ToggleSemiAuto`); cards are sent
  with positional arguments that aiogram 3 does not take, so a card may well not be sent
  (`CardSent`); the operator is told that the signal was executed whatever became of it
  (`ReportExecuted`).
* Two calls of `create_trade()` for one signal may both find no row, and a failed check counts as none
  (`CheckIdempotency`): `OneRowPerSignal` says that two rows need one or the other (`raced`, `blind`); a trade can be closed
  again, with another profit (`CloseTrade`, `Update`).
* A cache reader may put an overwritten value back into L1, where it is read until its time to live is
  over (`Refill`, hence `LevelsConverge` and not "always agree").
* `check_escalations()` raises when an incident is opened while it iterates (`PassStep`).
* `auto_rotate_all()` of an older ACTIVE key rotates the newest one again; a thread that read a key before
  it was revoked brings it back (`raced` in `RotationServes`).
* A `pause()` between `start()` and the task's first step finds the status IDLE and is dropped
  (`Pause`, `Begin`).
* With more than three resistances the nearest of them count for no bonus: both lists are sorted from above and
  cut to three, which keeps the nearest supports and the farthest resistances (`Highest`).
* A retest's invalidation is the level of the breakout, and the bar that retests may close up to 0.3
  atr on its losing side; an expansion leaves `invalidation_level` at 0. `StopsProtect` is not
  about these two.
* A very small inside bar makes `detect_inside_bar()` name `PatternReasonCode.IN_SIDE_STRUCTURE`, which does not
  exist, and the `AttributeError` leaves `analyze()` before the structures (`Raises`): a compression that only
  such bars show is lost, and the expansion after it is not reported.

## 9. What is not modelled, and why

The models translate about one line in fifteen of the repository's implementation. The rest was left
out deliberately, component by component in `PROJECT.json`:

* Numeric code (indicators, smart-money and market-structure analysis, scores, machine learning,
  research, backtests, institutional analytics): sequential functions over floating-point series. A
  model over a few integers would say nothing about them that a table of examples does not. The
  candle patterns are the exception, because whether two hand-written branches mirror each other
  and where a stop lies are questions about all inputs; total scores and key levels are left out.
* Administrative records (support, compliance, release gates, API versions, permissions, audit logs,
  feature flags, licences): dictionaries under one lock per object or single SQL statements, with no
  bearing on the trading program and no order of events to go wrong.
* Code that does not run as committed: the voting engine is built with an argument it does not take
  and its votes use an enum member that does not exist; `license/manager.py` cannot be imported;
  `context_enricher.py` and several route files are not Python. There is no behaviour to be faithful
  to.
* Code behind code that is modelled: routes, bots, middleware and database wrappers parse, forward
  and format; their failures are choices at the callers. The expert advisor and the front end are
  other programs.

Some of what is modelled is used by the tests only, as far as the committed tree shows: incident
response, key rotation, refresh tokens and the price action engine. They are taken as the operations
a caller may use.

Within the modelled components:

* Fields that are data only: prices of orders, volumes, comments, licence keys, amounts, reasons, log
  records and statistics.
* `OrderExecution`: `modify_position`, the read-only queries, and the database row of `_persist`, whose
  failure is caught and changes nothing.
* `CircuitBreaker`: the registry of breakers and the callbacks of `_transition()`, which nothing
  registers.
* `Billing`: the mock provider, and the process boundary: `api/routes/billing.py` builds a new engine
  for each request and calls `WebhookProcessor()` without its arguments. The model is of one
  engine that lives on, as the class and its tests have it. A dispatch that raises after its event's id
  was remembered (`webhook.py:101`) is not modelled either: `confirm_payment()` and the callbacks return.
* `KillSwitch`: a disabled configuration. `reset()` and the callbacks have no user under `src/`; they
  are modelled as what a caller may do.
* `Scheduler`: registering a job after the first `start()`, and a job that swallows its cancellation.
* `TradingControl`: the Telegram bot is a service of its own; it shares the switch only through the
  module-level instance, which the model grants it.
* `TwoLevelCache`: key prefixes, counters, the decorator, and times to live other than the defaults.
* `IncidentResponse`: alerts and their deduplication, the black box, runbooks and reports, which record
  and decide nothing.
* `KeyRotation`: the vault, the scanner for leaked secrets and the audit trail.
* `RefreshRotation`: the instant at which a token expires, when issuing no longer counts it as a
  session (`expires_at > now`) and `rotate()` still takes it (`now > expires_at`).
* `ReplaySession`: loading and analysing candles; several sessions, which share nothing.

## 10. Plan

Done: the order registry with its refinement, the order path over an unreliable network, the services
with the most concurrency, the reconciler, approvals, trade rows, cache, replay, incidents, tokens and
keys, the candle patterns, and the proofs of section 7. Next, most important first:

1. One module for the whole order path: `SignalApproval` handing signals to `OrderExecution`, and
   `PositionReconciliation` repairing its registry.
2. For that module, a proof that a signal decided once is executed at most once unless an answer was
   lost, from `SignalDecidedOnce` and `DuplicatesAreLostAnswers`.
3. The daily counters of the risk gates, sessions and login hardening, the expert advisor's poll loop.
4. The voting engine as a pure algorithm, once its classes fit together.

Abstract specifications worth stating next: a stop that is final until reset (refined by
`TradingControl`), a licence per paid invoice (refined by `Billing`).
