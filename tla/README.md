# Formal model of the trading platform's trade cycle

The platform sells an index straddle (one call, one put) at an entry time, watches
the combined premium, and buys both legs back at a target, a stop-loss, a halt or a
hard cutoff. Its claim is that a crash at any moment leaves no duplicate or forgotten
order. This directory models that claim in TLA+, checks it with TLC on small instances
and proves the part of it that is provable for every instance with TLAPS.

Paths below are relative to `src/src/algo/`; `strategy_1/` stands for
`strategy_engine/strategies/strategy_1/`.

## 1. Inventory

| Component | State it keeps | Operations | What makes it correct |
|---|---|---|---|
| Position state machine (`strategy_1/state_machine.py`) | `positions.state` | `transition`, `mark_error` | only edges of the graph; ERROR -> CLOSED never by the strategy |
| Entry (`strategy_1/entry_logic.py`) | position, trade, intent, order rows | `enter`, `_auto_unwind`, `_fail_to_error` | intent before order; put only after a filled call; a lone call is bought back; OPEN means both legs filled at real prices |
| Exit (`strategy_1/exit_logic.py`) | the same rows | `evaluate_exit`, `exit` | each leg bought back once, also after a crash; CLOSED means flat, priced, with the reason that began it |
| Order updates (`services/order_update_processor.py`) | orders row | `process` (push), `reconcile_order_terminal` (poll) | rows only advance and never claim more than the broker did |
| Reconciliation (`services/reconciliation_engine.py`) | all rows, breaks | one pass at startup | no in-doubt intent guessed; no exposure closed away; graph respected without validation |
| Monitor (`strategy_1/monitor.py`, `combined_premium.py`) | attached position, last premiums | `attach`, `on_tick`, `poll_and_check` | an open position is watched; halt and cutoff do not wait for a price |
| Strategy 1 (`strategy_1/strategy.py`) | none of its own | `recover`, `on_time_trigger`, hooks | each position state recovers to the right activity |
| Runner (`strategy_engine/strategy_runner.py`) | status, RLock | `start`, `dispatch_*`, `stop` | one hook at a time; an exception freezes the instance |
| Platform scheduler, monitoring scheduler (`scheduler/`, `strategy_engine/strategy_scheduler.py`) | schedules, fired/skipped days | tick loops, `register`, `stop` | triggers begin when due, the entry once a day, the cutoff for every running instance; no hook outlives `stop` |
| Composition root, application (`dependency_container.py`, `app.py`) | `_started`, shutdown event | `start`, `stop`, signals | shutdown ends and leaves nothing running, a failed start too |
| Risk core, kill switch (`risk/`) | risk flags, daily risk rows | `validate_entry`, `is_halted`, `engage`, `disengage` | no entry over a reason that stands; a breach, once committed, is never undone; a halt reaches every instance in scope |
| Rate limiter (`brokers/rate_limiter.py`) | one window of grants per category | `acquire` around every broker call | the window is never exceeded; a caller is refused only when waiting is hopeless, and always answered |
| Simulated broker (`brokers/simulation/simulation_broker.py`) | orders, positions, a matching thread | `BrokerBase` | fills, profit and position agree; orders only advance; every end is pushed |
| Kite broker (`brokers/kite/kite_broker.py`, `mapper.py`) | instrument dump per exchange | `BrokerBase` over HTTP | what the callers conclude from an answer, an error or silence is true at Kite |
| Kite tokens (`brokers/kite/token_*.py`, `scripts/generate_token.py`) | `.env`: token and stamp | daily login, `authenticate` | success means a token Kite accepts; no login is asked for without need |
| Strike selection (`strategy_1/strike_selector.py`, `services/live_seams.py`, `holiday_service.py`) | token map per exchange | `select`, expiry, token lookup | the nearest strike and expiry the exchange lists, or a refusal with a reason |
| Tick writer (`market_data_collector/tick_writer.py`) | bounded deque, one batch | `enqueue`, writer loop, `stop` | every tick is stored, in order, or counted as dropped |
| Market data (`market_data/`, `brokers/kite/market_ticker.py`) | who wants which contract, tokens, tick cache | subscribe, connect, tick, `get_ltps` | what a monitor watches is streamed; a monitor comes to know the current prices though the feed is lost or silent |
| Collector (`market_data_collector/`) | phase of the day, websocket, tokens, strike window | phases, watchdog, recompute | the window is streamed; a lost, given-up or silent websocket is rebuilt |
| Database (`database/`) | the rows | repositories, `unit_of_work` | one commit per unit of work, versioned rows |
| Trade history and reports (`reporting/`, `services/trade_history_recorder.py`, `backfill_trade_history.py`) | workbook per day, `trade_history` | export, record, backfill | no trade twice, none lost to a race, totals that run on |
| Logging, construction, migrations | files, objects, DDL | | output and wiring only |

How they interact. The composition root (`dependency_container.py`) reconciles at
startup, then registers each runner with the schedulers; registering runs `recover()`.
From then on three kinds of thread call the runner's hooks (the trigger loop, the
monitoring loop, market ticks), one at a time under its lock. The hooks call entry and
exit logic, which write one transaction, call the broker, and write the next. A fourth
thread, the order-update websocket, writes orders rows without that lock. Operators
change risk flags and instance status from other processes.

What is hard to test: a crash between any two transactions; a broker call whose answer
is lost; the websocket writer against the polling writer; several restarts in one day;
an order that is still working when the process is back; and an exit that has to end
although recovery, reconciliation and exit logic each did a part of it. PROJECT.json
lists these as `hazards`, each at its line.

## 2. Modules

| Module | Models |
|---|---|
| `PositionStateMachine` | abstract specification: the legal life of a position row |
| `StraddleState` | variables, types, `Init`; leaving a hook; writes that several parts share |
| `OrderUpdates` | push and poll writers of the orders row and the decision they share |
| `Broker` | external: the orderbook, answers of `place_order`, how orders move, square-offs |
| `EntryLogic`, `ExitLogic`, `ReconciliationEngine` | the three files of those names |
| `Strategy1` | startup, recovery, monitoring, faults, crashes, operators; `Next`, `Spec` |
| `Strategy1Properties` | properties, the five inductive invariants, fairness |
| `Strangers` | the same system plus one order the platform did not send |
| `Scheduling` | the process: start and stop, the trigger loop, the heartbeat, the feed, the runners' locks; its properties |
| `RiskCore` | `validate_entry` check by check, the daily risk row, flags and operators |
| `RateLimiter` | one category of `brokers/rate_limiter.py` under concurrent callers |
| `TickWriter` | the deque and the writer thread of the collector, a database that fails |
| `SimulationBroker` | orders, passes over them, position, pushes, cancel and modify |
| `MarketData` | subscription counts, the ticker's thread, the cache, the monitors' reads and polls |
| `Collector` | the collector's controller thread, its websocket and callbacks, the strike window |
| `OrderBook` | abstract specification: what an owner sees of accepted orders; `SimulationBroker` implements it |
| `OrderCalls` | abstract specification: what the answer to an order call or a lookup promises |
| `KiteCalls` | the calls of `KiteBroker` over a failing connection; implements `OrderCalls` |
| `KiteTokens` | the login script, the `.env` file, the process that starts from it |
| `Contracts` | strike, expiry, the dump of instruments and the token map, over several days |
| `TradeRecords` | exports, records and the backfill after exits, with crashes and failures |
| `Strategy1Proofs`, `Strategy1ExposureProofs`, `SchedulingProofs`, `RateLimiterProofs`, `RiskCoreProofs` | theorems and proofs about the module of that name |
| `KiteProofs`, `MarketDataProofs` | those about `KiteCalls`, `KiteTokens` and `Contracts`, and about `MarketData`, `Collector` and `TickWriter` |
| `LedgerProofs` | those about `SimulationBroker` and, as `R`, about `TradeRecords` |
| `MCStrategy1`, `MCStrangers`, `MCScheduling`, `MCServices` | the environments the runs use |

The trade cycle (`Strategy1` and what it extends) is one instance with one hook at a time.
`Scheduling` is what makes that true for several instances: it abstracts a hook to "takes
the runner's lock, lasts, returns or raises" and keeps every thread that calls one. Its
`main` follows `Application.run` through `DependencyContainer.start` and `stop`; `loop` is
`PlatformScheduler._run_loop`, which reads the date and the time in two steps, with a
dispatch thread per element of `due`; `beat` is the heartbeat, `tick` the feed's broadcast.
A join with a timeout lets the main thread go on at any time. `Pushing` names the
processes whose feed pushes ticks; the others poll (`PollingTickStream`). `delivered` is a
history of the entries begun, kept across restarts.

The ten components from `RiskCore` down share no state with one another. `MCServices` puts
them in one run: `focus` names the one that acts in a behaviour, the others stay as they
began, so the states add up and do not multiply (`MarketData` has two instances, `shared`
and `legged`). Its fairness is that of the service that runs; its formulas `Fair1`, `Fair2`
and so on each put together conditions of different services, which says the same of
every behaviour, as the services but one never act, and is quicker to check.

`RiskCore` gives each check a step, because each reads in a session of its own, and splits
`_persist_daily_risk` where it loads and where it writes the row. `since` is a history of
the reasons that have stood against an entry for as long as its validation runs: the
promise is about those, as a reason that comes or goes between two checks may be missed.
`RateLimiter` keeps every grant (`granted`) and the list the code prunes as places in it
(`calls`), so that the list can be compared with what it should hold. In `TickWriter` a failed
write may have been committed. In `SimulationBroker` a pass over the orders holds the lock
and resolves one order per step; what it has to push is pushed after it, with any other
thread in between.

`MarketData` splits a subscription where the code does: the counts under the manager's lock,
the question whether the feed is connected, the tokens and the server. The ticker's thread
runs one callback at a time, and a connect is four steps of it. A price is `old` or
`current`; the market moving makes every copy old. A hook of a runner, its delivery of a
tick among them, excludes the others of that runner and of no other. `Collector` has
one step per call of the controller that changes something, and the callbacks of the
ticker between them; `OnPhase` picks the phase, the same or a later one. Its clocks are
only compared with a limit, so each is unset, within or past it.

In `KiteCalls` a call connects, is sent, is executed, declined or read at Kite, and answered;
it may fail between any two of these with any error `kiteconnect` or `requests` raises
there, and `Translated` is `translate_kite_exception`. `late` holds the requests whose
caller gave up while they were on their way: they may still take effect. The refinement
keeps of a call only what its caller may know. `KiteTokens` has a step per call of the
script to Kite and per write of `.env`, so that it can die between the token and its stamp.
`Contracts` computes expiries on numbered days (day 0 a Monday) from the configured rule
and compares them with what the exchange lists by its own; the dump and the token map
are kept as the day they were fetched on. In `TradeRecords` the export of one exit is its
reading and its writing, under the exporter's lock, and a record is a lookup, an insert and
a commit, so that two writers may insert one key and one of them roll back. A report has
for each position the totals up to its exit time (`exit_at` numbers the exits in that order).

**State.** The variables of the trade cycle fall into four groups that fail independently: committed rows
(`posState` ... `inst`), the broker (`book`, `squared`), the memory of the process (`pc`
and the hook's locals, `runner`, `monitor`, `entryDue`), and the world (`clock`,
`halted`, and the budgets `crashes`, `faults`). A crash keeps the first two and erases
the third.

**Steps.** One `unit_of_work`, or one broker call, is one action. `pc` names the next
one: `e_*` and `u_*` are entry and unwind, `x_*` exit, `r_*` reconciliation, `s_recover`
`recover()`. `e_mark -> e_send -> e_ack -> e_poll -> e_load -> e_apply -> e_read` is one leg of
`_place_leg`/`_confirm_and_record`. Because the runner's lock admits one hook at a time,
one `pc` suffices; the websocket, the broker, operators and crashes interleave with it
at every step.

**Data.** A tag is `<<kind, leg>>` with kind E (entry), U (unwind) or X (exit): instance and
date are fixed. A price is `none`, `zero` or `real`: `zero` is what `x or Decimal("0")`
makes of an absent price, and the code treats it differently from a real one. An orders
row carries `copies`, the number of rows with its tag, because `get_by_broker_tag` raises
when there are two. A premium is a number compared with two levels.

**Poll against push.** `reconcile_order_terminal` loads the row, then locks it; the
lock's SELECT does not refresh the object the session already holds, so the decision is
made on the loaded copy and a concurrent commit makes the versioned UPDATE fail, which
is swallowed. The model has the load (`reconcile_order_load`) and the write as two steps
and compares the row with the copy; every write changes the row, so equality stands for
an equal version.

**Assumptions and abstractions.**
- One instance, one trading day, one process; two processes on one database are excluded
  by the deployment guide.
- An order is accepted during the call that sends it or never: no order appears in the
  trade cycle later than the timeout of its call. (`KiteCalls` has such orders; what may be
  concluded from the answers in spite of them is `OrderCalls`.)
- A connection error means that the order was never sent, unless `"reset"` is in `Env`
  (in `KiteCalls`: unless `Resets`); see `reset_close` in section 3.
- The broker's ERROR status is folded into REJECTED, which the code handles alike.
- Risk checks over state that is not modelled may fail at will; the instance status and
  the halt flags are modelled (`approve_entry`).
- `get_positions` may be unavailable or older than a square-off; `get_order` may fail for
  the whole poll window.
- Persisting FROZEN after an exception is best effort, as `_freeze_instance` is.
- `needs_reconciliation` is represented by the set of break types recorded.
- Simulated broker: one instrument, the websocket connected; prices are multiples of 720,
  so that every average is a whole number (the code rounds to two decimals); the index by
  tag and margins are left out.
- Risk core: unrealized P&L is zero, as in the code; hours, connectivity and margin fail at
  will.
- Tick writer: rows are written in one transaction per batch; `stop(drain=False)` drains all
  the same, as the loop does; a tick that arrives after the last drain stays in the deque
  and is not counted. The 30 s join of `stop` may let the process exit under the drain: not
  modelled. A batch the database never accepts is retried until shutdown.
- Market data: the request for tokens and the server's answer to it are one step; a poll
  returns prices that are current when it ends; ticks that fail the plausibility check
  change nothing; one tick per contract is on the way at a time.
- Collector: one underlying; the window is any of `Windows`; a stale callback of a replaced
  ticker acts on the stream as the code lets it. The ticker reconnects by itself until it gives up.
- Kite calls: Kite executes a request once; a lookup reads the whole order book in one
  step; the caller's deadline may end the retries at any attempt.
- Kite tokens: Kite may keep or drop the tokens it issued before a new one; the script
  runs alone, and nobody edits the file while it does.
- Contracts: an exchange lists the expiries of the next seven days, and the monthly ones of
  the next five weeks; selections are not under way at midnight.
- Trade records: no exit is under way at midnight; a failed save leaves the workbook as it
  was, a crash during one may lose it; the backfill reads its list in one transaction.
- No `PositionReconciler` exists in the platform, so `_finalize_entry` and
  `_finalize_exit` flag and do not finalize.

The operators marked "Slip" beside a definition are plausible coding mistakes in it; each
is used to confirm that a property notices.

## 3. Runs

`Env` names the hardships a run lets happen (`StraddleState`); the budgets are
`MaxCrashes` and `MaxFaults`; `Qty` is 1, or 2 where partial fills matter. `Target = 1` and
`Stoploss = 3`. `CHECK_DEADLOCK FALSE` because the day ends: a closed position with a spent
crash budget is a legal stop.

| Run | Bounds | Shows | States |
|---|---|---|---|
| `restarts` | 3 crashes, one of them possibly a fault instead (2 in all when the exit is the stop-loss), operator unfreezes, price at the stop-loss | no duplicate, unannounced or misplaced order; no put without its call; a closed position is flat, aborted or exited, and an exit has the reason that began it; exposure is watched or flagged | 2.52M |
| `hard_broker` | Qty 2, partial fills, slow orders, push feed, late prices, failing unwinds, 1 crash | rows follow the broker and only advance; OPEN is hedged; no leg is bought back twice or unsold | 1.15M |
| `liveness` | 1 crash, kill switch used | hooks end; cutoff and halt close; an exit ends or is flagged | 358k |
| `strangers` | 1 crash, one foreign order, square-offs | duplicates stop trading; the system implements `PositionStateMachine` | 1.5M |
| `services` | see below | the rate limit is kept and no caller waits for ever; no entry over a standing reason; ticks are stored or counted; simulated orders follow the book, their ledger balances and every end is told; wanted contracts are streamed and monitors catch up; the collector's window is streamed and its stream comes back; the contracts sold are the right ones; answers of Kite mean what their callers conclude; the login is honest; records are neither doubled nor lost | 390k |
| `scheduling` | 2 instances, 2 triggers, 2 days (one a holiday) of 3 times, 1 restart, a push feed in the first process | stop, triggers, cutoff and shutdown with two instances | 290k |

In `scheduling`, two instances are the fewest with one frozen and one waiting, two triggers
the fewest with both catch-up policies, and the second day adds midnight and a holiday.

In `services`, two callers and a window of two calls in two instants over four instants let
a caller lose the slot it slept for, with and without a deadline. Two instances of one
account under a cap of two and a loss limit of one, with one flag and outcomes on both
sides of the limit, let each check be the one that decides and let a later profit hide a
breach. A deque of two with batches of two and four ticks overflows before, during and
after a write; two outages lose an answer and then the retry. Two orders of up to two
units in up to two steps at two prices open, reduce, close and flip a position, beside one
cancellation, modification or failed price. Two monitors of one contract and one lost
connection (`shared`) let any two subscriptions, unsubscriptions and connects fall between
one another; one monitor of two legs, one move of a price, one lost connection and one
failed poll (`legged`) let a leg fall silent while the other ticks, and a poll overtake a
tick. A window of one token and one of two shifts either way, and one fault puts a loss, a
freeze, a late callback or a call that raises at any step of the collector's day.
A weekly and a monthly contract, two weekdays, a holiday and a week's shift of it, month
ends and three first days of which one is an expiry day, over three days (`choice`), put an
expiry on, before and after each of these; one fault is a dump that cannot be fetched or
a restart. Two callers, one request, three calls of two attempts and two failures (`calls`)
let one thread look for an order the other is still sending, lose the answer and retry the
lookup. Two tokens, two days and two mishaps (`login`) part any two writes of the script
and let the next run find what is left. Two exits of one day, one of the next, a
backfill and one fault (`records`) let two exports and two records of one position overlap.

Why the bounds of the trade cycle are enough. The constraint `FewTroubles` of `restarts`
bounds crashes and faults together. Three crashes allow one in entry or exit, one in the recovery
of that, and one more restart over what recovery left; that is the shortest history with
two rejected rows under one exit tag, whose lookup then raises and aborts every later
startup. Quantity 2 is the smallest with a partial fill. One
fault separates any step from its successor, and with a crash beside it covers a failed
write followed by a restart. The hardships are split over runs because the writers they
involve do not interact; the theorems need no bound.

`ClosedMeansFlat` is `ExitedMeansFlat` and `AbortMeansFlat`. The second holds in `restarts`, where
orders have settled before a restart, and fails in `abort_while_working` below. One hardship at a
time: the first fails only with square-offs or connections that are reset; the second,
and `ExposureIsWatched`, hold with late prices, whole pushed fills, halts or unfreezing, and
fail with slow or partial orders, square-offs, failing unwinds or resets. The theorems of
section 4 have those premises.

### Disagreements between code and documentation

Each is a run that TLC refutes; the trace is the scenario.

| Run | What happens |
|---|---|
| `abort_while_working` | Crash after an entry order was sent; it is still working at restart. Reconciliation reads `trades.status = PENDING` and closes the position; the order fills, unwatched. A crash between a failed unwind and `_fail_to_error` ends the same way: the trade is ERROR, not OPEN, so "nothing filled". |
| `push_hides_fill` | A pushed partial fill commits between the poll's load and write; the COMPLETE is dropped with the version conflict, the row stays OPEN, and entry fails a leg the broker has filled. |
| `exit_stuck` | Crash after a closing order was sent. Reconciliation applies the fill (trade CLOSED, no `realized_pnl`); `_close_leg` then skips the leg as already closed and `_finalize_closed` refuses its missing P&L, at this and every later restart. |
| `reset_close` | The connection is reset after a closing order has left. `translate_kite_exception` reports it as one that could not be made, the caller as an order never sent, and the leg is closed a second time. |
| `failed_start` | Any step of `DependencyContainer.start` raises. `Application.start` calls `stop`, which returns at once because `_started` is set last; the session and whatever else was started stay, where the docstring says a failed startup "never leaves a broker connection, market data thread, or scheduler running behind it". |
| `entry_cap` | Two instances of an account enter together: both count the day's positions before either inserts its own, and the account ends above `max_daily_entries_per_account`. |

Beside these, reached in the models and stated by no run: when the commit of `_finalize_open` fails
and the ORPHAN_FILL break that tells of it fails too (one outage of the database does both), the
whole straddle stays ENTRY_PENDING with the runner RUNNING, unwatched and unflagged until a
restart, which is why `ExposureIsWatched` is stated for one fault; a call order that fills in part
and is cancelled is taken for unfilled, and a crash before `_fail_to_error` then closes the
position over the filled part; a loss beyond the limit is never latched when no entry is
validated while it lasts, or when the persist that would latch it loses the optimistic
race; and a failing price lookup inside `place_order` of the simulated broker, in the pass
over other due orders, raises `BrokerConnectionError` although the order exists, which
`entry_logic.py:443` reads as "never reached the broker" and `broker_base.py:335` as unknown.
At Kite, one order of an exchange the mapper does not know makes every read of the order
book fail, lookups by tag included; a `TokenException` in a later call does not invalidate
the session. `generate_token.py --force` does not force a login, as `ensure_valid_token` looks
for a usable token again, against the help at `generate_token.py:131`; and a crash between
the token and its stamp asks for a login that a good token did not need.
In strike selection, `KiteInstrumentTokenMap` loads an exchange once and never again, where
its docstring compares it with the daily cache of `KiteBroker`: a process of several days
polls the legs it could stream. A configured weekday that is not the exchange's may name an
expiry that is listed and not the nearest. Errors other than `StrikeSelectionError` leave
`select`, against its docstring. In the records, the last failed export of a day is never
made up for, and the backfill writes rows for positions that reconciliation aborted, which
the live path never records.
A trigger has no lateness bound: a pass held up by another instance's hook may begin the entry
beside the cutoff, and the strategy's own checks of the hours have to refuse it.

In market data: a monitor that unsubscribes while another subscribes the same contract may
take it off the server after the other put it there, until the next connect; the history
`raced` names these contracts, which `WantedIsStreamed` leaves out, and the staleness poll
covers for them. `get_ltps` reads an entry and then asks for the age of the entry that is there
by then, so a tick in between makes an old price pass for fresh. One leg's tick
refreshes the staleness clock of both, so a silent leg is not polled while the other ticks.
A poll's price may overwrite a newer tick. `MonitorsCatchUp` says that each passes.

In the collector: the heartbeat rebuilds a silent websocket without regard to
`restart_backoff`, against `config.py:61`, and its baseline `last_tick_at` survives a rebuild,
against the comment at `collector_service.py:231`, so a fresh websocket past its own grace is
rebuilt at every pass until a tick comes. A process that starts within the session never
calls `stream.start()`; the watchdog does, after the grace period. A recompute that raises
after the window was committed loses its diff: the tokens in `lost` are missing until a
rebuild or the next shift, and `WindowIsStreamed` leaves them out.

### Fairness

`FairSpec` is weak fairness of the hooks (the scheduler threads loop forever and the service
manager restarts the process) and of the broker ending its working orders (market orders
on an exchange). Nothing is assumed of the clock or of the operators, so a halt closes a
position whether or not the cutoff comes. Crashes are bounded, as weak fairness needs: a
process that dies at every step does nothing.

`Scheduling!FairSpec`: the main thread and the loop run, and every hook ends because its
waits for the broker are bounded (`HooksEnd` in the run `liveness`). Getting a runner's
lock needs strong fairness: `RLock` promises no order, but its holders pause between two
hooks, the heartbeat for its interval and the feed until the next tick. The heartbeat and
the feed themselves need not run.

`services`: time passes and a thread in `acquire` goes on; the writer thread runs (its waits
have timeouts), and nothing is assumed of the database, whose return is a premise of
`EveryTickEnds`; a thread of the simulated broker in a pass or with updates to push goes on,
orders come due, and the matching engine, which asks at every tick, gets the lock in the
end (strong fairness, as callers hold it only for a pass). A monitor's hook ends and its
heartbeat comes again, the ticker's thread runs and time passes; a lost connection need not
heal. In the collector the controller loops, time passes, and a ticker that is down
connects or reports its close; the callback of a connect gets the stream's lock in the end
(strong fairness, as the controller holds it for a few lines and then waits).

## 4. Proofs

`Strategy1Proofs` proves, for every `Qty`, `Env`, `MaxCrashes`, `MaxFaults` and set of premiums
(assumptions `ConstantsAssumption`, `LevelsAssumption`):

| Theorem | Statement |
|---|---|
| `TypeCorrect` | `Spec => []TypeOK` |
| `NoDuplicateOrders` | `Spec => []AtMostOneOrderPerTag` |
| `WriteAheadHolds` | `Spec => []IntentBeforeOrder` |
| `ImplementsStateMachine` | `Spec => FollowsStateMachine` |
| `OrdersMatchTheState` | `Spec => NoOrderAfterTheEnd` |

The inductive invariant is `IndInv == TypeOK /\ Ledger`. Types alone are not inductive: a
poll assigns the last order of a tag, which has a type only if the tag has an order, so
`PolledExists` is needed. That no tag gets a second order rests on `TagIsFresh` (a step that is
about to send sees an empty book under its tag), which in entry follows because the legs
and the unwind start in a fixed order from a row that did not exist (`IdleIsClean`), and
in exit because a started tag is looked up first. `WriteAhead` ties orders to started
intents, `TodoIsInDoubt` keeps reconciliation from reopening a resolved intent, and
`PcMatchesState` gives the state of the position at each step, from which the refinement
and the order-state theorem follow. `TypeStep` treats the actions file by file;
`EntryLedger`, `ExitLedger`, `ReconcileLedger`, `RunnerLedger` and `WorldLedger` have one step per
action. `NoDuplicateOrders` has the premise `"reset" \notin Env`, which `reset_close` shows to be
needed.

Its second and third parts prove under the same assumptions, and with connections that are reset:

| Theorem | Statement |
|---|---|
| `CallBeforePut` | `Spec => []PutOnlyAfterCall` |
| `OpenIsHedged` | `Spec => []OpenMeansHedged` |
| `NeverBoughtTwice` | `Spec => []NeverOverClosed` |
| `RowsAreTrue` | `Spec => []RowsBelieveTheBroker` |
| `RowsAdvance` | `Spec => RowsOnlyAdvance` |

None of the first three is inductive. `SaleInv`, inductive beside `IndInv`, says what is known of the
legs that were sold. While entry runs, where it stands tells it (`SoldSoFar`): the call is
sold, and its row says so, before the put is begun. That a row which says COMPLETE is a
full order holds only during entry (`EntryRowsAreFilled`), as reconciliation later calls a
fill that was cut short COMPLETE too. An OPEN position leaves reconciliation nothing in
doubt (`OpenIsSettled`), so nothing changes its legs until an exit is prepared; the exit
thus finds both legs sold and no unwind begun (`ExitFollowsSale`), and an unwind is begun
only for a call that was sold, with the position still pending (`NothingBoughtEarly`).

The theorems about rows rest on `RowInv`, inductive beside both. A writer acts on a snapshot
that may be old: what a poll hands on, or what reconciliation fetched, is an order that
still exists, has filled no less since, and has not changed if it had ended (`PolledIsTrue`,
`ViewIsTrue`); a pushed snapshot is one the order went through. So whatever a row claims, one
order of its tag accounts for it. `RowsOnlyAdvance` is about the row of one order: when an
exit is tried again after a rejection, and the process dies before the answer is recorded,
reconciliation finds the rejected row by its tag and records the new order in it. That
takes two crashes and an order that is still open; `acked` tells the two orders apart.

`Strategy1ExposureProofs` says what is left at the broker, for every `Qty`, `MaxCrashes` and set of
premiums:

| Theorem | Statement | Premise |
|---|---|---|
| `ExitedIsFlat` | `Spec => []ExitedMeansFlat` | no square-offs, no resets |
| `AbortedIsFlat` | `Spec => []AbortMeansFlat` | `OrdersSettle` |
| `ClosedIsFlat` | `Spec => []ClosedMeansFlat` | `OrdersSettle` |
| `ExposureWatched` | `Spec => []ExposureIsWatched` | `OrdersSettle`, `MaxFaults <= 1` |
| `FillIsRecognised` | `Spec => []CompleteFillIsRecognised` | `FillsAreSeen` |

`OrdersSettle` leaves the environment late prices, pushed updates, halts and unfreezing: orders fill whole
or not at all and have ended before a restart, and the book is the platform's. Each hardship it
excludes refutes the property alone, as section 3 says, and so does a second fault.
`ExitedIsFlat` needs much less, and holds with slow, partial and failing orders: its invariant
`ExitInv` says that a leg with a P&L was bought back by an order that filled in full
(`PricedIsClosed`), whichever life of the process sent it, that a position is CLOSED after an exit
only with both legs priced (`ClosedIsPriced`), and that the reason is the one that began it
(`ReasonIsKept`). `SettledInv`, inductive beside it, follows an entry that is cut short: a leg whose
trade does not say that it was sold has an intent in doubt, or no order that could sell it
(`LegsOfEntry`), which rests on the orders row saying what the broker said (`EntryRowFollows`);
reconciliation leaves nothing in doubt behind (`DoubtIsResolved`); so when it closes a
position, what was sold was bought back (`AbortIsEven`), and stays so. `ClosedIsBought` is the
same of an exit that crashed between its legs, and `WatchedOrFlagged` says how each hook ends.
`FilledByOne` computes the recursive sum of a tag's fills where the tag has one order at most.

`FillsAreSeen` leaves out two things only: a connection that is reset under a call, and a broker whose
fills are partial and pushed too. Slow, late, cut-short or squared-off orders, failing unwinds,
crashes and faults are all allowed. `FillInv` keeps `EntryRowFollows` there as well: without pushes only the
poll writes the row, and without partial fills what is pushed has ended or says nothing. An order that filled
in full is COMPLETE and cannot be killed any more (`FullIsComplete`), what was refused or not sent is not
in the book (`UnsentIsAbsent`), and a leg is given up at the end of the entry, when none of its orders is at
work or has filled (`FailedIsOver`). Both halves of the premise are needed: a reset alone refutes the
property, and `push_hides_fill` shows partial fills and pushes doing it together.

The same module proves of the system with orders of strangers under the platform's tags
(`Strangers`), without a premise on the environment:

| Theorem | Statement |
|---|---|
| `DuplicateStops` | `StrangerSpec => []DuplicateInDoubtStops` |
| `StrangersKeepTheGraph` | `StrangerSpec => FollowsStateMachine` |

Most of the ledger above fails there, as a stranger's order may stand first under a tag.
What is left is `StrangerInv`: the types, `PolledExists`, `PcMatchesState`, and `DuplicatesNoted`, which
follows the orderbook from its fetch to the last intent: it is never kept from one life
to the next, and an intent still in doubt waits its turn or was noted as a duplicate.

`SchedulingProofs` proves, for any number of instances, triggers, days and restarts
(`SchedulingAssumption`: among others, no trigger is due at midnight):

| Theorem | Statement |
|---|---|
| `SchedulingTypes` | `Spec => []TypeOK` |
| `QuietAfterStop` | `Spec => []NoHookOutlivesStop` |
| `NeverEarly` | `Spec => BeginsWhenDue` |
| `OnceADay` | `Spec => EntryBeginsOnceADay` |

Its invariant is `SchedulingInv`. `StopIsFinal` says that the runners `stop()` is past have a free
lock and a status that admits no hook; `PendingIsDue` says that what is pending was due
when the pass read the clock and still is, also past midnight; `PassHasADay` says that a
pass with pending dispatches has a real date, which needs that the loop starts after the
registrations. `OnceADay` rests on `OnceInv` beside it: a trigger that was delivered for a day is
remembered, by this process in the date it fired on and by the next in the date it
skipped (`Remembered`), because what was due when it was delivered is still due when its schedule
is registered again (`DeliveredWasDue`) and no date that was read is later than the clock or
earlier than a delivery (`DatesAreLate`).

Two theorems say what the claim that `failed_start` refutes is worth. `FailedStartIsQuiet`: whichever steps of
`start()` may fail (`MayFail \subseteq Starting`), neither scheduler runs and no hook of theirs is under way
once it has failed. `EarlyFailureLeavesNothing`: with `authenticate` as the only step that fails, the whole claim,
`[]FailedStartLeavesNothing`, holds; a later step leaves the broker or the market data behind.

`RateLimiterProofs` proves `WindowIsKept` (`Spec => []WindowInv`) and from it `LimitIsKept`
(`Spec => []NeverOverLimit`) for any callers, rule and timeouts (`RuleAssumption`). The limit
alone is not inductive: a grant is safe because the list holds every grant of the last
`PerSeconds` (`NothingForgotten`), so that fewer than `MaxCalls` in the list are fewer than
`MaxCalls` in the window; and grants are in order of time.

`RiskCoreProofs` proves, for any entrants, flags, targets, limit and cap (its premise `Limits`
names the three flag types and makes the numbers numbers), `NothingStandingIsMissed`
(`Spec => []StandingReasonRejects`) and `BreachStays` (`Spec => BreachIsSticky`). The invariant
`PassedIsGone` says for each stage of a validation which reasons can no longer have stood
all along: a check that reads the reason while it stands rejects, so what is left in `since`
is of the kinds still to be looked for; between the decision on the loss and its verdict, a
loss or latch in `since` means that the verdict is a rejection. `RowIsThere` is what the
latch needs: the row that carries a breach exists, so nobody makes a new one over it.
Of the cap on daily entries, which `entry_cap` refutes, it proves what remains: `CapIsKept`
(`Spec /\ []OneInTheGap => []EntryCapHolds`), that the cap holds while at most one entrant at a time is between the
check of it and the position it allows; and `OvershootIsBounded`, that the entrants pass it by fewer positions
than there are entrants, as whoever finds the day full goes no further. Both suppose that the positions
there are already do not exceed the cap (`MaxOpen <= MaxDailyEntries`).

`MarketDataProofs` proves of the market data services, without bounds:

| Theorem | Statement | Premise |
|---|---|---|
| `FeedInvariant`, `StreamKeepsUp` | `Spec => []FeedInv`, `Spec => []WantedIsStreamed` of `MarketData` | `Feeds`: finitely many monitors, each with its contracts |
| `SessionInvariant`, `WindowKeepsUp` | `Spec => []SessionInv`, `Spec => []WindowIsStreamed` of `Collector` | `Calendar`: the bounds are numbers, with a first day |
| `TicksAccounted` | `Spec => []TicksAreAccounted` of `TickWriter` | `Sizes`: the queue and the batch hold at least one tick |

In `FeedInv` a contract's count is the number of the monitors that hold it, by the cardinality
of a set that gains or loses one member; every contract taken off the server by a late
unsubscription is known to have been raced; and what is wanted and not streamed is on its way:
some thread has still to ask for it, or the next connect will (`OnItsWay`). `SessionInv` says the same of the
window, which the stream remembers across the tickers it replaces. `TicksAreAccounted` needs that the deque and
the batch are in order of arrival (`QueuesAreOrdered`), that nothing in the table is later than what is
queued, and that a tick of a batch that is written again, because the answer was lost, had reached
the table before everything later that is there (`RetriesKeepOrder`).

Of the brokers and the records are proved, without bounds:

| Theorem | Statement | Premise |
|---|---|---|
| `KiteProofs!ContractIsKept` | `Spec => KeepsContract` (`OrderCalls`) | no connection is reset (`~Resets`), there is a request |
| `LedgerProofs!BookIsImplemented` | `Spec => OrdersFollowTheBook` (`OrderBook`) | quantities and `MaxSteps` are positive numbers |
| `LedgerProofs!FillsAddUp` | `Spec => []FillsAreHeld` | the same, and prices are numbers |
| `LedgerProofs!LedgerIsKept` | `Spec /\ [][MeanIsExact]_vars => []LedgerBalances` | the same |
| `LedgerProofs!RecordsAreKept` | `R!Spec => []R!RecordsAreTrue` | `Exits`: finitely many positions, each of a day, with P&Ls that are numbers |
| `KiteProofs!LoginIsHonest` | `Spec => []TokensAreVerified` | `MaxTokens` is a number |
| `KiteProofs!SelectionHolds` | `C!Spec => []C!SelectionIsRight` | `Calendars`: see below |

In `ContractIsKept` the invariant says that replies are true (`RepliesAreTrue`) and that what is
absent now was absent when the lookup began (`AbsenceIsOld`); every error is then an answer the
contract allows in the state the call is in. `BookIsImplemented` rests on `Sound`: an order
that is due is open, one that will be rejected has no fill, and none is overfilled, whence
a step completes an order exactly when nothing is left.

The ledger and the records are about sums over data of any size. `AllNaturals` and `AllSubsets`
turn the least element of a set of counterexamples into induction over a set, from which
`SumDiffers` (one value of a list changes) and `TotalUnfolds` (a sum takes one position at a time)
follow. `FillsAreHeld` needs that one fill changes one order, by what the position
gains; `CostIsPaid`, the other half of `LedgerBalances`, needs in addition that a mean price leaves no
remainder (`MeanIsExact`), as prices are whole numbers here and decimals of 28 digits in the code; the
run `services` has prices that leave none.

`RecordsInv` has two parts. Of the history: the transaction that has inserted a row is that of the exit
or of the backfill which stands there, there is one, and the position has no row yet
(`KeyIsHeld`), which makes a commit the first; what the backfill has done with has a row
(`BackfillKeepsUp`). Of the reports: one export is between its reading and its writing, and what it has
read contains all that was saved for the day, itself included (`ReportsKeepUp`), so that the writing
loses nothing; and the totals of a row stay those of the exits up to it (`Faithful`), as nothing that
has closed changes and nothing closes on an earlier day (`FaithfulStays`).

In `LoginIsHonest` the progress of the script binds its token to the file (`WritesAreKnown`),
and a login that is asked for was needed when the check before it was answered and still is
(`LoginIsNeeded`, which is why stamps are never of the future).

`SelectionHolds` is arithmetic of calendars first. `WeekdayOnce` and `MonthlyIsNext` show that the
configured weekday names the first nominal expiry from a day on, among those the exchange
lists; `ShiftedIsLast` and `LastIsOne` that moving it off holidays ends where the exchange's
own move does, keeps the order of two expiries and never passes a trading day, so that what is
computed on a trading day has not expired (`ComputedIsAhead`) and is the nearest of the list
(`ComputedIsNearest`). `ChoiceInv` adds that a selection that is under way is of today and of the rules,
and that no token map is of a later day; hence a dump or a map of today has the contracts. The
premise `Calendars` says of the constants that exchanges trade on one day of any fifteen (the 14
days the code goes back), that the month ends around the days of the run are 28 to 31 days
apart, and that the listed strikes cover the spots. Strike and date of a selection hold by any
configured rule; only what is compared with the exchange's list needs `Agree`.

The types of every service are theorems of their own: `RiskTypes`, `LimiterTypes`, `FeedTypes`,
`SessionTypesHold`, `TickTypes`, `CallTypes` (with resets), `LoginTypes`, `ChoiceTypes`, `SimTypes` and `RecordTypes`. Where the
invariant above does not carry the types, they have one beside it: who holds a lock, which counters are
within their bounds, which values a local may hold (`Others`, `WithinBounds`, `LoginStages`, `TokensAreValues`,
`SimThreads`).

`MCServices` gives the services constants and lets one of them run at a time. Every safety invariant and every
refinement that `services` checks under a name of `MCServices` (`ServicesTypeOK`,
`StandingReasonRejects`, `TicksAreAccounted`, `LedgerBalances`, `WantedIsStreamed`, `WindowIsStreamed`,
`SelectionIsRight`, `TokensAreVerified`, `RecordsAreTrue`, `BreachIsSticky`, `OrdersFollowTheBook`, `KeepsContract`) is
proved of the service it is about, for all constants that meet the premises above; of `MCServices`
itself, whose constants are fixed, nothing is proved.

Only model-checked: the liveness properties (`HooksEnd`, `MustExitCloses`, `ExitEndsOrIsFlagged`,
`ShutdownEnds`, `CutoffIsDelivered`, `CallersAreAnswered`, `EveryTickEnds`, `EveryEndIsTold`, `MonitorsCatchUp`,
`StreamComesBack`), as fairness and ENABLED are outside the prover. What the violation runs refute is proved
under the premise that makes it true, but for `ExitEnds`, a liveness property.

## 5. Plan

Done: the trade cycle of one instance, its properties, the ledger theorems; the process and
its threads; risk checks, rate limiter, tick writer and simulated broker; market data and
the collector; Kite's calls and tokens, the choice of contracts, the records; the
refinements to `OrderBook` and `OrderCalls`, and the theorems of section 4: every safety property
that a run checks has one, at the level of its component.

Left:

1. The websocket of the simulated broker and its synchronous mode.
2. `Broker`, as the trade cycle has it, as an implementation of `OrderCalls`. It is not one by a
   refinement mapping: a call is one step of the trade cycle and two of `OrderCalls`, and what it answered
   is kept only in where the hook goes next. It would need history variables or a finer `Broker`.

## 6. Not modelled

Configuration, construction and registration of strategies (data without a protocol);
premium arithmetic and the values of Kite's fields (products, funds, holdings, quotes); the
layout of the workbook; logs (output, failures swallowed); migrations (DDL at startup).
`brokers/paper_trading_broker.py` delegates. Methods the platform never calls
(`unregister`, `poll_active`) are left out. The stub packages (`accounts`, `backtesting`,
`execution`, `monitoring`, `portfolio`) have no code.
