# TLA+ specifications of SUPER_TRADEMAN

Specifications, model-checking configurations and proofs for the Python package
`src/trading` (paths below are relative to the repository; `execution/oms.py`
means `src/trading/execution/oms.py`).  The specifications are written from the
code; where a comment, a docstring or a test says something else, the code is
what is modelled and the difference is listed under *Divergences*.

## 1. The system

| Part | State it keeps | Operations | Talks to | What is hard | What makes it correct |
|---|---|---|---|---|---|
| Order state machine `execution/state_machine.py` | none | `transition_order_state` | called by the OMS | the special resolution of fills | only legal transitions, terminal states final |
| OMS `execution/oms.py`, `execution/shadow.py` | `active_orders`, `order_records`, `order_fills`, `positions` | `submit_order`, `apply_fill`, `cancel_order`, `finalize_partial_fill` | venue adapter, outbox store, chaser, staleness sentinel, shadow interceptor | every `await` is an interleaving point; state is written before the outbox UPDATE; calls fail after taking effect | positions backed by executions, fills monotone, lifecycle respected, nothing open at the venue behind its back |
| Order chaser `execution/chase.py` | `working_orders`, token bucket | `register_order`, `on_fill_event`, `check_and_chase` | venue adapter, OMS | a scan suspended between cancel and finalise; exceptions that end a scan; rate limit | lets go of no live order; no opposite order rests that a check found; every working order is resolved |
| Live adapter `execution/live_adapter.py` | kill switch | `create_order`, `cancel_order`, `fetch_order`, ... | ccxt | unknown outcomes, retries | an order's outcome is never guessed |
| Outbox `execution/outbox.py` | rows of `order_intent` | `save_intent`, `update_status` | Postgres | concurrent UPDATEs | - (no row is ever inserted by this code) |
| HA lock `infrastructure/ha_lock.py`, `infrastructure/shutdown.py` | a Redis key and fence counter; per node token and `is_active` | `acquire_lock`, `send_heartbeat`, `release_lock`, `fencing_token`, signal handler | Redis | several commands per operation, expiry, lost answers, crashes, signals | one primary, safe release, takeover |
| Survival tier `risk/survival.py`, `risk/tier_state.py` | tier and dwell counter; a file; a process-wide cache | `evaluate_survival_status`, `save_state`, `load_state` | heartbeat daemon, file system | crash inside a save, a file shared by processes, unreadable files | hysteresis ladder, no restart loses defence, calm ends it |
| Actor OMS `synthetic/oms_engine.py` | orders, position, sequence buffer, priority queue, mailbox, halt flag | events, exchange messages, reconciler drain | exchange, reconciler's thread | messages overtaken and repeated, late fills, stale snapshots | in-order application, position = fills |
| Portfolio governor `synthetic/portfolio_governor.py` | risk per symbol, global halt, message counts | `update_portfolio_risk`, `trigger_global_halt`, `reset` | actors | halts and resets among queued entries | a breach halts every actor and its orders |
| Strategy defence `synthetic/strategy_defense.py` | posture, sniper ammunition, passive exits | `evaluate_posture`, sniper entry and exit | actor OMS | hysteresis, budget | bounded exposure, recovery |
| Heartbeat daemon `daemon/heartbeat.py` with the risk engine `risk/engine.py` | survival tier, price buffers | `feed_market_data`, `tick_cycle`, `evaluate` | survival tier, account snapshot, OMS | one snapshot for many symbols, without the orders not settled yet; two gates that read the account differently | heat bounded, no entry in capital defence |
| Capital allocator `risk/capital_allocator.py`, circuit breaker `risk/portfolio_circuit_breaker.py` | last trade per asset, breaker tier | `allocate_capital`, `evaluate_portfolio_drawdown` | account; nothing calls them but tests | greedy grants against three limits that move | a batch fits and wastes nothing |
| Reconciler and recovery `execution/reconciler.py`, `infrastructure/state_recovery.py` | quarantine items | `reconcile_once`, `recover_state` | venue | both sides move while the venue is asked; lost fills | a standing divergence is seen, agreement is not quarantined |
| Staleness sentinel `data/staleness.py` | high-water mark, breaker | `record_tick`, `is_stale`, trip and reset | OMS | replayed and out-of-order ticks | fresh only on news |
| Alerts `ops/alert_manager.py` | cooldowns, escalation counters, persisted | `evaluate_metric`, posting | channels, file or Redis | persisted before posted; crashes, several daemons | the window and the count survive; a standing breach is paged |
| Audit ledger `security/audit_ledger.py` | hash chain, database copy | `append_event`, `verify_chain_integrity` | database | failed inserts, restarts | each break is explained |
| Feeds `data/websocket_feed.py`, `data/pipeline.py` | cursor, buffer; stored candles | watch, poll, page, detect gaps | exchange | forming candles, failing calls, full pages and buffers | no closed candle is skipped, no gap unseen |
| Limit order book `synthetic/lob.py`, venue `synthetic/venue.py`, agents and chaos `synthetic/agents/`, `synthetic/chaos_injector.py` | levels, tape; open orders, fills, position | place, cancel, match, inject | agents, strategy | slips in the middle of a sweep; edits behind the matching | price-time priority, every fill traded once |
| Backtest `backtest/`, `risk/equity.py` | open trades, account, curve | one bar, one exit, one entry | - | gaps, trailing stops, several assets on one account | no fill better than the market's |
| Validation `walkforward/validator.py`, `stats/cross_validation.py` | folds | split, fold | backtest | holes, short blocks, purge in days | train before test |
| Learning graph `learning/graph.py` | graph in memory, JSON-Lines file, archives, lock | add, flush, rotate, compact, load and repair | other writers | crashes and writers between two steps; torn lines | what was flushed is kept |
| Promotion `ops/shadow_campaign.py`, `ops/deployment_metrics.py`, `scripts/` | records with dates, the operator's evidence, mode | record, report, check, promote | operator | verdicts older than the facts, restarts | live trading was earned |
| API `api/` | cookies, denylist, login buckets, configuration | log in and out, read and write the configuration | browser, file | routes run in threads without a lock; a restart loses the denylist and the buckets, and loads the configuration | logins within the window, the configuration survives |
| Estimation `risk/garch.py`, `risk/hmm_regime.py`, `risk/evt.py`, `risk/copula.py`, `stats/` | fitted parameters | fit, forecast | risk | floating point | numeric; not for a model checker |

The interactions modelled: submissions, fills and finalisations meet in the
OMS's dictionaries; the chaser cancels at the venue and then calls the OMS; a
submission cancels the chaser's opposite orders; nodes meet in one Redis key;
daemons meet in one state file, or in one store of alert cooldowns; the orders of a
daemon's tick meet in the account that the next tick reads; actors meet in the governor,
and each meets the reconciler's thread in its mailbox and the exchange in a numbered message
stream; agents, chaos and the venue meet in one order book; writers of the learning
graph meet in its file; the steps on the way to live trading meet in the evidence the
operator holds.

Not everything the code could join is joined: nothing under `src/trading` calls the capital
allocator, the portfolio circuit breaker, the shadow campaign's stop, the position reconciler's quarantine
or the chaser, so they are modelled each with a caller that uses them as their tests do.

## 2. Modules

| Module | Models | State and actions |
|---|---|---|
| `OrderStateMachine` | `execution/state_machine.py` | `LEGAL_TRANSITIONS`, `TERMINAL_STATES`, `transition_order_state` as operators |
| `OrderLifecycle` | what the table promises of an order, as a specification | an order advances along the table, fills only grow |
| `OMS` | `execution/oms.py` with the venue as it sees it | `active`, `record`, `fills`, `moved` are the dictionaries (`moved` is the share of `positions` that comes from one order); `task`, `applying`, `finalizing` say at which `await` the coroutines of an order are; `venue`, `inflight` are the venue's order and its fill feed. One action per piece of code between two awaits |
| `OrderChase` | `execution/chase.py` beside `OMS` (EXTENDS it) | `tracked`, `status`, `seen`, `fresh` are `working_orders`; `scan` is the suspended `check_and_chase`; `wash` the opposite orders a submission has yet to cancel, `answered` the one the venue has cancelled; `found` a history |
| `HALock` | the Redis backend, its manager, the signal handler | `key`, `ttl`, `fence` are Redis; `held`, `primary` are token and `is_active`; `call` is the operation in progress; `lease` what is left of the TTL since the node last heard True; `slipped` a history: the nodes whose PEXPIRE found another's key |
| `SurvivalLadder` | what the hysteresis promises | escalate at once, step down after the dwell |
| `SurvivalTier` | `risk/survival.py` and the file backend of `risk/tier_state.py` | `tier`, `below` are the engine's state; `pc` where it is in `save_state`; `cache`, `file`, `tmp` the process's cache, the file and its temporary |
| `ActorEngine` | `synthetic/oms_engine.py` under `synthetic/portfolio_governor.py`, with the exchange | `status`, `filled`, `position`, `next`, `buffer`, `mailbox`, `halted` are the actor's fields; `cancels`, `entries` the two tiers of `event_pq`; `risk`, `globalHalt` the governor's; `sent`, `transit` the numbered messages and those under way; `fetched` the snapshot the other thread holds |
| `RiskGate` | `risk/engine.py` `evaluate` and the raw tier of `risk/survival.py` | operators on a market condition, the open positions (`Book`) and the streaks of losses |
| `Heartbeat` | `daemon/heartbeat.py` over `RiskGate` (EXTENDS it) | `tier`, `below` are the survival engine's; `fed` the price buffers; `orders` what was approved and is not settled; `book`, `losses`, `since` the account; `calm`, `unseen` histories. One action per tick; the account's moves are external |
| `StrategyDefense` | `synthetic/strategy_defense.py` | `state`, the ages of its timestamps, `armed`, `shots`, `lastEntry`, `exit`, `anchor`; three histories. One action per outcome of `evaluate_posture`, the sniper's operations, the price and the clock |
| `Alerting` | `ops/alert_manager.py` | `daemon` (up, ages of `last_alert_time`, counts), `stored` (the file or Redis), `page` (where `send_alert_channels` is); histories `lastAge`, `hits`, `heard` |
| `AuditLedger` | `security/audit_ledger.py` | `chain`, `rows`; histories of failed inserts and restarts |
| `ApiSessions` | `api/auth.py`, `api/deps.py`, the stateful routes of `api/app.py` | `tokens`, `revoked`, `attempts`, `config`, `file`; `request` where each thread of the pool is; `jar` the browsers' cookies; histories `allowed`, `strained`, `mixed`. One action per piece between two steps another thread may see |
| `LiveAdapter` | `execution/live_adapter.py` before a venue | `call` the awaited operation and its attempt; `resting`, `made`, `late` the venue's orders and the requests still under way; `givenUp` a history |
| `Recovery` | `execution/reconciler.py`, `infrastructure/state_recovery.py` | both sides' positions, `unheard` fills, `quarantine`, `cycle` and `recovery` suspended at a fetch; `keyed`: the adapter names positions as the reconciler does, or as the live adapter |
| `Staleness` | `data/staleness.py` | `hwm`, `receivedAt`, `tripped`, `answer` |
| `Feeds` | `data/websocket_feed.py`, `data/pipeline.py` | `poll` (a loop, its cursor and back-off), `buffer`; `fetch`, `ohlcv` the paged fetch and the table |
| `SyntheticBook` | `synthetic/lob.py`, `synthetic/venue.py`, the agents and the injector | `bids`, `asks`, `tape`; `venueOpen`, `venueFilled`, `venuePosition`. One action per agent, injection and venue call; a queue slip is a number of matches |
| `Backtest` | `backtest/engine.py`, `backtest/portfolio.py`, `risk/equity.py` | `book` the open trades, `settled`, `peak`, `curve`; one action per bar |
| `Allocation` | `risk/capital_allocator.py`, `risk/portfolio_circuit_breaker.py` | `granted`, `held`, `recent`; `tier`, `told`, `exiting` |
| `Splits` | `stats/cross_validation.py`, `walkforward/validator.py` | `cpcv` and `walk`: a configuration and what was made of it |
| `LearningGraph` | `learning/graph.py` | `live`, `ragged` (it ends without a newline), `archived`, `lock` are the files; `graph`, `flushed`, `serialised`, `pc` a writer's; histories `acked`, `torn` |
| `Promotion` | `ops/shadow_campaign.py`, `ops/deployment_metrics.py`, `observability/shadow_metrics.py`, `scripts/` | `campaign`, `today`, `evidence`, `mode`; `problems` what the tools would find; `judged` a history |
| `MC*` | the constants of the runs; `MCOperations` and `MCMarkets` also put units side by side | - |
| `OMS_proofs`, `SurvivalTier_proofs`, `ActorEngine_proofs`, `Heartbeat_proofs` | theorems about the module of that name (and the order chaser's in the first) | - |
| `Operations_proofs` | theorems about `HALock`, `AuditLedger`, `Alerting`, `ApiSessions`, `Staleness`, `Recovery` | - |
| `Strategy_proofs` | theorems about `StrategyDefense`, `Splits`, `LearningGraph`, `Allocation`, `Promotion` | - |
| `Markets_proofs` | theorems about `LiveAdapter`, `Backtest`, `Feeds`, `SyntheticBook` | - |
| `FiniteFolds` | lemmas the proofs share: induction over finite sets, what sums and folds compute | - |

`OrderChase` composes with `OMS` by sharing its variables: each of its actions is an
`OMS` action with the chaser's part conjoined, or leaves `OMS` alone, and
`ImplementsOMS` checks that no action asks of the OMS what `OMS` does not
allow (for instance a finalisation for more than was executed).

`MCOperations` and `MCMarkets` hold units that share no state in the code: a
behaviour picks a unit and runs it alone, so that one run checks them all, each with its full
state space.  They are benches, not compositions.

## 3. Abstractions

* **Quantities** are numbers of lots; prices, notionals and stops are left out. What
  `create_order` rounds to zero is a set of orders (`BelowGrid`).
* **Positions** are kept per order (`moved`): `positions[asset]` is their signed sum.
* **Outbox rows** are left out: nothing calls `save_intent`, so each UPDATE matches no
  row. That it suspends the coroutine and may raise is modelled.
* **The fill feed is external**: nothing under `src/` but drills and tests calls `apply_fill`,
  `on_fill_event`, `register_order` and `check_and_chase`. It is assumed to deliver
  each execution once, in pieces of any size, one event of an order at a time.
* One `submit_order` coroutine runs per client order id at a time; more may follow
  (`MaxSubmits`). `Shadow` is the set of the orders whose OMS is in shadow mode: orders
  do not meet in `OMS`, so one run holds both modes.
* **Venue calls** answer, refuse, or fail with their effect kept or not
  (`CallsMayFail`); the adapter's retries fold into these outcomes. A venue cancels a resting
  order on its own, too (`VenueCancels`), and nothing tells this process.
* `risk_deviations` is a log and is left out. Orders of an `OrderChase` instance are on one
  symbol. A venue cancel of the chaser or of the wash-trade loop takes effect in one step and is answered
  in another, or raises with its effect kept; the venue refuses to cancel an order that is not open.
* **Redis** executes a command atomically and expires the key by `Tick`; what a method writes after
  an answer is a step of its own, and a signal may run in between. A token is
  abstracted to the node that owns it, or to `Orphan` when no node remembers it.
  After SIGTERM a node makes no new lock call but finishes the one it is in.
* **Files**: `open(tmp, "w")`, the write and `os.replace` are a step each; the JSON text fits one
  write. A writer whose open file another process has moved is followed. Power loss
  (there is no `fsync`) is left out. Engines have a state path; without one there
  is nothing to persist. The Redis tier backend is not reachable from `SurvivalEngine`.
  The raw tier of each cycle is an input.
* **Actors**: one thread runs all of them and the governor, so nothing else of theirs runs
  between the messages that one arrival lets through (`ThreadFree`); the exchange and the
  reconciler's thread do run. The buffer holds numbers, `sent` what they stand for. The
  exchange gets a submitted order at once; a cancel when `request_cancel` moves the order
  (the actor itself only changes the status: sending it is left to the code around it).
  Tier 1 events do nothing in the code; the governor's message rate and `allow_event` have
  no caller. Order ids are entered once. `circuit_breaker_tripped` is set together with
  `is_halted` and read by nothing.
* **Heartbeat**: a condition holds what the thresholds tell apart: the drawdown on four
  levels, the daily and weekly limits as reached or not, the models' stress (the online
  calibration's random flip apart, as it applies without prices, too) as booleans, GARCH's scale as 50, 100 or 200 percent.
  Conditions are free from tick to tick. Risk is counted in parts of `risk_pct`. A signal that the engine
  rejects for its own stop, target or reward is no signal. The learning calls of a tick are
  left out. The account is external: an order is filled or given up at any time, also ticks later
  (`MaxUnsettled` bounds those open when a tick begins), a position closes with a profit (which ends its class's streak) or a loss.
  Saving the tier is `SurvivalTier`'s subject.
* **Strategy defence**: timestamps are ages, counted up to the bound the code compares them with, in
  units of time; the numbers of `Reading` stand for the bands between the thresholds of the stress score.
  Prices are levels at least 3% apart, so that a dislocation and a bounce are a comparison; the signal's persistence,
  toxicity and z-score are choices of not shooting. The posture's multipliers follow from
  its state, and with the stop price and the stale quotes they are left out. The caller, which posts
  exits and reads postures, is outside `src/trading`.
* **Alerts**: ages go up to the cooldown, counts up to the threshold that raises the severity.
  Every rule is breached all the time; its metrics' values, templates and channel formats are left out. A
  process reads the file when it starts, Redis at each evaluation. In Redis the window (SET NX) and the count
  (HINCRBY) are two steps, between which the daemon may crash and the other one go on.
* **Audit**: hashes have no collisions: a hash is the sequence it was computed from.
* **API**: a cookie is a number, its age a count of ticks; signatures and passwords are what
  they decide. There is one role, because no code signs another. A route runs in a thread of the pool: the count of a bucket
  and its append, the check of the cookie and the update, the change of the dictionary, the text made of it, and the
  truncation and the end of the write are steps apart. `MaxPause` bounds the ticks that one login takes.
* **Live adapter**: sizes are on a grid of small integers; what the venue does with a client order id it
  has already seen is not in the repository: it takes one it has seen, open or not, or refuses it. Requests and answers get lost a bounded
  number of times (`MaxLosses`). The errors of the library are transient or final.
* **Recovery**: quantities are fractions of the unit that `int()` rounds to; fills reach the
  local side later, or never. The adapter is any (`keyed` is free): `fetch_positions` of the live one returns `asset` and `size`,
  which the reconciler does not read.
* **Staleness**: one symbol, since symbols share nothing; the clock ticks up to a bound.
* **Feeds**: a candle is its open time and whether it was closed when it was read; the table
  holds that, too. The venue pages forward from `since`, or backwards from now without it.
* **Book**: integers for prices and sizes; one size per agent order; a queue slip is the number of
  matches after which the book raises. Agents propose prices relative to the best ones.
* **Backtest**: each position is one unit, so that equity is an integer; every bar may signal
  either side. Bars of two assets with holes are merged as the code merges them.
* **Allocation**: an order's merit, a floating-point score, is an input, so that every ranking occurs.
* **Splits**: a history is its list of bar times; a fold's verdict is a choice of those
  its trade count allows.
* **Learning graph**: a line is a record of a trade; its context is the trade's outcome. An append reaches the file in two parts, so that
  a reader without the lock may meet it half written, and a crash cuts it within a line, between two lines or between the last line and its newline.
  A malformed line is `Torn`, whatever is left of it.
* **Promotion**: a record has the date of its day, and a date any number of records. The preflight fails for what stands in the way of its target
  (`problems`), which somebody may mend. Profits are in hundredths of a percent; the z-score is compared by its square, so that no
  root is needed. The operator passes on the evidence he was given.

## 4. Runs

Passing:

| Configuration | Shows | Bounds, and why they are enough |
|---|---|---|
| `OMS_all` | `NoPhantomPosition`, `UntrackedOnlyAfterRaise`, `FillsNeverShrink` with an outbox and failing calls | one order of three lots (a fill, a finalisation in part and a rest), one off the grid, two submissions: a retry of every outcome |
| `OMS_lifecycle` | `ImplementsLifecycle`, `FillsWithinExecuted` without an outbox, calls failing definitely | the same and an order in shadow mode |
| `Chase_concurrent` | `ResolvedMeansNotLive`, `ImplementsOMS` with an outbox, failing calls and lost answers, a venue that cancels on its own, interleaved submissions | a buy of two lots and a sell of one: remainders above and below the minimum, opposite sides |
| `Chase_live` | `NoWashedOpposite`, `WorkingOrdersResolveUnlessMissed` under the same venue, without an outbox | the same |
| `HA_lock` | `SecondLeaseSlipped`, `OnlyOwnerReleases`, `TakesOver`; commands failing, answers lost, signals, crashes, keys that expire between a GET and its PEXPIRE | three nodes: an old holder, a new one, a bystander; a TTL of two ticks so that it can expire in the middle |
| `Tier_restart` | `ImplementsLadder`, `RestartKeepsTier`, `DefenceSurvivesRestart` | two daemons with a file each, the second's sometimes unreadable; a dwell of two cycles |
| `Tier_shared` | `CalmReachesNormal` | two daemons on one file, the second's saves may fail; a dwell of one |
| `Actor_stream` | `PositionFollowsMessages`, `NoActiveInGlobalHalt`, `CatchesUp` | two symbols, so that a breach of one halts the other; one order of two lots (a part, a rest, a cancel between them), up to four messages in any order and repeated; one safety event, one snapshot per symbol |
| `Heartbeat_ticks` | `EntriesWaitOutDefence`, `OvershootBounded` | two correlated symbols of one class, so that a tick can approve both and each cap and limit is met; one order may be unsettled when a tick begins (`MaxUnsettled`); a risk of four parts (two halvings), caps of 8 and 5; six conditions: calm, the kill switch at the maximal drawdown, one basis point below it with the calibration's flip, the daily limit, a bad week with an event and high volatility, model stress; a dwell of two |
| `Operations` | the units below | |
| - alerts | `AlertMemorySurvives`, `BreachesArePaged` | two daemons on one store; a rule that escalates after five alerts and one that is an emergency at once; a chat and a pager; a cooldown of two ticks; one failing access to the store |
| - audit | `BreaksAreExplained` | five events of two contents, so that two records may be alike; any insert fails; any number of restarts |
| - logins | `ExcessNeedsOverlap` | two threads, one address, two attempts in a window of two ticks, a login takes up to one tick: a full window, one that empties attempt by attempt, a login held up between its count and its append; restarts |
| - configuration | `ConfigIsPersisted` | two threads, two fields, one cookie of one tick: two updates in every order of their steps, each of which may fail, and restarts in between |
| - defence | `FullSizeIsEarned`, `NormalIsCooled`, `CalmHeals` | every combination of breach, stress band and regime at each evaluation; cooldowns of two units and a streak of one, so that each timer can run out, be short of its end or start again; two shots over two prices |
| `Markets` | the units below | |
| - book | `FillsAreTraded`, `BookInOrder` | six orders of one or two lots, one of them through the venue: a sweep over several levels, a slip after each of its matches, a level emptied and filled again |
| - backtest | `FillsAreReachable` | two assets, three bars between them (`MCMaxTimeline`), every bar of four prices whose range is at most two, either engine: gaps over the stop and the target, a trailing stop that has moved, the time stop after two bars |
| - adapter | `OrdersAreAttempts` | an entry and an exit, two retries, three losses: every request of a call may be lost, answered in vain, or carried out late; two grids, one of which rounds below the minimum; a venue that takes an id again or refuses it |
| - recovery | `HeldDisagreementIsCaught` | two assets of half a unit, one lost fill, either naming of positions: each may stand still, move, or be made unlike for good while the other is asked for; a reconciliation and a recovery one at a time, as neither reads what the other writes |
| - staleness | `FreshOnNewsOnly` | six moments, stale after two: ticks late, twice and out of order around a trip and a reset |
| - loops | `PolledCandlesArrive` | four candles, two of which the venue may lack, pages of two, a buffer of two: a page full, half full and without news |
| - fetch | `FetchIsComplete`, in `Markets_types` | the same and two pages: a first page that is the last, a limit that ends the fetch |
| - allocation | `BatchFitsAndIsMaximal` | batches of three of four offers on three assets, two positions, over every equity and set of positions: of three small offers the positions turn one away, of the large one and another the exposure, and at the lower equity the large one by itself is too large |
| - splits | `TrainPrecedesTest` | histories without, with one and with two holes; blocks shorter and longer than the purge and the embargo |
| - learning | `LossNeedsTear` | two writers, a good trade of each or the same one, two crashes, a rotation and a compaction: each may fall between any two steps of the other; appends torn by a crash or read half written, and repairs while the other writes |
| - promotion | `LiveWasEarned` | four records of two dates, two days asked for and a window of three: records of one day and of several, of which three fail by their total or only by their row; one restart |

Type invariants: `Operations_types` and `Markets_types` check those of their units under the
constants of the passing runs (with `FetchIsComplete`: a fetch that ends without its
page limit stored each candle between the first asked for and the last). `Actor_final` adds `FinalMeansClosing`
and `BreachHalts` to `TypeOK`. The other
components' type invariants are theorems (section 6).

Each property of a passing run has a mutant: a definition of the model changed in the way of a
plausible bug, for which TLC finds the property violated under the same
configuration. The mutated forms stand before the definitions they replace and are
used nowhere else.

Deadlock is not checked for the OMS, the chaser and the actors, nor for the units of `Operations` and `Markets`: when
the orders, the events, the days or the candles of the run are over, nothing
needs to happen. The other components run for ever.

Fairness: `CFairSpec` - scans are called again and again and go on after each await, time passes, a
cancellation of the wash-trade loop is answered, the feed delivers, and a bucket that refills does
not deny the same order for ever (strong fairness of `ChaseCancels`). Nothing is asked of the
venue: it may cancel an order or not. `HALock!FairSpec` - time
passes, a supervisor restarts a dead process, a standby keeps calling
`acquire_lock`, and a command is answered. `SurvivalTier!FairSpec` - the heartbeat loop evaluates each interval, a save
returns, a supervisor restarts. `ActorEngine!FairSpec` - the loop of `on_exchange_message`
goes on, and the network delivers the oldest message under way in the end.
`StrategyDefense!FairSpec` - the posture is evaluated again and again, also where that changes
nothing (`fresh` records it), and time passes.
`MCOperations!MCFairness` - time passes and a supervisor starts daemons again (weak fairness); metrics are
evaluated again and again and posting does not fail for ever, although crashes and the other daemon's evaluations come between
(strong fairness, by rule, of evaluating, counting and posting); the defence as above.
`Heartbeat!FairSpec` (used for `LossPauseEnds`) - ticks, hours and prices come, orders are settled in the end.

## 5. Divergences

A run that TLC must find violated, against a statement of the repository:

| Configuration | Property | The code | What the repository says |
|---|---|---|---|
| `OMS_timeout` | `NoUntrackedVenueOrder` | any exception of `create_order` rejects the order (`oms.py:254`) | "Rate-limit and transient-network failures do NOT imply a terminal order state" (`live_adapter.py:79`) |

Other differences met while modelling. Each property below ends in a
counterexample: put it in the place of the `INVARIANTS` and `PROPERTIES` lines of the configuration named
(an action or temporal property under `PROPERTIES`), with the specification and the constants given.

| Property | Configuration, and what to change in it | The code | What the repository says |
|---|---|---|---|
| `ResubmissionNeverRaises` | `OMS_timeout`: `CallsMayFail = FALSE`, `MaxSubmits = 2` | a retry replays ACKED through the table and raises once the order has moved on | "returns ACKED (or existing state) without exception" (`tests/trading/execution/test_execution.py:62`) |
| `FilledOnlyWhenExecuted` | `OMS_timeout`: `CallsMayFail = FALSE`, `MaxSubmits = 2` | an order found canceled at the venue counts as filled in full (`oms.py:241`) | "... never FILLED" (`oms.py:11`) |
| `RecordedOrderTakesFills` | `OMS_timeout`: `CallsMayFail = FALSE` | fills are refused until the first transition (`oms.py:278`) | "Record the order's OWN identity/side before anything else" (`oms.py:173`) |
| `LateFillUpdatesPosition` | `Chase_live`: `CSpec` | a fill after the finalisation is refused | "... updates the portfolio position size" (`chase.py:10`) |
| `NoSimultaneousOpposite` | `Chase_live`: `CSpec` | two interleaved submissions pass the check | "preventing simultaneous resting buy and sell limit orders" (`chase.py:15`) |
| `ReversedOrderClosed` | `Chase_live`: `CSpec` | the OMS does not transition the order it cancels | "explicitly cancels and finalizes" (`chase.py:16`) |
| `WorkingOrdersResolve` | `Chase_live` | a cancel that raises ends each scan at the same order (`chase.py:180`) | "handles stale orders" (`chase.py:82`) |
| `AtMostOneLeased`, `LeaseHolderOwnsKey` | `HA_lock`: `Spec`, `Node <- MCTwoNodes` | GET and PEXPIRE are two commands: a late PEXPIRE extends another's key and the node goes on as primary (`ha_lock.py:248`) | "true cross-process mutual exclusion" (`ha_lock.py:5`) |
| `AtMostOnePrimary` | `HA_lock`: `Spec`, `Node <- MCTwoNodes` | `is_active` outlives the lease | "true cross-process mutual exclusion" |
| `OnlyOwnerDrawsTokens` | `HA_lock`: `Spec`, `Node <- MCTwoNodes` | tokens are drawn whenever, not with the lock (`ha_lock.py:293`) | "safe ordering signal for downstream resource guards" (`ha_lock.py:8`) |
| `StoppedNotPrimary` | `HA_lock`: `Spec`, `Node <- MCTwoNodes` | an interrupted `acquire_lock` sets `is_active` after the handler cleared it | "Cleanly releases primary node lock upon graceful shutdown." (`ha_lock.py:377`) |
| `RestartKeepsTier` | `Tier_restart`: `SaveMayFail <- MCEth`, `Unreadable = {}` | a failed save is only logged | "a storage outage therefore cannot lose a tier transition" (`tier_state.py:277`) |
| `RebuildKeepsDefence` | `Tier_restart`: `SaveMayFail <- MCEth`, `Unreadable = {}` | the file replaces a more defensive cache (`tier_state.py:330`) | "merges cached + persisted state keeping the MORE defensive tier" (`tier_state.py:26`) |
| `DefenceSurvivesRestart` | `Tier_shared`: `Spec`, `MinDwell = 2`, `SaveMayFail = {}` | the path does not depend on the scope (`tier_state.py:286`) | "a distinct scope namespaces this daemon's tier state" (`heartbeat.py:70`) |
| `CaughtUpAgrees` | `Actor_stream`: `Spec`, `Symbol <- MCOneSymbol` | the snapshot adopted holds a fill whose message is applied afterwards, so it counts twice (`oms_engine.py:294`) | "local now matches exchange exactly" (`tests/synthetic/test_oms_engine.py:518`) |
| `TerminalStatesAreFinal` | `Chase_live`: `CSpec`, `HasOutbox = TRUE` | with an outbox, a finalisation writes the state it read before its await over a terminal one (`oms.py:403`) | "States from which no legal exit exists." (`state_machine.py:138`) |
| `GlobalHaltCancelsResting` | `Actor_stream`: `Spec`, `Symbol <- MCOneSymbol`, `RiskLimit = 1` | a halt cancels ACTIVE orders; one filled in part is PARTIALLY_FILLED and goes on resting (`portfolio_governor.py:98`) | "cancels its resting orders" (`portfolio_governor.py:90`) |
| `HeatWithinCap` | `Heartbeat_ticks` | the symbols of a tick are judged one by one against the account as it was before the tick (`heartbeat.py:223`) | "portfolio heat ... would exceed cap" (`engine.py:192`) |
| `CautionHalvesRisk` | `Heartbeat_ticks` | nothing reads `effective_risk_multiplier`: an order in CAUTION carries the full risk (`heartbeat.py:223`) | "The survival tier multiplier is enforced separately by the survival gate upstream" (`heartbeat.py:205`) |
| `LossPauseEnds` | `Heartbeat_ticks`: `FairSpec`, `Symbol <- MCOneSymbol`, `Class <- MCOneClass`, `Conditions <- MCCalm` | the tier is SURVIVAL for as long as the streak stands, whatever its age (`survival.py:292`); only a profitable close ends it, and no position opens | "cooldown expired", then approved (`tests/test_risk_engine.py:158`) |
| `RecoversFromCalm` | `Operations` | a drawdown met while HALTED leaves the calm streak running (`strategy_defense.py:370`) | "Market verified calm" (`strategy_defense.py:409`) |
| `NoOrphanedExit` | `Operations` | a second exit takes the place of one still active, which nothing kills any more (`strategy_defense.py:213`) | "Instantly kills passive exit" (`strategy_defense.py:246`) |
| `LoginsWithinWindow` | `Operations` | the count and the append are two steps of a route in a thread pool, without a lock, and a restart empties the bucket (`auth.py:245`) | "when more than ``max_attempts`` attempts arrive within ``window_seconds`` the caller must answer 429" (`auth.py:223-225`) |
| `SettledConfigIsPersisted` | `Operations` | two updates interleave between the dictionary and the file, and a failed write leaves the dictionary updated (`app.py:314`) | "persist _config_state to a JSON file so PUT/DELETE survive restart" (`app.py:296`) |
| `OnlyStopEnds` | `Markets` | after 1024 failures in a row `2**attempt` no longer fits a float: `compute_backoff` raises inside the handler and the loop ends (`websocket_feed.py:43`; the bound is 1 in the run) | "Returns only when ``stop_event`` is set or the task is cancelled." (`websocket_feed.py:93`) |
| `OnlyClosedCandles` | `Markets` | a poll that returns one candle passes it on, forming or not (`websocket_feed.py:171`) | "last candle may still be forming, so re-fetch it next round" (`websocket_feed.py:168`) |
| `StoredCandlesClose` | `Markets` | `ON CONFLICT ... DO NOTHING`: a candle stored while forming stays as it was (`pipeline.py:87`) | - (no statement; the backtests read the table) |
| `PagesProgress` | `Markets`: `PageLimit = 1` | the cursor becomes the last candle received, which a page of one receives again, for ever without `max_pages` | "advance cursor past it to guarantee progress" (`pipeline.py:193`) |
| `RejectedMeansNoOrder` | `Markets` | a request whose answer was lost has made the order; the retry is refused as a duplicate, and that is what the caller hears | "Rate-limit and transient-network failures do NOT imply a terminal order state" (`live_adapter.py:79`) |
| `NothingSentWhenKilled` | `Markets` | the kill switch is read once, before the awaits and retries | "a tripped kill-switch blocks submission" (`live_adapter.py:12`) |
| `RetriesNeverDouble` | `Markets` | the retries rely on a venue that refuses every client order id it has seen; one that takes an id again makes two orders of one submission | - (an assumption about the venue) |
| `StillDisagreementIsCaught` | `Markets` | the live adapter's positions carry `asset` and `size`, not `symbol` and `qty`: the reconciler sees an empty venue (`live_adapter.py:491`) | "Monitors alignment between venue exchange state and local OMS database." (`reconciler.py:32`) |
| `FullDiscrepancyFlattens` | `Markets` | the discrepancy is compared with half of the largest position, but at least with half a unit: a smaller position never flattens (`state_recovery.py:89`) | "A 100% position discrepancy on THE one held asset triggers flatten just as reliably" (`state_recovery.py:87`) |
| `ExitsCloseSomething` | `Markets`: `Held = {"a1"}`, `MaxHeld = 3`, `Unit = 4` | an exit is minted for each mismatch, also for a position that only the local side has | - (there is nothing to close) |
| `ManualTripHolds` | `Markets` | the next new tick closes a breaker tripped by hand | "Manually trips circuit breaker for symbol." (`staleness.py:136`) |
| `ReportsAllFills` | `Markets` | the fills of a resting order, and those before a slip, never reach the venue's report of it | - (a venue's report is of all its fills) |
| `PortfolioFillsAreReachable` | `Markets` | the portfolio engine fills a stop that was gapped through at the stop (`portfolio.py:110`) | "run_backtest / run_portfolio_backtest use `_check_exit_with_open`, which adds the gap-open-through-stop rule" (`engine.py:129`) |
| `GateSeesMarkedDrawdown` | `Markets`: `Reach = 2`, `MaxDrawdown = 1` | the drawdown gate reads settled equity, the report the marked curve | "drawdown gates, circuit breakers, and reporting can never disagree by reading different series" (`equity.py:5`) |
| `GrantsFitTogether` | `Markets` | only open positions count: two batches before a fill exceed the cap | - (a cap on the total exposure) |
| `SingleAssetBounded` | `Markets` | the limit is compared with each order by itself | `max_single_asset_pct`, by its name (`capital_allocator.py:48`) |
| `ToldIsCurrent` | `Markets` | without a peak the answer is normal, and the tier of an earlier evaluation still refuses entries (`portfolio_circuit_breaker.py:74`) | - (two answers of one object) |
| `EmbargoIsDropped` | `Markets` | a block of the minimal length keeps its first samples | "the first ``embargo_days`` samples of each test block are dropped" (`cross_validation.py:50`) |
| `FoldsAlign` | `Markets` | slices are proportional to each asset's own length: with holes they are different times (`validator.py:67`) | - (a fold is one window of time) |
| `WholeWindowIsEnough` | `Markets` | half the TRAIN window, and at least 25 bars, are needed of a validation slice (`validator.py:144`) | - (the validation window is configurable) |
| `FlushedIsLoaded` | `Markets` | loading reads the live file only, and a compaction writes the compacting process's graph into it: what other writers appended is in the archive and not loaded | "dedupes edges by ``(src, dst, context)`` keeping the *latest* weight/count" (`graph.py:19`) |
| `FlushedIsKept` | `Markets` | an opening that finds a torn line, or an append half written, replaces the file with what it read while others write (`graph.py:432`); a line that a crash left without its newline takes the next record with it | "concurrent writers (heartbeat daemon + backtest) serialise instead of clobbering each other's appends" (`graph.py:12`) |
| `JudgedDaysDiffer` | `Markets` | the dates are counted over the campaign, the verdict looks at its last records, which may be of one day (`generate_gate1_report.py`) | - (the report's window is in days) |
| `VerdictIsCurrent` | `Markets` | the gate is a flag the operator passes on: the campaign may have gone bad, or been forgotten at a restart, since (`promote_mode.py:54`) | "A caller must pass each gate as explicitly proven by its tool" (`promote_mode.py:55`) |
| `HardStopSticks` | `Markets`: `Days <- MCSmallLosses` | each day is judged against the expectation over all days so far, and a longer campaign clears an old breach | - (a hard stop) |
| `ShadowIsReconciled` | `Markets` | the reconciliation report counts no mismatch of any kind | "A caller must pass each gate as explicitly proven by its tool" (`promote_mode.py:55`) |

Read in the code and not modelled as properties:

* Without a `state_path` nothing is persisted, whatever `REDIS_URL` is (`survival.py:198` against its docstring
  at 174). The hand-off document gives two limits another value than the code does
  (`SYSTEM_STATE_AND_HANDOFF.md:117`, a heat cap of 3.0%, and `:146`, three losses; `risk/models.py` has 4% and
  4): they are constants of the models.
* The kill switch stops exits too (`live_adapter.py:345`), and an exit is always a "market sell"; a synchronous
  client of the library fails in `wait_for`; the instruments loaded once are never refreshed.
* An alert raised to a higher severity is suppressed by the severity of its rule (`alert_manager.py:523` says otherwise).
* Logging out everywhere only revokes the caller's cookie; its route and the configuration's reset ask for a
  role that no code signs.
* The report of the synthetic venue calls an exit filled whatever was traded, overwrites the position rather
  than adding to it, and keeps filled orders as open; the injector can cross the book.
* A backtest ignores the volume of a bar; `run_portfolio_backtest` does not use the purge and the embargo that the
  walk-forward passes; `slice_for_purge_embargo` has no caller; the train slice of a fold is not used; a step
  of no days never ends; the embargo counts bars, not days.
* Recovery fetches open orders and does not use them; the quarantine only grows and `has_quarantine` has no reader.
* The allocator's default `now_ts` switches recency off; `flatten_timeout_sec` is used nowhere; missing marks hide losses.
* The OHLCV upsert's row count is that of a call that returns none; a hole that begins in a maintenance window is
  not reported, however long; the watch loop asks for nothing it missed.
* `generate_gate1_report.py` as a command always judges an empty store; a preflight's verdict does not name the mode it was
  made for.

## 6. Proofs

TLC checks small instances; the theorems hold for all values of the constants, under the
`ASSUME`s of the modules (each is evaluated by TLC for the instances) and the hypotheses
named here. The `ASSUME`s are about types and signs, with these exceptions: sets that the code sums
over are finite (the symbols of `RiskGate`, the offers of `Allocation`, the trades of `LearningGraph`);
the dates of a history ascend (`Splits`); the open and the close of a bar lie between its low and its high
(`Backtest`); a campaign asks for at least one day (`Promotion`); markers such as `NoOne` or `Torn` are
not among the values they stand beside.

* `OMS_proofs`, the OMS: `TypeCorrect`; `PositionsAreExecuted` (`NoPhantomPosition`): what
  was booked, is being booked or is still to be reported is within what was executed. It is
  inductive together with the types, because only `VenueExecutes` adds to the right
  side and it adds the same to `inflight`, and every other action moves lots from
  `inflight` to `applying` to `moved` or drops them. `FillsOnlyGrow` (`FillsNeverShrink`): one step
  lemma over the actions. Without an outbox: `FollowsLifecycle` - every action implements
  `OrderLifecycle` - `TerminalIsFinal`, and `FillsAreExecuted` (`FillsWithinExecuted`); with one the
  last two are false, as the row of `TerminalStatesAreFinal` above shows. The invariant needed is that a
  coroutine never holds a state across an await. `UntrackedOrdersRaised` (`UntrackedOnlyAfterRaise`) has no hypothesis: the invariant
  says for each await of `submit_order` what the OMS has on record when the venue has the order, and that only the paths
  that raise leave it unknown or REJECTED. It is about an order submitted once: a second submission may find
  the order, fail to replay its state and return.
* `OMS_proofs`, the chaser: `ChaserTypeCorrect`; `ChaserImplementsOMS` (`ImplementsOMS`), action by
  action; `ResolvedIsNotLive` (`ResolvedMeansNotLive`), with the invariant that an answer under way is of an order the venue
  has closed; `WashedOppositesAreGone` (`NoWashedOpposite`): an order is only sent once each
  working order of the other side that its check found is one the venue has cancelled, and none opens again.
* `Operations_proofs`, the lock: `TypeCorrect`; `LeaseIsOwnership` and `LeasesAreExclusive` (`SecondLeaseSlipped`), without assumptions
  about time; `ReleasesOnlyItsOwn`. The inductive invariant of `LeaseOwnedOrSlipped` says of
  each node not shutting down and not `slipped` that its lease is never longer than the key's remaining
  life and that it owns the key while it has a lease. A node shutting down may
  still send the PEXPIRE that a signal interrupted, which only lengthens the life of
  a key. When two nodes are within a lease, one of them does not own the key, so it has slipped.
* `SurvivalTier_proofs`: `TypeCorrect`; when each engine has a file of its own and saves do not fail
  (`OwnFiles`, `SaveMayFail = {}`), `RestartsKeepTheTier` (`RestartKeepsTier`), `RestartsKeepTheDefence`
  (`DefenceSurvivesRestart`) and `DiskImplementsLadder` (`ImplementsLadder`): what is in the file steps
  as the ladder does, or stutters. The invariant says for each point of `save_state` what the cache, the
  file and the temporary hold. Without the hypotheses they are false: section 5 says how.
* `ActorEngine_proofs`: `TypeCorrect`; `PositionIsTheStreams` (`PositionFollowsMessages`), with
  the invariant that a message carries the position before it plus its own fill and that
  the buffered numbers were sent, so that applying the next one adds what the
  exchange added; `HaltStopsOrders` (`NoActiveInGlobalHalt`), with the invariant that in
  a global halt every actor is halted, which is why a queued entry is refused;
  `FinalOrdersClose` (`FinalMeansClosing`), with the invariant that the fills sent of an order add up to
  what was executed of it and those applied to what the actor holds filled, that an order which the stream
  confirms cancelled or rejected is closed, and that an order is queued for entry once. The sums are given by a
  witness, a function with the sum up to each message, as the provers cannot unfold a recursion over the stream.
  `BreachesHalt` (`BreachHalts`), for a finite set of symbols, as the governor sums over them.
* `Heartbeat_proofs`: `TypeCorrect`; `DefenceIsWaitedOut` (`EntriesWaitOutDefence`), for every
  dwell, number of symbols and set of conditions, with the invariant that `calm` has
  reached the dwell unless the tier is at least SURVIVAL, that in SURVIVAL
  `below` counts no further than `calm`, and that nothing is approved above CAUTION;
  `OvershootIsBounded` (`OvershootBounded`), for any number of
  symbols, any risk and heat limits and any orders left unsettled: each approved order is counted as if filled (`HeatInv`), an
  approval adds the risk of one order to a sum that was below the limit but for what was unsettled when the tick began, and a fill moves
  risk from one side to the other. It rests on what a sum over a finite function becomes when one value changes.
* `Strategy_proofs`, the strategy defence: `TypeCorrect`, `ArmedOnlyRecovering`, `RecoveryIsServed` (`FullSizeIsEarned`) and
  `SevereIsCooled` (`NormalIsCooled`), for any cooldowns. The invariant gives for each posture
  the least time since the halt that led to it (`Served`: in HALTED the cooldown and the streak so far, in
  RECOVERING both and the probation so far, in CAUTION and DEFENSIVE the probation and
  `elevatedAge`) and says that the cooldown of an elevated posture is no older than the last
  severe reading (`Cooling`).
* `Operations_proofs`, the others: `EveryBreakIsExplained` (`BreaksAreExplained`: each row that the verification would reject
  has a failed insert or a restart before it); `AlertsRemember` (`AlertMemorySurvives`);
  `SessionsTypeCorrect` and `ConfigSurvivesRestart` (`ConfigIsPersisted`), with the invariant that the threads past the change of the
  dictionary are at most one unless `mixed`, and that this one holds, or the file does, what the dictionary has;
  `FreshMeansNews` and `SentinelTypeCorrect` (the sentinel answers `fresh` only on news it received
  recently, since the last trip);
  `ReconciliationIsRight` (`HeldDisagreementIsCaught`), for either naming of positions, and `RecoveryTypeCorrect`.
* `Strategy_proofs`, the others:
  `ValidationIsCausal` (`TrainPrecedesTest`), for any history, purge, embargo and window;
  `LossesAreTears` (`LossNeedsTear`) and `GraphTypeCorrect`, for any writers and crashes: the invariant accounts, at each of a writer's
  steps and until an append is torn, for every flushed record in the live file, in an archive or in the writer's memory;
  `AllocatorIsGreedy` (`BatchFitsAndIsMaximal`) and `AllocationTypeCorrect`, for any finite batch, by the fold's
  invariant that what was granted fits and what was refused would not have;
  `LiveTradingIsEarned` (`LiveWasEarned`) and `PromotionTypeCorrect`, for any dates of the records: a pass counts the
  dates of the campaign, and its streak and total are those of the window it judged.
* `Markets_proofs`:
  `OrdersAreCounted` (`OrdersAreAttempts`), whether or not the venue takes an id again: each order, made or still under way,
  is an attempt given up or the one answered;
  `BacktestIsPessimistic` (`FillsAreReachable`) and `BacktestTypeCorrect`, for any bars and fees;
  `CandlesArrive` (`PolledCandlesArrive`) and `FeedsTypeCorrect`: the cursor never passes a candle that is neither in the buffer
  nor skipped by the venue, and what the buffer lost is at most what it shed;
  `BookFillsAreTraded` (`FillsAreTraded`), `BookStaysInOrder` (`BookInOrder`) and `BookTypeCorrect`, for any prices, sizes and
  number of orders, if no strategy order bears the name of an agent. The invariant of the matching loop (`Matched`) is
  that what is left of the side is a suffix of it in its own order, that every remaining order and the taker have
  filled what the trades so far say of them, and that a maker that traded is gone unless the taker is done, so that
  no trade is counted twice; the one of the book (`BookInv`) that each side is backed by the tape and, until the injector
  writes into it, no two orders of it could trade; the one of the venue (`VenueInv`) that a resting order of the
  strategy is the one the venue numbered. `SortedArranges` shows that the sort puts a side in priority order and adds nothing to it.
* `FiniteFolds`: induction over finite sets with a set of subsets in place of a predicate (the provers instantiate no
  predicate parameter: the least counterexample under strict inclusion stands for it), the existence and uniqueness
  of a function that takes a chosen element off each set, and from these what `SumFunctionOnSet` and `FoldLeft` compute
  when an element joins, leaves or changes. They are used by
  `ActorEngine_proofs`, `Heartbeat_proofs`, `Strategy_proofs` and `Markets_proofs`.

`TypeCorrect` and its kin, `TerminalIsFinal`, `LeaseIsOwnership`, `ArmedOnlyRecovering`,
`FinalOrdersClose` and `BreachesHalt` state properties that the runs do not check one by one, or no
longer, because these theorems say more.

Only model-checked: the liveness properties (`WorkingOrdersResolveUnlessMissed`, `TakesOver`,
`CalmReachesNormal`, `CatchesUp`, `BreachesArePaged`, `CalmHeals`), since the prover does not do fairness; and
`ExcessNeedsOverlap`, whose invariant would have to order the steps of every login that shares a window.
Every other invariant and action property of a passing run is the statement of a theorem.

## 7. Plan

Done: the order path (`OMS`, `OrderChase`), `HALock`, `SurvivalTier`, `ActorEngine`, `Heartbeat`,
`StrategyDefense`; operations (`Alerting`, `AuditLedger`, `ApiSessions`); the venue and the data (`LiveAdapter`,
`Recovery`, `Staleness`, `Feeds`); research (`SyntheticBook`, `Backtest`, `Allocation`, `Splits`,
`LearningGraph`, `Promotion`).

Proved: every invariant and action property of a passing run but `ExcessNeedsOverlap` (section 6).

Not modelled, and why: the market engines, stale-quote protection and event ingestion classify the arguments of one call
over floats, and nothing under `src/trading` keeps their results; the learning policy, the indicators and strategies, the regime
estimation and the statistics (GARCH, HMM, EVT, copulas, Sharpe ratios) are floating-point functions, inputs of the models that use
their answers; the trade journal and the database are SQL around an upsert; health checks, drills, logging
and metrics are I/O about components that are modelled; the exchange's data client is calls of a library.
