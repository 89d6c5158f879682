# A verification of OpenAlgo

OpenAlgo is a trading platform in Python (Flask): clients send orders through one REST
API, and the platform forwards them to a broker or, in *analyze mode*, executes them
itself in a **sandbox** with virtual money. This project specifies in TLA+ the parts of
the repository that keep state of their own and run several threads, processes or
connections over it, checks the specifications on small instances with TLC and proves
their main results with TLAPS:

* the **sandbox**: orders, executions, positions and money within a day
  (`SandboxTrading`, `ExecutionRace`) and from day to day (`SandboxOvernight`), and the
  life of its two **execution engines** (`EngineLifecycle`);
* the **action center**, where orders of the semi-automatic mode wait for the user's
  approval before they go to the broker (`ActionCenter`);
* the **WebSocket proxy** and its pool of connections to the broker, which share market
  data between clients (`WsProxy`, `ConnectionPool`);
* the host of the users' **Python strategies**, which starts, stops, schedules and
  restores their processes (`StrategyHost`).

Sections: 1 inventory, 2 plan, 3 modules, 4 runs, 5 what the code does not keep,
6 fairness, 7 proofs, 8 limits of the models, 9 not modelled.

## 1. Inventory

| component | state | operations | interacts with |
|---|---|---|---|
| order manager `sandbox/order_manager.py` | order rows | place, modify, cancel | fund manager (margin), engine (immediate execution), WebSocket engine (notification) |
| execution engine `sandbox/execution_engine.py` | trades, order status, position rows | scan of the open orders, process one order, net a fill | fund manager, quotes |
| fund manager `sandbox/fund_manager.py` | one account per user, a lock for all | initialise, block, release, reconcile, reset, transfers to and from holdings | called by all others |
| position manager `sandbox/position_manager.py` | position rows | close a position, mark to market, settle expired contracts, session boundary | order manager |
| holdings manager `sandbox/holdings_manager.py` | holdings | T+1 settlement | positions, funds |
| square-off manager and scheduler `sandbox/squareoff_manager.py`, `squareoff_thread.py` | none of their own; jobs | cancel open MIS orders, close MIS positions, T+1, daily reset | order and position manager |
| catch-up processor `sandbox/catch_up_processor.py` | - | settle at login what a stopped process missed | positions, funds, holdings |
| WebSocket engine `sandbox/websocket_execution_engine.py` | index of open orders, reference counts of symbols | rebuild, notify, tick, health check, fallback | market data, execution engine |
| engine lifecycle `sandbox/execution_thread.py`, `services/analyzer_service.py` | which engine runs, threads, a lock | start, stop, upgrade watcher, mode toggle | both engines |
| action center `database/action_center_db.py`, `services/pending_order_execution_service.py` | pending orders | queue, approve, reject, delete, send | broker services |
| WebSocket proxy `websocket_proxy/server.py` | clients, their subscriptions, an index of them by symbol, adapters by user | authenticate, subscribe, unsubscribe, leave, invalidate the caches | pool, ZeroMQ |
| connection pool `websocket_proxy/connection_manager.py` | connections, symbols counted on each, the connection of each subscription | open, subscribe, unsubscribe, close | broker adapters |
| Python strategies `blueprints/python_strategy.py` | processes, a configuration file, jobs | start, stop, delete, scheduled start and stop, trading-day enforcer, clean-up, restore, exit | operating system, scheduler, market calendar, contract download |
| event bus `utils/event_bus.py` | subscribers by topic, a thread pool | subscribe, publish | log and socket subscribers |
| market data cache `services/market_data_service.py` | latest quotes, subscribers | subscribe, update, fan out | WebSocket engine |
| flows `services/flow_*` | workflows, alerts, schedules | trigger, execute | order services |

The other parts (order services for live trading, broker plugins, REST API, historify,
telegram, authentication, symbol and calendar tables, user interfaces, logs) are listed
in section 9, and with the others in `PROJECT.json`.

What is hard here:

* **threads over one database.** Request threads, the polling engine, the WebSocket
  engine's market data thread and the scheduler's jobs read rows, call each other and
  commit several times within one handler. Only the fund manager has a lock, and one of
  its functions does not take it.
* **check, then act.** The duplicate check before an execution, the status check before
  a cancellation, an approval or a deletion, and the position read before netting are
  all separated from their commits.
* **sequences.** Margin is stored in three places (account, order, position). A position
  may have changed between the moment an order is placed, with margin for the exposure
  it adds *then*, and the moment it fills.
* **the end of the day, and the night.** The square-off job must flatten intraday
  positions while users and engines go on; settlement and reset run at midnight, at the
  session boundary and again in the catch-up of each login.
* **failure and restart** between commits, between the start of a process and the saving
  of its id, and in an index or a table that must be rebuilt.
* **what was approved.** An order is approved in one commit and sent later; a second
  approval, a rejection, a deletion, a reused row id or a restart may come in between.
* **lifecycle.** Starting, stopping, upgrading and falling back between engines that must
  not run together, with joins that time out and a lock held across them.
* **sharing.** Clients of the proxy share subscriptions, subscriptions share connections,
  calls to the broker fail half way through an exchange of modes, and the adapter answers
  before it sends: requests for one symbol may overtake each other.

Which threads there are depends on how the server runs. `extensions.py:8` has
`async_mode="threading"`: started by `app.py`, each request has an OS thread, and so do
the engines. Under gunicorn with eventlet (`start.sh`) requests, jobs and the polling
engine are green threads that give way at network calls, sleeps and locks, while the
market data client runs in a real thread (`services/websocket_client.py:22`). The models
follow the first; the second has a subset of its interleavings. The proxy is one asyncio
loop in both.

What makes each part correct:

* trading: money is conserved; positions and profit are those of the trades; an order is
  decided once and trades once, within its limit; no trade is netted twice; no margin
  stays behind that no position and no resting order accounts for; an open order is
  always watched; MIS positions end flat;
* overnight: settlement moves every share and every rupee once, and today's profit is
  not thrown away;
* engines: one at a time, none after a stop, and the upgrade and the fallback happen;
* action center: a pending order is sent once and not deleted undecided, unless two
  requests have it in hand at once;
* proxy and pool: what a client was promised waits for the broker or was sent to it, in
  the highest mode asked for, until its last user leaves; no slot is lost or given twice,
  a symbol is not moved;
* strategies: one process each, which the stored id names, unless a restore or the index
  page loses a living one; a crash of what the application started is noticed, a closed
  day is quiet, an exit ends.

## 2. Plan

| | modules | |
|---|---|---|
| 1 | `SandboxMoney`, `SandboxNetting` (pure operators), `SandboxTrading` with the abstract `OrderBook`; proofs | done |
| 2 | `ExecutionRace`: the same handlers taken apart at their commits; proofs of what holds for any threads, and of one trade and conserved money under hypotheses | done |
| 3 | `ActionCenter`: the requests taken apart at their reads, commits and broker calls; proofs for any number of request threads | done |
| 4 | `SandboxOvernight`: settlement, sale proceeds, catch-up, daily reset, over `SandboxNetting`; proofs that no share and no money is lost | done; expiry of contracts is left |
| 5 | `EngineLifecycle`: start, stop, upgrade watcher, monitor, fallback; liveness; proofs of one engine and one fallback | done |
| 6 | `ConnectionPool` with the abstract `Placement`, over an adapter that queues, and `WsProxy` over it; proofs, of service and leaks too | done |
| 7 | `StrategyHost`: processes, restarts, downloads, schedules; proof of one process | done |
| 8 | the WebSocket engine's reference counts, the market data cache, triggers of flows | left |

## 3. Modules

| module | models |
|---|---|
| `SandboxMoney` | the account and the four things done to it: `Block`, `Release`, `Reconcile`, `FreshAccount`; `MarginRequired`, `NeedsMargin` |
| `SandboxNetting` | when and at which price an order executes; the margin an order blocks given the position (`MarginToBlock`), what a cancellation returns (`CancelledMargin`); the netting of a fill (`Opened`, `Increased`, `Reduced`, `Reversed`) |
| `SandboxTrading` | one user, one symbol, one day. Variables `orders`, `pos` (a row per product), `funds`, `holdings`, `session`, `sweep`. Actions: place (`PlaceMarket`, `PlaceUnquoted`, `PlacePending`, `PlaceExecutable`), `ModifyOrder`, `CancelOrder`, `ProcessOrder` (either engine), `ClosePosition`, `ResetFunds`, `Cutoff`, and the square-off job in its steps `SweepStart`, `SweepCancel`, `SweepClose` |
| `OrderBook` | abstract: an order is submitted, executes once or is cancelled or is rejected, and then never changes |
| `ExecutionRace` | threads (`Server`, `Poller`, `Ticker`) whose handlers are split at every commit and at the lock: `Place` - `Lock` - `BlockMargin` - `Insert` - `Check` - `Trade` - `ReadRow` - `Lock` - `FreeMargin` - `WriteRow` - `SumMargin` - `ReadFunds` - `Adjust` - `Close`, and `Cancel` - `Lock` - `ReturnMargin`; `Restart` anywhere. A commit writes the columns the thread changed (`Merge`), as the ORM does |
| `SandboxOvernight` | one user, one share, several days. `Trade` (a market order placed and filled), `Midnight`, `SettlementJob`, `SessionBoundary`, and the catch-up of a login in its stages `Login` - `CatchUpMis` - `CatchUpSettlement` - `CatchUpReset`; a settlement may fail (`SettleUnpaid`) or be cut between its commits (`Crash`). `early` is what the code compares `created_at` for, `touched` what it compares `updated_at` for |
| `EngineLifecycle` | threads that switch the mode (`Switch`, then `Start`, or `Stop` - `StopEngines` - `StopEnd`), the polling thread, the upgrade watchers (`Wake` - `Upgrade` - `UpgradeEnd`), the WebSocket engine's monitor (`StartFallback`, `StopFallback` - `FallbackJoined`) and fallback threads. `lock` is `_thread_lock`, held across joins that may time out (`Joined`); forgotten threads are counted (`left`, `orphans`) |
| `ActionCenter` | the pending orders' table and what each request thread has read of it; every thread approves, rejects and deletes. `Queue`; the reads `AskApprove`, `AskApproveAll`, `AskReject`, `AskDelete`; what follows them later: `TakeNext` (approve-all's loop), `Approve` - `Reload` - `Send` - `Record`, `Reject`, `Delete`; `Restart` anywhere. Row ids are those of SQLite: one more than the largest in the table. `raced` is a history variable: the orders two approvals had in hand at once, and those queued under an id a request had in hand |
| `Placement` | abstract: symbols are put on connections within limits, and stay where they are until they are given up |
| `ConnectionPool` | `conns`, `counts`, `tracked` (the connection of each symbol and mode). A subscription is covered by a higher mode, upgrades the symbol, or is new; an unsubscription ends the last, the highest (with a downgrade that may fail, and the rollback after it) or a lower mode. The adapter is Zerodha's. It accepts a request by queueing it (`Queued`); batches go out later, by mode, and may be overtaken (`Send`); an end is sent at once and leaves the queue alone (`Released`); the socket opens late, is lost and reopens (`Link`), and without it requests are thrown away (`GiveUp`). `fed` is the mode a symbol was last sent in; `hasty`, a history, names the symbols whose requests were overtaken or dropped |
| `WsProxy` | `EXTENDS ConnectionPool`: clients connect, authenticate, subscribe, unsubscribe, leave; the loops over a client's subscriptions are steps (`ClearOne`, `EndClear`) with no other client in between, as the handler awaits nothing, but with the adapter's threads (`AdapterStep`); `Relogin` is the invalidation of the caches |
| `StrategyHost` | one strategy. `config` is its part of `strategy_configs.json`, which outlives the application; `entry` its place in `RUNNING_STRATEGIES`, which does not; `proc` the machine's processes. Threads: requests (`Web`), the scheduled jobs (`cron`, `enforcer`), those after a download of contracts (`Login`), the one that starts and ends the application (`main`). The restore runs on `main` and after each download (`Initialize`, `AfterDownload`): without contracts it marks what ran to wait (`Wait`), with them it adopts or restarts it (`Adopt`, `Restart`). Calls that hold `PROCESS_LOCK` are one step; what a thread checked before the call is a step of its own (`Index` - `Clear` for the index page, which takes no lock). `lost` is a history: a living process was forgotten |
| `MCSandboxTrading`, `MCExecutionRace`, `MCSandboxOvernight`, `MCEngineLifecycle`, `MCActionCenter`, `MCWsProxy`, `MCStrategyHost` | constants and symmetry for TLC |
| `SandboxMoneyProofs`, `SandboxTradingProofs`, `SandboxOvernightProofs`, `ExecutionRaceProofs`, `EngineLifecycleProofs`, `ActionCenterProofs`, `WsProxyProofs` (of the pool too), `StrategyHostProofs` | proofs |

`SandboxTrading`, `ExecutionRace` and `SandboxOvernight` use the same operators for
margin, execution and netting. In the first a handler is one step, so it shows what the
handlers do even when nobody interferes; in the second the arithmetic is the same and the
interleaving is the subject; in the third it is the calendar.

Comments in the modules name the source function of a definition where its name does
not; `PROJECT.json` maps every definition to its lines. A definition whose comment
starts with "Mutant of" is a plausible bug: substituting it for the definition after it
makes a property of a run fail, which shows that the property depends on the code.

## 4. Runs

| run | instance | checks | distinct states |
|---|---|---|---|
| `equity_day` | 3 orders, MARKET and LIMIT, quantities 1 and 2, equity with MIS leverage 5, one settled share | `TypeOK`, `PositionsMatchTrades`, `PnlMatchesTrades`, `EquityConserved`, `NoMarginStuck` | @equity_day |
| `future_stops` | a future, 2 orders, MARKET, SL and SL-M, 2 prices, a leverage of 7 that divides neither, failing quotes, one reset | `EquityConserved`, `FillsRespectLimits`, `BookSpec` | @future_stops |
| `square_off` | 2 user orders, 3 of the square-off's, one reset, fair scheduler | `SquareOffCompletes` | @square_off |
| `race_ticks` | 2 orders, 2 request threads, WebSocket engine alone, prefetched quotes, one restart | `TypeOK`, `AtMostOneTrade`, `OpenOrdersIndexed`, `NothingNettedTwice` | @race_ticks |
| `race_polling` | 3 LIMIT orders at 2 limits, quantities 1 and 2, a small capital, one request thread, one engine | `EquityConserved` | @race_polling |
| `overnight` | 3 trades of quantity 1 or 2, delivery and intraday, 2 quotes, 2 nights, one settlement that fails or is cut | `TypeOK`, `SharesFollowTrades`, `CashFollowsTrades`, `CatchUpKeepsToday` | @overnight |
| `lifecycle` | 2 threads that switch, 2 watchers, 2 fallback threads, one join that times out, one start that fails unnoticed | `TypeOK`, `OneEngine`, `OffIsOff`, `OneFallback`, `StopEnds`, `UpgradeHappens`, `FallbackFollowsData` | @lifecycle |
| `action_center` | 2 orders of all three kinds the executor distinguishes, two threads that each approve, reject and delete, one restart, fair requests | `TypeOK`, `SentOnceUnlessRaced`, `DeletesOnlyDecided`, `ApprovedIsRecorded` | @action_center |
| `proxy_pool` | 2 clients, 3 symbols, 2 modes, 2 connections of one slot whose adapters queue and send later, one fault or one new login (`Few`) | `TypeOK`, `CountsMatch`, `EveryoneServed`, `NothingLeaks`, `AdapterIsOpen`, `PlacementSpec` | @proxy_pool |
| `strategies` | one strategy, 2 process ids, one request thread and one download thread beside the jobs and the restore at startup, at most two of them between check and act (`Few`), any number of crashes, restarts, downloads, closed days | `TypeOK`, `OneProcess`, `PidIsTracked`, `CrashIsNoticed`, `ClosedDayIsQuiet` | @strategies |
| `claim_*` | see section 5 | the one claim each refutes | |

Why these bounds are enough:

* Every branch of netting needs one order to open and one to meet it; the third order
  meets a row that was closed, reduced or reversed before (reopening is the longest
  chain). Quantities 1 and 2 give a reduction, an exact close and a reversal. Two quotes,
  one with a spread, put a limit on each side of the market, and make profits and losses.
  The capital (250, or 60 for the future) lets some orders through and refuses others.
* A race needs two threads that interfere and an order between them; `race_ticks` has
  three that write the position row (each request executes its MARKET order itself).
* Two nights and three trades let a purchase settle, be sold from the holdings in the
  next day and settle again, with a job that is missed, run twice or fails at any of them.
* Two callers let a stop meet a start in every stage of either, a second watcher may be
  started while the first still waits for the lock, and one slow join is what leaves a
  thread behind.
* Two rows of the action center let an id come back, and give approve-all a list. Two
  threads let an approval meet an approval, a deletion meet a new order under its id.
* With one slot on each connection the third symbol finds the pool full, and a slot that
  is lost or given twice shows at once; two modes make upgrades, downgrades and rollbacks.
  `Few` of `MCWsProxy` explores states with at most three subscriptions, two requests that
  wait, one overtaken symbol and one fault, the last two only before a new login: two
  requests that wait suffice to be sent in the wrong order, and the third subscription
  shares a symbol while another is exchanged.
* Two process ids suffice for a second process of the strategy or a stranger with the
  stored id. `Few` of `MCStrategyHost` explores states in which at most two threads have
  checked something and are still to act on it: each exception of `OneProcess` is two
  threads that meet, or one and a restart. The theorems have neither bound.
* The two liveness properties of `strategies` are checked on the states within `Few`:
  the fair behaviours that leave it are not explored.

Counters that would grow (orders, resets, restarts, failures) are bounded by CONSTANTS
marked `bound`. The models of orders, trades and rows stop when their ids are used up,
and those runs do not check deadlock; `lifecycle` and `strategies` do.

`PnlMatchesTrades` and `CashFollowsTrades` are exact only when averages are whole paise;
their runs use prices for which they are. That is `ExactAverages` and `ExactFills` of the
proofs (section 7).

## 5. What the code does not keep

Two runs are expected to end in a violation; the property states what a comment of the
code says, and `PROJECT.json` quotes it.

| run | what happens |
|---|---|
| `claim_at_most_one_trade` | the polling engine and the immediate execution of a MARKET order both pass the duplicate check (`execution_engine.py:242`) and both trade |
| `claim_exit_ends` | `cleanup_on_exit` (`python_strategy.py:2617`) holds `PROCESS_LOCK`, which is not re-entrant, and calls `stop_strategy_process`, which takes it again: with a strategy running, the exit never ends. `delete_strategy` (1884) does the same |

The passing runs and the proofs show where a race is harmless: with the WebSocket engine
alone an order trades once (`TradedOnce`: `place_order` notifies the engine last), and
with one thread filling orders the reconciliation conserves money against any number of
placements and cancellations (`EquityKept`: both columns it overwrites keep their sum). Whatever threads fill, no trade
is netted into the position twice (`NoTradeNettedTwice`).

The models show more, without a run of their own. In the sandbox:

* a fill reconciles used margin to the positions, and frees the margin of orders that
  are still open (`execution_engine.py:625`);
* cancelling an order that blocked nothing releases a recomputed margin
  (`order_manager.py:799`);
* with two threads that fill, the lock-free reconciliation overwrites the profit another
  has just released (`fund_manager.py:538`), and of two fills that read the same position
  row (`execution_engine.py:395`) the later write wins: the other's trade is in the trade
  book and not in the position. `NothingNettedTwice` bounds the damage: a trade may be
  missing from the position, never be in it twice;
* past the cut-off an order larger than the position is accepted and reverses it (the
  square-off then closes that too); two delivery sales are checked against the same
  shares; a position whose margin is 0 is closed without its profit reaching the account;
  a cancellation that overlaps an execution leaves a cancelled order with a trade;
* the fund equation of `docs/design/07-sandbox/README.md` has realized profit on the
  other side than the one `MoneyConserved` proves;
* `catch_up_processor.py:203` decides from `updated_at` whether the day's profit is still
  to be reset; the settlements of the same catch-up have just refreshed it, and then the
  reset is skipped;
* a start of the WebSocket engine that cannot subscribe is answered with success
  (`websocket_execution_engine.py:85`), and no engine runs.

In the action center:

* two tabs that approve one order send it twice: both read it pending, and the update is
  by id (`action_center_db.py:182`), though the message of line 198 promises that what is
  not pending cannot be approved;
* SQLite gives the largest id again when its row has been deleted. A deletion that has
  read a decided row (258) then deletes the pending order that has its id by now, though
  `docs/design/42-action-center/README.md:282` allows deletion only of what is not
  pending; and an approval sends what nobody approved.

`SentOnceUnlessRaced` and `DeletesOnlyDecided` say that nothing else goes wrong: without
`raced` both fail in the run `action_center` already.

In the proxy: the market data client sends the mode of an unsubscription beside the list
of symbols (`services/websocket_client.py:184`), where the server does not look
(`server.py:1187`), and the server ends the Quote subscription instead; a downgrade that
fails, and whose rollback fails, leaves a tracked symbol unfed; a connection that did not
open stays in the pool (`connection_manager.py:322`); after a new login at the broker the
clients are still indexed, and nobody subscribes for them again.

In the Zerodha adapter, which answers a subscription when it has queued it
(`zerodha_adapter.py:300`) and sends it up to half a second later (151-194), without any
call failing:

* a batch is sent by mode. With Y wanted in Quote and X first in LTP and then in Quote,
  it sends Quote for Y and X, and then LTP for X: X stays below what its client was told;
* an unsubscription does not purge the queue (351-364): a symbol that is subscribed and
  given up within the half second is fed to nobody;
* `connect` answers a time-out with success (130-141), and the server keeps the adapter
  (`server.py:798`): subscriptions then fail until the socket has opened.

`hasty` names the symbols of the first two, and `EveryoneServed` and `NothingLeaks` say
that nobody else is served too little or leaks.

In the host of strategies:

* a manual stop is not final (the docstring at `python_strategy.py:2142` says so): the
  start after a download does not look at the flag (2768), the flag is set only after the
  process has been stopped (1790), and a scheduled start reads it before it waits for the
  lock (1039);
* a restore that finds no contracts yet clears the id of a process that lives
  (2649-2662). At startup that is one cause of a second process; the other is a download:
  its hook waits half a second, and by then a second login may have begun the next one
  (`auth_utils.py:404`);
* the restore at startup (`app.py:543`) and the one after a download may overlap; each
  writes its entry without the lock (2693), and a restart of what has meanwhile been
  started clears the id of the new process (2724);
* the index page looks at the process by the stored id and clears the id without the lock
  (1468-1474), also when a start has stored another in between;
* a stop by the stored id may end a process of someone else that has the id by now (608);
* an adopted process that has become a zombie is running for psutil (793-800): against
  the comment at 134-137 its entry is never cleaned up, and a start is refused
  ("already running", 424). Each download adopts what the application
  itself has started (2693), so this needs no restart. It is why `CrashIsNoticed` speaks
  of processes with a `Popen` entry and ends when a restore replaces that;
* a resume on a trading day that fails clears the pause (1277), and is not tried again.

## 6. Fairness

| specification | assumes | because |
|---|---|---|
| `SandboxTrading!FairSpec` | `WF_vars(Sweep)` | besides a job at the cut-off, `squareoff_thread.py:84` registers the square-off as a backup job of every minute. Nothing is assumed of users, engines or quotes |
| `ActionCenter!FairSpec` | `WF_vars(Proceed(w))` | a request that has begun is carried on: calls to the broker return or time out. Nobody has to approve anything |
| `EngineLifecycle!Spec` | weak fairness of each caller's call, each watcher, `PollerEnds`, `Monitor`, `LoopEnds` | threads go on; joins have time-outs; a polling pass is finite and looks at its event. Nobody has to switch the mode, and nothing is assumed of the proxy or the data |
| `StrategyHost!Spec` | weak fairness of each thread's next step, of the enforcer and of `Reap` | threads go on, and the scheduler runs the enforcer every minute and the clean-up (`python_strategy.py:139`) as jobs of their own. Nothing is assumed of users, downloads, restarts or the exchange |

`square_off` has no quote outages: without a quote the job's MARKET order may rest open,
and only a later run of the job replaces it. The user's orders are finite in number; a
user who reversed the position every minute could delay the flattening for ever.
`UpgradeHappens` excludes the silent failure of a start (section 5), `CrashIsNoticed` and
`ClosedDayIsQuiet` the threads that hold the lock for ever, `CrashIsNoticed` also a
process that a restore has adopted (section 5), `ApprovedIsRecorded` a
restart, which ends every request. `ClosedDayIsQuiet` is about a day that stays closed
with the application up, and says that the strategy is quiet again and again: an order
to start may still come, and is undone.

## 7. Proofs

For all values of the constants that satisfy the assumption of the module (`ASSUME`),
which TLC evaluates on every run. A hypothesis of its own is named in the last column.

| theorem | says | under |
|---|---|---|
| `SandboxTradingProofs!TypeCorrect` | `Spec => []TypeOK` | |
| `SandboxTradingProofs!MoneyConserved` | `Spec => []EquityConserved` | |
| `SandboxTradingProofs!LimitsRespected` | `Spec => []FillsRespectLimits` | |
| `SandboxTradingProofs!NoTradeLost` | `Spec => []PositionsMatchTrades` | |
| `SandboxTradingProofs!ProfitIsExact` | `Spec => []PnlMatchesTrades` | `[][ExactAverages]_vars` |
| `SandboxTradingProofs!MarginComesBack` | `Spec => []NoMarginStuck` | |
| `SandboxTradingProofs!OrderBookRefined` | `Spec => BookSpec` | |
| `ExecutionRaceProofs!RaceTypes` | `Spec => []TypeOK` | |
| `ExecutionRaceProofs!NoOrderForgotten` | `Spec => []OpenOrdersIndexed` | |
| `ExecutionRaceProofs!TradedOnce` | `Spec => []AtMostOneTrade` | `OneTicker` |
| `ExecutionRaceProofs!EquityKept` | `Spec => []EquityConserved` | `RestingOrders`, `OneEngine` |
| `ExecutionRaceProofs!NoTradeNettedTwice` | `Spec => []NothingNettedTwice` | |
| `SandboxOvernightProofs!DaysTyped` | `Spec => []TypeOK` | |
| `SandboxOvernightProofs!SharesKept` | `Spec => []SharesFollowTrades` | |
| `SandboxOvernightProofs!CashKept` | `Spec => []CashFollowsTrades` | `[][ExactFills]_vars` |
| `SandboxOvernightProofs!TodayKept` | `Spec => CatchUpKeepsToday` | |
| `EngineLifecycleProofs!LifecycleTyped` | `Spec => []TypeOK` | |
| `EngineLifecycleProofs!OneEngineAlways` | `Spec => []OneEngine` | |
| `EngineLifecycleProofs!StoppedIsOff` | `Spec => []OffIsOff` | |
| `EngineLifecycleProofs!OneFallbackAlways` | `Spec => []OneFallback` | |
| `ActionCenterProofs!Types` | `Spec => []TypeOK` | |
| `ActionCenterProofs!SentAgainOnlyIfRaced` | `Spec => []SentOnceUnlessRaced` | |
| `ActionCenterProofs!WaitingDeletedOnlyIfRaced` | `Spec => DeletesOnlyDecided` | |
| `WsProxyProofs!CountsStayExact` | `PoolSpec => [](PoolTypeOK /\ CountsMatch)` | |
| `WsProxyProofs!PoolImplementsPlacement` | `PoolSpec => PlacementSpec` | |
| `WsProxyProofs!ProxyKeepsPool` | `Spec => [](TypeOK /\ CountsMatch) /\ PlacementSpec` | |
| `WsProxyProofs!ProxyTypes` | `Spec => []TypeOK` | |
| `WsProxyProofs!AdapterStarted` | `Spec => []AdapterIsOpen` | |
| `WsProxyProofs!NoLeak` | `Spec => []NothingLeaks` | |
| `WsProxyProofs!SubscribersServed` | `Spec => []EveryoneServed` | `[][OneFailure]_vars` |
| `StrategyHostProofs!HostTyped` | `Spec => []TypeOK` | |
| `StrategyHostProofs!OneProcessAlways` | `Spec => []OneProcess` | |
| `StrategyHostProofs!PidStaysTracked` | `Spec => []PidIsTracked` | |

The hypotheses are what the code needs and does not provide. The instance of the run that
checks the property satisfies them. In an instance like it, with the change of the second
column, TLC finds the property violated:

| hypothesis: it means | violated with | because |
|---|---|---|
| `OneTicker`: the WebSocket engine alone, one tick at a time | a second thread in `Ticker`, or one in `Poller` (`claim_at_most_one_trade`) | both execute the order |
| `OneEngine`: one thread fills resting orders | a second thread in `Poller` | both read the same row and the same account, and the later commit wins (`execution_engine.py:395`, `fund_manager.py:538`) |
| `RestingOrders`: no request executes an order itself | MARKET orders | the request fills beside the engine, as above |
| `ExactAverages`: no average price is rounded | a quote of 121 | the average is off by less than a paisa a share, and the profit with it |
| `ExactFills`: the same, and no profit is closed on a position whose margin is 0 | a quote of 121 | as above; a profit without margin is not booked (section 5) |
| `OneFailure`: no handler meets two failing calls to the broker | `MaxFaults = 2` | a downgrade and its rollback both fail (section 5) |

**Trading.** `SandboxMoneyProofs` has the lemmas about the operators: each change of an
account keeps it an account whose sum moves exactly with the realized profit, and netting
a fill yields a row. `SandboxTradingProofs` proves the theorems with the invariant
`Inv == Ledger /\ Day`. `Ledger` says that the account balances and that each order is
`Sound`: it has the types of its columns, one that was never submitted is `Blank`, and a
complete one has a price its limit allows and no order stores a negative margin, and it
contains `NoMarginStuck` itself. It is stronger than the properties: that
unsubmitted orders are blank is what lets a placement reuse the id, and a limit is
positive once it is open, which the modification keeps. The step goes through four
*effects*, which any action has on the order book and the account: it fills one order
(`Fills`), stores or decides one without a fill (`Stores`), wipes the positions (`Wipes`)
or leaves the ledger alone (`Leaves`). One lemma for each action shows which effect it
has, one for each effect that it keeps the ledger, and the refinement follows from the
effects as well: a fill maps to `OrderBook`'s execution, a store to a submission or a
cancellation, the rest stutters. For `NoMarginStuck` it is the stores that matter: an
account may not block more than the order stores, and gives back what is no longer
stored, although a modification changes the order and the fill of another has reconciled
the account in between; a fill ends in the reconciliation, a reset in an empty account.

*Sums.* `PositionsMatchTrades` and `PnlMatchesTrades` add up over all orders. That a sum
changes by the change of the one order that fills needs an induction over the set of
orders, and the library's induction theorems take the statement as an operator, which the
provers cannot instantiate. `SandboxMoneyProofs` argues instead from a smallest
counterexample: the sizes of the finite sets over which the sum goes wrong have a least
element, and one element less is a smaller one. `NettedProfit` says what netting does to
the profit less the position at cost, in all its four cases: it falls by what the trade
paid.

**Races.** `IInv == TypeOK /\ InHand /\ Untouched /\ Held /\ OpenOrdersIndexed`. `InHand`
says which thread has which order and whether the order is stored; requests that place
have different ones. `Untouched`: an order that was never stored has left no trace.
`Held`: whoever has the lock is inside the fund manager. It holds for any threads.
* `TradedOnce` adds `TickInv`: whoever is about to trade an order is alone with it, a
  request with an order that the index does not have yet, the engine with one that it has.
* `EquityKept` adds `MoneyInv`: what the fund manager and the reconciliation have read is
  an account that balances with the same realized profit as the committed one. Two such
  accounts differ in both columns or in neither, so the commit of the changed columns
  (`MergeBalanced`) writes a balanced account whatever was committed in between.
* `NoTradeNettedTwice` adds `RowInv`. `Posted` are the trades no thread has still to net.
  The row, and each row a thread has read, however old, is the sum of some posted trades,
  each counted once. So the thread that writes adds a trade that none of these rows can
  have counted, and its row does not become wrong when another's write is lost to it.

**Overnight.** `TypeOK`, which says also that a row with a quantity or of an earlier day
exists, and `SharesFollowTrades` are inductive together. One lemma says what netting does
to a quantity in all its four cases, another that a settlement removes from the position
what it adds to the holding; one that fails is excluded by `cuts = 0`. `CashKept` needs
`Owned`, that what is sold short for delivery is in the holdings: otherwise a settlement
would take shares the user has not got and credit nothing for them. `TodayKept` needs
`Untouched`: an account not written since the session boundary has booked nothing since.

**Engines.** `OneEngine` and `OffIsOff` speak of the moments the lock is free. The
inductive invariant says what is true while it is held: the holder is at a join of a stop
or of an upgrade (`Held`), and only there is a polling thread `"stopping"` or an engine
left of what the last call has switched off (`Handed`). `OneFallback` needs that the
monitor, unless a join timed out, finds no fallback thread when it looks again
(`Counted`).

**Action center.** A step of a thread reads (`ReadStep`), changes one row (`EditStep`) or
calls the broker (`SendStep`); that each action is one of the three is shown once
(`Stepping`), and the invariants are proved for the kinds. That an order is sent at most
once is not inductive. `SendInv` says of an order that is not in `raced` that at most one
thread has it on its way to the broker, and that the broker does not have it while it
waits or is on its way; and of any order that it does not wait while it is sent. Rows hold
different orders. `DeleteHeld`: a row about to be deleted is decided, or its order is in
`raced`. Neither needs a hypothesis: `raced` grows in two places, where an approval begins
while another has the row in hand, and where a new order gets an id that is in hand, and
everything else that requests, restarts and reused ids can do keeps the invariants.

**Pool and proxy.** `CountsMatch` is inductive together with the types. Each way of a
subscription or an unsubscription gives the symbol a place and counts, and one lemma
(`FromPlaces`) concludes the invariant and the place of each symbol from them; the
refinement reads the same facts as a `Put`, a `Take`, a `Clear` or a stutter. Whatever
clients do, the pool takes only its own steps, so its theorems carry over to the proxy
with the fact that its two records of the subscriptions agree.

What the proxy promises its clients relates three records: the clients' subscriptions,
what the pool tracks, and what the adapters have queued and sent. The invariant is
`LInv == Inv /\ ProxyInv /\ Matched /\ AdapterIsOpen`. `Matched` says that without an adapter
nothing is tracked (`NoAdapterNoPool`), that only clients mapped to the user have
subscriptions (`OnlyMapped`), that what clients want is tracked until a new login
(`WantedTracked`), and that nothing else is while no call has failed (`TrackedWanted`). Its
part `Tidy` says of each symbol that is not `hasty` that an adapter has nothing queued or
sent for what it does not hold or the pool does not track, and nothing above the highest
tracked mode; it needs no hypothesis on failures, so neither does `NoLeak`. `Fed` says that
a tracked symbol is held, that the last request for it waits alone or was sent, unless it
is hasty (`Owed`), and that without a failure something waits or was sent for each (`Clean`).
While no call has failed it follows from the steps, and it survives one failure in a
handler, since each of them has its way back: hence `OneFailure`.

**Strategies.** `IInv == TypeOK /\ Stages /\ (~lost => Kept)`. `Stages`: a thread that is to
adopt a process has found one. `Kept` has four parts: a process that lives has the stored
id (`StoredLives`); a stored id is that of a strategy marked as running and not waiting for
contracts, and it is tracked or waits for the restore (`StoredRuns`); when none is tracked,
a thread about to start one (`Starting`) has no living process to displace, unless the jobs
run already (`StartersMay`); and what a restore has found is still what is stored, on
whichever thread it runs (`SeenStored`). None of them is inductive alone: starting is safe
because the entry is the living process, and the entry is right because a restart finds the
process by its id before any job may start another. `lost` marks the ways out of this, each
a step of the code (section 8); the theorem covers any number of request and download
threads, so the overlap of restores too.

Every invariant that a run checks, and every action property and refinement, is stated by
a theorem above. Model-checked only are the properties under fairness
(`SquareOffCompletes`, `ApprovedIsRecorded`, `StopEnds`, `UpgradeHappens`,
`FallbackFollowsData`, `CrashIsNoticed`, `ClosedDayIsQuiet`), which are beyond the prover.

## 8. Limits of the models

* Money is in whole paise. Each division is rounded once to a paisa; the code's columns
  are DECIMAL(15,2), rounded when stored. The contract value is 1.
* One user, one symbol, one instrument kind at a time. Users do not share rows; symbols
  share the account only, through block, release and reconcile.
* Display columns (last price, unrealized profit) are left out. Where `place_order` falls
  back on the last price of a position row, any quoted price may be it.
* Exchange CRYPTO has no square-off time and is not modelled, nor is a holiday.
* `SandboxTrading` takes a handler as one step, except the square-off job.
* `ExecutionRace` keeps to one MIS position, with MARKET and LIMIT orders and no
  modification. The check for a discrepancy and the re-read in the reconciliation are one
  read. The profit column of the position row is committed together with the rest of the
  row; with a partial close the code commits it with the released margin. Failures of the
  database other than the unique key of the position are not modelled.
* `SandboxOvernight` trades with market orders only, in one step, between the jobs of the
  night. Daily snapshots, expired contracts and the square-off by the clock are not in it.
  `CashFollowsTrades` leaves out the runs in which the clamp of the catch-up hid a
  negative used margin, and both properties those in which a settlement failed.
* `EngineLifecycle` has the type "websocket", the default; the type "polling" given
  explicitly, without a watcher, is not in it. The flag in the database, the square-off
  scheduler and the settlement that the toggle starts are left out.
* `ActionCenter` has one user. Only one restart is tried: after it nothing looks at
  approved orders again. Failures of the database other than the update of a row that is
  gone are not modelled.
* `WsProxy` is for one user with one broker: users share nothing but the loop. The pool's
  lock is held throughout a call, so a call is one step; the adapter's threads step in
  between. `EveryoneServed` does not hold when the rollback of a downgrade fails too
  (`OneFailure`), and neither it nor `NothingLeaks` says anything of the requests that were
  overtaken or dropped (`hasty`) or, but for the part about the adapters, after a new login.
  `fed` is the mode that was last sent: a resubscription that fails after a socket has
  reopened, and a batch sent half way, are not modelled, nor are the 3000 instruments of a
  connection, past which a request is dropped, nor the moment in which the sending thread
  ends as another request is queued (`zerodha_websocket.py:237`). Adapters other than
  Zerodha's, which keep several modes of a symbol apart, are not modelled.
* `StrategyHost` has one strategy; times are left open, so a job may run whenever it
  exists. `OneProcess` and `PidIsTracked` say nothing any more once `lost` is set, which is
  when a stored process that lives is left or overwritten:
  * the application is killed between the start of a process and the saving of its id
    (`KillInStart`), or comes up without a broker (`Initialize`);
  * a restore finds no contracts, at startup or after a download (`Wait`);
  * a request starts the strategy before the restore at startup is over (`StartRoute`);
  * a restore writes its entry over that of another process (`Adopt`), or fails to restart
    what has meanwhile been started (`Restart`);
  * the index page clears the id of a process started since it looked (`Clear`).

  `Wait` looks for the contracts and marks the strategy in one step. Pages other than the
  index, which read or call the clean-up (`Reap`), uploads, edits and schedules as times are
  not modelled.

## 9. Not modelled

* **Event bus**: topics, a thread pool and callbacks whose errors are logged; its
  subscribers write logs and send socket messages, and keep no state a property could be
  about.
* **Market data cache**: what the engines need of it, whether its data is fresh, is the
  variable `fresh` of `EngineLifecycle`.
* **Flow engine**: a node calls an order service; the state is the definition of the
  workflow.
* **Historify, telegram, order services, broker plugins, REST API, user interfaces,
  logs**: remote or column-store I/O, data mapping and forwarding, without a state of
  their own that several actors share. They are most of the repository's lines: some
  thirty broker plugins translate requests and answers field by field.
* **Authentication, symbols, calendar**: cryptography and lookup tables. That a login
  invalidates the caches of other processes is `Relogin` of `WsProxy`; a symbol is one
  instrument; a closed day is `calendar` of `StrategyHost`.
