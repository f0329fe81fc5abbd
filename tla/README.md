# TLA+ verification of rust-hft

A TLA+ development of the trading program in `src/`: a paper-trading client
that mirrors a Binance futures order book, runs a strategy on it, checks its
signals and fills the approved orders against a simulated account.
Paths below are relative to the repository (`src/main.rs` is its source file
of that name); TLC checks small instances, TLAPS proves the theorems for every
value of the constants.

## 1. The system

Threads and tasks (all started in `src/main.rs`):

| who | kind | does | talks to |
|---|---|---|---|
| reader (`src/ingestion.rs`) | tokio task | connects, reads the WebSocket, sends depth events and trades, announces reconnects | market channel, watchdog timestamp |
| initial-snapshot task, one per connection | tokio task | sleeps, clears `resync_needed`, fetches a REST snapshot once | market channel |
| resync poller, one per connection, never stopped | tokio task | takes `resync_needed`, fetches, raises it again on failure | market channel, `resync_needed` |
| watchdog (`src/watchdog.rs`) | OS thread | sends `Reconnect` when nothing was read for too long | market channel |
| book thread | OS thread | order book, strategy, risk checker | market channel, order channel, `resync_needed`, `cash_bits`, `halt_flag` |
| executor (`src/execution.rs`) | tokio task | fills orders, mirrors the cash | order channel, account lock, `cash_bits` |
| HALT poller | tokio task | copies the file's existence to `halt_flag` every 500 ms | file, `halt_flag` |
| dashboard (`src/dashboard/`) | tokio tasks | samples once a second, pushes state to clients, `/halt`, `/resume` | shared state, file, `halt_flag` |

The backtester (`src/bin/backtest.rs`) is a second, sequential program over the
same order book, strategies and risk checker.

The hard part is not any one function but that these run concurrently over two
bounded channels with blocking sends and a few atomics.

### Inventory

| component | state | operations | what makes it correct | module |
|---|---|---|---|---|
| Order book `src/orderbook.rs` | Buffering(buffer) or Live(id), bids, asks | `handle_update`, `handle_snapshot`, `reset`, `snapshot` | a Live book is the exchange's book at its id | `Orderbook`, `TopOfBook` |
| Ingestion `src/ingestion.rs` | position of the reader, of each task | connect, read, fetch, retry, reconnect | what it sends is true and in order; a lost book is always recovered | `Ingestion`, `Exchange`, `Channels` |
| Watchdog `src/watchdog.rs` | last-seen time | touch, check, send | silence leads to a reconnect | `Ingestion` |
| Book thread `src/main.rs` | the book, dashboard flags | one step per event | the strategy sees only true, ever newer books; flags follow the book; back-pressure dissolves | `MarketData`, `Trading`, `System` |
| Strategies `src/strategy/` | position, ring of mid prices, tick counters | `on_orderbook` | belief agrees with the account; momentum follows its rule | `Strategy`, `PingPong`, `MomentumScalp`, `Strategies` |
| Risk checker `src/risk.rs` | recent approvals, seen ids | `check` | rate limit, no duplicate ids, no overdraft, kill switch | `RiskChecker` |
| Account `src/pnl.rs` | cash, fees, lots, realized PnL | `on_buy`, `on_sell` | the ledger balances, FIFO matching | `FifoPnl`, `PaperAccount` |
| Execution `src/execution.rs` | order in hand | take, fill, mirror | every approved order filled once and in order; few after a halt | `Trading` |
| Kill switch `src/main.rs`, `src/dashboard/server.rs` | file, flag | poll, halt, resume, shell | flag follows the file; a halt blocks at once | `KillSwitch` |
| Dashboard `src/dashboard/` | counters, snapshot slot, bounded lists, one view per client | writes of book thread and executor, sampler, reads | what a client is shown hangs together | `Dashboard` |
| Backtester `src/backtest/`, `src/bin/backtest.rs` | generator, book, trades | load or generate, replay, report | the live rules on recorded data; the report pairs the trades | `Backtest` |
| tokio runtime | who holds a worker | schedule, block, give up | nothing starves | `Runtime` |
| Configuration, metrics, HTML | | | | not modelled: parsing, formatting, presentation |

`PROJECT.json` lists every hazard of the code at its line, with the properties
that watch it, and every definition with the lines it stands for.

## 2. Modules

    Types -- Channels -+- Orderbook ----------+
             Types -- Exchange -+- Ingestion -+- MarketData -- MCMarketData
                                              |    |    |
                            BookReplica <- refines-+    |
                                                        +-- System -- MCSystem
    FifoPnl -- PaperAccount ----+                       |
    RiskChecker ----------------+-- Trading ------------+
    KillSwitch -----------------+      |  |             |
    Strategy -+- PingPong ------+      |  MCTrading     |
              +- MomentumScalp -+      |                |
                 (both: Strategies)    +- refines -> OrderPipeline
    Types -- TopOfBook ---------------------------------+
    Orderbook, TopOfBook, Strategies, RiskChecker, FifoPnl -- Backtest -- MCBacktest
                                                 Backtest - refines -> MomentumRule
    Dashboard              KillSwitch -- Runtime

The proofs are in modules of their own, each over the module it is about:

    FoldLemmas -+- MarketDataProofs (MarketData) ---+
                +- DecisionProofs (RiskChecker,     +- SystemProofs (System)
                   Strategies) -+- TradingProofs ---+
                                |  (Trading)
    (FifoPnl)                   +- BacktestProofs (Backtest)
    DashboardProofs (Dashboard)      RuntimeProofs (Runtime)

- **Types**: a price level is an opaque member of `Level`; a book is a function
  from levels to quantities where 0 means "no level", just what the `BTreeMap`s
  do with a quantity of 0. An update is a partial function.
- **Channels**: the market channel as a sequence; a blocking `send` is an
  action enabled only while there is room.
- **Orderbook**: one action per way out of `handle_update` (`BufferUpdate`,
  `SkipStale`, `ApplyUpdate`, `DetectGap`), `HandleSnapshot` as the scan for the
  first valid event and the replay up to the first gap, without recursion: the
  replayed book holds, level by level, the quantity of the last event that
  carries the level. The `Err` branch of the book thread has no action because
  `handle_update` returns no `Err`.
- **TopOfBook**: `snapshot()` with its cut to `depth_levels`, where a level has
  a side and a price, and the quote that strategies read of it. A snapshot with
  an empty side is no quote: every strategy returns before it changes anything.
- **Exchange** (external): the true book with one id per change and its whole
  history; stream events that batch changes; REST answers that may lag.
- **Ingestion**: program counters for the reader, for the initial task and the
  poller of every connection so far (old ones keep running), and the watchdog.
  The touch of the watchdog, which the code does just before a send that may
  block, is part of the read; the watchdog may fire or not fire while the
  reader is blocked, so nothing is lost by that.
- **MarketData**: composes them with the loop of the book thread. `fed` is the
  snapshot last given to the strategy, `dash` the two flags it keeps.
- **BookReplica**: the abstract specification of the market-data half. The
  exchange's book changes; the strategy is given a true book, newer than the
  one before. `MarketData` implements it with the identity on `exId`, `hist`
  and `fed`.
- **Strategy**: what the strategies share: the position they believe in, entry
  sizing, thresholds. The state changes when a signal is emitted, before the
  verdict of the risk checker.
- **PingPong**, **MomentumScalp**: when each enters and exits, the signal it
  returns and what it does to its state. The momentum strategy keeps a ring of
  mid prices, counted in halves so that they are whole.
- **MomentumRule**: the abstract specification of the momentum strategy: a
  sliding window and the age of the position, no ring and no counters.
  `Backtest` implements it with the window read off the ring from its oldest
  sample, and `age` as `held_ticks` or what has passed of the cooldown.
- **Strategies**: the choice by name. `main` falls back to no-op for an
  unknown name; the backtester ends with an error instead, so that "none" in its
  run stands for a run with no-op.
- **RiskChecker**: one action per outcome of `check`. Money is counted in
  1/10000 of price times quantity, so that the percentages are exact.
- **FifoPnl**, **PaperAccount**: matching as a fold over the lots, shared with
  the backtester, and cash and fees around it.
- **KillSwitch**: file access and flag store of the poller and of the handlers
  are separate steps; file operations may fail.
- **Trading**: book thread, order channel, executor, account and kill switch.
  The executor's take, fill and mirror are three steps; an order that waits for
  room in the channel sits in `outbox` and stops the book thread. The check
  reads the flag and the balance in one step: no other actor touches both, so
  reading them one after the other gives nothing new.
- **OrderPipeline**: the abstract specification of the trading half: one bounded
  queue. An order joins it in the step that approves it, with the number of its
  approval for an id, and leaves it when it is filled, from the head.
  `FilledOnce` says what follows: each approved order is filled or waiting, just
  once, and the fills are the orders approved first. `Trading` implements it
  with the number of approvals, the queue `InFlight` (the orders in executor,
  channel and outbox) and the fills.
- **System**: `MarketData` and `Trading` joined where `main` joins them. The
  book thread's step for an applied update is the conjunction of the step of
  `MarketData` and of `OnOrderbook` with the quote of the new book; while an
  order waits in `outbox` the thread takes nothing from the market channel.
- **Backtest**: generator or file, replay, second pass over the trades. The
  events are drawn as the replay asks for them; both sources ignore what the
  replay does. The wall clock of the risk checker may tick between any two
  events or not at all.
- **Dashboard**: every field of `SharedState` that changes, written in the
  order of the code under one lock each, the sampler, and clients that read
  field by field. Prices, fills and trades are numbers in the order of their
  happening, which is all that the properties compare.
- **Runtime**: which tasks hold a tokio worker. The executor never gives its
  worker back, a snapshot task keeps its worker while the market channel is
  full. Channels are counted; the tasks of the kill switch stand for all
  those that do not block.

History variables, which nothing reads but properties, bounds and, for
`approved`, the choice of a fresh order id: `fed`, `approved`, `bought`,
`fills`, `late`, `excused`, `overlapped`, `demanded`, `asked`, `published`,
`prices`. `quote` and `source` of `Backtest` only remember choices.

## 3. Runs

| run | question | properties | distinct states |
|---|---|---|---|
| `market` | Is the book right under every fault, and over long id chains? | `TypeOK`, `LiveBookFaithful`, `FeedInv`, `DashLiveMeansLive`, `ImplementsReplica` | 1.3 M |
| `system` | Does the whole program trade on true books, and does it ever get stuck? | `RecoveryPending`, `OrdersFromTrueBook`, `Drains` | 0.4 M |
| `trading` | Do account, strategy, limits and kill switch hold together? | `TradingTypeOK`, `PositionFollowsStrategy`, `SolventWhenAlone`, `LateFillsBounded`, `LedgerBalances`, `FifoOrder`, `ImplementsPipeline` | 1.0 M |
| `backtest` | Is a backtest the live rules on other data? | `BacktestTypeOK`, `RateLimited`, `NoDuplicateInWindow`, `BookTracksWalk`, `ReportPairsTrades`, `FollowsRule` | 0.15 M |
| `dashboard` | Is what a client is shown ever inconsistent? | `DashboardTypeOK`, `ShownTradesBooked`, `ChartReachesQuote`, `ListsKeepLatest`, `RatesAddUp` | 3.2 M |
| `runtime` | Does every task get to run, and does the halt flag settle? | `RuntimeTypeOK`, `NoCircle`, `FlagSettles`, `NeverStuck` | 44 k |
| `watchdog_reset`, `initial_fetch_fails`, `killswitch_stale_poll`, `trading_overdraft`, `backtest_file`, `one_worker` | disagreements of code and documentation, section 4 | one each | violated |

Every property of a passing run has a mutant in `PROJECT.json`: a plausible bug
in one definition under which TLC finds the property violated.

**Bounds.**

- `market`: `MaxId` = 4 exchange changes let a buffer hold a gap, an event span a
  snapshot and a snapshot fall behind the book. `MaxConn` = 2 gives one
  generation of leaked tasks beside the current one; the last connection does
  not end. One of each kind of fault. The product of all that is too large, so
  a constraint (`Explored`) splits it: every fault and both connections with up
  to `FaultyIds` = 2 changes, the third and the fourth on one connection with a
  lost message and a failing fetch, or with a trade on the stream. Two symmetric
  levels and quantities 0 and 1 tell a wrong, a missing and a left-over level
  apart. Capacity 2.
- `system`: three levels (two bids, one ask), so that the best bid moves and
  sides empty; both channels of capacity 1, so that a full order channel, a
  waiting order and a waiting event meet. A second connection comes with at
  most `SecondIds` = 2 changes, the third change and a trade on the stream with
  one connection. One lost message, one failing fetch. The exploration limit is
  a conjunct of the steps, not a constraint, so liveness is checked on whole
  behaviours.
- `trading`: quotes that take the profit (2000 to 2001), stop out (4000 to
  2000), leave budget for one step less (4000), and spread wider than the price
  band (2000/2050); five orders, three a second, capacity 2, capital for one
  order at the highest price with less than the fee to spare without the
  headroom. One shell command, one clock tick.
- `backtest`: six events of a walk that falls a level, stays or rises half a
  level within three of the base price, so that levels are kept, deleted and
  crossed by the old ones; a ring of 3 with a lookback of 2, its limit, so the
  ring wraps twice; hold of 2 and cooldown of 1; entries of two units that the budget
  cuts to one at the higher prices, so that a sell may take part of a lot; two orders a second, a memory
  of one id and two ids to draw. All three strategies.
- `dashboard`: lists of 2, 2 and 1, three updates and three fills, so that each
  list is cut; one client, since clients share nothing but what they read.
- `runtime`: two and three workers, two snapshot tasks, two requests, a shell
  command and a failing file operation; channels of capacity 1. `one_worker`
  the same with one worker and no requests.

**Fairness.** `system`: the book thread, a blocked send, the executor, the
reader's connect, `Reconnect` send and wait, and each task's sleep, fetch and
send are weakly fair, since an OS thread and a tokio task with an expired timer
or an answered request are eventually run and REST calls and connects end.
Nothing is assumed of the exchange, of socket failures, or that further events
are read. Failures need no fairness: they are bounded, so fetches succeed in
the end. The run has no watchdog timeouts and no failing initial fetch: with
them the property is false (section 4). It presupposes that a task that is
ready gets a worker, which is the question of `runtime`: there, tasks that hold
a worker run (weak fairness), a ready task gets a worker and a blocked sender
gets through if that is possible again and again (strong fairness: tokio queues
ready tasks, and the order book takes far less than the 100 ms between events).
Snapshot tasks need not start and requests need not come. That the executor has
its worker before any snapshot task is spawned is the code's order: `main`
spawns it before it calls `run_ingestion`, and the first task sleeps 500 ms.

**Deadlock** is checked in all runs but the two of `Backtest`, a program that
ends. `Quiet` in `MCMarketData` is the stuttering of an instance that has used
up `MaxId` and whose tasks are idle; elsewhere the ticks of poller or sampler go on.

## 4. Where code and documentation disagree

1. `watchdog_reset`: `Reconnect` from the watchdog resets the book but starts
   no reconnect and no resync (`src/watchdog.rs:39`); the documentation
   promises both (`docs/operations.md:67`). If data flows again on the same
   socket the book buffers without end.
2. `initial_fetch_fails`: a new connection's initial task clears a resync
   request it did not serve, and its failed fetch is not retried
   (`src/ingestion.rs:88`, `:94`).
3. `killswitch_stale_poll`: a poll between its read and its store undoes
   `/halt` until the next tick (`src/main.rs:44`), although the handler sets the
   flag itself so as not to wait for the poll (`src/dashboard/server.rs:43`).
4. `trading_overdraft`: the balance check does not count approved, unfilled
   buys (`src/risk.rs:113`), while `docs/configuration.md:55` says that buys
   beyond the balance are rejected. A take-profit sell at an ask beyond the
   price band is rejected, the strategy believes it is flat and buys again;
   both buys fill. `SolventWhenAlone` shows that this overlap is the only way.
5. `backtest_file`: a file is replayed without a snapshot
   (`src/bin/backtest.rs:44`) into a book that leaves Buffering only by one, so
   no event reaches the strategy; `docs/backtesting.md:90` says that the book is
   built from the first event on.
6. `one_worker`: on a host with one vCPU the executor's loop
   (`src/main.rs:181`) keeps the only worker and the HALT file is never read
   again. `docs/aws-deployment.md:31` recommends `c7g.medium`, which has one.
   In the model the violation is a poll that starves once the executor runs.

Without a run of their own:

- The checks against the balance are made for buys only (`src/risk.rs:106`,
  whose comment gives the reason: a blocked sell would strand a position), so a
  sell is approved with less than `min_free_balance_usdt`, while
  `docs/configuration.md:62` and `:67` have every Buy and every Sell pass that
  check. `PositionFollowsStrategy` rests on what the code does and does not
  hold of what the documentation says: if the balance could reject a sell,
  belief and account would part for that reason too.
- A Live book skips an event it has covered already as `Ok(false)`
  (`src/orderbook.rs:156`), which the book thread takes for buffering or a gap
  (`src/main.rs:154`): the dashboard shows a Live book as not live until the
  next update is applied. The comments at `src/orderbook.rs:136` and
  `src/main.rs:151` know of those two cases only. `DashLiveMeansLive` claims
  the other direction, which holds.
- `/halt` ignores a failing write and answers OK, and the next poll lifts the
  halt (`src/dashboard/server.rs:42`).
- The HALT file blocks approvals from the next poll on, up to 500 ms later, and
  what was approved before still fills: up to the capacity of the channel and
  two orders more, which is what `LateFillsBounded` says.
  `docs/getting-started.md:51` and `docs/production.md:76` say that all orders
  are blocked at once.
- The momentum strategy enters when the rise just equals `entry_mom_pct` and
  exits when the position has been held for just `max_hold_ticks`
  (`src/strategy/momentum_scalp.rs:163`, `:144`); the comments at `:11` and
  `:19` say "more than" and "longer than". `MomentumRule` follows the code.
- The price chart keeps 300 points and gets one at every applied update
  (`src/dashboard/mod.rs:122`), half a minute of them rather than the five that
  `docs/dashboard.md:18` states.

## 5. Proofs

Every safety property of a passing run, and every refinement, is proved with tlapm for all values of the constants.

| module | theorem | states |
|---|---|---|
| `MarketDataProofs` | `TypeCorrect`, `FeedCorrect`, `LiveBookIsFaithful`, `DashLiveIsLive` | `TypeOK`, `FeedInv`, `LiveBookFaithful`, `DashLiveMeansLive` |
| | `RecoveryIsPending` | `RecoveryPending`, while `Undisturbed` |
| | `MarketDataImplementsReplica` | `ImplementsReplica` |
| `TradingProofs` | `TradingTypeCorrect`, `LateFillsAreBounded`, `PositionAlwaysFollows` | `TradingTypeOK`, `LateFillsBounded`, `PositionFollowsStrategy` |
| | `LedgerAlwaysBalances`, `MatchingIsFifo`, `TradingRateLimited` | `LedgerBalances`, `FifoOrder`, `RateLimited` |
| | `AlwaysSolventWhenAlone` | `SolventWhenAlone`, if `FeeBp <= Headroom` |
| | `TradingImplementsPipeline`, `TradingFillsOnce` | `ImplementsPipeline`, and that therefore every approved order is filled once and in order |
| `SystemProofs` | `SystemImplementsMarketData`, `SystemImplementsTrading` | a behaviour of `System` is one of `MarketData` and one of live trading |
| | `OrdersAreFromTrueBook` | `OrdersFromTrueBook` |
| | `SystemKeepsItsPromises`, `SystemImplementsBoth` | the properties and the refinements of both halves, of the whole |
| `BacktestProofs` | `BacktestTypeCorrect`, `BacktestRateLimited`, `BacktestIdsDistinct`, `BookAlwaysTracksWalk` | `BacktestTypeOK`, `RateLimited`, `NoDuplicateInWindow`, `BookTracksWalk` |
| | `BacktestFollowsRule`, `BacktestReportPairsTrades` | `FollowsRule`, `ReportPairsTrades` |
| `DashboardProofs` | `DashboardTypeCorrect`, `ShownTradesAreBooked`, `ChartAlwaysReachesQuote`, `ListsAlwaysKeepLatest`, `RatesAlwaysAddUp` | `DashboardTypeOK`, `ShownTradesBooked`, `ChartReachesQuote`, `ListsKeepLatest`, `RatesAddUp` |
| `RuntimeProofs` | `RuntimeTypeCorrect`, `NeverACircle` | `RuntimeTypeOK`, `NoCircle` |

### Assumptions

Those named in the modules: naturals where the code has counters, positive
capacities, at least one connection, prices and quantities that are naturals,
different names for different tasks (`RuntimeAssumption`). `TopOfBookAssumption`
says that the levels are finitely many, as keys of type u64 are; without it a
best price need not exist. Two theorems have a hypothesis more:

- `AlwaysSolventWhenAlone`: the fee is within the headroom of the balance check
  (0.1 %, hard-coded in `src/risk.rs`), while the fee rate is a constant of the
  account. With a larger fee the property is false; `trading` runs with the
  rates of the code.
- `RecoveryIsPending`: neither the watchdog has fired nor an initial fetch
  failed (`Undisturbed`). These are the two findings of section 4; the theorem
  says that they are the only ways to lose a book for good.

### Arguments

**MarketData.** `LiveBookFaithful` alone is not inductive: an update with a
wrong level would spoil a faithful book. `FeedInv` adds that every update and
snapshot in the channel, in the buffer and in a task's hands is faithful to the
exchange's history (`ChannelFaithful`, `BufferFaithful`, `TasksFaithful`), a
claim about history that later changes cannot spoil (`FaithfulKept`). Then
`ApplyFaithful` shows that an update that starts at or before the book's id
gives the book at its end: the levels it does not carry did not change.
`ReplayFaithful` shows the same for a replay: the last carrier of a level
decides it, and from there on the chain leaves it untouched
(`ChainUntouched`). `ChannelOrdered` is what the refinement needs beyond that:
depth events are ordered by id and later than what was fed, so a feed never
goes back in time, even though a snapshot that arrives late does take the book
itself back. `RecoveryPending` is too weak to be inductive, since a snapshot in
the channel is of no use in front of a `Reconnect`, nor a Live book with one on
its way to it: `RecoveryInv` says that a snapshot is to come, or one is in the
channel that no `Reconnect` follows, or the book is Live and none is coming.

**Folds.** The matching of lots, the pruning of timestamps and the sums of the ledger are folds over
sequences, and the induction theorems of the library take an operator as a
parameter. `FoldLemmas` goes around that: a fold has an explicit path, the
function of its intermediate results, which exists because a least length
without one would have a predecessor with one (`LeastNat`, `FoldExists`). Then
`MatchSellPath`, `RetainPath` and their like state the path of each fold of the
model, and claims about it are proved along its positions (`UpTo`).

**Risk checker** (`DecisionProofs`). `RateLimited` counts approvals in any
second, while the code keeps only the timestamps that were young at the last
check. `RateInv` relates the two: the timestamps are the latest approvals in
order, whatever was pruned is out of every later window, and approvals that are
`MaxOrdersPerSec` apart are a second apart. `IdInv` does the same for the queue
of ids: it is the ids of the latest approvals, and is shorter than `MaxSeen`
only if those are all there ever were.

**Trading.** The theorems are proved of `AnyBookSpec`, trading on quotes of any
source, and then said of `Trading` and of `System`. `TradingInv` joins:

- the account: what is open is a suffix of what was bought, its first lot
  perhaps cut (`FifoInv`), and the ledger balances. `MatchSell` keeps both,
  along its path over the lots;
- `MirrorInv`: `cash_bits` is the cash unless the executor is between its fill
  and its store;
- `LateInv`: while the flag is down no fill is late, and the late fills with the
  orders in flight are bounded once it is set;
- what the risk checker and the strategy keep.

`TradingFillsOnce` follows from the refinement: a step of the queue keeps its
orders numbered one after the other, beginning after the last fill (`Numbered`).

`SolventInv` adds that, as long as no buy overlapped, a buy in flight is the
first order in flight and still affordable: nothing is filled between its check
and its fill. Affordable with its headroom covers the fee, hence the hypothesis.

`PositionInv` is about the orders on their way, for the property looks only at
moments at which there are none: what is open is in one lot, the orders in
flight alternate between buying and selling the same quantity, but for buys that
were rejected (`Alternating`), and the strategy's belief continues from the last
of them (`Believed`).

**System.** A step of the whole program is a step of each half or leaves it
alone, so both specifications are implemented with the identity and every
theorem carries over. What is left is where they meet: `OrdersAreFromTrueBook`
takes from `FeedInv` that an applied update gives the exchange's book, and from
the strategies that the price of a signal is the bid or the ask of the quote.

**Backtest.** `TrackInv`: the book is Live and holds the levels quoted last, or
will once the event drawn, which is chained to it, is applied. For `FollowsRule`
the ring is read as a window: `WindowPushed` shows that a push appends to it and
drops the oldest sample if it is full, where the remainders of the index
arithmetic become one comparison each (`Slot`, `Wraps`); `PastIsSample` that the
lookback price is the sample that many places before the latest, at the limit
`PRICE_BUF - 1` too; `RuleUnmoved` and `MomentumStep` are the step.

`ReportPairsTrades` relates two loops, one inside the other, to a sum over units
that were sold. A queue of lots `Holds` the units `lo + 1 .. hi` of what was
bought, with the price of each. A buy appends units (`HoldsAppend`). A sell takes
the oldest, be it a part of a lot, several lots or more than there is, and what
it earns is the growth of the sum from `lo` to the unit where it stops
(`SoldUpToStep` for an iteration, `SellOldest` for the loop). Along the trades
(`TurnoverPath`, `PnlPath`) the profit is therefore the sum up to the units sold
so far, and the queue holds those bought and not sold (`PnlIsPaired`). Nothing
about the strategy or the quantities is needed but that they are positive, which
the invariant says of the trades; `ReportInv` adds that the report stands once
it is written.

**Dashboard.** The invariant follows the program counters of sampler, updater
and filler and, for each client, relates the fields it has read so far to the
shared state: what it has read is older than what it will read.

**Runtime.** `NoCircle` needs the order in which `main` spawns: a snapshot task
holds a worker only when the executor has one (`ExecutorFirst`), and the
executor never gives it back.

## 6. Model-checked only

- `Drains`, `NeverStuck`, `FlagSettles`: liveness under fairness is out of the
  prover's reach.

## 7. What is abstracted

- Prices, quantities and money are exact: f64 rounding, `QTY_EPSILON` dust and
  the `price_to_key` rounding are not modelled. The backtest draws quantities
  from 1 and 2 where the code draws from a continuous range.
- Time: timers expire at any moment; only the risk checker has a clock.
- The 1000-level limit of REST snapshots: a book is compared whole.
- `System` runs with the ping-pong strategy and with the kill switch at rest;
  `trading` moves the switch, `backtest` runs every strategy.
- Order ids are fresh in `Trading`; `backtest` covers repeating ones.
- The dashboard's account is the number of its fills, and the price the
  sampler marks the position at is left out.
- Log files, the executor's own counters, formatting, static pages.

Not modelled:

- `src/config.rs` parses a file into the values that are constants here;
  `src/metrics.rs` is a latency helper that no other code reads.
- Ctrl+C ends the process at once and nothing is persisted, so there is no
  recovery to model.
- Cancellation of the ingestion, which happens only together with that.

## 8. What is next

- The momentum strategy under the live loop: `Trading` and `System` run with
  ping-pong, while the theorems hold of every strategy.
- The part of `FlagSettles` that is safety: with no handler and no poll between
  its two steps and no command since the last poll, flag and file agree.
