# A verification of the Live Strategy Backtester

TLA+ modules that model the event bus, the trading components it connects, the
life of an `Application` and of the API server in front of it, the data
handlers, the report, and the analyses built on top; TLC configurations that
check them on small instances; and proofs, checked by TLAPS, of what matters
most for every instance. `PROJECT.json` maps each definition to the lines it
translates. Paths below are relative to the repository's `src/` and `include/`
directories.

## The system

One process holds an `Application` with its `EventBus`; an `APIServer`, which
`main.cpp` does not construct, can be put in front of it, and analyzers, which
it does not construct either, run many of them. Components talk only over the
bus: a producer's thread pushes an event on a queue, one dispatch thread pops
events and calls, in order of subscription, every callback registered for the
event's type; what a callback publishes goes to the end of the same queue.

| Component | State | Operations | Talks to |
|---|---|---|---|
| `core/EventBus` | queue and mutex, condition variable, running flag, subscriber lists and mutex, dispatch thread | `subscribe`, `publish`, `start`, `stop`, dispatch loop | everybody |
| `core/PortfolioManager` | cash, positions, trade log | `start` and `on_fill`, both publishing PORTFOLIO_UPDATE; `get_pnl_summary` | bus; read by the API |
| `strategy/StrategyManager`, `OrderBookImbalanceStrategy`, `BuyEveryTickStrategy` | strategies; thresholds and sentiment per strategy | on MARKET, ORDER_BOOK (publish SIGNAL), NEWS, MARKET_REGIME_CHANGED | bus |
| `risk/RiskManager`, `analytics/MLModelManager` | last prices; copies of equity and cash; a loaded model | on SIGNAL (publishes ORDER), MARKET, ORDER_BOOK, PORTFOLIO_UPDATE | bus |
| `execution/ExecutionHandler` | none | on ORDER (publishes FILL) | bus |
| `analytics/Analytics` | equity curve | on PORTFOLIO_UPDATE; `generate_report` | bus; read by the API |
| `core/Application` | running flag, thread, the components | `run`, `stop`, `run_backtest`, destructor, `main_loop`, report and P&L | constructs all of them |
| `data/HistoricCSVDataHandler` | flag, thread | `start`, `stop`, `run`: MARKET per row, then SYSTEM | bus |
| `data/WebSocketDataHandler` | io_context and its thread, WebSocket, buffer | `start`, `stop`, chain of completion handlers | bus, Boost |
| `data/NewsDataHandler` | word scores | `start`: NEWS per article; nothing constructs it | bus |
| `analytics/MarketRegimeDetector` | price window, last regime | on MARKET: MARKET_REGIME_CHANGED; nothing constructs it | bus |
| `api/APIServer` | io_context, thread | `start`, `stop`; `/start`, `/stop`, `/report`, `/pnl`, `/performance` | `Application`, on its own thread |
| `analytics/Optimizer`, `WalkForwardAnalyzer` | base configuration, results by key | a backtest per test configuration; both per period | fresh `Application`s |
| `analytics/MonteCarloSimulator` | trade returns, results | resampled paths, percentiles | a trade log |
| `utils/PerformanceMonitor`, `TimerGuard` | times per function, a mutex | record when a timed function is left, statistics, reset | every timed function; the API |
| `utils/Timer` | a start time | elapsed time | `TimerGuard` |
| `config/ConfigParser` | - | a file to a `Config` | all who read it |
| `core/Log` | - | output | - |

What is hard here:

- **Three to five threads** meet in the bus, whose `stop()` and loop condition
  work outside its mutex (`EventBus.cpp:50`, `:65`).
- **Everything is asynchronous.** RiskManager decides on copies of the portfolio
  that are refreshed by an event behind other events; a signal follows from a
  threshold and a sentiment that other events change; a quote and the signal it
  causes reach RiskManager by different ways.
- **Shutdown is a protocol**: who is joined first, who waits for whom without a
  timeout, what a thread that fails, or cannot be created, still owes the
  others, what is left of a run when the next one starts.
- **The server's thread is also the controller**: it starts and stops runs, waits
  for them, and reads without a lock what their threads write.
- **Bookkeeping** over sequences of opening, averaging, partly closing and
  over-closing fills of both directions, and a report that must agree with it.
- **Boundaries**: indices of percentiles, periods that must tile, numbers a
  configuration file does not give.

What makes each component correct, and where that is checked:

| Component | It is correct if | Property |
|---|---|---|
| EventBus | every event reaches every subscriber once and in order; a stop leaves nothing that was published before it; no publisher's wakeup is lost; stop returns | `ExactlyOnceInOrder`, `Broadcasts`, `Drained`, `EventuallyTaken`, `NoLostPublish`, `StopReturnsOrParked` (`StopReturns` fails) |
| PortfolioManager | units, cash and profit add up over any sequence of fills | `UnitsExplained`, `FlowExplained` (`PositionsMatchFills` fails) |
| Analytics | the equity gained is what the trades and fees say; the drawdown is the worst loss; the curve's last point is the portfolio's equity | `ReportAddsUp`, `DrawdownIsWorstLoss`, `ViewsCatchUp` |
| Strategies | a signal follows from the book, the news before it and the regime before it, and none that follows is missing | `SignalsJustified`, `NoSignalMissed` |
| RiskManager | a signal finds a price; an order is priced, sized and covered by what was published before its signal | `SignalHasPrice`, `OrdersJustified`, `ViewsCatchUp` (`NoOverdraft` fails) |
| ExecutionHandler | one fill per order, one update per fill, no improved price | `FillsMatchOrders` |
| Application, CSV reader | a finished run leaves no thread and no event; a backtest sees all rows; runs and stops end; the next run works | `QuietOnReturn`, `BacktestComplete`, `RunEnds`, `StopCompletes` (`ReportComplete`, `ProcessSurvives` fail) |
| APIServer | what it answers is true when it answers; a report begun at rest is not disturbed; stop returns | `StoppedIsQuiet`, `AtRestUndisturbed`, `ServerEnds` |
| WebSocketDataHandler | each book once and in order; stop returns; to its users it is a connection | `FeedsInOrder`, `StopReturnsUnlessRefused`, `IsConnection` (`StopReturns` fails) |
| NewsDataHandler | each headline before the first broken article once and in order | `FeedsInOrder` |
| MarketRegimeDetector | the regime last published is that of the latest prices | `RegimeKnown` |
| ConfigParser | a file with complete sections leaves nothing unset that is read | `NothingUnset` |
| WalkForwardAnalyzer, Optimizer | test periods follow one another without gap; the best is that of a best run; the analysis ends | `PeriodsTile`, `BestIsBest`, `WalkEnds` |
| MonteCarloSimulator, PerformanceMonitor | percentiles exist and rank as their names say | `OutcomesRank`, `LatenciesRank` |

## The modules

```
SerialBroadcast <--implements-- EventBus <-- MCEventBus
   ^    |                         |
   |    '- SerialBroadcastProofs <-- EventBusProofs
   implements
   |
Portfolio <-- TradingPipeline <-- MCTradingPipeline
   ^                ^
   |                '-- TradingPipelineProofs <-- PipelineViewsProofs
PortfolioLedger <-- PortfolioProofs
   ^
Reports --> Statistics      (<-- MCReports)

LiveFeed <-- Lifecycle <-- ApiServer
   ^                          ^---- ApplicationProofs
   '--implements-- WebSocketFeed, NewsDataHandler <-- Feeds <-- FeedsProofs, MCFeeds

ConfigParser <-- WalkForward \
Statistics <-- MonteCarlo     +-- Analyses <-- MCAnalyses
Statistics <-- PerformanceMonitor
RegimeDetector ---------------/

Analyses, Reports, PortfolioProofs <-- AnalysesProofs
```

Three contracts hold the parts together: **SerialBroadcast** is what components
rely on from the bus and EventBus implements; **LiveFeed** is what `main_loop()`
relies on from a live data handler and WebSocketFeed implements; the
**Application** that ApiServer calls is Lifecycle itself, of whose controller the
server's thread takes the place.

**SerialBroadcast** is the abstract bus: a log of events, a counter of those
begun, and the callbacks still owed the last one. No threads, locks or flags.

**EventBus** is `EventBus.cpp` at the granularity of critical sections. The queue
is the log `published` and the count `taken`. `dispatcher` is the dispatch
thread's place in `dispatch_loop()`: `loop` and `test_empty` are the two operands
of the loop condition, read one after the other without the mutex; `acquire` is
the wait predicate; `block` the moment between a false predicate and the
blocking, the only place where the thread holds `queue_mutex_` across steps;
`blocked`, `copy` (popped, list not yet copied) and `deliver`. `stop()` is three
steps, `publish()` two. A callback publishes a given sequence, and may throw
before any of its publications. `late`, `calls` and `joined` are history.

**Portfolio** is `on_fill()` as operators and one action, `OnFill`. A position
is a count of units, positive when long, with the cost basis of those units, in
place of the average entry price: in exact arithmetic they are the same, and the
basis stays an integer. **PortfolioLedger** feeds it any sequence of fills and
keeps double-entry books beside it. **Reports** adds the equity curve of
Analytics and `generate_report()` on the curve and the trade log; ratios are
pairs of integers, compared by cross-multiplication. **Statistics** holds the
computations on collected numbers: the one-pass drawdown, and percentiles of
samples, which are bags since the code sorts them first.

**TradingPipeline** is what `main_loop()` connects. The constructors subscribe
one callback after another in their order in the code (`Construct`);
`PortfolioStart` publishes the first update; then `Feed` is the data handler's
thread, which may publish between any two steps of the dispatch thread. `Call`
takes the next callback; loops over the strategies are one step per strategy,
since each publishes before the next is asked, and other threads publish in
between. NEWS and MARKET_REGIME_CHANGED are among the feed's events because
StrategyManager subscribes to them, although `Application` constructs neither
component that publishes them. Time and latency are left out: an event's place
in the log is all any handler's result depends on. Two things are recorded that
the code does not keep: a signal, order, fill or update names the event whose
callback published it (`cause`), and `calls` is what each callback was called
with. That the components use the bus as EventBus provides it is checked and
proved: `UsesBus` maps the pipeline's bus to `SerialBroadcast`, by the types of the
events in the log, and `EventBus` is shown to implement the same contract.

**Lifecycle** is `Application` with the threads it starts: the controller
(`main()`, an analysis, or the API's thread), `main_loop()` step by step, the
data handler's thread and the dispatch thread. The bus appears at the level of
its contract, plus the one thing that is visible of its threads: `missed`, that
the dispatch thread blocked just before `stop()`'s notification. The data
handler is the CSV reader, or in LIVE mode **LiveFeed**: a connection that is
made once, delivers messages, can be lost at any moment, and is closed by a
`stop()` that is refused as long as there is no connection. Starting a thread
may throw where `ThreadsFail` says so: then `main_loop()` leaves by its catch
clause, and what it had started stays. Whether the file opens and the run mode
are chosen initially. `process` records what the C++ runtime makes of an
assignment to a joinable `std::thread` ("terminated") and of a call through a
dangling `this` ("undefined"), after which nothing further is claimed. Callers
of `run_backtest()` use a fresh `Application`, hence its guard.

**ApiServer** extends Lifecycle with the server's thread: test of the io_context,
`accept()`, which only a client ends, reading, one of the five requests, the
answer. `/start` and `/stop` are Lifecycle's `Run` and `Stop`, and the handler of
`/stop` waits until the run's thread is joined. `/report` and `/pnl` take two
steps, between which `report` records whether anything they read was written
(the components replaced by `main_loop()`, or an event dispatched); if it was,
that is a data race, and `EndReport` may make the process "undefined". The owner
starts and stops the server, and commands the `Application` itself while none
runs.

**WebSocketFeed** is the chain of handlers of `WebSocketDataHandler` with
`stop()`'s three steps: the test, the dispatch of the close onto the io_context,
the close executed by its thread. Boost is what the module's header says it
assumes. Messages are confirmations, depth updates with and without a level of positive
quantity, other JSON and malformed JSON. **NewsDataHandler** is `start()` with the articles it publishes.
**Feeds** puts both side by side.

**ConfigParser** is `parse()` by where each member's value comes from: the file,
an initialiser of `Config.h`, the empty string, or nowhere ("unset"). Two
peculiarities of the JSON calls are kept: values are read into local variables
that are assigned whether or not they were found, and `find_field()` only looks
ahead. **WalkForward** takes a parsed file through the analyzer's loop over
periods and, in each, the optimizer's loop over test configurations; a member
that is unset is any of a set of values. **MonteCarlo** resamples a trade log
with any draws for the random ones. **PerformanceMonitor** records times and
ranks them. **RegimeDetector** is `MarketRegimeDetector`: the window of prices,
the deviation of returns and the two averages, and the publication of changes.
Returns are counted in units of a common multiple of the prices, so all
comparisons are exact; where doubles might not be (a value equal to its
threshold, a variance of zero that rounding makes negative, whose root is NaN)
both outcomes are steps. **Analyses** chooses one of these four, which no
`Application` contains and which share nothing, for one run of TLC.

## The runs

| Run | Question | Result |
|---|---|---|
| `event_bus` | Does the bus keep its contract, drain, lose no wakeup, and make progress? | holds |
| `event_bus_stop` | Does `stop()` always return? | no: a counterexample |
| `reports` | Do books and report balance over every sequence of fills, and is the drawdown the worst loss? | holds |
| `pipeline` | Are signals, orders, fills and cached views what the events published before call for, and is no signal missing? | holds |
| `pipeline_overclose` | Is a position the net of its fills? | no |
| `pipeline_overdraft` | Does RiskManager's check keep the cash non-negative? | no |
| `application` | Do runs end, quietly and with all rows seen, and are the server's answers true, however and by whom runs are started, stopped, broken or destroyed? | holds, but for the named excuses |
| `lifecycle_restart` | Does the process survive a second `run()`? | no |
| `lifecycle_optimizer` | Do the optimizer's runs see the data? | no |
| `feeds` | Are books and headlines passed on in order, does `stop()` return after a handshake, and is the handler what Lifecycle takes it for? | holds |
| `websocket_feed_stop` | Does `stop()` always return? | no |
| `analyses` | Are configurations complete, periods tiled, best results best, percentiles ranked and regimes known? | holds |

Bounds, and why they are enough:

- `event_bus`: two producers (one cannot race itself), one of which can be
  between push and notify while the other pushes; pushes while the log is
  shorter than 2, plus whatever the callbacks add; three callbacks of two types,
  one publishing the other's type; any number of restarts, subscriptions at any
  time. Every window in the code involves one dispatch thread, one publisher and
  the stopper. Progress is only checked for positions up to `2 * MaxPublished`,
  which the callbacks' publications do not exceed.
- `reports`: four fills of one or two units of two symbols, at two prices:
  enough to open, average, close partly, close more than there is, and to
  reverse; curves of up to five points, which rise, fall and recover.
- `pipeline`: three feed events from a set that contains a buying, a selling and
  an empty book, a price of a second symbol, news of both signs and both
  regimes, all of which may lie in the queue at once, before SYSTEM. Order
  minimums bind. Prices are such that slippage and commission divide exactly.
  Three events make a chain of two signals, orders, fills and updates overlap
  with a third event, and let two regimes or news precede a book. The selling
  book calls for selling under the raised threshold, and would not if it were
  raised twice; with full confidence the commission of one fill already changes
  the size of the next order. The two violations use the same configuration
  with two confidences.
- `application`: three rows or messages, the second malformed; three modes
  (WALK_FORWARD differs from OPTIMIZATION in no step); any thread may fail to
  start; two runs, the second of which is either never reached, ends the
  process, or uses destroyed components; any sequence of the owner's and the
  clients' requests that starts no third.
- `feeds`: three messages of five kinds, two starts, failures of every operation;
  three lists of articles: empty, one with an article without a title between
  good ones, and one with an article that throws there.
- `analyses`: files that have everything, or lack one field or section, or vary
  one value; up to seven periods, more than any of these files with a positive
  number of days leads to; an unset number is -1, 0 or 3; two thresholds that
  print alike. 0, 1, 19, 20, 21 and 40 simulations, on both sides of where 5 %
  is a whole number; up to 101 measured times, so that this happens for 99 % as
  well. Six prices, two more than the longest window; even, odd and minimal
  periods of the detector; a second `start()` of it.

Deadlock checking is off where the system may stop for good: the pipeline when
its feed is over, fills and analyses that reach their bound or end, an
application that was destroyed or whose process ended, a handler that was
stopped. The bus has no such state and is checked for it.

Fairness is that of the threads: a thread that can take a step eventually does
(weak fairness of `Dispatch`, of `Main`, `FileReader`, `Dispatcher`, of the io_context's
handlers, of the server's thread between its blocking calls, of the analyzer's
loop once it has begun), a join returns once its thread ended, a notification
follows its push. Nobody has to call `publish()`, `subscribe()`, `start()`,
`stop()` or `run()`; no client has to connect or send a request, and the server
of the live feed has to send nothing. A mutex is not fair, but the queue mutex
is held across steps only by the dispatch thread in `block`, which leaves it by
itself. A spurious wakeup is possible and never relied on. Of a connection only
this is assumed: a read on a closed stream completes.

## What is proved

For every value of the constants, from the assumptions the modules name. These
type the constants; beyond that they say that there are finitely many symbols
(`ReportsAssumption`, so that one can sum over them) and durations
(`MonitorAssumption`: the code measures in an `int64_t`), and that the detector's
unit is a multiple of its prices.

**SerialBroadcastProofs, EventBusProofs** (any event types, callbacks, producers,
publication patterns and length of the log):

- `TypeCorrect`, `GracefulStop` (`Drained`), `PublishNeverLost` (`NoLostPublish`);
- `ImplementsBroadcast`: `Spec => Contract!Spec`. Each step of the bus is mapped
  to `Post`, `Register`, `Begin`, `Call` or a stutter (`StepSimulates`);
- `OnceInOrder`, of the contract alone, and by it `CalledOnceInOrder`
  (`ExactlyOnceInOrder`) of the bus.

The bus's inductive invariant is `IInv`. `Drained` is not inductive by itself:
that `late` bounds the queue when the thread is gone follows from its having seen
the queue empty with the flag down (`ExitedEmpty`), which needs that the flag,
the controller and the dispatcher agree (`ThreadsAgree`). `NoLostPublish` needs
`BlocksOnEmpty`: the mutex, held from the predicate to the blocking, keeps
publishers out. `DispatchOwes` says that outside `deliver` nothing is owed, which
the refinement and `TypeOK` (no event is current before the first pop) rest on.
For `OnceInOrder`, `BroadcastInv` adds to the property that the lists hold each
callback once and under its own type (`MembersSorted`, `MembersDistinct`) and
that those still to be called were registered before the event was begun
(`PendingOwed`): then `Begin` changes what nobody is owed yet, and `Call` adds
the current event to what one callback is owed and has been given.

**PortfolioProofs** (any symbols, any fills with integer prices, any number of
them): `TypeCorrect` — among others, no position of zero units stays in the map —,
`UnitsBalance` (`UnitsExplained`) and `FlowBalance` (`FlowExplained`). Their
conjunction is inductive; the proof follows the branches of `on_fill()`, opening
(`OpenBalances`) and closing (`CloseBalances`), with `CloseBounds` for what
`std::min` leaves of a position. Reports changes nothing of the ledger.

**ApplicationProofs**, of Lifecycle (files of any length with any bad rows, any
number of runs, any modes and commands, threads failing or not): `TypeCorrect`,
`ReturnsQuietly` (`QuietOnReturn`) and `BacktestSeesAll` (`BacktestComplete`).

That a run returns quietly holds because of what was true before `main_loop()`
got to its end. `ReaderBelongs`: there is a reader only between its start and its
join. `BusServes`: from the bus's start to its join there is a dispatch thread,
which exits only over an empty queue with the flag down, so that after the join
the queue is empty; the reader being gone by then, nobody refills it.
`ThreadsAgree` ties `main`, `app_thread`, `controller` and `is_running` together,
which keeps a second `main_loop()` from starting beside the first.
`BacktestSeesAll` counts: `RowsCounted` says that the good rows read are those
seen plus those in the queue, and that SYSTEM in the queue, or the promise it
sets, means that the reader has come to the end of the file.

Of ApiServer (the same, with any owner and clients): `ApiTypeCorrect`,
`ServedQuietly` (the two properties above under the server), `StopAnswersTruly`
(`StoppedIsQuiet`) and `ReportsAtRest` (`AtRestUndisturbed`). A step of server and
owner is a step of Lifecycle's controller or none (`ApiStepIsStep`), so
Lifecycle's invariant carries over; `Serving` adds that the server's thread is
the controller while there is one. `StopAnswersTruly` then needs that between the
return of `stop()` and the answer nobody else can start a run, and that if there
was nothing to stop the run had already returned quietly; `ReportsAtRest`, that
nothing moves in an application at rest but by a command.

**FeedsProofs** (any number of messages, starts, articles): `FeedsTypeCorrect`,
`FeedsOrdered` (`FeedsInOrder`) and `ActsAsConnection`, the safety part of
`IsConnection`: initial states are LiveFeed's, and each step of the chain of
handlers is one of its steps or a stutter. It needs that the stream is
unconnected exactly as long as the attempt lasts (`AttemptsOnce`).

**TradingPipelineProofs** and **PipelineViewsProofs** (any symbols, strategies,
divisors and limits, and a feed of any length whose events have the fields of
`Event.h`):

- `PipelineUsesBus` (`UsesBus`): the pipeline implements the serial broadcast, and
  by it and `OnceInOrder`, `PipelineCalledInOrder`: each callback gets every event
  of its type once and in order, of the pipeline's own log;
- `PipelineTypeCorrect` (`TypeOK`), which types every field of every event: prices
  and quantities are positive, money is whole;
- `AlwaysPriced` (`SignalHasPrice`), `CopiesCatchUp` (`ViewsCatchUp`),
  `SignalsFollowTheLog` (`SignalsJustified`), `NoSignalIsMissed`
  (`NoSignalMissed`), `OrdersFollowTheLog` (`OrdersJustified`) and `ExecutedOnce` (`FillsMatchOrders`).

All stand on `BusInv`: every callback is subscribed to its own type, and
all of them before anything is published (`Wired`); those still to be called are
owed the current event (`PendingWired`); a loop over the strategies is over a
quote, and what else a callback is yet to publish is one event (`InCallback`).
`PipelineUsesBus` then goes through the actions as the bus sees them: each is a
registration, a publication, a beginning, a call, or nothing, the loop over the
strategies being one call and many publications. `PipelineTypeCorrect` carries
`TypeInv`, in which the books' types (from PortfolioProofs) and the messages'
need each other: a fill is of an order, an order of a price in the log, equity a
sum over positions. `AlwaysPriced` adds
that a handled quote has left a price, for good (`PricesKept`), and that a signal
is published after the quote that caused it (`SignalsCaused`): the bus begins the
signal when everyone has been called with the quote. `CopiesCatchUp` needs to know
what the last update says at every moment, not only at the end: unless another is
about to be published, it tells the portfolio as it is (`UpdatesTrue`), and each
copy is what the last update handled said (`RiskTold`, `AnalyticsTold`); with
nothing left to handle, the two updates are the same. For `SignalsFollowTheLog`,
thresholds and scores are related to the log at every event (`RegimesKnown`,
`NewsKnown`), including the moment between an event's beginning and its handler's
call; the property then follows for a new signal because no regime or news can be
begun while a book is handled, and stays true of old ones because the log only
grows at its end (`PastKept`).

`OrdersFollowTheLog` is about a decision taken on copies: RiskManager's prices
are the ones quoted last among the events begun, or, until it has been called
with the current event, among those before it (`PricesTrue`), and cash and equity are
those of the last update handled (`RiskTold`), of which there is one because PortfolioManager's
start comes before everything else (`FirstIsUpdate`). `OrdersKnown` says of the order
about to be published what `OrdersJustified` says of those in the log.
`ExecutedOnce` relates what is in the log to what is about to be: an order, fill
or update in the making is what the current event calls for, with no callback
left to make another (`ReactionDue`, from `Subscribed`: each of SIGNAL, ORDER and
FILL has one subscriber). So effects and causes stay in one-to-one order.
`NoSignalIsMissed` counts: at every moment there are as many signals of a quote
and direction as strategies that were asked about the quote and that the log
calls on for that direction (`Answered`). StrategyManager is called once with each
quote (`QuotesCalled`), a turn of its loop asks one strategy more (`TurnAsks`) and
publishes just what the log calls for (`TurnSignals`), and no other step asks any
(`AskedKept`).

**AnalysesProofs** (any files, ranges, Sharpe ratios, trades, draws, times and
prices; any symbols and fills):

- of the walk-forward analysis, `AnalyzerTypeCorrect`, `FilesSetEverything`
  (`NothingUnset`), `RangesTile` (`PeriodsTile`) and `BestIsFound` (`BestIsBest`). The
  invariant `WalkInv` says that the loop's current date is where the last period
  ended (`LoopAtLastPeriod`), and that the results are those of the test
  configurations so far, none overwritten if the keys differ (`ResultsCollected`);
- `PercentilesOfOutcomes` (`OutcomesRank`) and `PercentilesOfTimes`
  (`LatenciesRank`): what is collected is a bag of integers (`SimulatorInv`,
  `MonitorInv`), and `PercentilesRank` shows of any such bag that the value at the
  code's index has as many values below and above as the percentage says;
- `RegimeIsKnown` (`RegimeKnown`): the window holds the latest prices but the one
  `on_market_event()` is still to be called with, and a full window's regime is
  the current and the published one (`RegimeInv`). That the variance as the code
  computes it, n times the sum of squares less the square of the sum, is the sum
  of squared differences by which the property states it, is `VarianceIsSpread`;
- `AnalysesTypeCorrect` (`AnalysesTypeOK`), from all of these;
- of Analytics' report, `ReportsAddUp` (`ReportAddsUp`) and `DrawdownIsWorst`
  (`DrawdownIsWorstLoss`). `ReportInv` says that
  the curve runs from the capital to the equity, and that the cash moved and the
  profit logged are the sums of what the ledger has of each symbol; with
  `FlowBalance` of each symbol, `ReportsAddUp` is arithmetic of sums (`SumAdds`). For
  `DrawdownIsWorst`, the state of the one pass after each point is related to the
  points seen so far (`WorstSoFar`, `WorstStep`); fractions are compared by cross
  products, whose transitivity is `RatiosOrdered`.

Sums, bags and passes are folds of the community modules, which are defined by
recursion. The library's induction theorems cannot be used here, since they take
the predicate as a parameter; `SubsetInduction` and `NaturalInduction` take the
set of the good instead and are proved by a least counterexample, `FoldExists`
shows that the recursion has a solution, and `SumUnique` that it has one. What
holds of a fold (`SumRemove`, `SumUnion`, `SumChanges`, `CountsAddUp`,
`DrawdownSteps`, ...) is proved from these.

Only model-checked: liveness (`EventuallyTaken`, `StopReturnsOrParked`, `RunEnds`,
`StopCompletes`, `ServerEnds`, `StopReturnsUnlessRefused`, `WalkEnds`, and LiveFeed's
fairness in `IsConnection`), which the prover does not reach. Every invariant of
every passing run is proved.

## What the code does that its texts do not say

The violated properties are findings in `PROJECT.json`. Their common shape:

- `EventBus::stop()` lowers the flag and notifies without `queue_mutex_`
  (`EventBus.cpp:50`). In the window between a false predicate and the blocking
  the notification finds nobody waiting, and `join()` waits for ever. Taking the
  mutex around the store closes it.
- `on_fill()` moves cash for the whole of a closing fill, but drops the units
  beyond the position (`PortfolioManager.cpp:57`).
- The cash check (`RiskManager.cpp:109`) uses a copy that orders on their way have
  not reduced, and no costs: `cash_` can fall below zero.
- `run()` after a run that ended by itself (`Application.cpp:45`) ends the process,
  as does destroying such an application.
- `run_backtest()` in OPTIMIZATION or WALK_FORWARD mode stops the reader as soon
  as it is started (`:129`), since nothing raised `is_running_`.
- `WebSocketDataHandler::stop()` before the handshake is done closes nothing
  (`:38`); the connection is then completed and listened to while `join()` waits.

Met while modelling, without a run of their own:

- Equity with a short open adds `quantity * entry_price` to a cash that already
  holds the proceeds (`PortfolioManager.cpp:90`): opening one raises the equity by
  twice the value sold, less the commission. `EquityIsEarned` fails at the first
  short, which is why `ReportAddsUp` excludes them.
- After a `stop()`, the events of the next run go to callbacks of destroyed
  components too (`Application.cpp:89`), and to a lambda holding a reference to a promise that is
  gone (`:106`).
- A data file that cannot be opened ends the reader without the SYSTEM event
  (`HistoricCSVDataHandler.cpp:89`), so a backtest never ends, nor does a
  walk-forward analysis. This is one of the
  cases `Excused` names in `RunEnds` and `StopCompletes`.
- Order books of the live handler are differences, of which the removals are
  skipped (`WebSocketDataHandler.cpp:163`), published as whole books, although
  `DataTypes.h:29` calls an `OrderBook` "a full snapshot of the order book". What a
  book of the feed contains is not in the model.
- An odd `trend_period` makes `MarketRegimeDetector.cpp:57` sum one price more than
  it divides by: flat prices count as TRENDING_DOWN. `RegimeKnown` excludes it.
- The optimizer keys its results by what is printed of the first strategy's
  threshold, whichever strategy is optimised (`Optimizer.cpp:46`): if it is another,
  or thresholds print alike, results overwrite one another, and without any strategy
  the read is out of bounds. `BestIsBest` excludes these cases.
- If a thread cannot be created, `main_loop()` leaves the bus running and its
  dispatch thread behind (`Application.cpp:144`), and a `run()` that fails leaves
  `is_running_` up with no run. `QuietOnReturn` and `StoppedIsQuiet` exclude runs
  that threw.
- Nothing restarts the io_context of a `WebSocketDataHandler`: after the first
  `stop()` its next `start()` runs no handler. `WebSocketFeed` passes through it.
- The API server, started again after a `stop()`, accepts nothing, its io_context
  being stopped for good; and `stop()` does not interrupt `accept()`
  (`APIServer.cpp:41`): it returns when another client has come. `ServerEnds` says
  what remains.
- A backtest of the CSV file publishes MARKET events only, to which the one
  strategy `main_loop()` builds does not react: it cannot trade.
- A `MarketRegimeDetector` started twice is subscribed twice, and takes every
  price twice.
- `profit_factor` is 0, not infinite, if no trade lost; a trade that breaks even
  counts as lost (`Analytics.cpp:85`, `:97`).
- A `use_dynamic_sizing` written before `risk_per_trade_pct` is overlooked
  (`ConfigParser.cpp:60`), and a strategy whose `params` lack `lookback_levels` gets an
  indeterminate one in place of the default (`:103`): `NothingUnset` speaks of complete
  sections.
- `out_of_sample_days = 0`, or none given, never ends the walk-forward analysis
  (`WalkForwardAnalyzer.cpp:79`); no period at all makes its average 0/0 (`:88`).

## Not modelled, and the plan

Modelled: every component but `core/Log`, which is output only, and `utils/Timer`,
which only reads the clock: a measured time is any of a set.

Left out of the components that are modelled:

- the values of the Sharpe and Sortino ratios (only whether they are reported),
  and the averages and drawdowns that the Monte Carlo simulation also prints:
  sums and roots of floating-point numbers, of which no text promises more than
  their formulas;
- floating-point rounding throughout: all arithmetic is exact, with both outcomes
  allowed at the regime detector's thresholds, where it might matter;
- random numbers, which are any of the set they are drawn from;
- JSON and CSV syntax, which simdjson and `std::stod` decide: a message, row or
  file is of a kind;
- the time on clocks and the latencies made of it; logging; how answers are
  written out.

Next, in this order:

1. The steps on which the liveness properties rest, as action properties and
   invariants that can be proved: that a run's threads are joined in an order in
   which the one waited for is never waiting itself.
2. The pipeline over an unbounded feed without `MaxFeed`, and larger instances of
   it, with two imbalance strategies of one symbol.
3. What the violated properties become with the fix each finding suggests.
