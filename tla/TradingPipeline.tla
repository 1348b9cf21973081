--------------------------- MODULE TradingPipeline ---------------------------
(***************************************************************************)
(* The components that Application::main_loop() connects over the event    *)
(* bus: StrategyManager and its strategies, PortfolioManager (module       *)
(* Portfolio), RiskManager, ExecutionHandler and Analytics.  A data        *)
(* handler's thread publishes market events at any time; the dispatch      *)
(* thread runs one callback after the other, and what a callback publishes *)
(* goes to the end of the log.                                             *)
(*                                                                         *)
(* Quantities are whole lots and money whole units: sizes are rounded down *)
(* to a lot.  A book is its best bid, 0 if it has no bids, and the volumes *)
(* summed over the levels a strategy looks at; sentiment counts halves,    *)
(* thresholds tenths.                                                      *)
(***************************************************************************)
EXTENDS Portfolio

CONSTANTS
  Strategies,     (* strategies_, a sequence of [kind, symbol, threshold]    *)
  FeedEvents,     (* what the data handler may publish, except SYSTEM        *)
  MaxFeed,        (* how many of those it publishes before it ends           *)
  RiskDivisor,    (* risk_per_trade_pct is 1 / RiskDivisor                   *)
  ModelLoaded,    (* there is a model path, so start() loads the model       *)
  Confidences,    (* percentages a loaded model may return                   *)
  MinQuantity,    (* MIN_BTC_QUANTITY, in lots                               *)
  MinOrderValue,  (* MIN_ORDER_VALUE                                         *)
  SlippageDivisor,    (* slippage_pct is 1 / SlippageDivisor                 *)
  CommissionDivisor   (* commission_pct is 1 / CommissionDivisor             *)

(* Events of the types a data handler publishes. *)
MarketEvents == [type : {"MARKET"}, symbol : Symbols, price : Nat \ {0}]
OrderBookEvents == [type : {"ORDER_BOOK"}, symbol : Symbols,
                    best_bid : Nat, bids : Nat, asks : Nat]
NewsEvents == [type : {"NEWS"}, symbol : Symbols, sentiment : -2 .. 2]
MarketRegimeChangedEvents == [type : {"MARKET_REGIME_CHANGED"},
                              volatility : {"LOW", "NORMAL", "HIGH"}]

ASSUME PipelineAssumption ==
  /\ \A e \in FeedEvents : \/ e \in MarketEvents \/ e \in OrderBookEvents
                            \/ e \in NewsEvents \/ e \in MarketRegimeChangedEvents
  /\ Strategies \in Seq([kind : {"every_tick", "imbalance"}, symbol : Symbols,
                         threshold : Nat])
  /\ MaxFeed \in Nat
  /\ ModelLoaded \in BOOLEAN
  /\ Confidences \subseteq 50 .. 100
  /\ {RiskDivisor, MinQuantity, MinOrderValue, SlippageDivisor, CommissionDivisor}
       \subseteq Nat \ {0}

VARIABLES
  built,          (* subscriptions made by the constructors so far           *)
  members,        (* subscribers_ of the bus                                 *)
  log,            (* every event published                                   *)
  begun,          (* events whose dispatch has begun                         *)
  pending,        (* callbacks the current event has yet to reach            *)
  loop,           (* strategy a StrategyManager loop is at, 0 outside        *)
  reaction,       (* what the callback being run has yet to publish          *)
  calls,          (* history: per callback, the events it was called with    *)
  thresholds,     (* current_imbalance_threshold_, per strategy              *)
  sentiment_scores,   (* per strategy, a map from symbols                    *)
  latest_prices,  (* RiskManager: a map from symbols                         *)
  latest_equity,  (* RiskManager                                             *)
  latest_cash,    (* RiskManager                                             *)
  equity_curve,   (* Analytics                                               *)
  completed       (* the promise that ends a backtest is set                 *)

bus_vars == <<built, members, begun>>
call_vars == <<pending, loop, reaction, calls>>
strategy_vars == <<thresholds, sentiment_scores>>
risk_vars == <<latest_prices, latest_equity, latest_cash>>
report_vars == <<equity_curve, completed>>
vars == <<portfolio_vars, bus_vars, log, call_vars, strategy_vars, risk_vars,
          report_vars>>

EventTypes == {"MARKET", "ORDER_BOOK", "SIGNAL", "ORDER", "FILL", "PORTFOLIO_UPDATE",
               "NEWS", "MARKET_REGIME_CHANGED", "SYSTEM"}

(* The callbacks, in the order the constructors in main_loop() subscribe   *)
(* them.                                                                   *)
Subscriptions == <<
  [callback |-> "StrategyManager.on_market_event", type |-> "MARKET"],
  [callback |-> "StrategyManager.on_order_book_event", type |-> "ORDER_BOOK"],
  [callback |-> "StrategyManager.on_news_event", type |-> "NEWS"],
  [callback |-> "StrategyManager.on_market_regime_event",
   type |-> "MARKET_REGIME_CHANGED"],
  [callback |-> "PortfolioManager.on_fill", type |-> "FILL"],
  [callback |-> "RiskManager.on_signal", type |-> "SIGNAL"],
  [callback |-> "RiskManager.on_market", type |-> "MARKET"],
  [callback |-> "RiskManager.on_portfolio_update", type |-> "PORTFOLIO_UPDATE"],
  [callback |-> "RiskManager.on_order_book", type |-> "ORDER_BOOK"],
  [callback |-> "ExecutionHandler.on_order", type |-> "ORDER"],
  [callback |-> "Analytics.on_portfolio_update", type |-> "PORTFOLIO_UPDATE"],
  [callback |-> "Application.on_system", type |-> "SYSTEM"] >>

CallbacksOf(subs) == {subs[i].callback : i \in DOMAIN subs}

Started == built > Len(Subscriptions)

Current == log[begun]
StrategyIds == DOMAIN Strategies
Imbalance(i) == Strategies[i].kind = "imbalance"

Init == /\ PortfolioInit
        /\ built = 0
        /\ members = [t \in EventTypes |-> <<>>]
        /\ log = <<>>
        /\ begun = 0
        /\ pending = <<>>
        /\ loop = 0
        /\ reaction = <<>>
        /\ calls = [c \in CallbacksOf(Subscriptions) |-> <<>>]
        /\ thresholds = [i \in StrategyIds |-> Strategies[i].threshold]
        /\ sentiment_scores = [i \in StrategyIds |-> <<>>]
        /\ latest_prices = <<>>
        /\ latest_equity = InitialCapital
        /\ latest_cash = InitialCapital
        /\ equity_curve = <<>>
        /\ completed = FALSE

(* A std::map after an assignment to one key. *)
Put(map, key, value) ==
  [k \in DOMAIN map \cup {key} |-> IF k = key THEN value ELSE map[k]]

Publish(e) == log' = Append(log, e)

(* What events a callback publishes came of is kept as history: `cause', a *)
(* position in the log, 0 for what PortfolioManager::start() publishes.    *)
PortfolioUpdate(cause) == [type |-> "PORTFOLIO_UPDATE", total_equity |-> TotalEquity,
                           cash |-> cash, cause |-> cause]
-----------------------------------------------------------------------------
(* A component's constructor subscribes its next callback. *)
Construct ==
  /\ built < Len(Subscriptions)
  /\ LET s == Subscriptions[built + 1]
     IN members' = [members EXCEPT ![s.type] = Append(@, s.callback)]
  /\ built' = built + 1
  /\ UNCHANGED <<portfolio_vars, begun, log, call_vars, strategy_vars, risk_vars,
                 report_vars>>

(* PortfolioManager::start(). *)
PortfolioStart ==
  /\ built = Len(Subscriptions)
  /\ built' = built + 1
  /\ Publish([type |-> "PORTFOLIO_UPDATE", total_equity |-> InitialCapital,
              cash |-> cash, cause |-> 0])
  /\ UNCHANGED <<portfolio_vars, members, begun, call_vars, strategy_vars, risk_vars,
                 report_vars>>

FeedTypes == {"MARKET", "ORDER_BOOK", "NEWS", "MARKET_REGIME_CHANGED"}
FeedEnded == \E i \in DOMAIN log : log[i].type = "SYSTEM"

(* The data handler's thread; the CSV reader ends with SYSTEM. *)
Feed ==
  /\ Started
  /\ ~ FeedEnded
  /\ IF Cardinality({i \in DOMAIN log : log[i].type \in FeedTypes}) < MaxFeed
     THEN \E e \in FeedEvents : Publish(e)
     ELSE Publish([type |-> "SYSTEM"])
  /\ UNCHANGED <<portfolio_vars, bus_vars, call_vars, strategy_vars, risk_vars,
                 report_vars>>

(* The dispatch thread is between two callbacks. *)
Returned == loop = 0 /\ reaction = <<>>

(* Mutant of Begin: the next event is begun before the last reached all.   *)
BeginEarly ==
  /\ Returned
  /\ begun < Len(log)
  /\ begun' = begun + 1
  /\ pending' = members[log[begun + 1].type]
  /\ UNCHANGED <<portfolio_vars, built, members, log, loop, reaction, calls,
                 strategy_vars, risk_vars, report_vars>>

(* The bus pops the next event once every callback of the last returned. *)
Begin ==
  /\ Returned
  /\ pending = <<>>
  /\ begun < Len(log)
  /\ begun' = begun + 1
  /\ pending' = members[log[begun + 1].type]
  /\ UNCHANGED <<portfolio_vars, built, members, log, loop, reaction, calls,
                 strategy_vars, risk_vars, report_vars>>

(* The bus calls a callback. *)
Call(callback) ==
  /\ Returned
  /\ pending # <<>>
  /\ Head(pending) = callback
  /\ pending' = Tail(pending)
  /\ calls' = [calls EXCEPT ![callback] = Append(@, begun)]
  /\ UNCHANGED <<bus_vars, log>>

(* The callback publishes what it computed, and returns. *)
PublishReaction ==
  /\ reaction # <<>>
  /\ Publish(Head(reaction))
  /\ reaction' = Tail(reaction)
  /\ UNCHANGED <<portfolio_vars, bus_vars, pending, loop, calls, strategy_vars,
                 risk_vars, report_vars>>

ReturnsSilently == UNCHANGED <<loop, reaction>>
Reacts(e) == reaction' = <<e>> /\ UNCHANGED loop
-----------------------------------------------------------------------------
(* StrategyManager: on_market_event() and on_order_book_event() loop over  *)
(* the strategies and publish each one's signal before asking the next.    *)
EnterLoop ==
  /\ \/ Call("StrategyManager.on_market_event")
     \/ Call("StrategyManager.on_order_book_event")
  /\ loop' = IF Strategies = <<>> THEN 0 ELSE 1
  /\ UNCHANGED <<portfolio_vars, reaction, strategy_vars, risk_vars, report_vars>>

(* BuyEveryTickStrategy::calculate_signal() buys; the imbalance strategy's *)
(* returns nothing.                                                        *)
MarketSignals(i, e) == IF Imbalance(i) THEN {}
                       ELSE {[symbol |-> e.symbol, direction |-> "BUY"]}

(* Mutant of SentimentOf: the news are stored but not looked up. *)
SentimentUnread(i) == 0

SentimentOf(i) == LET s == Strategies[i].symbol IN
  IF s \in DOMAIN sentiment_scores[i] THEN sentiment_scores[i][s] ELSE 0

(* calculate_signal_from_order_book(), asked of imbalance strategies only. *)
BookSignals(i, e) ==
  LET buy  == e.bids * 10 > thresholds[i] * e.asks
      sell == ~ buy /\ e.bids * thresholds[i] < 10 * e.asks
  IN {[symbol |-> e.symbol, direction |-> d] : d \in
        {d \in Directions :
           /\ Imbalance(i)
           /\ e.symbol = Strategies[i].symbol
           /\ e.best_bid > 0 /\ e.asks > 0
           /\ d = "BUY" => buy /\ SentimentOf(i) >= -1
           /\ d = "SELL" => sell /\ SentimentOf(i) <= 1}}

(* One turn of the loop. *)
Evaluate ==
  /\ loop > 0
  /\ LET signals == IF Current.type = "MARKET" THEN MarketSignals(loop, Current)
                                               ELSE BookSignals(loop, Current)
     IN IF signals = {} THEN UNCHANGED log
        ELSE \E s \in signals :
               Publish([type |-> "SIGNAL", symbol |-> s.symbol,
                        direction |-> s.direction, cause |-> begun])
  /\ loop' = IF loop = Len(Strategies) THEN 0 ELSE loop + 1
  /\ UNCHANGED <<portfolio_vars, bus_vars, pending, reaction, calls, strategy_vars,
                 risk_vars, report_vars>>

OnNews ==
  /\ Call("StrategyManager.on_news_event")
  /\ sentiment_scores' = [i \in StrategyIds |->
       IF Imbalance(i) THEN Put(sentiment_scores[i], Current.symbol, Current.sentiment)
                       ELSE sentiment_scores[i]]
  /\ ReturnsSilently
  /\ UNCHANGED <<portfolio_vars, thresholds, risk_vars, report_vars>>

(* Mutant of OnMarketRegime: a second HIGH raises the raised threshold.     *)
RegimeCompounds ==
  /\ Call("StrategyManager.on_market_regime_event")
  /\ thresholds' = [i \in StrategyIds |->
       IF Imbalance(i) /\ Current.volatility = "HIGH"
       THEN (thresholds[i] * 3) \div 2
       ELSE Strategies[i].threshold]
  /\ ReturnsSilently
  /\ UNCHANGED <<portfolio_vars, sentiment_scores, risk_vars, report_vars>>

OnMarketRegime ==
  /\ Call("StrategyManager.on_market_regime_event")
  /\ thresholds' = [i \in StrategyIds |->
       IF Imbalance(i) /\ Current.volatility = "HIGH"
       THEN (Strategies[i].threshold * 3) \div 2
       ELSE Strategies[i].threshold]
  /\ ReturnsSilently
  /\ UNCHANGED <<portfolio_vars, sentiment_scores, risk_vars, report_vars>>
-----------------------------------------------------------------------------
(* RiskManager *)
RiskOnMarket ==
  /\ Call("RiskManager.on_market")
  /\ latest_prices' = Put(latest_prices, Current.symbol, Current.price)
  /\ ReturnsSilently
  /\ UNCHANGED <<portfolio_vars, strategy_vars, latest_equity, latest_cash,
                 report_vars>>

(* Mutant of RiskOnOrderBook: only MARKET events give RiskManager a price. *)
RiskIgnoresBooks ==
  /\ Call("RiskManager.on_order_book")
  /\ ReturnsSilently
  /\ UNCHANGED <<portfolio_vars, strategy_vars, risk_vars, report_vars>>

(* The best bid is the price; a book without bids leaves it. *)
RiskOnOrderBook ==
  /\ Call("RiskManager.on_order_book")
  /\ latest_prices' = IF Current.best_bid = 0 THEN latest_prices
                      ELSE Put(latest_prices, Current.symbol, Current.best_bid)
  /\ ReturnsSilently
  /\ UNCHANGED <<portfolio_vars, strategy_vars, latest_equity, latest_cash,
                 report_vars>>

(* Mutant of RiskOnPortfolioUpdate: the equity is not refreshed. *)
RiskKeepsEquity ==
  /\ Call("RiskManager.on_portfolio_update")
  /\ latest_cash' = Current.cash
  /\ ReturnsSilently
  /\ UNCHANGED <<portfolio_vars, strategy_vars, latest_prices, latest_equity, report_vars>>

RiskOnPortfolioUpdate ==
  /\ Call("RiskManager.on_portfolio_update")
  /\ latest_equity' = Current.total_equity
  /\ latest_cash' = Current.cash
  /\ ReturnsSilently
  /\ UNCHANGED <<portfolio_vars, strategy_vars, latest_prices, report_vars>>

(* get_trade_confidence(), random.  MLModelManager is started before the   *)
(* data handler, and so before any signal.                                 *)
TradeConfidence == IF ModelLoaded THEN Confidences ELSE {100}

(* The quantity for an equity, a price and a confidence, raised to the     *)
(* minimum quantity and then to the minimum value.                         *)
OrderQuantity(equity, price, confidence) ==
  LET raw == (equity * confidence) \div (RiskDivisor * 100 * price)
      quantity == Max({raw, MinQuantity})
  IN IF quantity * price < MinOrderValue THEN MinOrderValue \div price ELSE quantity

(* on_signal(): rejected without a price or without the cash, counted in   *)
(* RiskManager's copy; a SELL needs the cash as much as a BUY.             *)
RiskOnSignal ==
  /\ Call("RiskManager.on_signal")
  /\ IF Current.symbol \notin DOMAIN latest_prices THEN ReturnsSilently
     ELSE \E confidence \in TradeConfidence :
       LET price == latest_prices[Current.symbol]
           quantity == OrderQuantity(latest_equity, price, confidence)
       IN IF quantity <= 0 \/ quantity * price > latest_cash THEN ReturnsSilently
          ELSE Reacts([type |-> "ORDER", symbol |-> Current.symbol,
                        direction |-> Current.direction, quantity |-> quantity,
                        market_price |-> price, cause |-> begun])
  /\ UNCHANGED <<portfolio_vars, strategy_vars, risk_vars, report_vars>>
-----------------------------------------------------------------------------
(* Mutant of FillPrice: slippage raises the price of sells too. *)
SlippedUpwards(o) == o.market_price + o.market_price \div SlippageDivisor

(* ExecutionHandler::on_order(): a simulated fill, slipped against the     *)
(* trader.                                                                 *)
FillPrice(o) == LET slippage == o.market_price \div SlippageDivisor IN
  IF o.direction = "BUY" THEN o.market_price + slippage ELSE o.market_price - slippage

OnOrder ==
  /\ Call("ExecutionHandler.on_order")
  /\ Reacts([type |-> "FILL", symbol |-> Current.symbol,
             direction |-> Current.direction, quantity |-> Current.quantity,
             fill_price |-> FillPrice(Current),
             commission |-> (FillPrice(Current) * Current.quantity)
                               \div CommissionDivisor,
             cause |-> begun])
  /\ UNCHANGED <<portfolio_vars, strategy_vars, risk_vars, report_vars>>

(* Mutant of PortfolioOnFill: the update tells the state before the fill.  *)
UpdateBeforeFill ==
  /\ Call("PortfolioManager.on_fill")
  /\ OnFill(Current)
  /\ Reacts(PortfolioUpdate(begun))
  /\ UNCHANGED <<strategy_vars, risk_vars, report_vars>>

(* PortfolioManager::on_fill() publishes the new state. *)
PortfolioOnFill ==
  /\ Call("PortfolioManager.on_fill")
  /\ OnFill(Current)
  /\ Reacts(PortfolioUpdate(begun)')
  /\ UNCHANGED <<strategy_vars, risk_vars, report_vars>>

AnalyticsOnPortfolioUpdate ==
  /\ Call("Analytics.on_portfolio_update")
  /\ equity_curve' = Append(equity_curve, Current.total_equity)
  /\ ReturnsSilently
  /\ UNCHANGED <<portfolio_vars, strategy_vars, risk_vars, completed>>

(* The lambda main_loop() subscribes: it fulfils the promise. *)
OnSystem ==
  /\ Call("Application.on_system")
  /\ completed' = TRUE
  /\ ReturnsSilently
  /\ UNCHANGED <<portfolio_vars, strategy_vars, risk_vars, equity_curve>>

Next == \/ Construct \/ PortfolioStart \/ Feed
        \/ Begin \/ PublishReaction
        \/ EnterLoop \/ Evaluate \/ OnNews \/ OnMarketRegime
        \/ RiskOnMarket \/ RiskOnOrderBook \/ RiskOnPortfolioUpdate \/ RiskOnSignal
        \/ OnOrder \/ PortfolioOnFill
        \/ AnalyticsOnPortfolioUpdate \/ OnSystem

Spec == Init /\ [][Next]_vars
-----------------------------------------------------------------------------
(* What the components publish. *)
SignalEvents == [type : {"SIGNAL"}, symbol : Symbols, direction : Directions, cause : Nat]
OrderEvents == [type : {"ORDER"}, symbol : Symbols, direction : Directions,
                quantity : Nat \ {0}, market_price : Nat \ {0}, cause : Nat]
PublishedFills == [type : {"FILL"}, symbol : Symbols, direction : Directions,
                   quantity : Nat \ {0}, fill_price : Nat, commission : Nat, cause : Nat]
PortfolioUpdates == [type : {"PORTFOLIO_UPDATE"}, total_equity : Int, cash : Int, cause : Nat]
Reactions == OrderEvents \cup PublishedFills \cup PortfolioUpdates
Events == FeedEvents \cup SignalEvents \cup Reactions \cup {[type |-> "SYSTEM"]}

TypeOK ==
  /\ PortfolioTypeOK
  /\ built \in 0 .. Len(Subscriptions) + 1
  /\ members \in [EventTypes -> Seq(CallbacksOf(Subscriptions))]
  /\ log \in Seq(Events)
  /\ begun \in 0 .. Len(log)
  /\ pending \in Seq(CallbacksOf(Subscriptions))
  /\ loop \in 0 .. Len(Strategies)
  /\ reaction \in Seq(Reactions)
  /\ calls \in [CallbacksOf(Subscriptions) -> Seq(Nat)]
  /\ thresholds \in [StrategyIds -> Nat]
  /\ DOMAIN sentiment_scores = StrategyIds
  /\ \A i \in StrategyIds : \A s \in DOMAIN sentiment_scores[i] :
       sentiment_scores[i][s] \in -2 .. 2
  /\ \A s \in DOMAIN latest_prices : latest_prices[s] \in Nat \ {0}
  /\ {latest_equity, latest_cash} \subseteq Int
  /\ equity_curve \in Seq(Int)
  /\ completed \in BOOLEAN

(* Positions before n of the events of a type that satisfy P, and the last *)
(* of them.                                                                *)
Before(n, P(_)) == {j \in 1 .. n - 1 : P(log[j])}
Last(positionset) == log[Max(positionset)]

(* What the log says, for an order book or signal at position n. *)
HighVolatility(n) ==
  LET regimes == Before(n, LAMBDA e : e.type = "MARKET_REGIME_CHANGED")
  IN regimes # {} /\ Last(regimes).volatility = "HIGH"
Sentiment(n, s) ==
  LET news == Before(n, LAMBDA e : e.type = "NEWS" /\ e.symbol = s)
  IN IF news = {} THEN 0 ELSE Last(news).sentiment
Quotes(n, s) == Before(n, LAMBDA e : \/ e.type = "MARKET" /\ e.symbol = s
                                     \/ e.type = "ORDER_BOOK" /\ e.symbol = s /\ e.best_bid > 0)
Quote(n, s) == LET q == Last(Quotes(n, s))
               IN IF q.type = "MARKET" THEN q.price ELSE q.best_bid

(* Every signal an imbalance strategy publishes follows from the book it   *)
(* was computed from and from the news and the regime published before     *)
(* that book, no matter what was published since: a buy needs bids above   *)
(* the threshold (raised by half under high volatility) and no strongly    *)
(* negative news, a sell the mirror image.                                 *)
SignalsJustified ==
  \A i \in DOMAIN log : log[i].type = "SIGNAL" =>
    LET n == log[i].cause
        book == log[n]
    IN book.type = "ORDER_BOOK" =>
         \E k \in StrategyIds :
           LET base == Strategies[k].threshold
               t == IF HighVolatility(n) THEN (base * 3) \div 2 ELSE base
           IN /\ Imbalance(k)
              /\ Strategies[k].symbol = log[i].symbol
              /\ IF log[i].direction = "BUY"
                 THEN 10 * book.bids > t * book.asks /\ Sentiment(n, book.symbol) > -2
                 ELSE t * book.bids < 10 * book.asks /\ Sentiment(n, book.symbol) < 2

(* RiskManager never has to reject a signal for want of a price: whatever  *)
(* made a strategy signal also reached RiskManager before the signal does, *)
(* although StrategyManager is called first.                               *)
SignalHasPrice ==
  Started /\ pending # <<>> /\ Head(pending) = "RiskManager.on_signal" =>
    Current.symbol \in DOMAIN latest_prices

(* Every order was sized by the equity last published before its signal    *)
(* and priced at the last quote published before its signal, whatever was  *)
(* published since: worth at least the minimum, but for what falls short   *)
(* of a lot, and no more than the cash known then.                         *)
OrderJustified(order) ==
  LET n == order.cause
      update == Last(Before(n, LAMBDA e : e.type = "PORTFOLIO_UPDATE"))
      value == order.quantity * order.market_price
  IN /\ log[n].type = "SIGNAL"
     /\ order.symbol = log[n].symbol /\ order.direction = log[n].direction
     /\ Quotes(n, order.symbol) # {} /\ order.market_price = Quote(n, order.symbol)
     /\ \E confidence \in TradeConfidence :
          order.quantity = OrderQuantity(update.total_equity, order.market_price, confidence)
     /\ value >= MinOrderValue - (MinOrderValue % order.market_price)
     /\ value <= update.cash
OrdersJustified == \A i \in DOMAIN log : log[i].type = "ORDER" => OrderJustified(log[i])

(* The events every callback of which has returned. *)
HandledEvents == IF Returned /\ pending = <<>> THEN 1 .. begun ELSE 1 .. begun - 1

(* Events of a type that came of another, one for each and in the same     *)
(* order.                                                                  *)
Effects(type) == {i \in DOMAIN log : log[i].type = type /\ log[i].cause # 0}
CameOf(type, cause) ==
  /\ \A i \in Effects(type) : log[i].cause \in HandledEvents /\ log[log[i].cause].type = cause
  /\ \A i, j \in Effects(type) : i < j => log[i].cause < log[j].cause
AllCaused(cause, type) ==
  \A n \in HandledEvents : log[n].type = cause => \E i \in Effects(type) : log[i].cause = n

(* Execution is exactly once: no signal is ordered twice; the fills are    *)
(* those of the orders whose dispatch has ended, one each and in order,    *)
(* never at a better price than the order's; and every fill handled is     *)
(* followed by one update, in order, after the first.                      *)
FillsMatchOrders ==
  /\ CameOf("ORDER", "SIGNAL")
  /\ CameOf("FILL", "ORDER") /\ AllCaused("ORDER", "FILL")
  /\ \A i \in Effects("FILL") :
       LET fill == log[i]
           order == log[fill.cause]
       IN /\ fill.symbol = order.symbol
          /\ fill.direction = order.direction
          /\ fill.quantity = order.quantity
          /\ Signed(fill.direction, fill.fill_price - order.market_price) >= 0
  /\ CameOf("PORTFOLIO_UPDATE", "FILL") /\ AllCaused("FILL", "PORTFOLIO_UPDATE")
  /\ \A i \in DOMAIN log : log[i].type \in {"ORDER", "FILL"} \/
                            (log[i].type = "PORTFOLIO_UPDATE" /\ i > 1) => log[i].cause # 0

(* Whether strategy k is to signal a direction for the market event or     *)
(* book at position n, by the news and regimes published before it.        *)
CallsFor(k, n, direction) ==
  LET e == log[n]
      base == Strategies[k].threshold
      t == IF HighVolatility(n) THEN (base * 3) \div 2 ELSE base
      buy == 10 * e.bids > t * e.asks
  IN \/ e.type = "MARKET" /\ ~ Imbalance(k) /\ direction = "BUY"
     \/ /\ e.type = "ORDER_BOOK" /\ Imbalance(k) /\ Strategies[k].symbol = e.symbol
        /\ e.best_bid > 0 /\ e.asks > 0
        /\ \/ direction = "BUY" /\ buy /\ Sentiment(n, e.symbol) > -2
           \/ /\ direction = "SELL" /\ ~ buy /\ t * e.bids < 10 * e.asks
              /\ Sentiment(n, e.symbol) < 2

(* No opportunity is missed and none is taken twice: once a market event   *)
(* or a book is handled, there is a signal of each direction for every     *)
(* strategy that was to give one, so that no regime leaves a threshold     *)
(* raised for longer than it lasts or by more than a half.                 *)
SignalsOf(n, direction) ==
  {i \in Effects("SIGNAL") : log[i].cause = n /\ log[i].direction = direction}
NoSignalMissed ==
  \A n \in HandledEvents, direction \in Directions :
    Cardinality(SignalsOf(n, direction)) =
      Cardinality({k \in StrategyIds : CallsFor(k, n, direction)})

(* RiskManager's and Analytics' copies are never wrong for good: whenever  *)
(* no fill and no update is on its way, they agree with the portfolio.     *)
ViewsCatchUp ==
  (/\ Started /\ Returned
   /\ pending = <<>>
   /\ \A i \in begun + 1 .. Len(log) : log[i].type \notin {"FILL", "PORTFOLIO_UPDATE"})
  => /\ latest_cash = cash
     /\ latest_equity = TotalEquity
     /\ equity_curve # <<>> /\ equity_curve[Len(equity_curve)] = TotalEquity

(* The components see the bus as the serial broadcast that EventBus is     *)
(* shown to be.                                                            *)
TypeOfCallback ==
  [c \in CallbacksOf(Subscriptions) |->
     (CHOOSE s \in {Subscriptions[i] : i \in DOMAIN Subscriptions} : s.callback = c).type]

Contract == INSTANCE SerialBroadcast WITH
  Callbacks <- CallbacksOf(Subscriptions), TypeOf <- TypeOfCallback,
  log <- [i \in DOMAIN log |-> log[i].type],
  joined <- [c \in CallbacksOf(Subscriptions) |-> 0]
UsesBus == Contract!Spec
-----------------------------------------------------------------------------
(* Two things one would expect of the pipeline that the code does not    *)
(* provide.                                                                *)

(* README.md:75, "Tracks Positions": a position is the net of the fills    *)
(* handled.  on_fill() ignores what exceeds the position it closes.        *)
FillsHandled == {i \in 1 .. begun : /\ log[i].type = "FILL"
                                    /\ i = begun => pending = <<>>}
PositionsMatchFills ==
  \A s \in Symbols :
    HeldUnits(s) = MapThenSumSet(LAMBDA i : Signed(log[i].direction, log[i].quantity),
                                 {i \in FillsHandled : log[i].symbol = s})

(* README.md:76, "Enforces limits", and RiskManager.cpp:111, "Insufficient *)
(* cash": orders are paid for from the cash at hand.  RiskManager checks   *)
(* its copy, which orders not yet filled have not reduced, and counts      *)
(* neither slippage nor commission.                                        *)
NoOverdraft == cash >= 0
=============================================================================
