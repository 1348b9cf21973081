-------------------------- MODULE MCTradingPipeline --------------------------
(* Feeds and strategies for TradingPipeline: prices of 100 and 200, which  *)
(* slippage and commission of a tenth keep whole.                          *)
EXTENDS TradingPipeline

CONSTANTS btc, eth

Market(s, p) == [type |-> "MARKET", symbol |-> s, price |-> p]
Book(s, p, b, a) == [type |-> "ORDER_BOOK", symbol |-> s, best_bid |-> p,
                     bids |-> b, asks |-> a]
News(s, x) == [type |-> "NEWS", symbol |-> s, sentiment |-> x]
Regime(v) == [type |-> "MARKET_REGIME_CHANGED", volatility |-> v]

(* Strategies of both kinds, under books that call for buying, for selling *)
(* and for nothing, prices of another symbol, news and regimes.            *)
MCStrategies == <<[kind |-> "every_tick", symbol |-> btc, threshold |-> 12],
                  [kind |-> "imbalance", symbol |-> btc, threshold |-> 12]>>
MCFeed == {Book(btc, 200, 3, 2), Book(btc, 100, 1, 2), Book(btc, 0, 0, 1),
           Market(eth, 100), News(btc, 2), News(btc, -2),
           Regime("HIGH"), Regime("LOW")}
=============================================================================
