------------------------- MODULE PipelineViewsProofs -------------------------
(***************************************************************************)
(* Machine-checked proofs about what the components remember of the events *)
(* they were called with: RiskManager and Analytics of the portfolio, the  *)
(* strategies of the news and the market's regime.                         *)
(***************************************************************************)
EXTENDS TradingPipelineProofs

IsUpdate(e) == e.type = "PORTFOLIO_UPDATE"

(* The update e tells the portfolio as it now is. *)
Tells(e) == e.cash = cash /\ e.total_equity = TotalEquity

(* m is the last update of the log, or of what has been begun of it. *)
LastPublished(m) == /\ m \in 1 .. Len(log) /\ IsUpdate(log[m])
                    /\ \A i \in 1 .. Len(log) : i > m => ~ IsUpdate(log[i])
LastBegun(m) == /\ m \in 1 .. begun /\ IsUpdate(log[m])
                /\ \A i \in 1 .. begun : i > m => ~ IsUpdate(log[i])

AboutToUpdate == reaction # <<>> /\ IsUpdate(Head(reaction))

(* The last update, published or about to be, tells the portfolio. *)
UpdatesTrue ==
  /\ ~ Started => cash = InitialCapital /\ positions = <<>>
  /\ Started => \E m : LastPublished(m)
  /\ IF AboutToUpdate
     THEN Tells(Head(reaction))
     ELSE \A m : LastPublished(m) => Tells(log[m])

(* RiskManager and Analytics keep what the last update they were called    *)
(* with told them.                                                         *)
RiskTold ==
  \A m : LastBegun(m) /\ Handled(m, "RiskManager.on_portfolio_update") =>
    latest_cash = log[m].cash /\ latest_equity = log[m].total_equity
AnalyticsTold ==
  /\ equity_curve \in Seq(Entries(equity_curve))
  /\ \A m : LastBegun(m) /\ Handled(m, "Analytics.on_portfolio_update") =>
       Len(equity_curve) > 0 /\ equity_curve[Len(equity_curve)] = log[m].total_equity

ViewsInv == BusInv /\ UpdatesTrue /\ RiskTold /\ AnalyticsTold
-----------------------------------------------------------------------------
(* The equity is a function of the cash and the positions ... *)
LEMMA EquityKept == UNCHANGED <<cash, positions>> => TotalEquity' = TotalEquity
BY Zenon DEF TotalEquity, OpenPositionsValue, MapThenSumSet, MapThenFoldSet

(* ... and the cash alone when nothing is held. *)
LEMMA EquityOfCash ==
  ASSUME positions = <<>>, cash \in Int
  PROVE  TotalEquity = cash
<1>. DEFINE Sum(f, S) ==
       [s \in SUBSET S |->
          IF s = {} THEN 0
          ELSE positions[CHOOSE x \in s : TRUE].value + f[s \ {CHOOSE x \in s : TRUE}]]
<1>. DEFINE sum == CHOOSE f : f = Sum(f, DOMAIN positions)
<1>1. DOMAIN positions = {}
  OBVIOUS
<1>2. \E f : f = Sum(f, DOMAIN positions)
  <2>. DEFINE zero == [s \in SUBSET {} |-> 0]
  <2>1. zero = Sum(zero, DOMAIN positions)
    BY <1>1
  <2>. QED BY <2>1
<1>3. sum = Sum(sum, DOMAIN positions)
  <2>. HIDE DEF Sum
  <2>. QED BY <1>2
<1>4. OpenPositionsValue = sum[DOMAIN positions]
  BY DEF OpenPositionsValue, MapThenSumSet, MapThenFoldSet
<1>5. sum[{}] = 0
  <2>. HIDE DEF sum
  <2>. QED BY <1>1, <1>3
<1>. QED BY <1>1, <1>4, <1>5 DEF TotalEquity

LEMMA ViewsInvInit == Init => ViewsInv
<1>. SUFFICES ASSUME Init PROVE ViewsInv
  OBVIOUS
<1>1. /\ Len(log) = 0 /\ begun = 0 /\ ~ Started
      /\ equity_curve \in Seq(Entries(equity_curve))
      /\ cash = InitialCapital /\ positions = <<>>
  BY EmptySeq, SubscriptionsTyped DEF Init, PortfolioInit, Started
<1>2. (\A m : ~ LastPublished(m)) /\ (\A m : ~ LastBegun(m))
  BY <1>1 DEF LastPublished, LastBegun
<1>. QED BY <1>1, <1>2, BusInvInit DEF ViewsInv, UpdatesTrue, RiskTold, AnalyticsTold, AboutToUpdate, Init
-----------------------------------------------------------------------------
(* Publishing an event moves the last update at most to that event ... *)
LEMMA PublishedLast ==
  ASSUME BusInv, NEW e, Publish(e), NEW m
  PROVE  LastPublished(m)' <=>
           IF IsUpdate(e) THEN m = Len(log) + 1 ELSE LastPublished(m)
<1>1. /\ Len(log) \in Nat /\ Len(log') = Len(log) + 1
      /\ \A i \in 1 .. Len(log) : log'[i] = log[i]
      /\ log'[Len(log) + 1] = e
  BY Extended DEF BusInv
<1>. QED BY <1>1 DEF LastPublished, IsUpdate

(* ... and is nothing the dispatch thread knows of. *)
LEMMA PublishedBehind ==
  ASSUME BusInv, NEW e, Publish(e), UNCHANGED <<begun, pending>>, NEW m, NEW c
  PROVE  /\ (LastBegun(m) /\ Handled(m, c))' <=> LastBegun(m) /\ Handled(m, c)
         /\ LastBegun(m) => log'[m] = log[m]
<1>1. /\ Len(log) \in Nat
      /\ \A i \in 1 .. Len(log) : log'[i] = log[i]
      /\ begun \in 0 .. Len(log)
  BY Extended DEF BusInv, LogTyped
<1>. QED BY <1>1 DEF LastBegun, IsUpdate, Handled

(* The last update begun, once c has been called with it, is the event c   *)
(* is called with, or one c had been called with before.                   *)
LEMMA CalledLast ==
  ASSUME BusInv, NEW d, Call(d), NEW m, NEW c, LastBegun(m)', Handled(m, c)'
  PROVE  /\ LastBegun(m) /\ log'[m] = log[m]
         /\ Handled(m, c) \/ (c = d /\ m = begun)
BY Called DEF LastBegun, Handled, IsUpdate, Call, bus_vars
-----------------------------------------------------------------------------
(* A step that publishes leaves the portfolio alone, and an update it      *)
(* publishes tells it.                                                     *)
LEMMA PublishersKeepViews ==
  ASSUME ViewsInv, NEW e, Publish(e),
         UNCHANGED <<begun, pending, cash, positions, latest_cash, latest_equity,
                     equity_curve>>,
         Started', Started \/ IsUpdate(e),
         IsUpdate(e) => Tells(e) /\ ~ AboutToUpdate',
         ~ IsUpdate(e) => (AboutToUpdate' <=> AboutToUpdate),
         AboutToUpdate' => reaction' = reaction
  PROVE  UpdatesTrue' /\ RiskTold' /\ AnalyticsTold'
<1>1. RiskTold' /\ AnalyticsTold'
  BY PublishedBehind DEF ViewsInv, RiskTold, AnalyticsTold
<1>2. /\ Len(log) \in Nat
      /\ \A i \in 1 .. Len(log) : log'[i] = log[i]
      /\ log'[Len(log) + 1] = e
  BY Extended DEF ViewsInv, BusInv
<1>3. TotalEquity' = TotalEquity /\ cash' = cash
  BY EquityKept
<1>4. \E m : LastPublished(m)'
  BY PublishedLast DEF ViewsInv, UpdatesTrue
<1>5. CASE IsUpdate(e)
  <2>1. \A m : LastPublished(m)' => log'[m] = e
    BY <1>2, <1>5, PublishedLast DEF ViewsInv
  <2>2. \A m : LastPublished(m)' => Tells(log[m])'
    BY <1>3, <1>5, <2>1 DEF Tells
  <2>. QED BY <1>1, <1>4, <1>5, <2>2 DEF UpdatesTrue
<1>6. CASE ~ IsUpdate(e)
  <2>1. \A m : LastPublished(m)' => LastPublished(m) /\ log'[m] = log[m]
    BY <1>2, <1>6, PublishedLast DEF ViewsInv, LastPublished
  <2>2. CASE AboutToUpdate
    <3>1. Tells(Head(reaction))' /\ AboutToUpdate'
      BY <1>3, <1>6, <2>2 DEF ViewsInv, UpdatesTrue, Tells
    <3>. QED BY <1>1, <1>4, <3>1 DEF UpdatesTrue
  <2>3. CASE ~ AboutToUpdate
    <3>1. \A m : LastPublished(m)' => Tells(log[m])'
      BY <1>3, <2>1, <2>3 DEF ViewsInv, UpdatesTrue, Tells
    <3>. QED BY <1>1, <1>4, <1>6, <2>3, <3>1 DEF UpdatesTrue
  <2>. QED BY <2>2, <2>3
<1>. QED BY <1>1, <1>5, <1>6

(* A callback that leaves the portfolio alone does not announce an update; *)
(* on_fill(), the one that does not, announces the portfolio it leaves.    *)
LEMMA CallsKeepUpdates ==
  ASSUME ViewsInv, NEW c, Call(c),
         \/ UNCHANGED <<cash, positions>> /\ ~ AboutToUpdate'
         \/ reaction' # <<>> /\ IsUpdate(Head(reaction')) /\ Tells(Head(reaction))'
  PROVE  UpdatesTrue'
<1>1. /\ log' = log /\ built' = built /\ reaction = <<>>
      /\ \A m : LastPublished(m)' <=> LastPublished(m)
  BY DEF Call, bus_vars, LastPublished, Returned
<1>2. Started /\ Started'
  <2>1. begun \in 0 .. Len(log) /\ Len(log) \in Nat
    BY LenProperties DEF ViewsInv, BusInv, LogTyped
  <2>2. begun > 0
    BY Called DEF ViewsInv
  <2>3. Len(log) > 0
    BY <2>1, <2>2
  <2>. QED BY <1>1, <2>3 DEF ViewsInv, BusInv, Wired, Started
<1>3. \A m : LastPublished(m) => Tells(log[m])
  BY <1>1 DEF ViewsInv, UpdatesTrue, AboutToUpdate
<1>4. CASE UNCHANGED <<cash, positions>> /\ ~ AboutToUpdate'
  BY <1>1, <1>2, <1>3, <1>4, EquityKept DEF ViewsInv, UpdatesTrue, Tells
<1>5. CASE reaction' # <<>> /\ IsUpdate(Head(reaction')) /\ Tells(Head(reaction))'
  BY <1>1, <1>2, <1>5 DEF ViewsInv, UpdatesTrue, AboutToUpdate
<1>. QED BY <1>4, <1>5

(* Who is told of a portfolio update is called with one.                   *)
LEMMA UpdateCalled ==
  ASSUME BusInv, NEW c, Call(c),
         c \in {"RiskManager.on_portfolio_update", "Analytics.on_portfolio_update"}
  PROVE  IsUpdate(log[begun])
<1>1. [callback |-> c, type |-> Current.type] \in Entries(Subscriptions)
  BY Called
<1>2. Current.type = "PORTFOLIO_UPDATE"
  BY <1>1, CallbackTypes
<1>. QED BY <1>2 DEF IsUpdate, Current

LEMMA CallsKeepRisk ==
  ASSUME ViewsInv, NEW c, Call(c),
         \/ c # "RiskManager.on_portfolio_update" /\ UNCHANGED <<latest_cash, latest_equity>>
         \/ latest_cash' = Current.cash /\ latest_equity' = Current.total_equity
            /\ c = "RiskManager.on_portfolio_update"
  PROVE  RiskTold'
<1>. SUFFICES ASSUME NEW m, LastBegun(m)', Handled(m, "RiskManager.on_portfolio_update")'
              PROVE  latest_cash' = log'[m].cash /\ latest_equity' = log'[m].total_equity
  BY DEF RiskTold
<1>1. /\ LastBegun(m) /\ log'[m] = log[m]
      /\ \/ Handled(m, "RiskManager.on_portfolio_update")
         \/ c = "RiskManager.on_portfolio_update" /\ m = begun
  BY CalledLast DEF ViewsInv
<1>2. CASE c = "RiskManager.on_portfolio_update"
  <2>1. IsUpdate(log[begun])
    BY <1>2, UpdateCalled DEF ViewsInv
  <2>2. m = begun
    BY <1>1, <2>1 DEF LastBegun, ViewsInv, BusInv, LogTyped
  <2>. QED BY <1>1, <1>2, <2>2 DEF Current
<1>3. CASE c # "RiskManager.on_portfolio_update"
  BY <1>1, <1>3 DEF ViewsInv, RiskTold
<1>. QED BY <1>2, <1>3

LEMMA CallsKeepAnalytics ==
  ASSUME ViewsInv, NEW c, Call(c),
         \/ c # "Analytics.on_portfolio_update" /\ UNCHANGED equity_curve
         \/ /\ c = "Analytics.on_portfolio_update"
            /\ equity_curve' = Append(equity_curve, Current.total_equity)
  PROVE  AnalyticsTold'
<1>1. ASSUME NEW m, LastBegun(m)', Handled(m, "Analytics.on_portfolio_update")'
      PROVE  /\ LastBegun(m) /\ log'[m] = log[m]
             /\ \/ Handled(m, "Analytics.on_portfolio_update")
                \/ c = "Analytics.on_portfolio_update" /\ m = begun
  BY <1>1, CalledLast DEF ViewsInv
<1>2. CASE c = "Analytics.on_portfolio_update"
  <2>1. IsUpdate(log[begun])
    BY <1>2, UpdateCalled DEF ViewsInv
  <2>2. \A m : LastBegun(m) => m = begun
    BY <2>1 DEF LastBegun, ViewsInv, BusInv, LogTyped
  <2>3. PICK S : equity_curve \in Seq(S)
    BY DEF ViewsInv, AnalyticsTold
  <2>4. /\ equity_curve' \in Seq(Entries(equity_curve'))
        /\ Len(equity_curve) \in Nat
        /\ Len(equity_curve') = Len(equity_curve) + 1
        /\ equity_curve'[Len(equity_curve) + 1] = Current.total_equity
    <3>. DEFINE x == Current.total_equity
    <3>1. equity_curve' = Append(equity_curve, x)
      BY <1>2
    <3>. HIDE DEF x
    <3>2. Append(equity_curve, x) \in Seq(Entries(Append(equity_curve, x)))
      BY <2>3, AppendEntries, Zenon
    <3>3. /\ Len(equity_curve) \in Nat
          /\ Len(equity_curve') = Len(equity_curve) + 1
          /\ equity_curve'[Len(equity_curve) + 1] = x
      BY <2>3, <3>1, AppendEntries
    <3>. QED BY <3>1, <3>2, <3>3 DEF x
  <2>. QED BY <1>1, <2>2, <2>4 DEF AnalyticsTold, Current
<1>3. CASE c # "Analytics.on_portfolio_update"
  BY <1>1, <1>3 DEF ViewsInv, AnalyticsTold
<1>. QED BY <1>2, <1>3

(* An update just begun has not reached anyone. *)
LEMMA BeginKeepsViews ==
  ASSUME ViewsInv, Begin
  PROVE  UpdatesTrue' /\ RiskTold' /\ AnalyticsTold'
<1>1. /\ begun' = begun + 1 /\ log' = log /\ begun \in 0 .. Len(log) /\ Len(log) \in Nat
      /\ begun + 1 <= Len(log) /\ Entries(pending) = {}
      /\ pending' = members[log[begun + 1].type]
      /\ UNCHANGED <<built, reaction, cash, positions, latest_cash, latest_equity, equity_curve>>
  BY LenProperties DEF ViewsInv, BusInv, LogTyped, Begin, Entries, portfolio_vars, risk_vars,
                       report_vars
<1>2. Started
  BY <1>1 DEF ViewsInv, BusInv, Wired
<1>3. UpdatesTrue'
  BY <1>1, <1>2, EquityKept
  DEF ViewsInv, UpdatesTrue, AboutToUpdate, LastPublished, Tells, Started
<1>4. ASSUME NEW m,
             NEW c \in {"RiskManager.on_portfolio_update", "Analytics.on_portfolio_update"},
             LastBegun(m)', Handled(m, c)'
      PROVE  LastBegun(m) /\ Handled(m, c)
  <2>1. IsUpdate(log[begun + 1]) => c \in Entries(pending')
    BY <1>1, <1>2, AllCalled DEF ViewsInv, BusInv, IsUpdate
  <2>2. m # begun + 1
    BY <1>1, <1>4, <2>1 DEF LastBegun, Handled
  <2>. QED BY <1>1, <1>4, <2>2 DEF LastBegun, Handled
<1>5. RiskTold' /\ AnalyticsTold'
  BY <1>1, <1>4 DEF ViewsInv, RiskTold, AnalyticsTold
<1>. QED BY <1>3, <1>5

LEMMA ViewsInvStep == ViewsInv /\ [Next]_vars => ViewsInv'
<1>. SUFFICES ASSUME ViewsInv, [Next]_vars
              PROVE  UpdatesTrue' /\ RiskTold' /\ AnalyticsTold'
  BY BusInvStep DEF ViewsInv
<1>1. ASSUME UNCHANGED <<log, begun, pending, reaction, cash, positions, latest_cash,
                         latest_equity, equity_curve>>,
             (Started' <=> Started)
      PROVE  UpdatesTrue' /\ RiskTold' /\ AnalyticsTold'
  BY <1>1, EquityKept
  DEF ViewsInv, UpdatesTrue, RiskTold, AnalyticsTold, AboutToUpdate, LastPublished, LastBegun,
      Handled, Tells
<1>2. CASE UNCHANGED vars
  BY <1>1, <1>2 DEF vars, portfolio_vars, bus_vars, call_vars, risk_vars, report_vars, Started
<1>3. CASE Construct
  <2>0. Len(Subscriptions) = 12 /\ built \in 0 .. 13
    BY SubscriptionsTyped DEF ViewsInv, BusInv, Wired
  <2>1. ~ Started /\ ~ Started'
    BY <1>3, <2>0 DEF Construct, Started
  <2>. QED BY <1>1, <1>3, <2>1
           DEF Construct, portfolio_vars, call_vars, risk_vars, report_vars
<1>4. CASE Begin
  BY <1>4, BeginKeepsViews
<1>0. /\ begun \in 0 .. Len(log) /\ Len(log) \in Nat
      /\ begun > 0 => Started
      /\ reaction # <<>> => begun > 0 /\ Tail(reaction) = <<>>
  <2>1. begun \in 0 .. Len(log) /\ Len(log) \in Nat
    BY LenProperties DEF ViewsInv, BusInv, LogTyped
  <2>. QED BY <2>1 DEF ViewsInv, BusInv, Wired, InCallback
<1>. USE DEF portfolio_vars, bus_vars, call_vars, risk_vars, report_vars
<1>5. CASE PortfolioStart
  <2>1. ~ Started /\ Started' /\ reaction = <<>> /\ reaction' = <<>>
    BY <1>0, <1>5, SubscriptionsTyped DEF PortfolioStart, Started
  <2>2. cash = InitialCapital /\ TotalEquity = InitialCapital
    BY <2>1, EquityOfCash, PortfolioAssumption DEF ViewsInv, UpdatesTrue
  <2>. DEFINE e == [type |-> "PORTFOLIO_UPDATE", total_equity |-> InitialCapital,
                    cash |-> cash, cause |-> 0]
  <2>3. Publish(e) /\ IsUpdate(e) /\ Tells(e) /\ ~ AboutToUpdate'
    BY <1>5, <2>1, <2>2 DEF PortfolioStart, IsUpdate, Tells, AboutToUpdate
  <2>. HIDE DEF e
  <2>. QED BY <1>5, <2>1, <2>3, PublishersKeepViews DEF PortfolioStart
<1>6. CASE Feed
  <2>1. PICK e : Publish(e) /\ (e \in FeedEvents \/ e = [type |-> "SYSTEM"])
    BY <1>6 DEF Feed
  <2>2. ~ IsUpdate(e)
    BY <2>1, PipelineAssumption
    DEF MarketEvents, OrderBookEvents, NewsEvents, MarketRegimeChangedEvents, IsUpdate
  <2>3. Started /\ Started' /\ reaction' = reaction /\ (AboutToUpdate' <=> AboutToUpdate)
    BY <1>6 DEF Feed, Started, AboutToUpdate
  <2>. QED BY <1>6, <2>1, <2>2, <2>3, PublishersKeepViews DEF Feed
<1>7. CASE PublishReaction
  <2>. DEFINE e == Head(reaction)
  <2>1. Publish(e) /\ reaction # <<>> /\ reaction' = <<>> /\ Started /\ Started'
    BY <1>0, <1>7 DEF PublishReaction, Started
  <2>2. ~ AboutToUpdate' /\ (IsUpdate(e) <=> AboutToUpdate)
    BY <2>1 DEF AboutToUpdate
  <2>3. IsUpdate(e) => Tells(e)
    BY <2>2 DEF ViewsInv, UpdatesTrue
  <2>. HIDE DEF e
  <2>. QED BY <1>7, <2>1, <2>2, <2>3, PublishersKeepViews DEF PublishReaction
<1>8. CASE Evaluate
  <2>1. Started /\ Started' /\ reaction' = reaction /\ (AboutToUpdate' <=> AboutToUpdate)
    <3>1. begun > 0
      BY <1>8 DEF Evaluate, ViewsInv, BusInv, InCallback
    <3>. QED BY <1>0, <1>8, <3>1 DEF Evaluate, Started, AboutToUpdate
  <2>2. CASE log' = log
    BY <1>1, <1>8, <2>1, <2>2 DEF Evaluate
  <2>3. CASE log' # log
    <3>0. PICK d : Publish([type |-> "SIGNAL", symbol |-> Current.symbol,
                            direction |-> d, cause |-> begun])
      BY <1>8, <2>3, EvaluateSignals DEF ViewsInv
    <3>1. PICK e : Publish(e) /\ ~ IsUpdate(e)
      BY <3>0 DEF IsUpdate
    <3>. QED BY <1>8, <2>1, <3>1, PublishersKeepViews DEF Evaluate
  <2>. QED BY <2>2, <2>3
<1>9. ASSUME NEW c, Call(c), UNCHANGED <<cash, positions, latest_cash, latest_equity,
                                         equity_curve>>,
             c # "RiskManager.on_portfolio_update", c # "Analytics.on_portfolio_update",
             ~ AboutToUpdate'
      PROVE  UpdatesTrue' /\ RiskTold' /\ AnalyticsTold'
  BY <1>9, CallsKeepUpdates, CallsKeepRisk, CallsKeepAnalytics
<1>10. ASSUME NEW c, Call(c), ReturnsSilently PROVE ~ AboutToUpdate'
  BY <1>10 DEF Call, Returned, ReturnsSilently, AboutToUpdate
<1>11. CASE EnterLoop
  <2>1. PICK c \in {"StrategyManager.on_market_event", "StrategyManager.on_order_book_event"} :
          Call(c)
    BY <1>11 DEF EnterLoop
  <2>2. ~ AboutToUpdate'
    BY <1>11, <2>1 DEF EnterLoop, Call, Returned, AboutToUpdate
  <2>. QED BY <1>9, <1>11, <2>1, <2>2 DEF EnterLoop
<1>12. CASE OnNews \/ OnMarketRegime
  BY <1>9, <1>10, <1>12 DEF OnNews, OnMarketRegime
<1>13. CASE RiskOnMarket \/ RiskOnOrderBook
  BY <1>9, <1>10, <1>13 DEF RiskOnMarket, RiskOnOrderBook
<1>14. CASE RiskOnSignal
  <2>1. ~ AboutToUpdate'
    <3>1. CASE ReturnsSilently
      BY <1>10, <1>14, <3>1 DEF RiskOnSignal
    <3>2. ASSUME NEW e, e.type = "ORDER", Reacts(e) PROVE ~ AboutToUpdate'
      BY <3>2, Reacting DEF AboutToUpdate, IsUpdate
    <3>3. CASE Current.symbol \in DOMAIN latest_prices
      BY <1>14, <3>1, <3>2, <3>3 DEF RiskOnSignal
    <3>. QED BY <1>14, <3>1, <3>3 DEF RiskOnSignal
  <2>. QED BY <1>9, <1>14, <2>1 DEF RiskOnSignal
<1>15. CASE OnOrder
  <2>1. PICK e : Reacts(e) /\ e.type = "FILL"
    BY <1>15 DEF OnOrder
  <2>2. ~ AboutToUpdate'
    BY <2>1, Reacting DEF AboutToUpdate, IsUpdate
  <2>. QED BY <1>9, <1>15, <2>2 DEF OnOrder
<1>16. CASE PortfolioOnFill
  <2>1. reaction' # <<>> /\ IsUpdate(Head(reaction')) /\ Tells(Head(reaction))'
    BY <1>16, Reacting DEF PortfolioOnFill, PortfolioUpdate, IsUpdate, Tells
  <2>. QED BY <1>16, <2>1, CallsKeepUpdates, CallsKeepRisk, CallsKeepAnalytics
           DEF PortfolioOnFill
<1>17. CASE RiskOnPortfolioUpdate
  BY <1>10, <1>17, CallsKeepUpdates, CallsKeepRisk, CallsKeepAnalytics
  DEF RiskOnPortfolioUpdate
<1>18. CASE AnalyticsOnPortfolioUpdate
  BY <1>10, <1>18, CallsKeepUpdates, CallsKeepRisk, CallsKeepAnalytics
  DEF AnalyticsOnPortfolioUpdate
<1>19. CASE OnSystem
  BY <1>9, <1>10, <1>19 DEF OnSystem
<1>. QED BY <1>2, <1>3, <1>4, <1>5, <1>6, <1>7, <1>8, <1>11, <1>12, <1>13, <1>14, <1>15,
            <1>16, <1>17, <1>18, <1>19 DEF Next

LEMMA ViewsInvSafe == ViewsInv => ViewsCatchUp
<1>. SUFFICES ASSUME ViewsInv, Started, Returned, pending = <<>>,
                     \A i \in begun + 1 .. Len(log) :
                       log[i].type \notin {"FILL", "PORTFOLIO_UPDATE"}
              PROVE  /\ latest_cash = cash
                     /\ latest_equity = TotalEquity
                     /\ equity_curve # <<>> /\ equity_curve[Len(equity_curve)] = TotalEquity
  BY DEF ViewsCatchUp
<1>1. PICK m : LastPublished(m)
  BY DEF ViewsInv, UpdatesTrue
<1>2. Tells(log[m])
  BY <1>1 DEF ViewsInv, UpdatesTrue, AboutToUpdate, Returned
<1>3. LastBegun(m)
  <2>1. begun \in 0 .. Len(log) /\ Len(log) \in Nat
    BY LenProperties DEF ViewsInv, BusInv, LogTyped
  <2>2. m \in 1 .. begun
    BY <1>1, <2>1 DEF LastPublished, IsUpdate
  <2>. QED BY <1>1, <2>1, <2>2 DEF LastPublished, LastBegun
<1>4. \A c : Handled(m, c)
  <2>1. m \in 1 .. begun /\ begun \in Nat
    BY <1>3 DEF LastBegun, ViewsInv, BusInv, LogTyped
  <2>2. Entries(pending) = {}
    BY DEF Entries
  <2>. QED BY <2>1, <2>2 DEF Handled
<1>5. /\ latest_cash = log[m].cash /\ latest_equity = log[m].total_equity
      /\ Len(equity_curve) > 0 /\ equity_curve[Len(equity_curve)] = log[m].total_equity
  BY <1>3, <1>4 DEF ViewsInv, RiskTold, AnalyticsTold
<1>6. equity_curve # <<>>
  BY <1>5, EmptySeq
<1>. QED BY <1>2, <1>5, <1>6 DEF Tells

(* RiskManager's and Analytics' copies are never wrong for good: whatever  *)
(* strategies trade and on whatever feed, they agree with the portfolio    *)
(* whenever no fill and no update is on its way.                           *)
THEOREM CopiesCatchUp == Spec => []ViewsCatchUp
<1>1. Spec => []ViewsInv
  BY ViewsInvInit, ViewsInvStep, PTL DEF Spec
<1>. QED BY <1>1, ViewsInvSafe, PTL
-----------------------------------------------------------------------------
(* A nonempty set of positions has a last one. *)
LEMMA MaxOfSome ==
  ASSUME NEW n \in Nat, NEW S, S \subseteq 1 .. n, S # {}
  PROVE  /\ Max(S) \in S
         /\ \A y \in S : y <= Max(S)
<1>. DEFINE R == OpToRel(<, Nat)
            T == {n - y : y \in S}
<1>1. IsWellFoundedOn(R, Nat)
  BY NatLessThanWellFounded
<1>2. T \subseteq Nat /\ T # {}
  <2>1. \A y \in S : n - y \in Nat
    OBVIOUS
  <2>. QED BY <2>1
<1>3. PICK t \in T : \A u \in T : ~ (<<u, t>> \in R)
  <2>. HIDE DEF T, R
  <2>. QED BY <1>1, <1>2, WFMin
<1>4. PICK x \in S : t = n - x
  OBVIOUS
<1>5. ASSUME NEW y \in S PROVE x >= y
  <2>1. n - y \in T /\ ~ (<<n - y, n - x>> \in R)
    BY <1>3, <1>4
  <2>2. n - y \in Nat /\ n - x \in Nat
    BY <1>2
  <2>3. ~ (n - y < n - x)
    BY <2>1, <2>2 DEF OpToRel
  <2>. QED BY <2>3
<1>6. \E z \in S : \A y \in S : z >= y
  BY <1>5
<1>7. /\ Max(S) \in S
      /\ \A y \in S : Max(S) >= y
  BY <1>6 DEF Max
<1>. QED BY <1>7

LEMMA MaxIs ==
  ASSUME NEW n \in Nat, NEW S, S \subseteq 1 .. n, n \in S
  PROVE  Max(S) = n
<1>1. Max(S) \in 1 .. n /\ n <= Max(S)
  BY MaxOfSome
<1>. QED BY <1>1

(* The strategies' thresholds and scores when the regimes and news before  *)
(* position n are all they know of.                                        *)
ThresholdsAt(n) ==
  [i \in StrategyIds |-> IF Imbalance(i) /\ HighVolatility(n)
                         THEN (Strategies[i].threshold * 3) \div 2
                         ELSE Strategies[i].threshold]
ScoreOf(i, s) == IF s \in DOMAIN sentiment_scores[i] THEN sentiment_scores[i][s] ELSE 0

(* They know of what was begun, and of the current event too once the      *)
(* callback that takes it has been called.                                 *)
RegimesKnown ==
  \E n \in {begun, begun + 1} :
    /\ "StrategyManager.on_market_regime_event" \notin Entries(pending) => n = begun + 1
    /\ thresholds = ThresholdsAt(n)
NewsKnown ==
  \E n \in {begun, begun + 1} :
    /\ "StrategyManager.on_news_event" \notin Entries(pending) => n = begun + 1
    /\ \A i \in StrategyIds : Imbalance(i) =>
         \A s \in Symbols : ScoreOf(i, s) = Sentiment(n, s)

SignalsInv == /\ PriceInv
              /\ DOMAIN sentiment_scores = StrategyIds
              /\ RegimesKnown
              /\ NewsKnown
              /\ SignalsJustified

(* What one more event adds to what is known. *)
LEMMA OneMoreRegime ==
  ASSUME LogTyped, NEW n \in DOMAIN log
  PROVE  HighVolatility(n + 1) <=> IF log[n].type = "MARKET_REGIME_CHANGED"
                                   THEN log[n].volatility = "HIGH"
                                   ELSE HighVolatility(n)
<1>. DEFINE B(k) == {j \in 1 .. k - 1 : log[j].type = "MARKET_REGIME_CHANGED"}
<1>0. n \in Nat \ {0}
  BY LenProperties DEF LogTyped
<1>1. \A k : HighVolatility(k) <=> B(k) # {} /\ log[Max(B(k))].volatility = "HIGH"
  BY DEF HighVolatility, Before, Last
<1>2. CASE log[n].type = "MARKET_REGIME_CHANGED"
  <2>1. n \in B(n + 1) /\ B(n + 1) \subseteq 1 .. n
    BY <1>0, <1>2
  <2>2. Max(B(n + 1)) = n
    BY <1>0, <2>1, MaxIs
  <2>. QED BY <1>1, <1>2, <2>1, <2>2
<1>3. CASE log[n].type # "MARKET_REGIME_CHANGED"
  <2>1. B(n + 1) = B(n)
    BY <1>0, <1>3
  <2>. QED BY <1>1, <1>3, <2>1
<1>. QED BY <1>2, <1>3

LEMMA OneMoreNews ==
  ASSUME LogTyped, NEW n \in DOMAIN log, NEW s
  PROVE  Sentiment(n + 1, s) = IF log[n].type = "NEWS" /\ log[n].symbol = s
                               THEN log[n].sentiment
                               ELSE Sentiment(n, s)
<1>. DEFINE B(k) == {j \in 1 .. k - 1 : log[j].type = "NEWS" /\ log[j].symbol = s}
<1>0. n \in Nat \ {0}
  BY LenProperties DEF LogTyped
<1>1. \A k : Sentiment(k, s) = IF B(k) = {} THEN 0 ELSE log[Max(B(k))].sentiment
  BY DEF Sentiment, Before, Last
<1>2. CASE log[n].type = "NEWS" /\ log[n].symbol = s
  <2>1. n \in B(n + 1) /\ B(n + 1) \subseteq 1 .. n
    BY <1>0, <1>2
  <2>2. Max(B(n + 1)) = n
    BY <1>0, <2>1, MaxIs
  <2>. QED BY <1>1, <1>2, <2>1, <2>2
<1>3. CASE ~ (log[n].type = "NEWS" /\ log[n].symbol = s)
  <2>1. B(n + 1) = B(n)
    BY <1>0, <1>3
  <2>. QED BY <1>1, <1>3, <2>1
<1>. QED BY <1>2, <1>3

(* What is published later does not change what came before. *)
LEMMA PastKept ==
  ASSUME LogTyped, NEW e, Publish(e), NEW n \in 0 .. Len(log) + 1, NEW s
  PROVE  /\ HighVolatility(n)' <=> HighVolatility(n)
         /\ Sentiment(n, s)' = Sentiment(n, s)
<1>1. Len(log) \in Nat /\ \A i \in 1 .. Len(log) : log'[i] = log[i]
  BY Extended
<1>2. \A j \in 1 .. n - 1 : j \in 1 .. Len(log) /\ log'[j] = log[j]
  BY <1>1
<1>3. HighVolatility(n)' <=> HighVolatility(n)
  <2>. DEFINE B == {j \in 1 .. n - 1 : log[j].type = "MARKET_REGIME_CHANGED"}
              C == {j \in 1 .. n - 1 : log'[j].type = "MARKET_REGIME_CHANGED"}
  <2>1. C = B
    BY <1>2
  <2>2. B # {} => Max(B) \in 1 .. n - 1
    <3>1. CASE n = 0 BY <3>1
    <3>2. CASE n # 0
      <4>1. n - 1 \in Nat /\ B \subseteq 1 .. n - 1
        BY <1>1, <3>2
      <4>. QED BY <4>1, MaxOfSome
    <3>. QED BY <3>1, <3>2
  <2>3. HighVolatility(n) <=> B # {} /\ log[Max(B)].volatility = "HIGH"
    BY DEF HighVolatility, Before, Last
  <2>4. HighVolatility(n)' <=> C # {} /\ log'[Max(C)].volatility = "HIGH"
    BY DEF HighVolatility, Before, Last
  <2>. QED BY <1>2, <2>1, <2>2, <2>3, <2>4
<1>4. Sentiment(n, s)' = Sentiment(n, s)
  <2>. DEFINE B == {j \in 1 .. n - 1 : log[j].type = "NEWS" /\ log[j].symbol = s}
              C == {j \in 1 .. n - 1 : log'[j].type = "NEWS" /\ log'[j].symbol = s}
  <2>1. C = B
    BY <1>2
  <2>2. B # {} => Max(B) \in 1 .. n - 1
    <3>1. CASE n = 0 BY <3>1
    <3>2. CASE n # 0
      <4>1. n - 1 \in Nat /\ B \subseteq 1 .. n - 1
        BY <1>1, <3>2
      <4>. QED BY <4>1, MaxOfSome
    <3>. QED BY <3>1, <3>2
  <2>3. Sentiment(n, s) = IF B = {} THEN 0 ELSE log[Max(B)].sentiment
    BY DEF Sentiment, Before, Last
  <2>4. Sentiment(n, s)' = IF C = {} THEN 0 ELSE log'[Max(C)].sentiment
    BY DEF Sentiment, Before, Last
  <2>. HIDE DEF B, C
  <2>5. B # {} => log'[Max(C)] = log[Max(B)]
    BY <1>2, <2>1, <2>2
  <2>. QED BY <2>1, <2>3, <2>4, <2>5
<1>. QED BY <1>3, <1>4

(* A sentiment is a number of halves. *)
LEMMA SentimentTyped ==
  ASSUME LogTyped, NEW n \in 0 .. Len(log) + 1, NEW s
  PROVE  Sentiment(n, s) \in -2 .. 2
<1>. DEFINE B == {j \in 1 .. n - 1 : log[j].type = "NEWS" /\ log[j].symbol = s}
<1>1. Sentiment(n, s) = IF B = {} THEN 0 ELSE log[Max(B)].sentiment
  BY DEF Sentiment, Before, Last
<1>2. CASE B = {}
  BY <1>1, <1>2
<1>3. CASE B # {}
  <2>0. Len(log) \in Nat /\ DOMAIN log = 1 .. Len(log)
    BY LenProperties DEF LogTyped
  <2>1. n - 1 \in Nat /\ B \subseteq 1 .. n - 1
    BY <1>3, <2>0
  <2>2. Max(B) \in B
    BY <1>3, <2>1, MaxOfSome
  <2>. DEFINE m == Max(B)
  <2>3. m \in DOMAIN log /\ log[m].type = "NEWS"
    <3>1. m \in 1 .. n - 1 /\ log[m].type = "NEWS"
      BY <2>2
    <3>. HIDE DEF m
    <3>. QED BY <2>0, <3>1
  <2>. HIDE DEF m
  <2>4. log[m] \in FeedEvents
    BY <2>3 DEF LogTyped, FeedTypes
  <2>5. log[m] \in NewsEvents
    BY <2>3, <2>4, PipelineAssumption
    DEF MarketEvents, OrderBookEvents, MarketRegimeChangedEvents
  <2>. QED BY <1>1, <1>3, <2>5 DEF NewsEvents, m
<1>. QED BY <1>2, <1>3
-----------------------------------------------------------------------------
(* What the property says of the signal at position i. *)
Justified(i) ==
  LET n == log[i].cause
      book == log[n]
  IN book.type = "ORDER_BOOK" =>
       \E k \in StrategyIds :
         LET base == Strategies[k].threshold
             t == IF HighVolatility(n) THEN (base * 3) \div 2 ELSE base
         IN /\ Imbalance(k)
            /\ Strategies[k].symbol = log[i].symbol
            /\ IF log[i].direction = "BUY"
               THEN 10 * book.bids > t * book.asks /\ Sentiment(n, book.symbol) > -2
               ELSE t * book.bids < 10 * book.asks /\ Sentiment(n, book.symbol) < 2

LEMMA JustifiedEach ==
  /\ SignalsJustified <=> \A i \in DOMAIN log : log[i].type = "SIGNAL" => Justified(i)
  /\ SignalsJustified' <=> \A i \in DOMAIN log' : log'[i].type = "SIGNAL" => Justified(i)'
BY DEF SignalsJustified, Justified

LEMMA SameLog ==
  ASSUME log' = log, NEW n, NEW s
  PROVE  /\ HighVolatility(n)' <=> HighVolatility(n)
         /\ Sentiment(n, s)' = Sentiment(n, s)
BY DEF HighVolatility, Sentiment, Before, Last

LEMMA SignalsInvInit == Init => SignalsInv
<1>. SUFFICES ASSUME Init PROVE SignalsInv
  OBVIOUS
<1>1. begun = 0 /\ begun + 1 = 1 /\ DOMAIN log = {}
  BY DEF Init
<1>2. thresholds = ThresholdsAt(1)
  <2>1. ~ HighVolatility(1)
    BY DEF HighVolatility, Before
  <2>. QED BY <2>1 DEF Init, ThresholdsAt
<1>3. \A i \in StrategyIds : \A s \in Symbols : ScoreOf(i, s) = Sentiment(1, s)
  BY DEF Init, ScoreOf, Sentiment, Before
<1>. QED BY <1>1, <1>2, <1>3, PriceInvInit, JustifiedEach
         DEF SignalsInv, RegimesKnown, NewsKnown, Init

(* Justified signals stay justified, and what is known stays known, while  *)
(* the log at most grows.                                                  *)
LEMMA PastJustified ==
  ASSUME SignalsInv, log' = log \/ (\E e : Publish(e)),
         NEW i \in DOMAIN log, log[i].type = "SIGNAL"
  PROVE  Justified(i)'
<1>1. /\ log[i].cause \in 0 .. Len(log) + 1
      /\ log'[i] = log[i] /\ log'[log[i].cause] = log[log[i].cause]
  <2>1. log[i].cause \in 1 .. begun /\ begun \in 0 .. Len(log) /\ Len(log) \in Nat
    BY LenProperties DEF SignalsInv, PriceInv, SignalsCaused, BusInv, LogTyped
  <2>2. CASE log' = log
    BY <2>1, <2>2
  <2>3. CASE \E e : Publish(e)
    <3>1. /\ \A j \in DOMAIN log : log'[j] = log[j]
          /\ DOMAIN log = 1 .. Len(log)
      BY <2>3, Extended DEF SignalsInv, PriceInv, BusInv
    <3>. QED BY <2>1, <3>1
  <2>. QED BY <2>2, <2>3
<1>2. /\ HighVolatility(log[i].cause)' <=> HighVolatility(log[i].cause)
      /\ \A s : Sentiment(log[i].cause, s)' = Sentiment(log[i].cause, s)
  BY <1>1, PastKept, SameLog DEF SignalsInv, PriceInv, BusInv
<1>3. Justified(i)
  BY JustifiedEach DEF SignalsInv
<1>. QED BY <1>1, <1>2, <1>3 DEF Justified, Imbalance, StrategyIds

LEMMA KnownKept ==
  ASSUME SignalsInv, log' = log \/ (\E e : Publish(e)),
         UNCHANGED <<begun, strategy_vars>>,
         \A c \in {"StrategyManager.on_market_regime_event", "StrategyManager.on_news_event"} :
           c \in Entries(pending') <=> c \in Entries(pending)
  PROVE  RegimesKnown' /\ NewsKnown'
<1>0. begun \in 0 .. Len(log) /\ Len(log) \in Nat
  BY LenProperties DEF SignalsInv, PriceInv, BusInv, LogTyped
<1>1. ASSUME NEW n \in {begun, begun + 1}
      PROVE  /\ HighVolatility(n)' <=> HighVolatility(n)
             /\ \A s : Sentiment(n, s)' = Sentiment(n, s)
  <2>1. n \in 0 .. Len(log) + 1
    BY <1>0
  <2>. QED BY <2>1, PastKept, SameLog DEF SignalsInv, PriceInv, BusInv
<1>2. \A n \in {begun, begun + 1} : ThresholdsAt(n)' = ThresholdsAt(n)
  BY <1>1 DEF ThresholdsAt, Imbalance, StrategyIds
<1>3. RegimesKnown'
  BY <1>2 DEF SignalsInv, RegimesKnown, strategy_vars
<1>4. \A i, s : ScoreOf(i, s)' = ScoreOf(i, s)
  BY DEF ScoreOf, strategy_vars
<1>5. NewsKnown'
  BY <1>1, <1>4 DEF SignalsInv, NewsKnown, Imbalance, StrategyIds
<1>. QED BY <1>3, <1>5

LEMMA KnownAtBegin ==
  ASSUME SignalsInv, Begin
  PROVE  RegimesKnown' /\ NewsKnown'
<1>1. /\ begun' = begun + 1 /\ log' = log /\ begun \in Nat
      /\ begun + 1 \in DOMAIN log /\ Len(log) > 0
      /\ Entries(pending) = {} /\ pending' = members[log[begun + 1].type]
      /\ UNCHANGED <<thresholds, sentiment_scores>>
  BY LenProperties
  DEF SignalsInv, PriceInv, BusInv, LogTyped, Begin, Entries, strategy_vars
<1>2. /\ log[begun + 1].type = "MARKET_REGIME_CHANGED" =>
           "StrategyManager.on_market_regime_event" \in Entries(pending')
      /\ log[begun + 1].type = "NEWS" => "StrategyManager.on_news_event" \in Entries(pending')
  BY <1>1, AllCalled DEF SignalsInv, PriceInv, BusInv, Wired
<1>3. /\ thresholds = ThresholdsAt(begun + 1)
      /\ \A i \in StrategyIds : Imbalance(i) =>
           \A s \in Symbols : ScoreOf(i, s) = Sentiment(begun + 1, s)
  BY <1>1 DEF SignalsInv, RegimesKnown, NewsKnown
<1>4. /\ \A n : ThresholdsAt(n)' = ThresholdsAt(n)
      /\ \A n, s : Sentiment(n, s)' = Sentiment(n, s)
      /\ \A i, s : ScoreOf(i, s)' = ScoreOf(i, s)
  BY <1>1, SameLog DEF ThresholdsAt, Imbalance, StrategyIds, ScoreOf
<1>5. RegimesKnown'
  <2>1. CASE log[begun + 1].type = "MARKET_REGIME_CHANGED"
    BY <1>1, <1>2, <1>3, <1>4, <2>1 DEF RegimesKnown
  <2>2. CASE log[begun + 1].type # "MARKET_REGIME_CHANGED"
    <3>1. HighVolatility((begun + 1) + 1) <=> HighVolatility(begun + 1)
      BY <1>1, <2>2, OneMoreRegime DEF SignalsInv, PriceInv, BusInv
    <3>2. ThresholdsAt((begun + 1) + 1) = ThresholdsAt(begun + 1)
      BY <3>1 DEF ThresholdsAt
    <3>. QED BY <1>1, <1>3, <1>4, <3>2 DEF RegimesKnown
  <2>. QED BY <2>1, <2>2
<1>6. NewsKnown'
  <2>1. CASE log[begun + 1].type = "NEWS"
    BY <1>1, <1>2, <1>3, <1>4, <2>1 DEF NewsKnown, Imbalance, StrategyIds
  <2>2. CASE log[begun + 1].type # "NEWS"
    <3>1. \A s : Sentiment((begun + 1) + 1, s) = Sentiment(begun + 1, s)
      BY <1>1, <2>2, OneMoreNews DEF SignalsInv, PriceInv, BusInv
    <3>. QED BY <1>1, <1>3, <1>4, <3>1 DEF NewsKnown, Imbalance, StrategyIds
  <2>. QED BY <2>1, <2>2
<1>. QED BY <1>5, <1>6

LEMMA RegimeTaken ==
  ASSUME SignalsInv, OnMarketRegime
  PROVE  RegimesKnown' /\ NewsKnown' /\ DOMAIN sentiment_scores' = StrategyIds
<1>0. Call("StrategyManager.on_market_regime_event")
      /\ UNCHANGED <<log, begun, sentiment_scores>>
  BY DEF OnMarketRegime, Call, bus_vars
<1>1. /\ begun \in DOMAIN log /\ Current.type = "MARKET_REGIME_CHANGED"
      /\ Entries(pending) = {"StrategyManager.on_market_regime_event"} \cup Entries(pending')
  BY <1>0, Called, CallbackTypes DEF SignalsInv, PriceInv
<1>2. HighVolatility(begun + 1) <=> Current.volatility = "HIGH"
  BY <1>1, OneMoreRegime DEF SignalsInv, PriceInv, BusInv, Current
<1>3. /\ \A n : ThresholdsAt(n)' = ThresholdsAt(n)
      /\ \A n, s : Sentiment(n, s)' = Sentiment(n, s)
      /\ \A i, s : ScoreOf(i, s)' = ScoreOf(i, s)
  BY <1>0, SameLog DEF ThresholdsAt, Imbalance, StrategyIds, ScoreOf
<1>4. thresholds' = ThresholdsAt(begun + 1)
  BY <1>2 DEF OnMarketRegime, ThresholdsAt
<1>5. RegimesKnown'
  BY <1>0, <1>3, <1>4 DEF RegimesKnown
<1>6. NewsKnown'
  BY <1>0, <1>1, <1>3 DEF SignalsInv, NewsKnown, Imbalance, StrategyIds
<1>. QED BY <1>0, <1>5, <1>6 DEF SignalsInv

LEMMA NewsTaken ==
  ASSUME SignalsInv, OnNews
  PROVE  RegimesKnown' /\ NewsKnown' /\ DOMAIN sentiment_scores' = StrategyIds
<1>0. Call("StrategyManager.on_news_event") /\ UNCHANGED <<log, begun, thresholds>>
  BY DEF OnNews, Call, bus_vars
<1>1. /\ begun \in DOMAIN log /\ Current.type = "NEWS"
      /\ Entries(pending) = {"StrategyManager.on_news_event"} \cup Entries(pending')
  BY <1>0, Called, CallbackTypes DEF SignalsInv, PriceInv
<1>2. \A s : Sentiment(begun + 1, s) = IF Current.symbol = s THEN Current.sentiment
                                       ELSE Sentiment(begun, s)
  BY <1>1, OneMoreNews DEF SignalsInv, PriceInv, BusInv, Current
<1>3. /\ \A n : ThresholdsAt(n)' = ThresholdsAt(n)
      /\ \A n, s : Sentiment(n, s)' = Sentiment(n, s)
  BY <1>0, SameLog DEF ThresholdsAt, Imbalance, StrategyIds
<1>4. RegimesKnown'
  BY <1>0, <1>1, <1>3 DEF SignalsInv, RegimesKnown
<1>5. ASSUME NEW i \in StrategyIds, Imbalance(i), NEW s \in Symbols
      PROVE  ScoreOf(i, s)' = Sentiment(begun + 1, s)
  <2>1. sentiment_scores'[i] = Put(sentiment_scores[i], Current.symbol, Current.sentiment)
    BY <1>5 DEF OnNews
  <2>2. ScoreOf(i, s)' = IF s = Current.symbol THEN Current.sentiment ELSE ScoreOf(i, s)
    BY <2>1 DEF ScoreOf, Put
  <2>3. ScoreOf(i, s) \in {Sentiment(begun, s), Sentiment(begun + 1, s)}
    BY <1>5 DEF SignalsInv, NewsKnown
  <2>. QED BY <1>2, <2>2, <2>3
<1>6. NewsKnown'
  BY <1>0, <1>3, <1>5 DEF NewsKnown, Imbalance, StrategyIds
<1>. QED BY <1>4, <1>6 DEF OnNews

(* The signal an imbalance strategy publishes is justified.                *)
LEMMA NewSignalJustified ==
  ASSUME SignalsInv, Evaluate, log' # log, NEW i, i = Len(log) + 1
  PROVE  Justified(i)'
<1>1. /\ loop > 0 /\ loop \in StrategyIds
      /\ begun \in DOMAIN log /\ begun > 0 /\ begun \in 0 .. Len(log) + 1
      /\ begun' = begun
      /\ Len(log) \in Nat /\ DOMAIN log = 1 .. Len(log)
  <2>1. /\ loop > 0 /\ loop \in 0 .. Len(Strategies) /\ begun > 0 /\ begun' = begun
        /\ begun \in 0 .. Len(log) /\ Len(log) \in Nat /\ DOMAIN log = 1 .. Len(log)
    BY LenProperties
    DEF SignalsInv, PriceInv, BusInv, LogTyped, InCallback, Evaluate, bus_vars
  <2>2. StrategyIds = 1 .. Len(Strategies) /\ Len(Strategies) \in Nat
    BY LenProperties, PipelineAssumption DEF StrategyIds
  <2>. QED BY <2>1, <2>2
<1>2. PICK s : /\ s \in IF Current.type = "MARKET" THEN MarketSignals(loop, Current)
                                                   ELSE BookSignals(loop, Current)
               /\ Publish([type |-> "SIGNAL", symbol |-> s.symbol,
                           direction |-> s.direction, cause |-> begun])
  BY DEF Evaluate
<1>. DEFINE e == [type |-> "SIGNAL", symbol |-> s.symbol,
                  direction |-> s.direction, cause |-> begun]
<1>3. /\ log'[Len(log) + 1] = e /\ log'[begun] = log[begun] /\ Publish(e)
  BY <1>1, <1>2, Extended DEF SignalsInv, PriceInv, BusInv
<1>4. PICK n, book, k : n = begun /\ book = log[begun] /\ k = loop
  OBVIOUS
<1>5. /\ log'[i].cause = n /\ log'[n] = book
      /\ log'[i].symbol = s.symbol /\ log'[i].direction = s.direction
  BY <1>3, <1>4
<1>6. CASE book.type # "ORDER_BOOK"
  BY <1>6, <1>5 DEF Justified
<1>7. CASE book.type = "ORDER_BOOK"
  <2>. DEFINE base == Strategies[k].threshold
              t == IF HighVolatility(n) THEN (base * 3) \div 2 ELSE base
  <2>1. /\ Imbalance(k)
        /\ s.symbol = book.symbol /\ book.symbol = Strategies[k].symbol
        /\ s.direction \in Directions
        /\ s.direction = "BUY" => /\ book.bids * 10 > thresholds[k] * book.asks
                                  /\ SentimentOf(k) >= -1
        /\ s.direction = "SELL" => /\ book.bids * thresholds[k] < 10 * book.asks
                                   /\ SentimentOf(k) <= 1
    <3>1. s \in BookSignals(k, book)
      BY <1>2, <1>7, <1>4 DEF Current
    <3>. QED BY <3>1 DEF BookSignals
  <2>2. /\ "StrategyManager.on_market_regime_event" \notin Entries(pending)
        /\ "StrategyManager.on_news_event" \notin Entries(pending)
    BY <1>7, <1>4, CallbackTypes DEF SignalsInv, PriceInv, BusInv, PendingWired, Current
  <2>3. /\ HighVolatility(n + 1) <=> HighVolatility(n)
        /\ \A x : Sentiment(n + 1, x) = Sentiment(n, x)
    BY <1>1, <1>7, <1>4, OneMoreRegime, OneMoreNews DEF SignalsInv, PriceInv, BusInv
  <2>4. thresholds[k] = t
    BY <1>1, <1>4, <2>1, <2>2, <2>3 DEF SignalsInv, RegimesKnown, ThresholdsAt
  <2>5. /\ book \in OrderBookEvents
        /\ Strategies[k] \in [kind : {"every_tick", "imbalance"}, symbol : Symbols,
                                 threshold : Nat]
    <3>1. book \in FeedEvents
      BY <1>1, <1>7, <1>4 DEF SignalsInv, PriceInv, BusInv, LogTyped, FeedTypes
    <3>2. book \in OrderBookEvents
      BY <1>7, <3>1, PipelineAssumption
      DEF MarketEvents, NewsEvents, MarketRegimeChangedEvents
    <3>. QED BY <1>1, <1>4, <3>2, PipelineAssumption, ElementOfSeq, LenProperties DEF StrategyIds
  <2>6. SentimentOf(k) = Sentiment(n, book.symbol)
    <3>1. SentimentOf(k) = ScoreOf(k, book.symbol)
      BY <2>1 DEF SentimentOf, ScoreOf
    <3>. QED BY <1>1, <1>4, <2>1, <2>2, <2>3, <2>5, <3>1 DEF SignalsInv, NewsKnown
  <2>7. Sentiment(n, book.symbol) \in -2 .. 2
    BY <1>1, <1>4, SentimentTyped DEF SignalsInv, PriceInv, BusInv
  <2>8. /\ book.bids \in Nat /\ book.asks \in Nat /\ t \in Int
    BY <2>5 DEF OrderBookEvents
  <2>9. IF s.direction = "BUY"
        THEN 10 * book.bids > t * book.asks /\ Sentiment(n, book.symbol) > -2
        ELSE t * book.bids < 10 * book.asks /\ Sentiment(n, book.symbol) < 2
    <3>. HIDE DEF t
    <3>. QED BY <2>1, <2>4, <2>6, <2>7, <2>8 DEF Directions
  <2>10. /\ HighVolatility(n)' <=> HighVolatility(n)
         /\ Sentiment(n, book.symbol)' = Sentiment(n, book.symbol)
    <3>. HIDE DEF e
    <3>. QED BY <1>1, <1>3, <1>4, PastKept DEF SignalsInv, PriceInv, BusInv
  <2>11. k \in StrategyIds
    BY <1>1, <1>4
  <2>. QED BY <1>5, <2>1, <2>9, <2>10, <2>11 DEF Justified, Imbalance, StrategyIds
<1>. QED BY <1>6, <1>7

LEMMA SignalsInvStep == SignalsInv /\ [Next]_vars => SignalsInv'
<1>. SUFFICES ASSUME SignalsInv, [Next]_vars
              PROVE  /\ DOMAIN sentiment_scores' = StrategyIds
                     /\ RegimesKnown' /\ NewsKnown' /\ SignalsJustified'
  BY PriceInvStep DEF SignalsInv, StrategyIds
<1>. USE DEF bus_vars, call_vars, strategy_vars
<1>0. log' = log => SignalsJustified'
  BY PastJustified, JustifiedEach DEF SignalsInv
<1>1. ASSUME NEW e, Publish(e), ~ Evaluate => e.type # "SIGNAL" PROVE SignalsJustified'
  <2>1. /\ DOMAIN log = 1 .. Len(log) /\ DOMAIN log' = 1 .. Len(log) + 1
        /\ Len(log) \in Nat
        /\ \A i \in DOMAIN log : log'[i] = log[i]
        /\ log'[Len(log) + 1] = e
    BY <1>1, Extended DEF SignalsInv, PriceInv, BusInv
  <2>2. log' # log
    BY <2>1
  <2>3. ASSUME NEW i \in DOMAIN log', log'[i].type = "SIGNAL"
        PROVE  Justified(i)'
    <3>1. CASE i \in DOMAIN log
      BY <1>1, <2>1, <2>3, <3>1, PastJustified
    <3>2. CASE i = Len(log) + 1
      BY <1>1, <2>1, <2>2, <2>3, <3>2, NewSignalJustified
    <3>. QED BY <2>1, <2>3, <3>1, <3>2
  <2>. QED BY <2>3, JustifiedEach
<1>2. ASSUME log' = log \/ (\E e : Publish(e)), UNCHANGED <<begun, pending, strategy_vars>>
      PROVE  DOMAIN sentiment_scores' = StrategyIds /\ RegimesKnown' /\ NewsKnown'
  BY <1>2, KnownKept DEF SignalsInv
<1>3. ASSUME NEW c, Call(c), UNCHANGED strategy_vars,
             c # "StrategyManager.on_market_regime_event",
             c # "StrategyManager.on_news_event"
      PROVE  /\ DOMAIN sentiment_scores' = StrategyIds
             /\ RegimesKnown' /\ NewsKnown' /\ SignalsJustified'
  <2>1. Entries(pending) = {c} \cup Entries(pending') /\ log' = log /\ begun' = begun
    BY <1>3, Called DEF SignalsInv, PriceInv, Call
  <2>2. RegimesKnown' /\ NewsKnown'
    BY <1>3, <2>1, KnownKept
  <2>. QED BY <1>0, <1>3, <2>1, <2>2 DEF SignalsInv
<1>4. CASE UNCHANGED vars
  BY <1>0, <1>2, <1>4 DEF vars
<1>5. CASE Construct
  BY <1>0, <1>2, <1>5 DEF Construct
<1>6. CASE PortfolioStart
  <2>1. PICK e : Publish(e) /\ e.type # "SIGNAL"
    BY <1>6 DEF PortfolioStart
  <2>. QED BY <1>1, <1>2, <1>6, <2>1 DEF PortfolioStart
<1>7. CASE Feed
  <2>1. PICK e : Publish(e) /\ (e \in FeedEvents \/ e = [type |-> "SYSTEM"])
    BY <1>7 DEF Feed
  <2>2. e.type # "SIGNAL"
    BY <2>1, PipelineAssumption
    DEF MarketEvents, OrderBookEvents, NewsEvents, MarketRegimeChangedEvents
  <2>. QED BY <1>1, <1>2, <1>7, <2>1, <2>2 DEF Feed
<1>8. CASE PublishReaction
  <2>1. PICK e : Publish(e) /\ e.type # "SIGNAL"
    BY <1>8 DEF PublishReaction, SignalsInv, PriceInv, BusInv, InCallback
  <2>. QED BY <1>1, <1>2, <1>8, <2>1 DEF PublishReaction
<1>9. CASE Evaluate
  <2>1. CASE log' = log
    BY <1>0, <1>2, <1>9, <2>1 DEF Evaluate
  <2>2. CASE log' # log
    <3>1. PICK e : Publish(e)
      BY <1>9, <2>2, EvaluateSignals DEF SignalsInv, PriceInv
    <3>. QED BY <1>1, <1>2, <1>9, <3>1 DEF Evaluate
  <2>. QED BY <2>1, <2>2
<1>10. CASE Begin
  BY <1>0, <1>10, KnownAtBegin DEF Begin, SignalsInv
<1>11. CASE OnNews
  BY <1>0, <1>11, NewsTaken DEF OnNews, Call
<1>12. CASE OnMarketRegime
  BY <1>0, <1>12, RegimeTaken DEF OnMarketRegime, Call
<1>13. CASE EnterLoop
  BY <1>3, <1>13 DEF EnterLoop
<1>14. CASE RiskOnMarket \/ RiskOnOrderBook \/ RiskOnPortfolioUpdate \/ RiskOnSignal
  BY <1>3, <1>14 DEF RiskOnMarket, RiskOnOrderBook, RiskOnPortfolioUpdate, RiskOnSignal
<1>15. CASE OnOrder \/ PortfolioOnFill
  BY <1>3, <1>15 DEF OnOrder, PortfolioOnFill
<1>16. CASE AnalyticsOnPortfolioUpdate \/ OnSystem
  BY <1>3, <1>16 DEF AnalyticsOnPortfolioUpdate, OnSystem
<1>. QED BY <1>4, <1>5, <1>6, <1>7, <1>8, <1>9, <1>10, <1>11, <1>12, <1>13, <1>14, <1>15,
            <1>16 DEF Next

(* Every signal an imbalance strategy publishes follows from the book it   *)
(* was computed from and from the news and the regime published before     *)
(* that book, however far the feed has run ahead of the dispatch thread.   *)
THEOREM SignalsFollowTheLog == Spec => []SignalsJustified
<1>1. Spec => []SignalsInv
  BY SignalsInvInit, SignalsInvStep, PTL DEF Spec
<1>2. SignalsInv => SignalsJustified
  BY DEF SignalsInv
<1>. QED BY <1>1, <1>2, PTL
-----------------------------------------------------------------------------
(***************************************************************************)
(* RiskManager's orders: the prices and the cash it decides by are those   *)
(* of the log.                                                             *)
(***************************************************************************)
(* The event e quotes the symbol s, at the price PriceIn(e). *)
QuoteOf(e, s) == \/ e.type = "MARKET" /\ e.symbol = s
                 \/ e.type = "ORDER_BOOK" /\ e.symbol = s /\ e.best_bid > 0
PriceIn(e) == IF e.type = "MARKET" THEN e.price ELSE e.best_bid

UpdateBefore(n) == Last(Before(n, LAMBDA e : e.type = "PORTFOLIO_UPDATE"))

(* RiskManager's prices are those quoted last, among the events begun or,  *)
(* until it has been called with the current one, among those before.      *)
PricesAt(n) ==
  \A s \in Symbols :
    /\ s \in DOMAIN latest_prices <=> Quotes(n, s) # {}
    /\ s \in DOMAIN latest_prices => latest_prices[s] = Quote(n, s)
PricesTrue ==
  \E n \in {begun, begun + 1} :
    /\ (\A c \in PriceCallbacks : c \notin Entries(pending)) => n = begun + 1
    /\ PricesAt(n)

(* The portfolio is told of before anything else. *)
FirstIsUpdate == Len(log) > 0 => IsUpdate(log[1])

(* The order o is justified by a signal handled, or being handled. *)
KnownOrder(o) == o.cause \in 1 .. begun /\ OrderJustified(o)

OrdersKnown ==
  /\ \A i \in DOMAIN log : log[i].type = "ORDER" => KnownOrder(log[i])
  /\ reaction # <<>> /\ Head(reaction).type = "ORDER" => KnownOrder(Head(reaction))

OrdersInv == TypeInv /\ ViewsInv /\ PricesTrue /\ FirstIsUpdate /\ OrdersKnown
-----------------------------------------------------------------------------
(* What one more event adds to the quotes. *)
LEMMA OneMoreQuote ==
  ASSUME LogTyped, NEW n \in DOMAIN log, NEW s
  PROVE  IF QuoteOf(log[n], s)
         THEN Quotes(n + 1, s) # {} /\ Quote(n + 1, s) = PriceIn(log[n])
         ELSE Quotes(n + 1, s) = Quotes(n, s) /\ Quote(n + 1, s) = Quote(n, s)
<1>. DEFINE B(k) == {j \in 1 .. k - 1 : QuoteOf(log[j], s)}
<1>0. n \in Nat \ {0}
  BY LenProperties DEF LogTyped
<1>1. \A k : Quotes(k, s) = B(k) /\ Quote(k, s) = PriceIn(log[Max(B(k))])
  BY DEF Quotes, Quote, Before, Last, QuoteOf, PriceIn
<1>2. CASE QuoteOf(log[n], s)
  <2>1. n \in B(n + 1) /\ B(n + 1) \subseteq 1 .. n
    BY <1>0, <1>2
  <2>2. Max(B(n + 1)) = n
    BY <1>0, <2>1, MaxIs
  <2>. QED BY <1>1, <1>2, <2>1, <2>2
<1>3. CASE ~ QuoteOf(log[n], s)
  <2>1. B(n + 1) = B(n)
    BY <1>0, <1>3
  <2>. QED BY <1>1, <1>3, <2>1
<1>. QED BY <1>2, <1>3

(* What is published later does not change the quotes that came before, *)
(* nor the update.                                                         *)
LEMMA QuotesKept ==
  ASSUME LogTyped, log' = log \/ (\E e : Publish(e)), NEW n \in 0 .. Len(log) + 1, NEW s
  PROVE  /\ Quotes(n, s)' = Quotes(n, s)
         /\ Quotes(n, s) # {} => Quote(n, s)' = Quote(n, s)
<1>1. Len(log) \in Nat /\ \A i \in 1 .. Len(log) : log'[i] = log[i]
  BY Extended, LenProperties DEF LogTyped
<1>2. \A j \in 1 .. n - 1 : j \in 1 .. Len(log) /\ log'[j] = log[j]
  BY <1>1
<1>. DEFINE B == {j \in 1 .. n - 1 : QuoteOf(log[j], s)}
            C == {j \in 1 .. n - 1 : QuoteOf(log'[j], s)}
<1>3. C = B
  BY <1>2
<1>4. B # {} => Max(B) \in 1 .. n - 1
  <2>1. CASE n = 0 BY <2>1
  <2>2. CASE n # 0
    <3>1. n - 1 \in Nat /\ B \subseteq 1 .. n - 1
      BY <1>1, <2>2
    <3>. QED BY <3>1, MaxOfSome
  <2>. QED BY <2>1, <2>2
<1>5. Quotes(n, s) = B /\ Quote(n, s) = PriceIn(log[Max(B)])
  BY DEF Quotes, Quote, Before, Last, QuoteOf, PriceIn
<1>6. Quotes(n, s)' = C /\ Quote(n, s)' = PriceIn(log'[Max(C)])
  BY DEF Quotes, Quote, Before, Last, QuoteOf, PriceIn
<1>. HIDE DEF B, C
<1>7. B # {} => log'[Max(C)] = log[Max(B)]
  BY <1>2, <1>3, <1>4
<1>. QED BY <1>3, <1>5, <1>6, <1>7

LEMMA UpdateKept ==
  ASSUME LogTyped, FirstIsUpdate, log' = log \/ (\E e : Publish(e)),
         NEW n \in 1 .. Len(log), ~ IsUpdate(log[n])
  PROVE  UpdateBefore(n)' = UpdateBefore(n)
<1>1. Len(log) \in Nat /\ \A i \in 1 .. Len(log) : log'[i] = log[i]
  BY Extended, LenProperties DEF LogTyped
<1>2. \A j \in 1 .. n - 1 : j \in 1 .. Len(log) /\ log'[j] = log[j]
  BY <1>1
<1>. DEFINE B == {j \in 1 .. n - 1 : IsUpdate(log[j])}
            C == {j \in 1 .. n - 1 : IsUpdate(log'[j])}
<1>3. C = B
  BY <1>2 DEF IsUpdate
<1>4. Max(B) \in 1 .. n - 1
  <2>1. n - 1 \in Nat /\ B \subseteq 1 .. n - 1 /\ 1 \in B
    BY <1>1 DEF FirstIsUpdate
  <2>. QED BY <2>1, MaxOfSome
<1>5. UpdateBefore(n) = log[Max(B)] /\ UpdateBefore(n)' = log'[Max(C)]
  BY DEF UpdateBefore, Before, Last, IsUpdate
<1>. HIDE DEF B, C
<1>. QED BY <1>2, <1>3, <1>4, <1>5

(* RiskManager has been called with the last update before the current     *)
(* event, which is none itself.                                            *)
LEMMA UpdateTold ==
  ASSUME ViewsInv, FirstIsUpdate, begun > 0, ~ IsUpdate(log[begun])
  PROVE  /\ UpdateBefore(begun).cash = latest_cash
         /\ UpdateBefore(begun).total_equity = latest_equity
<1>1. begun \in 1 .. Len(log) /\ Len(log) \in Nat
  BY LenProperties DEF ViewsInv, BusInv, LogTyped
<1>. DEFINE B == {j \in 1 .. begun - 1 : IsUpdate(log[j])}
<1>2. begun - 1 \in Nat /\ B \subseteq 1 .. begun - 1 /\ 1 \in B
  BY <1>1 DEF FirstIsUpdate
<1>3. PICK m : m = Max(B)
  OBVIOUS
<1>4. m \in B /\ \A y \in B : y <= m
  BY <1>2, <1>3, MaxOfSome
<1>5. UpdateBefore(begun) = log[m]
  BY <1>3 DEF UpdateBefore, Before, Last, IsUpdate
<1>6. LastBegun(m) /\ Handled(m, "RiskManager.on_portfolio_update")
  <2>1. m \in 1 .. begun - 1 /\ IsUpdate(log[m])
    BY <1>4
  <2>2. ASSUME NEW i \in 1 .. begun, i > m PROVE ~ IsUpdate(log[i])
    BY <1>1, <1>4, <2>1, <2>2
  <2>. QED BY <1>1, <2>1, <2>2 DEF LastBegun, Handled
<1>. QED BY <1>5, <1>6 DEF ViewsInv, RiskTold
-----------------------------------------------------------------------------
(* A known order stays known while the log at most grows. *)
LEMMA KnownOrderKept ==
  ASSUME LogTyped, FirstIsUpdate, log' = log \/ (\E e : Publish(e)),
         begun' \in {begun, begun + 1}, NEW o, KnownOrder(o)
  PROVE  KnownOrder(o)'
<1>1. PICK n : n = o.cause
  OBVIOUS
<1>2. /\ n \in 1 .. begun /\ begun \in 0 .. Len(log) /\ Len(log) \in Nat
      /\ DOMAIN log = 1 .. Len(log)
  BY <1>1, LenProperties DEF KnownOrder, LogTyped
<1>3. log'[n] = log[n]
  BY <1>2, Extended
<1>4. log[n].type = "SIGNAL" /\ Quotes(n, o.symbol) # {}
  BY <1>1 DEF KnownOrder, OrderJustified
<1>5. /\ Quotes(n, o.symbol)' # {}
      /\ Quote(n, o.symbol)' = Quote(n, o.symbol)
  BY <1>2, <1>4, QuotesKept
<1>6. UpdateBefore(n)' = UpdateBefore(n)
  BY <1>2, <1>4, UpdateKept DEF IsUpdate
<1>7. o.cause \in 1 .. begun'
  BY <1>1, <1>2
<1>8. OrderJustified(o)'
  BY <1>1, <1>3, <1>4, <1>5, <1>6 DEF KnownOrder, OrderJustified, UpdateBefore
<1>. QED BY <1>7, <1>8 DEF KnownOrder
-----------------------------------------------------------------------------
LEMMA QuotientLeaves ==
  ASSUME NEW a \in Nat, NEW b \in Nat, b > 0
  PROVE  (a \div b) * b = a - (a % b)
<1>1. PICK q, r : q = a \div b /\ r = a % b
  OBVIOUS
<1>2. q \in Int /\ r \in Int /\ a = b * q + r
  BY <1>1
<1>3. q * b = a - r
  BY <1>2
<1>. QED BY <1>1, <1>3

LEMMA RemainderNat == \A a \in Nat : \A b \in Nat \ {0} : a % b \in Nat
OBVIOUS

(* RiskManager's quantity is worth the minimum, but for what falls short   *)
(* of a lot.                                                               *)
LEMMA QuantityWorth ==
  ASSUME NEW equity \in Int, NEW price \in Nat \ {0}, NEW confidence \in Nat
  PROVE  OrderQuantity(equity, price, confidence) * price >= MinOrderValue - (MinOrderValue % price)
<1>0. MinOrderValue \in Nat
  BY PipelineAssumption
<1>1. /\ MinOrderValue % price \in Nat
      /\ (MinOrderValue \div price) * price = MinOrderValue - (MinOrderValue % price)
  <2>1. price \in Nat /\ price > 0
    OBVIOUS
  <2>2. MinOrderValue % price \in Nat
    BY <1>0, RemainderNat
  <2>. QED BY <1>0, <2>1, <2>2, QuotientLeaves
<1>2. PICK q : q = Max({(equity * confidence) \div (RiskDivisor * 100 * price), MinQuantity})
  OBVIOUS
<1>3. OrderQuantity(equity, price, confidence) =
        IF q * price < MinOrderValue THEN MinOrderValue \div price ELSE q
  BY <1>2 DEF OrderQuantity
<1>4. OrderQuantity(equity, price, confidence) \in Int
  BY QuantityInteger
<1>5. CASE q * price < MinOrderValue
  BY <1>0, <1>1, <1>3, <1>5
<1>6. CASE ~ (q * price < MinOrderValue)
  <2>1. q \in Int /\ q * price \in Int
    BY <1>3, <1>4, <1>6
  <2>. QED BY <1>0, <1>1, <1>3, <1>6, <2>1
<1>. QED BY <1>5, <1>6

LEMMA NewOrderKnown ==
  ASSUME OrdersInv, RiskOnSignal, NEW e, Reacts(e), e.type = "ORDER"
  PROVE  KnownOrder(e)
<1>1. /\ Call("RiskManager.on_signal") /\ begun > 0 /\ Current.type = "SIGNAL"
      /\ begun \in 1 .. Len(log) /\ Len(log) \in Nat /\ DOMAIN log = 1 .. Len(log)
  <2>1. Call("RiskManager.on_signal")
    BY DEF RiskOnSignal
  <2>2. begun > 0 /\ Current.type = "SIGNAL"
    BY <2>1, CallType DEF OrdersInv, TypeInv
  <2>. QED BY <2>1, <2>2, LenProperties DEF OrdersInv, TypeInv, BusInv, LogTyped
<1>2. PICK confidence, price, quantity :
        /\ Current.symbol \in DOMAIN latest_prices /\ confidence \in TradeConfidence
        /\ price = latest_prices[Current.symbol]
        /\ quantity = OrderQuantity(latest_equity, price, confidence)
        /\ ~ (quantity <= 0 \/ quantity * price > latest_cash)
        /\ e = [type |-> "ORDER", symbol |-> Current.symbol, direction |-> Current.direction,
                quantity |-> quantity, market_price |-> price, cause |-> begun]
  <2>1. ~ ReturnsSilently
    BY <1>1, Reacting DEF ReturnsSilently, Call, Returned
  <2>2. Current.symbol \in DOMAIN latest_prices
    BY <2>1 DEF RiskOnSignal
  <2>3. PICK confidence, price, quantity :
          /\ confidence \in TradeConfidence
          /\ price = latest_prices[Current.symbol]
          /\ quantity = OrderQuantity(latest_equity, price, confidence)
          /\ ~ (quantity <= 0 \/ quantity * price > latest_cash)
          /\ Reacts([type |-> "ORDER", symbol |-> Current.symbol,
                     direction |-> Current.direction, quantity |-> quantity,
                     market_price |-> price, cause |-> begun])
    BY <2>1, <2>2 DEF RiskOnSignal
  <2>4. e = [type |-> "ORDER", symbol |-> Current.symbol, direction |-> Current.direction,
             quantity |-> quantity, market_price |-> price, cause |-> begun]
    BY <2>3 DEF Reacts
  <2>. QED BY <2>2, <2>3, <2>4
<1>3. Current \in SignalEvents
  BY <1>1, CurrentTyped, EventKinds DEF OrdersInv, TypeInv
<1>4. /\ price \in Nat \ {0} /\ confidence \in Nat
      /\ latest_equity \in Int /\ latest_cash \in Int
  BY <1>2, PipelineAssumption DEF OrdersInv, TypeInv, RiskTypes, TradeConfidence
<1>5. quantity \in Int /\ quantity * price >= MinOrderValue - (MinOrderValue % price)
  BY <1>2, <1>4, QuantityInteger, QuantityWorth
<1>6. quantity * price <= latest_cash
  <2>1. quantity * price \in Int
    BY <1>4, <1>5
  <2>. QED BY <1>2, <1>4, <2>1
<1>7. /\ UpdateBefore(begun).cash = latest_cash
      /\ UpdateBefore(begun).total_equity = latest_equity
  BY <1>1, UpdateTold DEF OrdersInv, IsUpdate, Current
<1>8. Quotes(begun, Current.symbol) # {} /\ price = Quote(begun, Current.symbol)
  <2>1. Current.symbol \in Symbols
    BY <1>3 DEF SignalEvents
  <2>2. \A c \in PriceCallbacks : c \notin Entries(pending)
    BY <1>1, CallbackTypes DEF OrdersInv, TypeInv, BusInv, PendingWired, PriceCallbacks
  <2>3. PricesAt(begun + 1)
    BY <2>2 DEF OrdersInv, PricesTrue
  <2>4. ~ QuoteOf(log[begun], Current.symbol)
    BY <1>1 DEF QuoteOf, Current
  <2>5. /\ Quotes(begun + 1, Current.symbol) = Quotes(begun, Current.symbol)
        /\ Quote(begun + 1, Current.symbol) = Quote(begun, Current.symbol)
    BY <1>1, <2>4, OneMoreQuote DEF OrdersInv, TypeInv, BusInv
  <2>. QED BY <1>2, <2>1, <2>3, <2>5 DEF PricesAt
<1>9. OrderJustified(e)
  <2>1. /\ e.cause = begun /\ e.symbol = Current.symbol /\ e.direction = Current.direction
        /\ e.quantity = quantity /\ e.market_price = price /\ Current = log[begun]
    BY <1>2 DEF Current
  <2>2. /\ UpdateBefore(e.cause).cash = latest_cash
        /\ UpdateBefore(e.cause).total_equity = latest_equity
    BY <1>7, <2>1
  <2>3. \E c \in TradeConfidence : e.quantity =
          OrderQuantity(UpdateBefore(e.cause).total_equity, e.market_price, c)
    BY <1>2, <2>1, <2>2
  <2>. QED BY <1>1, <1>5, <1>6, <1>8, <2>1, <2>2, <2>3 DEF OrderJustified, UpdateBefore
<1>. QED BY <1>1, <1>2, <1>9 DEF KnownOrder
-----------------------------------------------------------------------------
LEMMA OrdersInvInit == Init => OrdersInv
<1>. SUFFICES ASSUME Init PROVE OrdersInv
  OBVIOUS
<1>1. begun = 0 /\ DOMAIN log = {} /\ Len(log) = 0 /\ reaction = <<>>
  BY EmptySeq DEF Init
<1>2. PricesTrue
  <2>1. PricesAt(1)
    BY DEF Init, PricesAt, Quotes, Before
  <2>. QED BY <1>1, <2>1 DEF PricesTrue
<1>. QED BY <1>1, <1>2, TypeInvInit, ViewsInvInit DEF OrdersInv, FirstIsUpdate, OrdersKnown

(* What is known stays known while the log at most grows. *)
LEMMA PricesAtKept ==
  ASSUME LogTyped, log' = log \/ (\E e : Publish(e)), latest_prices' = latest_prices,
         NEW n \in 0 .. Len(log) + 1, PricesAt(n)
  PROVE  PricesAt(n)'
<1>1. \A s : /\ Quotes(n, s)' = Quotes(n, s)
             /\ Quotes(n, s) # {} => Quote(n, s)' = Quote(n, s)
  BY QuotesKept
<1>. QED BY <1>1 DEF PricesAt

LEMMA PricesKnownKept ==
  ASSUME LogTyped, PricesTrue, log' = log \/ (\E e : Publish(e)),
         UNCHANGED <<begun, latest_prices>>,
         \A c \in PriceCallbacks : c \in Entries(pending') <=> c \in Entries(pending)
  PROVE  PricesTrue'
<1>0. begun \in 0 .. Len(log) /\ Len(log) \in Nat
  BY LenProperties DEF LogTyped
<1>1. PICK n \in {begun, begun + 1} :
        /\ (\A c \in PriceCallbacks : c \notin Entries(pending)) => n = begun + 1
        /\ PricesAt(n)
  BY DEF PricesTrue
<1>2. n \in 0 .. Len(log) + 1
  BY <1>0, <1>1
<1>3. PricesAt(n)'
  BY <1>1, <1>2, PricesAtKept
<1>. QED BY <1>1, <1>3 DEF PricesTrue

LEMMA BeginKeepsPrices ==
  ASSUME BusInv, PricesTrue, Begin
  PROVE  PricesTrue'
<1>1. /\ begun' = begun + 1 /\ log' = log /\ begun \in Nat
      /\ begun + 1 \in DOMAIN log /\ Len(log) > 0 /\ DOMAIN log = 1 .. Len(log)
      /\ Len(log) \in Nat
      /\ Entries(pending) = {} /\ pending' = members[log[begun + 1].type]
      /\ latest_prices' = latest_prices
  BY LenProperties DEF BusInv, LogTyped, Begin, Entries, risk_vars
<1>2. PICK n : n = begun + 1
  OBVIOUS
<1>5. PricesAt(n)
  BY <1>1, <1>2 DEF PricesTrue
<1>3. CASE log[begun + 1].type \in {"MARKET", "ORDER_BOOK"}
  <2>1. \E c \in PriceCallbacks : c \in Entries(pending')
    BY <1>1, <1>3, AllCalled DEF BusInv, Wired, PriceCallbacks
  <2>2. PricesAt(n)'
    BY <1>1, <1>2, <1>5, PricesAtKept DEF BusInv
  <2>. QED BY <1>1, <1>2, <2>1, <2>2 DEF PricesTrue
<1>4. CASE log[begun + 1].type \notin {"MARKET", "ORDER_BOOK"}
  <2>1. \A s : ~ QuoteOf(log[begun + 1], s)
    BY <1>4 DEF QuoteOf
  <2>2. \A s : Quotes(n + 1, s) = Quotes(n, s) /\ Quote(n + 1, s) = Quote(n, s)
    BY <1>1, <1>2, <2>1, OneMoreQuote DEF BusInv
  <2>3. PICK m : m = n + 1
    OBVIOUS
  <2>4. PricesAt(m)
    BY <1>5, <2>2, <2>3 DEF PricesAt
  <2>5. PricesAt(m)'
    BY <1>1, <1>2, <2>3, <2>4, PricesAtKept DEF BusInv
  <2>. QED BY <1>1, <1>2, <2>3, <2>5 DEF PricesTrue
<1>. QED BY <1>3, <1>4

(* RiskManager takes the price of the event it is called with. *)
LEMMA PriceTaken ==
  ASSUME TypeInv, PricesTrue, NEW c, Call(c),
         \/ c = "RiskManager.on_market"
            /\ latest_prices' = Put(latest_prices, Current.symbol, Current.price)
         \/ c = "RiskManager.on_order_book"
            /\ latest_prices' = IF Current.best_bid = 0 THEN latest_prices
                                ELSE Put(latest_prices, Current.symbol, Current.best_bid)
  PROVE  PricesTrue'
<1>1. /\ begun \in DOMAIN log /\ begun > 0 /\ begun' = begun /\ log' = log
      /\ begun \in Nat /\ Len(log) \in Nat /\ DOMAIN log = 1 .. Len(log)
  <2>1. begun \in Nat /\ Len(log) \in Nat /\ DOMAIN log = 1 .. Len(log)
    BY LenProperties DEF TypeInv, BusInv, LogTyped
  <2>2. begun \in DOMAIN log /\ begun > 0
    BY Called DEF TypeInv
  <2>. QED BY <2>1, <2>2 DEF Call, bus_vars
<1>2. PICK b : b = Current
  OBVIOUS
<1>3. b \in Events /\ b = log[begun]
  BY <1>1, <1>2, CurrentTyped DEF TypeInv, Current
<1>4. \/ b \in MarketEvents /\ latest_prices' = Put(latest_prices, b.symbol, b.price)
      \/ /\ b \in OrderBookEvents
         /\ latest_prices' = IF b.best_bid = 0 THEN latest_prices
                             ELSE Put(latest_prices, b.symbol, b.best_bid)
  <2>1. CASE c = "RiskManager.on_market"
    <3>1. b.type = "MARKET"
      BY <1>2, <2>1, CallType DEF TypeInv
    <3>. QED BY <1>2, <1>3, <2>1, <3>1, EventKinds
  <2>2. CASE c = "RiskManager.on_order_book"
    <3>1. b.type = "ORDER_BOOK"
      BY <1>2, <2>2, CallType DEF TypeInv
    <3>. QED BY <1>2, <1>3, <2>2, <3>1, EventKinds
  <2>. QED BY <2>1, <2>2
<1>5. \A s \in Symbols :
        \/ latest_prices' = latest_prices /\ ~ QuoteOf(b, s)
        \/ /\ latest_prices' = Put(latest_prices, b.symbol, PriceIn(b))
           /\ QuoteOf(b, s) <=> s = b.symbol
  <2>1. CASE b \in MarketEvents /\ latest_prices' = Put(latest_prices, b.symbol, b.price)
    BY <2>1 DEF MarketEvents, QuoteOf, PriceIn
  <2>2. CASE b \in OrderBookEvents /\ b.best_bid = 0 /\ latest_prices' = latest_prices
    <3>1. b.type = "ORDER_BOOK" /\ ~ (b.best_bid > 0)
      BY <2>2 DEF OrderBookEvents
    <3>2. \A s : ~ QuoteOf(b, s)
      BY <3>1 DEF QuoteOf
    <3>. QED BY <2>2, <3>2
  <2>3. CASE /\ b \in OrderBookEvents /\ b.best_bid # 0
             /\ latest_prices' = Put(latest_prices, b.symbol, b.best_bid)
    BY <2>3 DEF OrderBookEvents, QuoteOf, PriceIn
  <2>. QED BY <1>4, <2>1, <2>2, <2>3
<1>6. PICK n \in {begun, begun + 1} : PricesAt(n)
  BY DEF PricesTrue
<1>7. \A s : IF QuoteOf(b, s)
             THEN Quotes(begun + 1, s) # {} /\ Quote(begun + 1, s) = PriceIn(b)
             ELSE Quotes(begun + 1, s) = Quotes(begun, s) /\ Quote(begun + 1, s) = Quote(begun, s)
  BY <1>1, <1>3, OneMoreQuote DEF TypeInv, BusInv
<1>8. ASSUME NEW s \in Symbols
      PROVE  /\ s \in DOMAIN latest_prices' <=> Quotes(begun + 1, s) # {}
             /\ s \in DOMAIN latest_prices' => latest_prices'[s] = Quote(begun + 1, s)
  <2>1. CASE QuoteOf(b, s)
    BY <1>5, <1>7, <2>1 DEF Put
  <2>2. CASE ~ QuoteOf(b, s)
    <3>1. /\ s \in DOMAIN latest_prices' <=> s \in DOMAIN latest_prices
          /\ s \in DOMAIN latest_prices => latest_prices'[s] = latest_prices[s]
      BY <1>5, <2>2 DEF Put
    <3>. QED BY <1>6, <1>7, <2>2, <3>1 DEF PricesAt
  <2>. QED BY <2>1, <2>2
<1>9. PICK m : m = begun + 1
  OBVIOUS
<1>10. \A s \in Symbols : /\ Quotes(m, s)' = Quotes(m, s)
                          /\ Quotes(m, s) # {} => Quote(m, s)' = Quote(m, s)
  <2>1. m \in 0 .. Len(log) + 1
    BY <1>1, <1>9
  <2>. QED BY <1>1, <2>1, QuotesKept DEF TypeInv, BusInv
<1>11. PricesAt(m)'
  BY <1>8, <1>9, <1>10 DEF PricesAt
<1>. QED BY <1>1, <1>9, <1>11 DEF PricesTrue
-----------------------------------------------------------------------------
LEMMA FirstStays ==
  ASSUME LogTyped, FirstIsUpdate, log' = log \/ (\E e : Publish(e)),
         Len(log) = 0 => log' = log \/ \E e : Publish(e) /\ IsUpdate(e)
  PROVE  FirstIsUpdate'
<1>1. CASE log' = log
  BY <1>1 DEF FirstIsUpdate, IsUpdate
<1>2. CASE log' # log
  <2>1. PICK e : Publish(e) /\ (Len(log) = 0 => IsUpdate(e))
    BY <1>2
  <2>2. /\ Len(log) \in Nat /\ DOMAIN log = 1 .. Len(log)
        /\ \A i \in DOMAIN log : log'[i] = log[i]
        /\ log'[Len(log) + 1] = e
    BY <2>1, Extended
  <2>. QED BY <2>1, <2>2 DEF FirstIsUpdate, IsUpdate
<1>. QED BY <1>1, <1>2

(* What is published keeps the orders known if, when it is an order, it is *)
(* one.                                                                    *)
LEMMA PublishedKnown ==
  ASSUME OrdersInv, NEW e, Publish(e), e.type = "ORDER" => KnownOrder(e),
         begun' = begun, reaction' = reaction \/ reaction' = <<>>
  PROVE  OrdersKnown'
<1>1. /\ Len(log) \in Nat
      /\ DOMAIN log = 1 .. Len(log) /\ DOMAIN log' = 1 .. Len(log) + 1
      /\ \A i \in DOMAIN log : log'[i] = log[i]
      /\ log'[Len(log) + 1] = e
  BY Extended DEF OrdersInv, TypeInv, BusInv
<1>2. ASSUME NEW i \in DOMAIN log', log'[i].type = "ORDER"
      PROVE  KnownOrder(log[i])'
  <2>1. PICK o : o = log'[i]
    OBVIOUS
  <2>2. KnownOrder(o)
    <3>1. CASE i \in DOMAIN log
      BY <1>1, <1>2, <2>1, <3>1 DEF OrdersInv, OrdersKnown
    <3>2. CASE i = Len(log) + 1
      BY <1>1, <1>2, <2>1, <3>2
    <3>. QED BY <1>1, <3>1, <3>2
  <2>3. KnownOrder(o)'
    BY <2>2, KnownOrderKept DEF OrdersInv, TypeInv, BusInv
  <2>. QED BY <2>1, <2>3
<1>3. ASSUME reaction' # <<>>, Head(reaction').type = "ORDER"
      PROVE  KnownOrder(Head(reaction))'
  <2>1. PICK o : o = Head(reaction')
    OBVIOUS
  <2>2. KnownOrder(o)
    BY <1>3, <2>1 DEF OrdersInv, OrdersKnown
  <2>3. KnownOrder(o)'
    BY <2>2, KnownOrderKept DEF OrdersInv, TypeInv, BusInv
  <2>. QED BY <2>1, <2>3
<1>. QED BY <1>2, <1>3 DEF OrdersKnown

(* What is not published keeps them known if, when it announces an order,  *)
(* that is one.                                                            *)
LEMMA SilentKnown ==
  ASSUME OrdersInv, log' = log, begun' \in {begun, begun + 1},
         \/ reaction' = reaction
         \/ \E e : Reacts(e) /\ (e.type = "ORDER" => KnownOrder(e))
  PROVE  OrdersKnown'
<1>1. ASSUME NEW i \in DOMAIN log', log'[i].type = "ORDER"
      PROVE  KnownOrder(log[i])'
  <2>1. PICK o : o = log[i]
    OBVIOUS
  <2>2. KnownOrder(o)
    BY <1>1, <2>1 DEF OrdersInv, OrdersKnown
  <2>3. KnownOrder(o)'
    BY <2>2, KnownOrderKept DEF OrdersInv, TypeInv, BusInv
  <2>. QED BY <2>1, <2>3
<1>2. ASSUME reaction' # <<>>, Head(reaction').type = "ORDER"
      PROVE  KnownOrder(Head(reaction))'
  <2>1. PICK o : o = Head(reaction')
    OBVIOUS
  <2>2. KnownOrder(o)
    BY <1>2, <2>1, Reacting DEF OrdersInv, OrdersKnown
  <2>3. KnownOrder(o)'
    BY <2>2, KnownOrderKept DEF OrdersInv, TypeInv, BusInv
  <2>. QED BY <2>1, <2>3
<1>. QED BY <1>1, <1>2 DEF OrdersKnown

LEMMA OrdersInvStep == OrdersInv /\ [Next]_vars => OrdersInv'
<1>. SUFFICES ASSUME OrdersInv, [Next]_vars
              PROVE  PricesTrue' /\ FirstIsUpdate' /\ OrdersKnown'
  BY TypeInvStep, ViewsInvStep DEF OrdersInv
<1>0. /\ TypeInv /\ BusInv /\ LogTyped /\ PricesTrue /\ FirstIsUpdate
      /\ Len(log) \in Nat /\ begun \in 0 .. Len(log)
      /\ Started => Len(log) > 0
      /\ begun > 0 => Len(log) > 0
  <2>1. TypeInv /\ BusInv /\ LogTyped /\ PricesTrue /\ FirstIsUpdate
    BY DEF OrdersInv, TypeInv, BusInv
  <2>2. Len(log) \in Nat /\ begun \in 0 .. Len(log)
    BY <2>1, LenProperties DEF LogTyped
  <2>3. Started => Len(log) > 0
    BY <2>2 DEF OrdersInv, ViewsInv, UpdatesTrue, LastPublished
  <2>. QED BY <2>1, <2>2, <2>3
<1>1. ASSUME NEW e, Publish(e), UNCHANGED <<begun, pending, latest_prices>>,
             e.type = "ORDER" => KnownOrder(e), Len(log) = 0 => IsUpdate(e),
             reaction' = reaction \/ reaction' = <<>>
      PROVE  PricesTrue' /\ FirstIsUpdate' /\ OrdersKnown'
  BY <1>0, <1>1, PricesKnownKept, FirstStays, PublishedKnown
<1>2. ASSUME UNCHANGED <<log, begun, pending, reaction, latest_prices>>
      PROVE  PricesTrue' /\ FirstIsUpdate' /\ OrdersKnown'
  BY <1>0, <1>2, PricesKnownKept, FirstStays, SilentKnown
<1>3. ASSUME NEW c, Call(c), latest_prices' = latest_prices,
             c \notin PriceCallbacks,
             \/ reaction' = reaction
             \/ \E e : Reacts(e) /\ (e.type = "ORDER" => KnownOrder(e))
      PROVE  PricesTrue' /\ FirstIsUpdate' /\ OrdersKnown'
  <2>1. Entries(pending) = {c} \cup Entries(pending')
    BY <1>0, <1>3, Called
  <2>2. log' = log /\ begun' = begun
    BY <1>3 DEF Call, bus_vars
  <2>. QED BY <1>0, <1>3, <2>1, <2>2, PricesKnownKept, FirstStays, SilentKnown
<1>4. ASSUME NEW c, Call(c), ReturnsSilently, PricesTrue'
      PROVE  PricesTrue' /\ FirstIsUpdate' /\ OrdersKnown'
  <2>1. log' = log /\ begun' = begun /\ reaction' = reaction
    BY <1>4 DEF Call, bus_vars, ReturnsSilently
  <2>. QED BY <1>0, <1>4, <2>1, FirstStays, SilentKnown
<1>. USE DEF bus_vars, call_vars, risk_vars
<1>5. CASE UNCHANGED vars
  BY <1>2, <1>5 DEF vars
<1>6. CASE Construct
  BY <1>2, <1>6 DEF Construct
<1>7. CASE PortfolioStart
  <2>1. PICK e : Publish(e) /\ IsUpdate(e)
    BY <1>7 DEF PortfolioStart, IsUpdate
  <2>. QED BY <1>1, <1>7, <2>1 DEF PortfolioStart, IsUpdate
<1>8. CASE Feed
  <2>1. PICK e : Publish(e) /\ (e \in FeedEvents \/ e = [type |-> "SYSTEM"])
    BY <1>8 DEF Feed
  <2>2. e.type # "ORDER"
    BY <2>1, PipelineAssumption
    DEF MarketEvents, OrderBookEvents, NewsEvents, MarketRegimeChangedEvents
  <2>. QED BY <1>0, <1>1, <1>8, <2>1, <2>2 DEF Feed
<1>9. CASE Begin
  <2>1. UNCHANGED <<log, reaction>> /\ begun' = begun + 1
    BY <1>9 DEF Begin
  <2>. QED BY <1>0, <1>9, <2>1, BeginKeepsPrices, FirstStays, SilentKnown
<1>10. CASE PublishReaction
  <2>1. PICK e : e = Head(reaction)
    OBVIOUS
  <2>2. Publish(e) /\ reaction' = <<>> /\ begun > 0
    BY <1>0, <1>10, <2>1 DEF PublishReaction, BusInv, InCallback
  <2>3. e.type = "ORDER" => KnownOrder(e)
    BY <1>10, <2>1 DEF PublishReaction, OrdersInv, OrdersKnown
  <2>. QED BY <1>0, <1>1, <1>10, <2>2, <2>3 DEF PublishReaction
<1>11. CASE EnterLoop
  <2>1. PICK c \in {"StrategyManager.on_market_event", "StrategyManager.on_order_book_event"} :
          Call(c)
    BY <1>11 DEF EnterLoop
  <2>. QED BY <1>3, <1>11, <2>1 DEF EnterLoop, PriceCallbacks
<1>12. CASE Evaluate
  <2>1. CASE log' = log
    BY <1>2, <1>12, <2>1 DEF Evaluate
  <2>2. CASE log' # log
    <3>1. PICK d : Publish([type |-> "SIGNAL", symbol |-> Current.symbol,
                            direction |-> d, cause |-> begun])
      BY <1>0, <1>12, <2>2, EvaluateSignals
    <3>2. PICK e : Publish(e) /\ e.type # "ORDER"
      BY <3>1
    <3>3. begun > 0
      BY <1>0, <1>12, <2>2, EvaluateSignals
    <3>. QED BY <1>0, <1>1, <1>12, <3>2, <3>3 DEF Evaluate
  <2>. QED BY <2>1, <2>2
<1>13. CASE OnNews \/ OnMarketRegime
  BY <1>3, <1>13 DEF OnNews, OnMarketRegime, ReturnsSilently, PriceCallbacks
<1>14. CASE RiskOnMarket
  BY <1>0, <1>4, <1>14, PriceTaken DEF RiskOnMarket
<1>15. CASE RiskOnOrderBook
  BY <1>0, <1>4, <1>15, PriceTaken DEF RiskOnOrderBook
<1>16. CASE RiskOnPortfolioUpdate
  BY <1>3, <1>16 DEF RiskOnPortfolioUpdate, ReturnsSilently, PriceCallbacks
<1>17. CASE RiskOnSignal
  <2>1. reaction' = reaction \/ \E e : Reacts(e) /\ e.type = "ORDER"
    <3>1. CASE Current.symbol \notin DOMAIN latest_prices
      BY <1>17, <3>1 DEF RiskOnSignal, ReturnsSilently
    <3>2. CASE Current.symbol \in DOMAIN latest_prices
      <4>1. PICK price, quantity :
              \/ ReturnsSilently
              \/ Reacts([type |-> "ORDER", symbol |-> Current.symbol,
                         direction |-> Current.direction, quantity |-> quantity,
                         market_price |-> price, cause |-> begun])
        BY <1>17, <3>2 DEF RiskOnSignal
      <4>. QED BY <1>17, <4>1 DEF ReturnsSilently
    <3>. QED BY <3>1, <3>2
  <2>2. reaction' = reaction \/ \E e : Reacts(e) /\ (e.type = "ORDER" => KnownOrder(e))
    BY <1>17, <2>1, NewOrderKnown
  <2>. QED BY <1>3, <1>17, <2>2 DEF RiskOnSignal, PriceCallbacks
<1>18. CASE OnOrder
  <2>1. \E e : Reacts(e) /\ e.type = "FILL"
    BY <1>18 DEF OnOrder
  <2>. QED BY <1>3, <1>18, <2>1 DEF OnOrder, PriceCallbacks
<1>19. CASE PortfolioOnFill
  <2>1. \E e : Reacts(e) /\ e.type = "PORTFOLIO_UPDATE"
    BY <1>19 DEF PortfolioOnFill, PortfolioUpdate
  <2>. QED BY <1>3, <1>19, <2>1 DEF PortfolioOnFill, PriceCallbacks
<1>20. CASE AnalyticsOnPortfolioUpdate \/ OnSystem
  BY <1>3, <1>20 DEF AnalyticsOnPortfolioUpdate, OnSystem, ReturnsSilently, PriceCallbacks
<1>. QED BY <1>5, <1>6, <1>7, <1>8, <1>9, <1>10, <1>11, <1>12, <1>13, <1>14, <1>15, <1>16,
            <1>17, <1>18, <1>19, <1>20 DEF Next

(* Every order RiskManager publishes is the answer to one signal, at the   *)
(* price last quoted before that signal, worth at least the minimum (but   *)
(* for what falls short of a lot) and no more than the cash last published *)
(* before it, however far the feed has run ahead.                          *)
THEOREM OrdersFollowTheLog == Spec => []OrdersJustified
<1>1. Spec => []OrdersInv
  BY OrdersInvInit, OrdersInvStep, PTL DEF Spec
<1>2. OrdersInv => OrdersJustified
  BY DEF OrdersInv, OrdersKnown, KnownOrder, OrdersJustified
<1>. QED BY <1>1, <1>2, PTL
-----------------------------------------------------------------------------
(***************************************************************************)
(* Execution: what came of each signal, order and fill.                    *)
(***************************************************************************)
(* A fill is of its order, and no better than it.                          *)
Fills(fill, order) ==
  /\ fill.symbol = order.symbol
  /\ fill.direction = order.direction
  /\ fill.quantity = order.quantity
  /\ Signed(fill.direction, fill.fill_price - order.market_price) >= 0

(* What a callback is yet to publish is what the current event calls for,  *)
(* and nobody else is to be called with that.                              *)
ReactionDue ==
  reaction # <<>> =>
    /\ pending = <<>>
    /\ Head(reaction).cause = begun
    /\ CASE Current.type = "SIGNAL" -> Head(reaction).type = "ORDER"
         [] Current.type = "ORDER" -> /\ Head(reaction).type = "FILL"
                                      /\ Fills(Head(reaction), Current)
         [] Current.type = "FILL" -> Head(reaction).type = "PORTFOLIO_UPDATE"
         [] OTHER -> FALSE

FillsInv == TypeInv /\ Subscribed /\ ReactionDue /\ FillsMatchOrders

FillsFaithful == \A i \in Effects("FILL") : Fills(log[i], log[log[i].cause])
AllHaveCauses ==
  \A i \in DOMAIN log : \/ log[i].type \in {"ORDER", "FILL"}
                        \/ log[i].type = "PORTFOLIO_UPDATE" /\ i > 1
                        => log[i].cause # 0

LEMMA FillsParts ==
  FillsMatchOrders <=> /\ CameOf("ORDER", "SIGNAL")
                       /\ CameOf("FILL", "ORDER") /\ AllCaused("ORDER", "FILL")
                       /\ FillsFaithful
                       /\ CameOf("PORTFOLIO_UPDATE", "FILL")
                       /\ AllCaused("FILL", "PORTFOLIO_UPDATE")
                       /\ AllHaveCauses
BY DEF FillsMatchOrders, FillsFaithful, Fills, AllHaveCauses

LEMMA FillsPartsNext ==
  FillsMatchOrders' <=> /\ CameOf("ORDER", "SIGNAL")'
                        /\ CameOf("FILL", "ORDER")' /\ AllCaused("ORDER", "FILL")'
                        /\ FillsFaithful'
                        /\ CameOf("PORTFOLIO_UPDATE", "FILL")'
                        /\ AllCaused("FILL", "PORTFOLIO_UPDATE")'
                        /\ AllHaveCauses'
BY DEF FillsMatchOrders, FillsFaithful, Fills, AllHaveCauses

LEMMA HandledPast ==
  ASSUME BusInv
  PROVE  HandledEvents \subseteq DOMAIN log /\ 0 \notin HandledEvents
BY LenProperties DEF BusInv, LogTyped, HandledEvents

(* A step publishes at most one event. *)
LEMMA LogGrows ==
  ASSUME BusInv, log' = log \/ \E e : Publish(e)
  PROVE  /\ DOMAIN log \subseteq DOMAIN log'
         /\ \A i \in DOMAIN log : log'[i] = log[i]
BY Extended DEF BusInv

(* What has been handled stays handled, and its effects stay.              *)
LEMMA CameOfKept ==
  ASSUME BusInv, NEW t, NEW u, CameOf(t, u), HandledEvents \subseteq HandledEvents',
         \/ log' = log
         \/ \E e : Publish(e) /\ ~ (e.type = t /\ e.cause # 0)
  PROVE  CameOf(t, u)' /\ Effects(t)' = Effects(t)
<1>1. /\ DOMAIN log \subseteq DOMAIN log'
      /\ \A i \in DOMAIN log : log'[i] = log[i]
  BY LogGrows
<1>2. Effects(t)' = Effects(t)
  <2>1. CASE log' = log
    BY <2>1 DEF Effects
  <2>2. CASE \E e : Publish(e) /\ ~ (e.type = t /\ e.cause # 0)
    <3>1. /\ DOMAIN log = 1 .. Len(log) /\ DOMAIN log' = 1 .. Len(log) + 1 /\ Len(log) \in Nat
          /\ ~ (log'[Len(log) + 1].type = t /\ log'[Len(log) + 1].cause # 0)
      BY <2>2, Extended DEF BusInv
    <3>. QED BY <1>1, <3>1 DEF Effects
  <2>. QED BY <2>1, <2>2
<1>3. \A i \in Effects(t) : /\ i \in DOMAIN log /\ log'[i] = log[i]
                            /\ log[i].cause \in HandledEvents /\ log[i].cause \in DOMAIN log
                            /\ log'[log[i].cause].type = u
  BY <1>1, HandledPast DEF Effects, CameOf
<1>. QED BY <1>2, <1>3 DEF CameOf

LEMMA AllCausedKept ==
  ASSUME BusInv, NEW t, NEW u, AllCaused(u, t), log' = log \/ \E e : Publish(e),
         \A n \in HandledEvents' : n \in HandledEvents \/ (n \in DOMAIN log /\ log[n].type # u)
  PROVE  AllCaused(u, t)'
<1>1. /\ DOMAIN log \subseteq DOMAIN log'
      /\ \A i \in DOMAIN log : log'[i] = log[i]
  BY LogGrows
<1>2. \A i \in Effects(t) : i \in Effects(t)' /\ log'[i].cause = log[i].cause
  BY <1>1 DEF Effects
<1>3. \A n \in HandledEvents' : log'[n].type = u => n \in HandledEvents /\ log[n].type = u
  BY <1>1, HandledPast
<1>. QED BY <1>2, <1>3 DEF AllCaused

LEMMA FaithfulKept ==
  ASSUME BusInv, CameOf("FILL", "ORDER"), FillsFaithful, log' = log \/ \E e : Publish(e),
         Effects("FILL")' = Effects("FILL")
  PROVE  FillsFaithful'
<1>1. \A i \in DOMAIN log : log'[i] = log[i]
  BY LogGrows
<1>2. \A i \in Effects("FILL") : i \in DOMAIN log /\ log[i].cause \in DOMAIN log
  BY HandledPast DEF Effects, CameOf
<1>. QED BY <1>1, <1>2 DEF FillsFaithful, Fills

(* Nothing is published that the property speaks of, and no order or fill  *)
(* ends being handled.                                                     *)
LEMMA NothingDue ==
  ASSUME BusInv, FillsMatchOrders, HandledEvents \subseteq HandledEvents',
         \A n \in HandledEvents' : \/ n \in HandledEvents
                                   \/ n \in DOMAIN log /\ log[n].type \notin {"ORDER", "FILL"},
         \/ log' = log
         \/ \E e : /\ Publish(e) /\ e.type \notin {"ORDER", "FILL"}
                   /\ e.type = "PORTFOLIO_UPDATE" => e.cause = 0 /\ Len(log) = 0
  PROVE  FillsMatchOrders'
<1>. USE FillsParts
<1>1. /\ CameOf("ORDER", "SIGNAL")' /\ CameOf("FILL", "ORDER")' /\ Effects("FILL")' = Effects("FILL")
      /\ CameOf("PORTFOLIO_UPDATE", "FILL")'
  BY CameOfKept
<1>2. AllCaused("ORDER", "FILL")' /\ AllCaused("FILL", "PORTFOLIO_UPDATE")'
  BY AllCausedKept
<1>3. FillsFaithful'
  BY <1>1, FaithfulKept
<1>4. AllHaveCauses'
  <2>1. CASE log' = log
    BY <2>1 DEF AllHaveCauses
  <2>2. CASE \E e : /\ Publish(e) /\ e.type \notin {"ORDER", "FILL"}
                    /\ e.type = "PORTFOLIO_UPDATE" => e.cause = 0 /\ Len(log) = 0
    <3>1. PICK e : /\ Publish(e) /\ e.type \notin {"ORDER", "FILL"}
                   /\ e.type = "PORTFOLIO_UPDATE" => Len(log) = 0
      BY <2>2
    <3>2. /\ DOMAIN log = 1 .. Len(log) /\ DOMAIN log' = 1 .. Len(log) + 1 /\ Len(log) \in Nat
          /\ \A i \in DOMAIN log : log'[i] = log[i]
          /\ log'[Len(log) + 1] = e
      BY <3>1, Extended DEF BusInv
    <3>. QED BY <3>1, <3>2 DEF AllHaveCauses
  <2>. QED BY <2>1, <2>2
<1>. QED BY <1>1, <1>2, <1>3, <1>4, FillsPartsNext

(* The effect of the current event is published, and it is handled.        *)
LEMMA CameOfNew ==
  ASSUME BusInv, NEW t, NEW u, CameOf(t, u), NEW e, Publish(e),
         e.type = t, e.cause = begun, begun > 0, Current.type = u,
         HandledEvents = 1 .. begun - 1, HandledEvents' = 1 .. begun
  PROVE  CameOf(t, u)' /\ Effects(t)' = Effects(t) \cup {Len(log) + 1}
<1>1. /\ DOMAIN log = 1 .. Len(log) /\ DOMAIN log' = 1 .. Len(log) + 1 /\ Len(log) \in Nat
      /\ \A i \in DOMAIN log : log'[i] = log[i]
      /\ log'[Len(log) + 1] = e /\ begun \in 1 .. Len(log)
  BY Extended DEF BusInv, LogTyped
<1>2. Effects(t)' = Effects(t) \cup {Len(log) + 1}
  BY <1>1 DEF Effects
<1>3. \A i \in Effects(t) : /\ i \in DOMAIN log /\ log'[i] = log[i]
                            /\ log[i].cause \in 1 .. begun - 1
                            /\ log'[log[i].cause].type = u
  <2>1. \A i \in Effects(t) : i \in DOMAIN log /\ log[i].cause \in 1 .. begun - 1
                              /\ log[log[i].cause].type = u
    BY DEF Effects, CameOf
  <2>2. \A n \in 1 .. begun - 1 : n \in DOMAIN log
    BY <1>1
  <2>. QED BY <1>1, <2>1, <2>2
<1>4. log'[begun].type = u
  BY <1>1 DEF Current
<1>5. \A i \in Effects(t)' : log'[i].cause \in 1 .. begun /\ log'[log'[i].cause].type = u
  BY <1>1, <1>2, <1>3, <1>4
<1>6. ASSUME NEW i \in Effects(t)', NEW j \in Effects(t)', i < j
      PROVE  log'[i].cause < log'[j].cause
  <2>1. i \in Effects(t)
    BY <1>1, <1>2, <1>3, <1>6
  <2>2. CASE j \in Effects(t)
    BY <1>3, <1>6, <2>1, <2>2 DEF CameOf
  <2>3. CASE j = Len(log) + 1
    BY <1>1, <1>3, <2>1, <2>3
  <2>. QED BY <1>2, <2>2, <2>3
<1>. QED BY <1>2, <1>5, <1>6 DEF CameOf

LEMMA AllCausedNew ==
  ASSUME BusInv, NEW t, NEW u, AllCaused(u, t), NEW e, Publish(e),
         e.type = t, e.cause = begun, begun > 0,
         HandledEvents = 1 .. begun - 1, HandledEvents' = 1 .. begun
  PROVE  AllCaused(u, t)'
<1>1. /\ DOMAIN log = 1 .. Len(log) /\ DOMAIN log' = 1 .. Len(log) + 1 /\ Len(log) \in Nat
      /\ \A i \in DOMAIN log : log'[i] = log[i]
      /\ log'[Len(log) + 1] = e /\ begun \in 1 .. Len(log)
  BY Extended DEF BusInv, LogTyped
<1>2. \A i \in Effects(t) : i \in Effects(t)' /\ log'[i].cause = log[i].cause
  BY <1>1 DEF Effects
<1>3. Len(log) + 1 \in Effects(t)' /\ log'[Len(log) + 1].cause = begun
  BY <1>1 DEF Effects
<1>4. ASSUME NEW n \in 1 .. begun, log'[n].type = u
      PROVE  \E i \in Effects(t)' : log'[i].cause = n
  <2>1. CASE n = begun
    BY <1>3, <2>1
  <2>2. CASE n # begun
    <3>1. n \in 1 .. begun - 1 /\ log[n].type = u
      BY <1>1, <1>4, <2>2
    <3>. QED BY <1>2, <3>1 DEF AllCaused
  <2>. QED BY <2>1, <2>2
<1>. QED BY <1>4 DEF AllCaused
-----------------------------------------------------------------------------
LEMMA FillsInvInit == Init => FillsInv
<1>. SUFFICES ASSUME Init PROVE FillsInv
  OBVIOUS
<1>1. DOMAIN log = {} /\ begun = 0 /\ reaction = <<>>
  BY DEF Init
<1>2. HandledEvents = {} /\ \A t : Effects(t) = {}
  BY <1>1 DEF HandledEvents, Effects
<1>3. FillsMatchOrders
  BY <1>1, <1>2, FillsParts DEF CameOf, AllCaused, FillsFaithful, AllHaveCauses
<1>. QED BY <1>1, <1>3, TypeInvInit, SubscribedInit DEF FillsInv, ReactionDue

(* Between the events, nothing ends being handled. *)
LEMMA HandledKept ==
  UNCHANGED <<begun, pending, loop, reaction>> => HandledEvents' = HandledEvents
BY DEF HandledEvents, Returned

(* A callback that does not publish, called with no order and no fill. *)
LEMMA CallsKeepFills ==
  ASSUME FillsInv, NEW c, Call(c), UNCHANGED reaction,
         c \notin {"ExecutionHandler.on_order", "PortfolioManager.on_fill"}
  PROVE  ReactionDue' /\ FillsMatchOrders'
<1>1. /\ log' = log /\ begun' = begun /\ begun \in DOMAIN log /\ begun > 0
      /\ reaction = <<>> /\ pending # <<>> /\ Current' = Current
  BY Called DEF Call, bus_vars, Returned, FillsInv, TypeInv
<1>2. log[begun].type \notin {"ORDER", "FILL"}
  <2>1. PICK t : t = Current.type
    OBVIOUS
  <2>2. [callback |-> c, type |-> t] \in Entries(Subscriptions)
    BY <2>1, Called DEF FillsInv, TypeInv
  <2>3. t \notin {"ORDER", "FILL"}
    BY <2>2, CallbackTypes
  <2>. QED BY <2>1, <2>3 DEF Current
<1>3. HandledEvents = 1 .. begun - 1 /\ HandledEvents' \subseteq 1 .. begun
      /\ 1 .. begun - 1 \subseteq HandledEvents'
  <2>1. begun \in Nat
    BY LenProperties DEF FillsInv, TypeInv, BusInv, LogTyped
  <2>. QED BY <1>1, <2>1 DEF HandledEvents
<1>4. \A n \in HandledEvents' : n \in HandledEvents \/ n = begun
  <2>1. begun \in Nat
    BY LenProperties DEF FillsInv, TypeInv, BusInv, LogTyped
  <2>. QED BY <1>3, <2>1
<1>5. FillsMatchOrders'
  BY <1>1, <1>2, <1>3, <1>4, NothingDue DEF FillsInv, TypeInv
<1>. QED BY <1>1, <1>5 DEF ReactionDue

(* A callback that will publish, called with an event only it is called with. *)
LEMMA ReactionsKeepFills ==
  ASSUME FillsInv, NEW c, Call(c), NEW e, Reacts(e), e.cause = begun,
         \/ c = "RiskManager.on_signal" /\ e.type = "ORDER"
         \/ c = "ExecutionHandler.on_order" /\ e.type = "FILL" /\ Fills(e, Current)
         \/ c = "PortfolioManager.on_fill" /\ e.type = "PORTFOLIO_UPDATE"
  PROVE  ReactionDue' /\ FillsMatchOrders'
<1>1. /\ log' = log /\ begun' = begun /\ begun > 0 /\ loop' = loop
      /\ reaction = <<>> /\ pending # <<>> /\ Current' = Current
  BY Called DEF Call, bus_vars, Returned, FillsInv, TypeInv, Reacts
<1>2. reaction' # <<>> /\ Head(reaction') = e
  BY Reacting
<1>3. HandledEvents' = HandledEvents
  BY <1>1, <1>2 DEF HandledEvents, Returned
<1>4. FillsMatchOrders'
  BY <1>1, <1>3, NothingDue DEF FillsInv, TypeInv
<1>5. /\ c = "RiskManager.on_signal" => Current.type = "SIGNAL"
      /\ c = "ExecutionHandler.on_order" => Current.type = "ORDER"
      /\ c = "PortfolioManager.on_fill" => Current.type = "FILL"
  BY CallType DEF FillsInv, TypeInv
<1>6. pending' = <<>>
  <2>1. PICK k \in Sole : Current.type = Subscriptions[k].type
    BY <1>5, SoleTypes DEF Sole
  <2>2. pending = <<Subscriptions[k].callback>>
    BY <1>1, <2>1 DEF FillsInv, Subscribed
  <2>3. pending' = Tail(pending)
    BY DEF Call
  <2>. QED BY <2>2, <2>3
<1>7. ReactionDue'
  <2>1. /\ reaction' # <<>> /\ Head(reaction') = e /\ pending' = <<>> /\ begun' = begun
        /\ Current' = Current
    BY <1>1, <1>2, <1>6
  <2>2. \/ Current.type = "SIGNAL" /\ e.type = "ORDER"
        \/ Current.type = "ORDER" /\ e.type = "FILL" /\ Fills(e, Current)
        \/ Current.type = "FILL" /\ e.type = "PORTFOLIO_UPDATE"
    BY <1>5
  <2>. QED BY <2>1, <2>2 DEF ReactionDue, Fills
<1>. QED BY <1>4, <1>7

(* The reaction is published. *)
LEMMA ReactionPublished ==
  ASSUME FillsInv, PublishReaction
  PROVE  ReactionDue' /\ FillsMatchOrders'
<1>. PICK e : e = Head(reaction)
  OBVIOUS
<1>0. begun \in Nat /\ begun > 0 /\ loop = 0
  <2>1. Current.type \in {"SIGNAL", "ORDER", "FILL"}
    BY DEF FillsInv, ReactionDue, PublishReaction
  <2>. QED BY <2>1, LenProperties
       DEF PublishReaction, FillsInv, TypeInv, BusInv, InCallback, LogTyped
<1>1. /\ Publish(e) /\ reaction # <<>> /\ reaction' = <<>>
      /\ pending = <<>> /\ pending' = <<>> /\ loop' = 0 /\ begun' = begun
      /\ e.cause = begun
  BY <1>0 DEF PublishReaction, FillsInv, TypeInv, BusInv, InCallback, ReactionDue, bus_vars
<1>2. HandledEvents = 1 .. begun - 1 /\ HandledEvents' = 1 .. begun
  BY <1>1 DEF HandledEvents, Returned
<1>3. \A n \in HandledEvents' : n \in HandledEvents \/ n = begun
  BY <1>0, <1>2
<1>4. HandledEvents \subseteq HandledEvents' /\ begun \in DOMAIN log
  BY <1>0, <1>2, LenProperties DEF FillsInv, TypeInv, BusInv, LogTyped
<1>. USE FillsParts DEF FillsInv, TypeInv
<1>5. AllHaveCauses'
  <2>1. /\ DOMAIN log = 1 .. Len(log) /\ DOMAIN log' = 1 .. Len(log) + 1 /\ Len(log) \in Nat
        /\ \A i \in DOMAIN log : log'[i] = log[i]
        /\ log'[Len(log) + 1] = e
    BY <1>1, Extended DEF BusInv
  <2>. QED BY <1>0, <1>1, <2>1 DEF AllHaveCauses
<1>6. CASE Current.type = "SIGNAL"
  <2>1. e.type = "ORDER"
    BY <1>1, <1>6 DEF ReactionDue
  <2>2. CameOf("ORDER", "SIGNAL")'
    BY <1>0, <1>1, <1>2, <1>6, <2>1, CameOfNew
  <2>3. /\ CameOf("FILL", "ORDER")' /\ Effects("FILL")' = Effects("FILL")
        /\ CameOf("PORTFOLIO_UPDATE", "FILL")'
    BY <1>1, <1>4, <2>1, CameOfKept
  <2>4. AllCaused("ORDER", "FILL")' /\ AllCaused("FILL", "PORTFOLIO_UPDATE")'
    BY <1>1, <1>3, <1>4, <1>6, AllCausedKept DEF Current
  <2>5. FillsFaithful'
    BY <1>1, <2>3, FaithfulKept
  <2>. QED BY <1>1, <1>5, <2>2, <2>3, <2>4, <2>5, FillsPartsNext DEF ReactionDue
<1>7. CASE Current.type = "ORDER"
  <2>1. e.type = "FILL" /\ Fills(e, Current)
    BY <1>1, <1>7 DEF ReactionDue
  <2>2. CameOf("FILL", "ORDER")' /\ Effects("FILL")' = Effects("FILL") \cup {Len(log) + 1}
    BY <1>0, <1>1, <1>2, <1>7, <2>1, CameOfNew
  <2>3. CameOf("ORDER", "SIGNAL")' /\ CameOf("PORTFOLIO_UPDATE", "FILL")'
    BY <1>1, <1>4, <2>1, CameOfKept
  <2>4. AllCaused("ORDER", "FILL")'
    BY <1>0, <1>1, <1>2, <2>1, AllCausedNew
  <2>5. AllCaused("FILL", "PORTFOLIO_UPDATE")'
    BY <1>1, <1>3, <1>4, <1>7, AllCausedKept DEF Current
  <2>6. FillsFaithful'
    <3>1. /\ \A i \in DOMAIN log : log'[i] = log[i]
          /\ log'[Len(log) + 1] = e
      BY <1>1, Extended DEF BusInv
    <3>2. \A i \in Effects("FILL") : i \in DOMAIN log /\ log[i].cause \in DOMAIN log
      BY HandledPast DEF Effects, CameOf
    <3>3. log'[log'[Len(log) + 1].cause] = Current
      BY <1>1, <1>4, <3>1 DEF Current
    <3>. QED BY <2>1, <2>2, <3>1, <3>2, <3>3 DEF FillsFaithful, Fills
  <2>. QED BY <1>1, <1>5, <2>2, <2>3, <2>4, <2>5, <2>6, FillsPartsNext DEF ReactionDue
<1>8. CASE Current.type = "FILL"
  <2>1. e.type = "PORTFOLIO_UPDATE"
    BY <1>1, <1>8 DEF ReactionDue
  <2>2. CameOf("PORTFOLIO_UPDATE", "FILL")'
    BY <1>0, <1>1, <1>2, <1>8, <2>1, CameOfNew
  <2>3. /\ CameOf("ORDER", "SIGNAL")' /\ CameOf("FILL", "ORDER")'
        /\ Effects("FILL")' = Effects("FILL")
    BY <1>1, <1>4, <2>1, CameOfKept
  <2>4. AllCaused("FILL", "PORTFOLIO_UPDATE")'
    BY <1>0, <1>1, <1>2, <2>1, AllCausedNew
  <2>5. AllCaused("ORDER", "FILL")'
    BY <1>1, <1>3, <1>4, <1>8, AllCausedKept DEF Current
  <2>6. FillsFaithful'
    BY <1>1, <2>3, FaithfulKept
  <2>. QED BY <1>1, <1>5, <2>2, <2>3, <2>4, <2>5, <2>6, FillsPartsNext DEF ReactionDue
<1>9. Current.type \in {"SIGNAL", "ORDER", "FILL"}
  BY DEF ReactionDue, PublishReaction
<1>. QED BY <1>6, <1>7, <1>8, <1>9

(* An order or a fill just begun is to be handled.                         *)
LEMMA BeginKeepsFills ==
  ASSUME FillsInv, Begin
  PROVE  ReactionDue' /\ FillsMatchOrders'
<1>1. /\ begun' = begun + 1 /\ begun + 1 \in DOMAIN log /\ log' = log /\ begun \in Nat
      /\ Returned /\ Returned' /\ pending = <<>> /\ reaction' = <<>>
      /\ pending' = members[log[begun + 1].type]
  BY LenProperties DEF Begin, Returned, FillsInv, TypeInv, BusInv, LogTyped
<1>2. HandledEvents = 1 .. begun
      /\ HandledEvents' = IF pending' = <<>> THEN 1 .. begun + 1 ELSE 1 .. (begun + 1) - 1
  BY <1>1 DEF HandledEvents
<1>3. log[begun + 1].type \in {"ORDER", "FILL"} => pending' # <<>>
  <2>1. built \in 0 .. 13 /\ built > 12
    BY <1>1, SubscriptionsTyped, LenProperties
    DEF FillsInv, TypeInv, BusInv, Wired, LogTyped, Started
  <2>2. \A k \in Sole : ~ (built < k)
    BY <2>1 DEF Sole
  <2>3. \A k \in Sole : members[Subscriptions[k].type] = <<Subscriptions[k].callback>>
    BY <2>2 DEF FillsInv, Subscribed
  <2>4. log[begun + 1].type \in {"ORDER", "FILL"} =>
          \E k \in Sole : log[begun + 1].type = Subscriptions[k].type
    BY SoleTypes DEF Sole
  <2>5. \A d : <<d>> # <<>>
    OBVIOUS
  <2>. QED BY <1>1, <2>3, <2>4, <2>5
<1>4. HandledEvents \subseteq HandledEvents'
      /\ \A n \in HandledEvents' : \/ n \in HandledEvents
                                   \/ n \in DOMAIN log /\ log[n].type \notin {"ORDER", "FILL"}
  BY <1>1, <1>2, <1>3
<1>5. FillsMatchOrders'
  BY <1>1, <1>4, NothingDue DEF FillsInv, TypeInv
<1>. QED BY <1>1, <1>5 DEF ReactionDue

(* An order is filled at its price or a worse one. *)
LEMMA FilledAtWorse ==
  ASSUME NEW o \in OrderEvents
  PROVE  Signed(o.direction, FillPrice(o) - o.market_price) >= 0
<1>1. o.market_price \in Nat /\ SlippageDivisor \in Nat \ {0} /\ o.direction \in Directions
  BY PipelineAssumption DEF OrderEvents
<1>2. o.market_price \div SlippageDivisor \in Nat
  BY <1>1, QuotientNat
<1>. QED BY <1>1, <1>2 DEF Signed, FillPrice, Directions

LEMMA FillsInvStep == FillsInv /\ [Next]_vars => FillsInv'
<1>. SUFFICES ASSUME FillsInv, [Next]_vars PROVE ReactionDue' /\ FillsMatchOrders'
  BY TypeInvStep, SubscribedStep DEF FillsInv, TypeInv
<1>0. /\ begun \in 0 .. Len(log) /\ Len(log) \in Nat
      /\ begun > 0 => Started
  BY LenProperties DEF FillsInv, TypeInv, BusInv, LogTyped, Wired
<1>1. ASSUME UNCHANGED <<log, begun, pending, loop, reaction>>
      PROVE  ReactionDue' /\ FillsMatchOrders'
  <2>1. HandledEvents' = HandledEvents
    BY <1>1, HandledKept
  <2>2. FillsMatchOrders'
    BY <1>1, <2>1, NothingDue DEF FillsInv, TypeInv
  <2>. QED BY <1>1, <2>2 DEF FillsInv, ReactionDue, Current, Fills
<1>2. ASSUME NEW e, Publish(e), UNCHANGED <<begun, pending, loop, reaction>>,
             e.type \notin {"ORDER", "FILL"},
             e.type = "PORTFOLIO_UPDATE" => e.cause = 0 /\ Len(log) = 0
      PROVE  ReactionDue' /\ FillsMatchOrders'
  <2>1. HandledEvents' = HandledEvents
    BY <1>2, HandledKept
  <2>2. FillsMatchOrders'
    BY <1>2, <2>1, NothingDue DEF FillsInv, TypeInv
  <2>3. begun > 0 => Current' = Current
    BY <1>0, <1>2, Extended DEF FillsInv, TypeInv, BusInv, Current
  <2>4. reaction # <<>> => begun > 0
    BY DEF FillsInv, TypeInv, BusInv, InCallback
  <2>. QED BY <1>2, <2>2, <2>3, <2>4 DEF FillsInv, ReactionDue, Fills
<1>3. CASE UNCHANGED vars
  BY <1>1, <1>3 DEF vars, bus_vars, call_vars
<1>4. CASE Construct
  BY <1>1, <1>4 DEF Construct, call_vars
<1>5. CASE PortfolioStart
  <2>1. PICK e : Publish(e) /\ e.type = "PORTFOLIO_UPDATE" /\ e.cause = 0
    BY <1>5 DEF PortfolioStart
  <2>2. Len(log) = 0
    BY <1>0, <1>5, SubscriptionsTyped
    DEF PortfolioStart, FillsInv, TypeInv, BusInv, Wired, Started
  <2>. QED BY <1>2, <1>5, <2>1, <2>2 DEF PortfolioStart, call_vars
<1>6. CASE Feed
  <2>1. PICK e : Publish(e) /\ (e \in FeedEvents \/ e = [type |-> "SYSTEM"])
    BY <1>6 DEF Feed
  <2>2. e.type \notin {"ORDER", "FILL", "PORTFOLIO_UPDATE"}
    BY <2>1, PipelineAssumption
    DEF MarketEvents, OrderBookEvents, NewsEvents, MarketRegimeChangedEvents
  <2>. QED BY <1>2, <1>6, <2>1, <2>2 DEF Feed, bus_vars, call_vars
<1>7. CASE Begin
  BY <1>7, BeginKeepsFills
<1>8. CASE PublishReaction
  BY <1>8, ReactionPublished
<1>9. CASE EnterLoop
  <2>1. PICK c \in {"StrategyManager.on_market_event", "StrategyManager.on_order_book_event"} :
          Call(c)
    BY <1>9 DEF EnterLoop
  <2>. QED BY <1>9, <2>1, CallsKeepFills DEF EnterLoop
<1>10. CASE Evaluate
  <2>1. /\ UNCHANGED <<begun, pending, reaction>> /\ loop > 0 /\ begun > 0
        /\ Current.type \in {"MARKET", "ORDER_BOOK"}
    BY <1>10 DEF Evaluate, bus_vars, FillsInv, TypeInv, BusInv, InCallback
  <2>2. reaction = <<>>
    BY <2>1 DEF FillsInv, ReactionDue
  <2>3. /\ HandledEvents \subseteq HandledEvents'
        /\ \A n \in HandledEvents' : \/ n \in HandledEvents
                                     \/ n \in DOMAIN log /\ log[n].type \notin {"ORDER", "FILL"}
    <3>1. HandledEvents = 1 .. begun - 1
          /\ (HandledEvents' = 1 .. begun - 1 \/ HandledEvents' = 1 .. begun)
      BY <2>1 DEF HandledEvents, Returned
    <3>2. begun \in DOMAIN log /\ log[begun].type \notin {"ORDER", "FILL"}
      BY <1>0, <2>1, LenProperties DEF Current, FillsInv, TypeInv, BusInv, LogTyped
    <3>. QED BY <1>0, <3>1, <3>2
  <2>4. log' = log \/ \E e : Publish(e) /\ e.type = "SIGNAL"
    <3>1. CASE log' # log
      <4>1. PICK d : Publish([type |-> "SIGNAL", symbol |-> Current.symbol,
                              direction |-> d, cause |-> begun])
        BY <1>10, <3>1, EvaluateSignals DEF FillsInv, TypeInv
      <4>. QED BY <4>1
    <3>. QED BY <3>1
  <2>5. FillsMatchOrders'
    BY <2>3, <2>4, NothingDue DEF FillsInv, TypeInv
  <2>. QED BY <2>1, <2>2, <2>5 DEF ReactionDue
<1>11. CASE OnNews \/ OnMarketRegime
  BY <1>11, CallsKeepFills DEF OnNews, OnMarketRegime, ReturnsSilently
<1>12. CASE RiskOnMarket \/ RiskOnOrderBook \/ RiskOnPortfolioUpdate
  BY <1>12, CallsKeepFills
  DEF RiskOnMarket, RiskOnOrderBook, RiskOnPortfolioUpdate, ReturnsSilently
<1>13. CASE RiskOnSignal
  <2>1. Call("RiskManager.on_signal")
        /\ (ReturnsSilently \/ \E e : Reacts(e) /\ e.type = "ORDER" /\ e.cause = begun)
    <3>1. CASE Current.symbol \notin DOMAIN latest_prices
      BY <1>13, <3>1 DEF RiskOnSignal
    <3>2. CASE Current.symbol \in DOMAIN latest_prices
      <4>1. PICK price, quantity :
              \/ ReturnsSilently
              \/ Reacts([type |-> "ORDER", symbol |-> Current.symbol,
                         direction |-> Current.direction, quantity |-> quantity,
                         market_price |-> price, cause |-> begun])
        BY <1>13, <3>2 DEF RiskOnSignal
      <4>. QED BY <1>13, <4>1 DEF RiskOnSignal
    <3>. QED BY <3>1, <3>2
  <2>2. CASE ReturnsSilently
    BY <2>1, <2>2, CallsKeepFills DEF ReturnsSilently
  <2>3. CASE \E e : Reacts(e) /\ e.type = "ORDER" /\ e.cause = begun
    BY <2>1, <2>3, ReactionsKeepFills
  <2>. QED BY <2>1, <2>2, <2>3
<1>14. CASE OnOrder
  <2>1. Call("ExecutionHandler.on_order") /\ Current \in OrderEvents
    <3>1. Call("ExecutionHandler.on_order")
      BY <1>14 DEF OnOrder
    <3>2. Current.type = "ORDER" /\ begun > 0
      BY <3>1, CallType DEF FillsInv, TypeInv
    <3>. QED BY <3>1, <3>2, CurrentTyped, EventKinds DEF FillsInv, TypeInv
  <2>2. PICK o : o = Current
    OBVIOUS
  <2>3. Signed(o.direction, FillPrice(o) - o.market_price) >= 0
    BY <2>1, <2>2, FilledAtWorse
  <2>4. PICK e : Reacts(e) /\ e.type = "FILL" /\ e.cause = begun
                 /\ e.symbol = o.symbol /\ e.direction = o.direction
                 /\ e.quantity = o.quantity /\ e.fill_price = FillPrice(o)
    BY <1>14, <2>2 DEF OnOrder
  <2>5. Fills(e, Current)
    BY <2>2, <2>3, <2>4 DEF Fills
  <2>. QED BY <2>1, <2>4, <2>5, ReactionsKeepFills
<1>15. CASE PortfolioOnFill
  <2>1. PICK e : Reacts(e) /\ e.type = "PORTFOLIO_UPDATE" /\ e.cause = begun'
    BY <1>15 DEF PortfolioOnFill, PortfolioUpdate
  <2>2. Call("PortfolioManager.on_fill") /\ begun' = begun
    BY <1>15 DEF PortfolioOnFill, Call, bus_vars
  <2>. QED BY <2>1, <2>2, ReactionsKeepFills
<1>16. CASE AnalyticsOnPortfolioUpdate \/ OnSystem
  BY <1>16, CallsKeepFills DEF AnalyticsOnPortfolioUpdate, OnSystem, ReturnsSilently
<1>. QED BY <1>3, <1>4, <1>5, <1>6, <1>7, <1>8, <1>9, <1>10, <1>11, <1>12, <1>13, <1>14, <1>15,
            <1>16 DEF Next

(* Execution is exactly once, however signals, orders, fills and updates   *)
(* interleave with the feed: no signal is ordered twice, every order       *)
(* handled has its one fill, in order and at no better a price, and every  *)
(* fill handled its one update.                                            *)
THEOREM ExecutedOnce == Spec => []FillsMatchOrders
<1>1. Spec => []FillsInv
  BY FillsInvInit, FillsInvStep, PTL DEF Spec
<1>2. FillsInv => FillsMatchOrders
  BY DEF FillsInv
<1>. QED BY <1>1, <1>2, PTL
-----------------------------------------------------------------------------
(***************************************************************************)
(* StrategyManager's signals, counted: each strategy is asked once about   *)
(* each quote, and answers with the signal the log calls for, if any.      *)
(***************************************************************************)
StrategyCalls == {"StrategyManager.on_market_event", "StrategyManager.on_order_book_event"}

(* A quote reaches StrategyManager, which then loops over the strategies,  *)
(* and RiskManager after it.                                               *)
MarketCalls == <<"StrategyManager.on_market_event", "RiskManager.on_market">>
BookCalls == <<"StrategyManager.on_order_book_event", "RiskManager.on_order_book">>
Remaining(callbacks) == IF loop > 0 THEN {<<callbacks[2]>>}
                                    ELSE {<<>>, <<callbacks[2]>>, callbacks}
QuotesCalled ==
  /\ members["MARKET"] = IF built < 1 THEN <<>>
                         ELSE IF built < 7 THEN <<MarketCalls[1]>> ELSE MarketCalls
  /\ members["ORDER_BOOK"] = IF built < 2 THEN <<>>
                             ELSE IF built < 9 THEN <<BookCalls[1]>> ELSE BookCalls
  /\ begun > 0 /\ Current.type = "MARKET" => pending \in Remaining(MarketCalls)
  /\ begun > 0 /\ Current.type = "ORDER_BOOK" => pending \in Remaining(BookCalls)

(* The strategies that were asked about the event at position n.           *)
Entered(n) ==
  /\ log[n].type \in {"MARKET", "ORDER_BOOK"}
  /\ n < begun \/ (n = begun /\ Entries(pending) \cap StrategyCalls = {})
Asked(n) == IF ~ Entered(n) THEN {}
            ELSE IF n = begun /\ loop > 0 THEN 1 .. loop - 1
            ELSE StrategyIds
Callers(n, d) == {k \in Asked(n) : CallsFor(k, n, d)}
Answered == \A n \in DOMAIN log : \A d \in Directions :
              Cardinality(SignalsOf(n, d)) = Cardinality(Callers(n, d))

AnswersInv == SignalsInv /\ QuotesCalled /\ Answered

(* What a step is to StrategyManager. *)
LEMMA StrategySteps ==
  ASSUME BusInv, [Next]_vars
  PROVE  \/ Construct \/ Begin \/ EnterLoop \/ Evaluate
         \/ \E c : Call(c) /\ c \notin StrategyCalls /\ loop' = loop
         \/ /\ \E e : Publish(e) /\ e.type # "SIGNAL"
            /\ UNCHANGED <<members, begun, pending, loop>>
            /\ built' = built \/ (built = 12 /\ built' = 13)
         \/ UNCHANGED <<built, members, log, begun, pending, loop>>
<1>. USE DEF bus_vars, call_vars
<1>1. CASE PortfolioStart
  <2>1. \E e : Publish(e) /\ e.type # "SIGNAL"
    BY <1>1 DEF PortfolioStart
  <2>. QED BY <1>1, <2>1, SubscriptionsTyped DEF PortfolioStart
<1>2. CASE Feed
  <2>1. PICK e : Publish(e) /\ (e \in FeedEvents \/ e = [type |-> "SYSTEM"])
    BY <1>2 DEF Feed
  <2>2. e.type # "SIGNAL"
    BY <2>1, PipelineAssumption
    DEF MarketEvents, OrderBookEvents, NewsEvents, MarketRegimeChangedEvents
  <2>. QED BY <1>2, <2>1, <2>2 DEF Feed
<1>3. CASE PublishReaction
  <2>1. Publish(Head(reaction)) /\ Head(reaction).type # "SIGNAL"
    BY <1>3 DEF PublishReaction, BusInv, InCallback
  <2>. QED BY <1>3, <2>1 DEF PublishReaction
<1>4. CASE UNCHANGED vars
  BY <1>4 DEF vars
<1>5. CASE OnNews \/ OnMarketRegime
  BY <1>5 DEF OnNews, OnMarketRegime, ReturnsSilently, StrategyCalls
<1>6. CASE RiskOnMarket \/ RiskOnOrderBook \/ RiskOnPortfolioUpdate
  BY <1>6 DEF RiskOnMarket, RiskOnOrderBook, RiskOnPortfolioUpdate, ReturnsSilently,
              StrategyCalls
<1>7. CASE RiskOnSignal
  <2>1. loop' = loop
    BY <1>7 DEF RiskOnSignal, ReturnsSilently, Reacts
  <2>. QED BY <1>7, <2>1 DEF RiskOnSignal, StrategyCalls
<1>8. CASE OnOrder
  BY <1>8 DEF OnOrder, Reacts, StrategyCalls
<1>9. CASE PortfolioOnFill
  BY <1>9 DEF PortfolioOnFill, Reacts, StrategyCalls
<1>10. CASE AnalyticsOnPortfolioUpdate \/ OnSystem
  BY <1>10 DEF AnalyticsOnPortfolioUpdate, OnSystem, ReturnsSilently, StrategyCalls
<1>. QED BY <1>1, <1>2, <1>3, <1>4, <1>5, <1>6, <1>7, <1>8, <1>9, <1>10 DEF Next

LEMMA QuoteSubscriptions ==
  /\ Subscriptions[1] = [callback |-> MarketCalls[1], type |-> "MARKET"]
  /\ Subscriptions[7] = [callback |-> MarketCalls[2], type |-> "MARKET"]
  /\ Subscriptions[2] = [callback |-> BookCalls[1], type |-> "ORDER_BOOK"]
  /\ Subscriptions[9] = [callback |-> BookCalls[2], type |-> "ORDER_BOOK"]
  /\ \A k \in 1 .. 12 : Subscriptions[k].type = "MARKET" => k \in {1, 7}
  /\ \A k \in 1 .. 12 : Subscriptions[k].type = "ORDER_BOOK" => k \in {2, 9}
<1>1. \A k \in 1 .. 12 : Subscriptions[k].type = "MARKET" => k \in {1, 7}
  BY DEF Subscriptions
<1>2. \A k \in 1 .. 12 : Subscriptions[k].type = "ORDER_BOOK" => k \in {2, 9}
  BY DEF Subscriptions
<1>3. /\ Subscriptions[1] = [callback |-> MarketCalls[1], type |-> "MARKET"]
      /\ Subscriptions[7] = [callback |-> MarketCalls[2], type |-> "MARKET"]
      /\ Subscriptions[2] = [callback |-> BookCalls[1], type |-> "ORDER_BOOK"]
      /\ Subscriptions[9] = [callback |-> BookCalls[2], type |-> "ORDER_BOOK"]
  BY DEF Subscriptions, MarketCalls, BookCalls
<1>. QED BY <1>1, <1>2, <1>3

LEMMA AppendTwo == ASSUME NEW a, NEW b PROVE Append(<<a>>, b) = <<a, b>>
<1>. PICK S : S = {a, b}
  OBVIOUS
<1>1. <<a>> \in Seq(S) /\ <<a, b>> \in Seq(S) /\ b \in S
  OBVIOUS
<1>2. Len(<<a>>) = 1 /\ Len(<<a, b>>) = 2 /\ <<a>>[1] = a /\ <<a, b>>[1] = a /\ <<a, b>>[2] = b
  OBVIOUS
<1>. PICK s : s = Append(<<a>>, b)
  OBVIOUS
<1>. PICK one : one = <<a>>
  OBVIOUS
<1>3. /\ Append(one, b) \in Seq(S) /\ Len(Append(one, b)) = Len(one) + 1
      /\ \A i \in 1 .. Len(one) : Append(one, b)[i] = one[i]
      /\ Append(one, b)[Len(one) + 1] = b
  BY <1>1, AppendProperties
<1>4. s \in Seq(S) /\ Len(s) = 2 /\ s[1] = a /\ s[2] = b
  BY <1>2, <1>3
<1>. PICK two : two = <<a, b>>
  OBVIOUS
<1>5. two \in Seq(S) /\ Len(s) = Len(two) /\ \A i \in 1 .. Len(s) : s[i] = two[i]
  BY <1>1, <1>2, <1>4
<1>6. s = two
  BY <1>4, <1>5, SeqEqual
<1>. QED BY <1>6

LEMMA ConstructKeepsQuotes == BusInv /\ QuotesCalled /\ Construct => QuotesCalled'
<1>. SUFFICES ASSUME BusInv, QuotesCalled, Construct PROVE QuotesCalled'
  OBVIOUS
<1>1. PICK n \in 1 .. 12 :
        /\ n = built + 1 /\ built' = n /\ built \in 0 .. 11
        /\ members' = [members EXCEPT ![Subscriptions[n].type] =
                         Append(@, Subscriptions[n].callback)]
  <2>1. Len(Subscriptions) = 12 /\ built \in 0 .. 13
    BY SubscriptionsTyped DEF BusInv, Wired
  <2>2. built \in 0 .. 11 /\ built + 1 \in 1 .. 12
    BY <2>1 DEF Construct
  <2>. QED BY <2>2 DEF Construct
<1>2. "MARKET" \in DOMAIN members /\ "ORDER_BOOK" \in DOMAIN members
  BY DEF BusInv, Wired, EventTypes
<1>3. begun' = 0
  <2>1. ~ Started
    BY <1>1, SubscriptionsTyped DEF Started
  <2>2. Len(log) = 0
    BY <2>1, LenProperties DEF BusInv, LogTyped, Wired
  <2>. QED BY <2>2 DEF BusInv, LogTyped, Construct
<1>4. members'["MARKET"] = IF n < 1 THEN <<>>
                           ELSE IF n < 7 THEN <<MarketCalls[1]>> ELSE MarketCalls
  <2>1. CASE n = 1
    <3>1. members["MARKET"] = <<>>
      BY <1>1, <2>1 DEF QuotesCalled
    <3>2. members' = [members EXCEPT !["MARKET"] = Append(@, MarketCalls[1])]
      <4>1. Subscriptions[n].type = "MARKET" /\ Subscriptions[n].callback = MarketCalls[1]
        BY <2>1, QuoteSubscriptions
      <4>. QED BY <1>1, <4>1
    <3>3. members'["MARKET"] = Append(<<>>, MarketCalls[1])
      BY <1>2, <3>1, <3>2
    <3>. QED BY <2>1, <3>3
  <2>2. CASE n = 7
    <3>1. members["MARKET"] = <<MarketCalls[1]>>
      BY <1>1, <2>2 DEF QuotesCalled
    <3>2. members' = [members EXCEPT !["MARKET"] = Append(@, MarketCalls[2])]
      <4>1. Subscriptions[n].type = "MARKET" /\ Subscriptions[n].callback = MarketCalls[2]
        BY <2>2, QuoteSubscriptions
      <4>. QED BY <1>1, <4>1
    <3>3. members'["MARKET"] = Append(<<MarketCalls[1]>>, MarketCalls[2])
      BY <1>2, <3>1, <3>2
    <3>4. members'["MARKET"] = MarketCalls
      BY <3>3, AppendTwo DEF MarketCalls
    <3>. QED BY <2>2, <3>4
  <2>3. CASE n \notin {1, 7}
    <3>1. members'["MARKET"] = members["MARKET"]
      BY <1>1, <1>2, <2>3, QuoteSubscriptions
    <3>. QED BY <1>1, <2>3, <3>1 DEF QuotesCalled
  <2>. QED BY <2>1, <2>2, <2>3
<1>5. members'["ORDER_BOOK"] = IF n < 2 THEN <<>>
                               ELSE IF n < 9 THEN <<BookCalls[1]>> ELSE BookCalls
  <2>1. CASE n = 2
    <3>1. members["ORDER_BOOK"] = <<>>
      BY <1>1, <2>1 DEF QuotesCalled
    <3>2. members' = [members EXCEPT !["ORDER_BOOK"] = Append(@, BookCalls[1])]
      <4>1. Subscriptions[n].type = "ORDER_BOOK" /\ Subscriptions[n].callback = BookCalls[1]
        BY <2>1, QuoteSubscriptions
      <4>. QED BY <1>1, <4>1
    <3>3. members'["ORDER_BOOK"] = Append(<<>>, BookCalls[1])
      BY <1>2, <3>1, <3>2
    <3>. QED BY <2>1, <3>3
  <2>2. CASE n = 9
    <3>1. members["ORDER_BOOK"] = <<BookCalls[1]>>
      BY <1>1, <2>2 DEF QuotesCalled
    <3>2. members' = [members EXCEPT !["ORDER_BOOK"] = Append(@, BookCalls[2])]
      <4>1. Subscriptions[n].type = "ORDER_BOOK" /\ Subscriptions[n].callback = BookCalls[2]
        BY <2>2, QuoteSubscriptions
      <4>. QED BY <1>1, <4>1
    <3>3. members'["ORDER_BOOK"] = Append(<<BookCalls[1]>>, BookCalls[2])
      BY <1>2, <3>1, <3>2
    <3>4. members'["ORDER_BOOK"] = BookCalls
      BY <3>3, AppendTwo DEF BookCalls
    <3>. QED BY <2>2, <3>4
  <2>3. CASE n \notin {2, 9}
    <3>1. members'["ORDER_BOOK"] = members["ORDER_BOOK"]
      BY <1>1, <1>2, <2>3, QuoteSubscriptions
    <3>. QED BY <1>1, <2>3, <3>1 DEF QuotesCalled
  <2>. QED BY <2>1, <2>2, <2>3
<1>. QED BY <1>1, <1>3, <1>4, <1>5 DEF QuotesCalled

(* The callbacks of a quote are called one after the other.                *)
LEMMA CallsInTurn ==
  ASSUME NEW a, NEW b
  PROVE  /\ Head(<<a, b>>) = a /\ Tail(<<a, b>>) = <<b>>
         /\ Head(<<b>>) = b /\ Tail(<<b>>) = <<>>
<1>1. Head(<<a, b>>) = a
  OBVIOUS
<1>2. Tail(<<a, b>>) = <<b>>
  OBVIOUS
<1>3. Head(<<b>>) = b
  OBVIOUS
<1>4. Tail(<<b>>) = <<>>
  OBVIOUS
<1>. QED BY <1>1, <1>2, <1>3, <1>4

LEMMA QuotesCalledInit == Init => QuotesCalled
BY DEF Init, QuotesCalled, EventTypes

LEMMA QuotesCalledStep == BusInv /\ QuotesCalled /\ [Next]_vars => QuotesCalled'
<1>. SUFFICES ASSUME BusInv, QuotesCalled, [Next]_vars PROVE QuotesCalled'
  OBVIOUS
<1>0. /\ built \in 0 .. 13 /\ begun \in Nat /\ loop \in Nat
      /\ Len(log) \in Nat
  BY SubscriptionsTyped, LenProperties, PipelineAssumption
  DEF BusInv, Wired, LogTyped, InCallback
<1>1. ASSUME UNCHANGED <<members, begun, pending, loop>>,
             built' = built \/ (built = 12 /\ built' = 13),
             begun > 0 => Current' = Current
      PROVE  QuotesCalled'
  BY <1>0, <1>1 DEF QuotesCalled, Remaining
<1>2. CASE Begin
  <2>1. /\ begun' = begun + 1 /\ log' = log /\ loop' = 0 /\ loop = 0
        /\ Current' = log[begun + 1] /\ pending' = members[Current'.type]
        /\ Len(log) > 0 /\ UNCHANGED <<members, built>>
    BY <1>0, <1>2 DEF Begin, Returned, Current
  <2>2. built > 12
    BY <2>1, SubscriptionsTyped DEF BusInv, Wired, Started
  <2>3. members["MARKET"] = MarketCalls /\ members["ORDER_BOOK"] = BookCalls
    BY <1>0, <2>2 DEF QuotesCalled
  <2>. QED BY <2>1, <2>3 DEF QuotesCalled, Remaining
<1>3. ASSUME NEW c, Call(c), c \in StrategyCalls \/ loop' = loop PROVE QuotesCalled'
  <2>1. /\ Current' = Current /\ loop = 0 /\ begun > 0
        /\ UNCHANGED <<members, built, begun>>
        /\ pending # <<>> /\ c = Head(pending) /\ pending' = Tail(pending)
        /\ [callback |-> c, type |-> Current.type] \in Entries(Subscriptions)
    BY <1>3, Called DEF Call, bus_vars
  <2>2. ASSUME Current.type = "MARKET" PROVE pending' \in Remaining(MarketCalls)'
    <3>1. pending \in {<<>>, <<"RiskManager.on_market">>, MarketCalls}
      BY <2>1, <2>2 DEF QuotesCalled, Remaining, MarketCalls
    <3>2. /\ pending = <<"RiskManager.on_market">> => /\ c = "RiskManager.on_market"
                                                      /\ pending' = <<>>
          /\ pending = MarketCalls => pending' = <<"RiskManager.on_market">>
      <4>1. Head(<<"RiskManager.on_market">>) = "RiskManager.on_market" /\ Tail(<<"RiskManager.on_market">>) = <<>>
        BY CallsInTurn
      <4>2. Tail(MarketCalls) = <<"RiskManager.on_market">>
        BY CallsInTurn DEF MarketCalls
      <4>. QED BY <2>1, <4>1, <4>2
    <3>3. CASE loop' = loop
      BY <2>1, <3>1, <3>2, <3>3 DEF Remaining, MarketCalls
    <3>4. CASE c \in StrategyCalls
      <4>1. c # "RiskManager.on_market"
        BY <3>4 DEF StrategyCalls
      <4>2. pending' = <<"RiskManager.on_market">>
        BY <2>1, <3>1, <3>2, <4>1
      <4>. QED BY <4>2 DEF Remaining, MarketCalls
    <3>. QED BY <1>3, <3>3, <3>4
  <2>3. ASSUME Current.type = "ORDER_BOOK" PROVE pending' \in Remaining(BookCalls)'
    <3>1. pending \in {<<>>, <<"RiskManager.on_order_book">>, BookCalls}
      BY <2>1, <2>3 DEF QuotesCalled, Remaining, BookCalls
    <3>2. /\ pending = <<"RiskManager.on_order_book">> => /\ c = "RiskManager.on_order_book"
                                                          /\ pending' = <<>>
          /\ pending = BookCalls => pending' = <<"RiskManager.on_order_book">>
      <4>1. Head(<<"RiskManager.on_order_book">>) = "RiskManager.on_order_book" /\ Tail(<<"RiskManager.on_order_book">>) = <<>>
        BY CallsInTurn
      <4>2. Tail(BookCalls) = <<"RiskManager.on_order_book">>
        BY CallsInTurn DEF BookCalls
      <4>. QED BY <2>1, <4>1, <4>2
    <3>3. CASE loop' = loop
      BY <2>1, <3>1, <3>2, <3>3 DEF Remaining, BookCalls
    <3>4. CASE c \in StrategyCalls
      <4>1. c # "RiskManager.on_order_book"
        BY <3>4 DEF StrategyCalls
      <4>2. pending' = <<"RiskManager.on_order_book">>
        BY <2>1, <3>1, <3>2, <4>1
      <4>. QED BY <4>2 DEF Remaining, BookCalls
    <3>. QED BY <1>3, <3>3, <3>4
  <2>. QED BY <2>1, <2>2, <2>3 DEF QuotesCalled
<1>4. CASE Evaluate
  <2>1. /\ UNCHANGED <<members, built, begun, pending>> /\ loop > 0 /\ begun > 0
    BY <1>4 DEF Evaluate, bus_vars, BusInv, InCallback
  <2>2. Current' = Current
    <3>1. log' = log \/ \E e : Publish(e)
      BY <1>4 DEF Evaluate
    <3>2. begun \in DOMAIN log
      BY <1>0, <2>1, LenProperties DEF BusInv, LogTyped
    <3>. QED BY <2>1, <3>1, <3>2, Extended DEF Current, BusInv
  <2>. QED BY <2>1, <2>2 DEF QuotesCalled, Remaining
<1>5. CASE EnterLoop
  BY <1>3, <1>5 DEF EnterLoop, StrategyCalls
<1>6. ASSUME NEW e, Publish(e), UNCHANGED begun PROVE begun > 0 => Current' = Current
  BY <1>6, Extended DEF BusInv, LogTyped, Current
<1>7. UNCHANGED <<log, begun>> => Current' = Current
  BY DEF Current
<1>. QED BY <1>1, <1>2, <1>3, <1>4, <1>5, <1>6, <1>7, ConstructKeepsQuotes, StrategySteps

LEMMA LogSize ==
  ASSUME BusInv
  PROVE  /\ Len(log) \in Nat /\ DOMAIN log = 1 .. Len(log)
         /\ begun \in 0 .. Len(log)
         /\ Len(Strategies) \in Nat /\ StrategyIds = 1 .. Len(Strategies)
         /\ loop \in 0 .. Len(Strategies)
BY LenProperties, PipelineAssumption DEF BusInv, LogTyped, InCallback, StrategyIds

(* While StrategyManager loops, the quote is past its callback. *)
LEMMA LoopEntered == ASSUME BusInv, QuotesCalled, loop > 0 PROVE Entered(begun)
<1>1. begun > 0 /\ Current.type \in {"MARKET", "ORDER_BOOK"}
  BY DEF BusInv, InCallback
<1>2. pending \in {<<"RiskManager.on_market">>, <<"RiskManager.on_order_book">>}
  BY <1>1 DEF QuotesCalled, Remaining, MarketCalls, BookCalls
<1>3. Entries(pending) \cap StrategyCalls = {}
  BY <1>2 DEF Entries, StrategyCalls
<1>. QED BY <1>1, <1>3 DEF Entered, Current

(* What the log calls for does not change with what is published later. *)
LEMMA CallsForKept ==
  ASSUME BusInv, log' = log \/ (\E e : Publish(e)), NEW n \in DOMAIN log, NEW k, NEW d
  PROVE  CallsFor(k, n, d)' <=> CallsFor(k, n, d)
<1>1. n \in 0 .. Len(log) + 1
  BY LogSize
<1>2. log'[n] = log[n]
  BY Extended DEF BusInv
<1>3. /\ HighVolatility(n)' <=> HighVolatility(n)
      /\ \A s : Sentiment(n, s)' = Sentiment(n, s)
  BY <1>1, PastKept, SameLog DEF BusInv
<1>. QED BY <1>2, <1>3 DEF CallsFor, Imbalance

(* A step other than a turn of the loop asks nobody. *)
LEMMA AskedKept ==
  ASSUME BusInv, QuotesCalled, [Next]_vars, ~ Evaluate, NEW n \in DOMAIN log
  PROVE  /\ Asked(n)' = Asked(n)
         /\ log' = log \/ (\E e : Publish(e) /\ e.type # "SIGNAL")
<1>0. BusInv'
  BY BusInvStep
<1>1. ASSUME UNCHANGED <<begun, loop>>, log'[n] = log[n],
             n = begun => (Entries(pending') \cap StrategyCalls = {}
                             <=> Entries(pending) \cap StrategyCalls = {})
      PROVE  Asked(n)' = Asked(n)
  BY <1>1 DEF Asked, Entered, StrategyIds
<1>2. CASE Begin
  <2>1. /\ begun' = begun + 1 /\ log' = log /\ loop' = 0 /\ loop = 0
        /\ Entries(pending) = {} /\ pending' = members[log[begun + 1].type]
        /\ begun + 1 \in DOMAIN log
    BY <1>2, LogSize DEF Begin, Returned, Entries
  <2>2. CASE n # begun + 1
    <3>1. Entered(n)' <=> Entered(n)
      BY <2>1, <2>2, LogSize DEF Entered
    <3>. QED BY <2>1, <3>1 DEF Asked, StrategyIds
  <2>3. CASE n = begun + 1
    <3>1. ~ Entered(n)
      BY <2>3, LogSize DEF Entered
    <3>2. ~ Entered(n)'
      <4>1. built > 12
        BY <2>1, SubscriptionsTyped, LogSize DEF BusInv, Wired, Started
      <4>2. built \in 0 .. 13
        BY SubscriptionsTyped DEF BusInv, Wired
      <4>3. members["MARKET"] = MarketCalls /\ members["ORDER_BOOK"] = BookCalls
        BY <4>1, <4>2 DEF QuotesCalled
      <4>4. /\ "StrategyManager.on_market_event" \in Entries(MarketCalls)
            /\ "StrategyManager.on_order_book_event" \in Entries(BookCalls)
        BY DEF Entries, MarketCalls, BookCalls
      <4>5. log[n].type \in {"MARKET", "ORDER_BOOK"} =>
              Entries(pending') \cap StrategyCalls # {}
        BY <2>1, <2>3, <4>3, <4>4 DEF StrategyCalls
      <4>. QED BY <2>1, <2>3, <4>5, LogSize DEF Entered
    <3>. QED BY <2>1, <3>1, <3>2 DEF Asked
  <2>. QED BY <2>1, <2>2, <2>3
<1>3. CASE EnterLoop
  <2>1. PICK c \in StrategyCalls : Call(c)
    BY <1>3 DEF EnterLoop, StrategyCalls
  <2>2. /\ log' = log /\ begun' = begun /\ loop = 0 /\ c \in Entries(pending)
    BY <2>1, Called DEF Call, bus_vars
  <2>3. loop' = IF Strategies = <<>> THEN 0 ELSE 1
    BY <1>3 DEF EnterLoop
  <2>4. CASE n # begun
    BY <2>2, <2>4 DEF Asked, Entered, StrategyIds
  <2>5. CASE n = begun
    <3>1. Asked(n) = {}
      BY <2>1, <2>2, <2>5, LogSize DEF Asked, Entered
    <3>2. Asked(n)' = {}
      <4>1. CASE Strategies = <<>>
        <5>1. StrategyIds = {}
          BY <4>1 DEF StrategyIds
        <5>2. loop' = 0
          BY <2>3, <4>1
        <5>. QED BY <5>1, <5>2 DEF Asked, StrategyIds
      <4>2. CASE Strategies # <<>>
        <5>1. loop' = 1
          BY <2>3, <4>2
        <5>2. 1 .. loop' - 1 = {}
          BY <5>1
        <5>. QED BY <2>2, <2>5, <5>1, <5>2 DEF Asked
      <4>. QED BY <4>1, <4>2
    <3>. QED BY <2>2, <3>1, <3>2
  <2>. QED BY <2>2, <2>4, <2>5
<1>4. ASSUME NEW c, Call(c), c \notin StrategyCalls, loop' = loop
      PROVE  Asked(n)' = Asked(n) /\ log' = log
  <2>1. Entries(pending) = {c} \cup Entries(pending') /\ UNCHANGED <<log, begun>>
    BY <1>4, Called DEF Call, bus_vars
  <2>. QED BY <1>1, <1>4, <2>1
<1>5. ASSUME NEW e, Publish(e), UNCHANGED <<begun, pending, loop>>
      PROVE  Asked(n)' = Asked(n)
  BY <1>1, <1>5, Extended DEF BusInv
<1>6. CASE Construct
  BY <1>1, <1>6 DEF Construct, call_vars
<1>7. CASE UNCHANGED <<log, begun, pending, loop>>
  BY <1>1, <1>7
<1>. QED BY <1>2, <1>3, <1>4, <1>5, <1>6, <1>7, StrategySteps

(* Nobody was asked about an event not begun. *)
LEMMA NotYetAsked ==
  ASSUME BusInv, NEW n, n \in Nat, n > begun PROVE Asked(n) = {}
BY LogSize DEF Asked, Entered

(* One turn of the loop asks one strategy, which signals what the log      *)
(* calls for.                                                              *)
LEMMA TurnAsks ==
  ASSUME BusInv, QuotesCalled, Evaluate
  PROVE  /\ begun \in DOMAIN log /\ loop \in StrategyIds /\ loop \notin Asked(begun)
         /\ begun' = begun /\ Asked(begun)' = Asked(begun) \cup {loop}
         /\ \A n \in DOMAIN log : n # begun => Asked(n)' = Asked(n)
<1>1. /\ loop \in 1 .. Len(Strategies) /\ begun > 0 /\ begun \in 1 .. Len(log)
      /\ UNCHANGED <<begun, pending>> /\ Entered(begun)
      /\ loop' = IF loop = Len(Strategies) THEN 0 ELSE loop + 1
      /\ log' = log \/ \E e : Publish(e)
  <2>1. loop > 0 /\ begun > 0
    BY DEF Evaluate, BusInv, InCallback
  <2>2. UNCHANGED <<begun, pending>> /\ (log' = log \/ \E e : Publish(e))
    BY DEF Evaluate, bus_vars
  <2>3. loop' = IF loop = Len(Strategies) THEN 0 ELSE loop + 1
    BY DEF Evaluate
  <2>. QED BY <2>1, <2>2, <2>3, LogSize, LoopEntered
<1>2. \A n \in DOMAIN log : log'[n] = log[n]
  BY <1>1, Extended DEF BusInv
<1>3. \A n \in DOMAIN log : Entered(n)' <=> Entered(n)
  BY <1>1, <1>2 DEF Entered
<1>4. Asked(begun) = 1 .. loop - 1
  BY <1>1 DEF Asked
<1>5. Asked(begun)' = 1 .. loop
  <2>1. CASE loop = Len(Strategies)
    BY <1>1, <1>3, <2>1, LogSize DEF Asked, StrategyIds
  <2>2. CASE loop # Len(Strategies)
    <3>1. loop' = loop + 1 /\ 1 .. loop' - 1 = 1 .. loop /\ loop' > 0
      BY <1>1, <2>2, LogSize
    <3>. QED BY <1>1, <1>3, <3>1, LogSize DEF Asked
  <2>. QED BY <2>1, <2>2
<1>6. 1 .. loop = (1 .. loop - 1) \cup {loop} /\ loop \notin 1 .. loop - 1
  BY <1>1, LogSize
<1>7. ASSUME NEW n \in DOMAIN log, n # begun PROVE Asked(n)' = Asked(n)
  BY <1>1, <1>3, <1>7 DEF Asked, StrategyIds
<1>. QED BY <1>1, <1>4, <1>5, <1>6, <1>7, LogSize

LEMMA TurnSignals ==
  ASSUME SignalsInv, Evaluate
  PROVE  \/ log' = log /\ \A x \in Directions : ~ CallsFor(loop, begun, x)
         \/ \E d \in Directions :
              /\ Publish([type |-> "SIGNAL", symbol |-> Current.symbol, direction |-> d,
                          cause |-> begun])
              /\ \A x \in Directions : CallsFor(loop, begun, x) <=> x = d
<1>1. /\ loop > 0 /\ loop \in StrategyIds
      /\ begun \in DOMAIN log /\ begun > 0 /\ begun \in 0 .. Len(log) + 1
      /\ Current.type \in {"MARKET", "ORDER_BOOK"}
  BY LogSize DEF SignalsInv, PriceInv, BusInv, InCallback, Evaluate
<1>2. PICK n, book, k : n = begun /\ book = log[begun] /\ k = loop
  OBVIOUS
<1>3. CASE book.type = "MARKET"
  <2>1. \A x \in Directions : CallsFor(k, n, x) <=> ~ Imbalance(k) /\ x = "BUY"
    BY <1>2, <1>3 DEF CallsFor
  <2>2. CASE Imbalance(k)
    BY <1>2, <1>3, <2>1, <2>2 DEF Evaluate, MarketSignals, Current
  <2>3. CASE ~ Imbalance(k)
    <3>1. PICK signals : /\ signals = {[symbol |-> Current.symbol, direction |-> "BUY"]}
                         /\ signals # {}
                         /\ MarketSignals(loop, Current) = signals
      BY <1>2, <2>3 DEF MarketSignals
    <3>2. PICK s \in signals :
            Publish([type |-> "SIGNAL", symbol |-> s.symbol, direction |-> s.direction,
                     cause |-> begun])
      BY <1>2, <1>3, <3>1 DEF Evaluate, Current
    <3>3. s.symbol = Current.symbol /\ s.direction = "BUY"
      BY <3>1
    <3>. QED BY <1>2, <2>1, <2>3, <3>2, <3>3 DEF Directions
  <2>. QED BY <2>2, <2>3
<1>4. CASE book.type = "ORDER_BOOK"
  <2>. DEFINE base == Strategies[k].threshold
              t == IF HighVolatility(n) THEN (base * 3) \div 2 ELSE base
              mine == /\ Imbalance(k) /\ Strategies[k].symbol = book.symbol
                      /\ book.best_bid > 0 /\ book.asks > 0
              buys == 10 * book.bids > t * book.asks
              signals(d) ==
                /\ mine
                /\ d = "BUY" => book.bids * 10 > thresholds[k] * book.asks /\ SentimentOf(k) >= -1
                /\ d = "SELL" => /\ ~ (book.bids * 10 > thresholds[k] * book.asks)
                                 /\ book.bids * thresholds[k] < 10 * book.asks
                                 /\ SentimentOf(k) <= 1
  <2>1. /\ "StrategyManager.on_market_regime_event" \notin Entries(pending)
        /\ "StrategyManager.on_news_event" \notin Entries(pending)
    BY <1>4, <1>2, CallbackTypes DEF SignalsInv, PriceInv, BusInv, PendingWired, Current
  <2>2. /\ HighVolatility(n + 1) <=> HighVolatility(n)
        /\ \A x : Sentiment(n + 1, x) = Sentiment(n, x)
    BY <1>1, <1>4, <1>2, OneMoreRegime, OneMoreNews DEF SignalsInv, PriceInv, BusInv
  <2>3. /\ book \in OrderBookEvents
        /\ Strategies[k] \in [kind : {"every_tick", "imbalance"}, symbol : Symbols,
                                 threshold : Nat]
    <3>1. book \in FeedEvents
      BY <1>1, <1>4, <1>2 DEF SignalsInv, PriceInv, BusInv, LogTyped, FeedTypes
    <3>2. book \in OrderBookEvents
      BY <1>4, <3>1, PipelineAssumption
      DEF MarketEvents, NewsEvents, MarketRegimeChangedEvents
    <3>. QED BY <1>1, <1>2, <3>2, PipelineAssumption, ElementOfSeq, LenProperties DEF StrategyIds
  <2>4. mine => thresholds[k] = t
    BY <1>1, <1>2, <2>1, <2>2 DEF SignalsInv, RegimesKnown, ThresholdsAt
  <2>5. mine => SentimentOf(k) = Sentiment(n, book.symbol)
    <3>. SUFFICES ASSUME mine PROVE SentimentOf(k) = Sentiment(n, book.symbol)
      OBVIOUS
    <3>1. SentimentOf(k) = ScoreOf(k, book.symbol)
      BY DEF SentimentOf, ScoreOf
    <3>. QED BY <1>1, <1>2, <2>1, <2>2, <2>3, <3>1 DEF SignalsInv, NewsKnown
  <2>6. Sentiment(n, book.symbol) \in -2 .. 2
    BY <1>1, <1>2, SentimentTyped DEF SignalsInv, PriceInv, BusInv
  <2>7. /\ book.bids \in Nat /\ book.asks \in Nat /\ t \in Int
    BY <2>3 DEF OrderBookEvents
  <2>8. \A d : CallsFor(k, n, d) <=>
          /\ mine
          /\ \/ d = "BUY" /\ buys /\ Sentiment(n, book.symbol) > -2
             \/ /\ d = "SELL" /\ ~ buys /\ t * book.bids < 10 * book.asks
                /\ Sentiment(n, book.symbol) < 2
    BY <1>2, <1>4 DEF CallsFor
  <2>9. BookSignals(k, book) =
          {[symbol |-> book.symbol, direction |-> d] : d \in {d \in Directions : signals(d)}}
    BY DEF BookSignals
  <2>10. \A d \in Directions : signals(d) <=> CallsFor(k, n, d)
    <3>1. CASE ~ mine
      BY <2>8, <3>1
    <3>2. CASE mine
      <4>. PICK v : v = t
        OBVIOUS
      <4>. PICK m : m = Sentiment(n, book.symbol)
        OBVIOUS
      <4>1. v \in Int /\ m \in -2 .. 2 /\ thresholds[k] = v /\ SentimentOf(k) = m
        BY <2>4, <2>5, <2>6, <2>7, <3>2
      <4>2. book.bids * v = v * book.bids /\ book.bids * 10 = 10 * book.bids
        BY <2>7, <4>1
      <4>. HIDE DEF t, mine
      <4>. QED BY <2>7, <2>8, <3>2, <4>1, <4>2 DEF Directions
    <3>. QED BY <3>1, <3>2
  <2>11. CallsFor(k, n, "BUY") => ~ CallsFor(k, n, "SELL")
    BY <2>8
  <2>. HIDE DEF t, mine, buys, signals
  <2>12. CASE \A x \in Directions : ~ CallsFor(k, n, x)
    <3>1. BookSignals(k, book) = {}
      BY <2>9, <2>10, <2>12
    <3>. QED BY <1>2, <1>4, <2>12, <3>1 DEF Evaluate, Current
  <2>13. CASE \E x \in Directions : CallsFor(k, n, x)
    <3>1. BookSignals(k, book) # {}
      BY <2>9, <2>10, <2>13
    <3>2. PICK s \in BookSignals(k, book) :
            Publish([type |-> "SIGNAL", symbol |-> s.symbol, direction |-> s.direction,
                     cause |-> begun])
      BY <1>2, <1>4, <3>1 DEF Evaluate, Current
    <3>3. PICK d \in Directions : s = [symbol |-> book.symbol, direction |-> d] /\ signals(d)
      BY <2>9, <3>2
    <3>4. \A x \in Directions : CallsFor(k, n, x) <=> x = d
      BY <2>10, <2>11, <3>3 DEF Directions
    <3>. QED BY <1>2, <3>2, <3>3, <3>4 DEF Current
  <2>. QED BY <2>12, <2>13
<1>. QED BY <1>1, <1>2, <1>3, <1>4 DEF Current

LEMMA AnswersFinite ==
  ASSUME BusInv, NEW n, NEW d
  PROVE  IsFiniteSet(SignalsOf(n, d)) /\ IsFiniteSet(Callers(n, d))
<1>1. SignalsOf(n, d) \subseteq 1 .. Len(log)
  BY LogSize DEF SignalsOf, Effects
<1>2. Callers(n, d) \subseteq 1 .. Len(Strategies)
  BY LogSize DEF Callers, Asked, Entered
<1>3. 1 \in Int /\ Len(log) \in Int /\ Len(Strategies) \in Int
  BY LogSize
<1>4. IsFiniteSet(1 .. Len(log)) /\ IsFiniteSet(1 .. Len(Strategies))
  BY <1>3, FS_Interval
<1>. QED BY <1>1, <1>2, <1>4, FS_Subset

LEMMA AnsweredInit == Init => Answered
BY DEF Init, Answered

(* An event just published is no signal's cause, and nobody was asked.     *)
LEMMA AnsweredNew ==
  ASSUME SignalsInv, SignalsCaused', NEW e, Publish(e), begun' = begun,
         NEW d, NEW n, n = Len(log) + 1
  PROVE  SignalsOf(n, d)' = {} /\ Callers(n, d)' = {}
<1>1. begun \in 0 .. Len(log) /\ Len(log) \in Nat
  BY LogSize DEF SignalsInv, PriceInv
<1>2. Asked(n)' = {}
  BY <1>1 DEF Asked, Entered
<1>3. SignalsOf(n, d)' = {}
  BY <1>1 DEF SignalsCaused, SignalsOf, Effects
<1>. QED BY <1>2, <1>3 DEF Callers

LEMMA AnsweredStep == AnswersInv /\ [Next]_vars => Answered'
<1>. SUFFICES ASSUME AnswersInv, [Next]_vars,
                     NEW n \in DOMAIN log', NEW d \in Directions
              PROVE  Cardinality(SignalsOf(n, d)') = Cardinality(Callers(n, d)')
  BY DEF Answered
<1>0. /\ SignalsInv /\ QuotesCalled /\ BusInv /\ SignalsCaused'
  BY SignalsInvStep DEF AnswersInv, SignalsInv, PriceInv
<1>1. /\ Len(log) \in Nat /\ DOMAIN log = 1 .. Len(log) /\ begun \in 0 .. Len(log)
  BY <1>0, LogSize
<1>2. n \in DOMAIN log => Cardinality(SignalsOf(n, d)) = Cardinality(Callers(n, d))
  BY DEF AnswersInv, Answered
<1>3. ASSUME n \in DOMAIN log, log' = log \/ (\E e : Publish(e)),
             Asked(n)' = Asked(n)
      PROVE  Callers(n, d)' = Callers(n, d)
  <2>1. \A k : CallsFor(k, n, d)' <=> CallsFor(k, n, d)
    BY <1>0, <1>3, CallsForKept
  <2>. QED BY <1>3, <2>1 DEF Callers
<1>4. ASSUME log' = log PROVE SignalsOf(n, d)' = SignalsOf(n, d)
  BY <1>4 DEF SignalsOf, Effects
<1>5. ASSUME NEW e, Publish(e),
             e.type = "SIGNAL" => e.cause # n \/ e.direction # d
      PROVE  SignalsOf(n, d)' = SignalsOf(n, d)
  <2>1. /\ DOMAIN log' = 1 .. Len(log) + 1
        /\ \A i \in DOMAIN log : log'[i] = log[i]
        /\ log'[Len(log) + 1] = e
    BY <1>0, <1>5, Extended DEF BusInv
  <2>. QED BY <1>1, <1>5, <2>1 DEF SignalsOf, Effects
<1>6. CASE n \notin DOMAIN log
  <2>1. PICK e : Publish(e) /\ begun' = begun
    <3>1. log' # log
      BY <1>6
    <3>2. \E e : Publish(e)
      <4>1. CASE Evaluate
        BY <3>1, <4>1 DEF Evaluate
      <4>2. CASE ~ Evaluate
        BY <1>0, <3>1, <4>2, StrategySteps
        DEF Construct, Begin, EnterLoop, Call
      <4>. QED BY <4>1, <4>2
    <3>3. begun' = begun
      BY <1>0, <3>1, StrategySteps DEF Construct, Begin, EnterLoop, Evaluate, Call, bus_vars
    <3>. QED BY <3>2, <3>3
  <2>2. n = Len(log) + 1
    BY <1>0, <1>1, <1>6, <2>1, Extended DEF BusInv
  <2>. QED BY <1>0, <2>1, <2>2, AnsweredNew
<1>7. CASE n \in DOMAIN log /\ ~ Evaluate
  <2>1. /\ Asked(n)' = Asked(n)
        /\ log' = log \/ (\E e : Publish(e) /\ e.type # "SIGNAL")
    BY <1>0, <1>7, AskedKept
  <2>2. SignalsOf(n, d)' = SignalsOf(n, d)
    BY <1>4, <1>5, <2>1
  <2>. QED BY <1>2, <1>3, <1>7, <2>1, <2>2
<1>8. CASE n \in DOMAIN log /\ Evaluate
  <2>1. /\ begun \in DOMAIN log /\ loop \in StrategyIds /\ loop \notin Asked(begun)
        /\ begun' = begun /\ Asked(begun)' = Asked(begun) \cup {loop}
        /\ n # begun => Asked(n)' = Asked(n)
    BY <1>0, <1>8, TurnAsks
  <2>2. log' = log \/ (\E e : Publish(e))
    BY <1>8 DEF Evaluate
  <2>3. ASSUME n = begun
        PROVE  Callers(n, d)' = IF CallsFor(loop, n, d) THEN Callers(n, d) \cup {loop}
                                                        ELSE Callers(n, d)
    <3>1. \A k : CallsFor(k, n, d)' <=> CallsFor(k, n, d)
      BY <1>0, <1>8, <2>2, CallsForKept
    <3>2. Callers(n, d)' = {k \in Asked(n) \cup {loop} : CallsFor(k, n, d)}
      <4>1. Asked(n)' = Asked(n) \cup {loop}
        BY <2>1, <2>3
      <4>. QED BY <3>1, <4>1 DEF Callers
    <3>. QED BY <3>2 DEF Callers
  <2>4. CASE n # begun
    <3>1. SignalsOf(n, d)' = SignalsOf(n, d)
      BY <1>0, <1>4, <1>5, <1>8, <2>4, TurnSignals
    <3>. QED BY <1>2, <1>3, <1>8, <2>1, <2>2, <2>4, <3>1
  <2>5. CASE n = begun /\ ~ CallsFor(loop, n, d)
    <3>1. SignalsOf(n, d)' = SignalsOf(n, d)
      BY <1>0, <1>4, <1>5, <1>8, <2>5, TurnSignals
    <3>. QED BY <1>2, <1>8, <2>3, <2>5, <3>1
  <2>6. CASE n = begun /\ CallsFor(loop, n, d)
    <3>0. PICK x \in Directions :
            /\ Publish([type |-> "SIGNAL", symbol |-> Current.symbol, direction |-> x,
                        cause |-> begun])
            /\ CallsFor(loop, begun, d) <=> d = x
      BY <1>0, <1>8, <2>6, TurnSignals
    <3>1. PICK e : /\ Publish(e) /\ e.type = "SIGNAL" /\ e.direction = d /\ e.cause = n
      BY <2>6, <3>0
    <3>2. /\ DOMAIN log' = 1 .. Len(log) + 1
          /\ \A i \in DOMAIN log : log'[i] = log[i]
          /\ log'[Len(log) + 1] = e
      BY <1>0, <3>1, Extended DEF BusInv
    <3>3. n # 0
      BY <1>1, <1>8
    <3>4. SignalsOf(n, d)' = SignalsOf(n, d) \cup {Len(log) + 1}
      BY <1>1, <3>1, <3>2, <3>3 DEF SignalsOf, Effects
    <3>5. Len(log) + 1 \notin SignalsOf(n, d)
      BY <1>1 DEF SignalsOf, Effects
    <3>6. loop \notin Callers(n, d)
      BY <2>1, <2>6 DEF Callers
    <3>7. Callers(n, d)' = Callers(n, d) \cup {loop}
      BY <2>3, <2>6
    <3>8. IsFiniteSet(SignalsOf(n, d)) /\ IsFiniteSet(Callers(n, d))
      BY <1>0, AnswersFinite
    <3>9. /\ Cardinality(SignalsOf(n, d)') = Cardinality(SignalsOf(n, d)) + 1
          /\ Cardinality(Callers(n, d)') = Cardinality(Callers(n, d)) + 1
      BY <3>4, <3>5, <3>6, <3>7, <3>8, FS_AddElement
    <3>. QED BY <1>2, <1>8, <3>9
  <2>. QED BY <1>8, <2>4, <2>5, <2>6
<1>. QED BY <1>6, <1>7, <1>8

(* Once StrategyManager returned, all strategies were asked. *)
LEMMA AnswersSafe == AnswersInv => NoSignalMissed
<1>. SUFFICES ASSUME AnswersInv, NEW n \in HandledEvents, NEW d \in Directions
              PROVE  Cardinality(SignalsOf(n, d)) =
                       Cardinality({k \in StrategyIds : CallsFor(k, n, d)})
  BY DEF NoSignalMissed
<1>1. n \in DOMAIN log /\ n \in 1 .. begun /\ begun \in Nat
      /\ (n < begun \/ (n = begun /\ loop = 0 /\ pending = <<>>))
  BY LogSize DEF AnswersInv, SignalsInv, PriceInv, HandledEvents, Returned
<1>2. Cardinality(SignalsOf(n, d)) = Cardinality(Callers(n, d))
  BY <1>1 DEF AnswersInv, Answered
<1>3. CASE log[n].type \in {"MARKET", "ORDER_BOOK"}
  <2>1. Asked(n) = StrategyIds
    BY <1>1, <1>3 DEF Asked, Entered, Entries
  <2>. QED BY <1>2, <2>1 DEF Callers
<1>4. CASE log[n].type \notin {"MARKET", "ORDER_BOOK"}
  <2>1. Callers(n, d) = {} /\ {k \in StrategyIds : CallsFor(k, n, d)} = {}
    BY <1>4 DEF Callers, CallsFor
  <2>. QED BY <1>2, <2>1
<1>. QED BY <1>3, <1>4

(* No signal is missing and none is one too many: every strategy answers   *)
(* each quote once, by the news and the regime published before it,        *)
(* whatever the feed published while StrategyManager was on its way.       *)
THEOREM NoSignalIsMissed == Spec => []NoSignalMissed
<1>1. Init => AnswersInv
  BY SignalsInvInit, QuotesCalledInit, AnsweredInit DEF AnswersInv
<1>2. AnswersInv /\ [Next]_vars => AnswersInv'
  BY SignalsInvStep, QuotesCalledStep, AnsweredStep DEF AnswersInv, SignalsInv, PriceInv
<1>. QED BY <1>1, <1>2, AnswersSafe, PTL DEF Spec
=============================================================================
