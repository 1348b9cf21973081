------------------------------- MODULE Reports -------------------------------
(***************************************************************************)
(* Analytics beside the portfolio: the equity curve it collects from the   *)
(* portfolio's updates, and generate_report() on the curve and the trade   *)
(* log.  Ratios are kept as pairs of integers.  The Sharpe and Sortino     *)
(* ratios are there or not; their values are left out.                     *)
(***************************************************************************)
EXTENDS PortfolioLedger, Statistics

(* The symbols are those of a configuration file. *)
ASSUME ReportsAssumption == IsFiniteSet(Symbols)

VARIABLE equity_curve    (* equity_curve_ *)

report_vars == <<vars, equity_curve>>

(* start() publishes the first update. *)
ReportsInit == Init /\ equity_curve = <<InitialCapital>>

(* on_portfolio_update(). *)
Updated == equity_curve' = Append(equity_curve, TotalEquity')

ReportsNext == \E f \in Fills : Fill(f) /\ Updated
ReportsSpec == ReportsInit /\ [][ReportsNext]_report_vars
-----------------------------------------------------------------------------
Winning(trades) == {i \in DOMAIN trades : trades[i].pnl > 0}
Losing(trades) == DOMAIN trades \ Winning(trades)
PnlOf(trades, chosen) == MapThenSumSet(LAMBDA i : trades[i].pnl, chosen)

(* generate_report(): what it finds, nothing if the curve is too short and *)
(* nothing about trades if there are none.  profit_factor is 0 if no trade *)
(* lost; total_profit and total_loss are locals it is computed from.       *)
TradeFields(trades) ==
  LET profit == PnlOf(trades, Winning(trades))
      loss == PnlOf(trades, Losing(trades))
  IN [total_trades  |-> Len(trades),
      win_rate      |-> <<Cardinality(Winning(trades)), Len(trades)>>,
      profit_factor |-> IF loss = 0 THEN <<0, 1>> ELSE <<profit, -loss>>,
      total_profit  |-> profit,
      total_loss    |-> loss]

CurveFields(curve) ==
  [initial_equity |-> Head(curve), final_equity |-> Last(curve),
   total_return   |-> <<Last(curve) - Head(curve), Head(curve)>>,
   max_drawdown   |-> MaxDrawdown(curve),
   ratios         |-> Len(curve) > 2]

GenerateReport(curve, trades) ==
  LET c == CurveFields(curve)
      t == IF trades = <<>> THEN <<>> ELSE TradeFields(trades)
  IN IF Len(curve) < 2 THEN <<>>
     ELSE [f \in DOMAIN c \cup DOMAIN t |-> IF f \in DOMAIN c THEN c[f] ELSE t[f]]
-----------------------------------------------------------------------------
Report == GenerateReport(equity_curve, trade_log)
Field(f, default) == IF f \in DOMAIN Report THEN Report[f] ELSE default

(* The equity gained is the profit less the losses of the trades, less the *)
(* commissions of opening fills, as long as no fill was larger than the    *)
(* position it closed.                                                     *)
EquityIsEarned ==
  \/ filled = 0
  \/ \E s \in Symbols : ledger[s].dropped # 0 \/ ledger[s].unbooked # 0
  \/ Report.final_equity - Report.initial_equity
       = Field("total_profit", 0) + Field("total_loss", 0)
           - MapThenSumSet(LAMBDA s : ledger[s].fees, Symbols)

(* What a report says adds up, whatever the fills were, while nothing is   *)
(* held short: the equity then is the cash and the cost of what is held    *)
(* (PortfolioManager.cpp:87-95, Analytics.cpp:37-42, 79-97).               *)
ReportAddsUp == (\E s \in Symbols : HeldUnits(s) < 0) \/ EquityIsEarned

(* The running peak of one pass finds the worst loss there was between any *)
(* two points of the curve, and reports no loss there was not, as long as  *)
(* the equity is positive.                                                 *)
DrawdownIsWorstLoss ==
  LET points == DOMAIN equity_curve
      d == Report.max_drawdown
      NoLess(i, j) ==
        (equity_curve[i] - equity_curve[j]) * d[2] <= d[1] * equity_curve[i]
      Attained(i, j) ==
        (equity_curve[i] - equity_curve[j]) * d[2] = d[1] * equity_curve[i]
  IN \/ filled = 0 \/ \E i \in points : equity_curve[i] <= 0
     \/ /\ \A j \in points : \A i \in 1 .. j : NoLess(i, j)
        /\ \E j \in points : \E i \in 1 .. j : Attained(i, j)
=============================================================================
