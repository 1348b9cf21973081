------------------------------ MODULE Portfolio ------------------------------
(***************************************************************************)
(* core/PortfolioManager.h and .cpp: cash, open positions at average cost, *)
(* and the log of closed trades, all driven by fills.                      *)
(*                                                                         *)
(* Money and quantities are integers.  A position keeps its cost basis     *)
(*     value = entry_price * quantity                                      *)
(* instead of entry_price, so that averaging in needs no division; the     *)
(* part of the basis a partial close releases is rounded to a unit of      *)
(* money.  Quantities are far above the 1e-9 that on_fill() takes for zero.*)
(***************************************************************************)
EXTENDS Integers, Sequences, FiniteSetsExt

CONSTANTS Symbols,
          InitialCapital    (* capital_ *)

ASSUME PortfolioAssumption == InitialCapital \in Nat

VARIABLES cash,             (* cash_ *)
          positions,        (* positions_: a map from held symbols *)
          trade_log         (* trade_log_ *)

portfolio_vars == <<cash, positions, trade_log>>

Directions == {"BUY", "SELL"}
Signed(direction, n) == IF direction = "BUY" THEN n ELSE -n

(* What on_fill() can be called with: ExecutionHandler fills positive      *)
(* quantities only.                                                        *)
FillEvents == [symbol : Symbols, direction : Directions, quantity : Nat \ {0},
               fill_price : Nat, commission : Nat]

PortfolioInit == /\ cash = InitialCapital
                 /\ positions = <<>>
                 /\ trade_log = <<>>

(* Shorts are added like longs. *)
OpenPositionsValue == MapThenSumSet(LAMBDA s : positions[s].value, DOMAIN positions)
TotalEquity == cash + OpenPositionsValue
TotalPnl == MapThenSumSet(LAMBDA i : trade_log[i].pnl, DOMAIN trade_log)

(* What positions_[symbol] inserts for a symbol not held. *)
NoPosition == [direction |-> "BUY", quantity |-> 0, value |-> 0]
PositionIn(s) == IF s \in DOMAIN positions THEN positions[s] ELSE NoPosition

(* A short counts negatively. *)
HeldUnits(s) == Signed(PositionIn(s).direction, PositionIn(s).quantity)
HeldBasis(s) == Signed(PositionIn(s).direction, PositionIn(s).value)

Cost(f) == f.fill_price * f.quantity

(* Mutant of CashAfter: commissions are forgotten. *)
CashWithoutFees(f) == IF f.direction = "BUY" THEN cash - Cost(f) ELSE cash + Cost(f)

CashAfter(f) == IF f.direction = "BUY" THEN cash - (Cost(f) + f.commission)
                                       ELSE cash + (Cost(f) - f.commission)

IsClosingTrade(f) == /\ PositionIn(f.symbol).quantity # 0
                     /\ f.direction # PositionIn(f.symbol).direction

(* Mutant of ClosedQuantity: more can be closed than is held. *)
CloseUncapped(f) == f.quantity

(* Closing: at most the position's quantity is closed, the rest of the     *)
(* fill is ignored.                                                        *)
ClosedQuantity(f) == LET held == PositionIn(f.symbol).quantity IN
  IF f.quantity < held THEN f.quantity ELSE held

Released(f) == LET p == PositionIn(f.symbol) IN
  IF ClosedQuantity(f) = p.quantity THEN p.value
                                    ELSE (p.value * ClosedQuantity(f)) \div p.quantity

(* Mutant of Gain: shorts are settled like longs. *)
GainAsLong(f) == f.fill_price * ClosedQuantity(f) - Released(f)

Gain(f) == LET proceeds == f.fill_price * ClosedQuantity(f) IN
  IF PositionIn(f.symbol).direction = "BUY" THEN proceeds - Released(f)
                                            ELSE Released(f) - proceeds

Trade(f) == [symbol    |-> f.symbol,
             direction |-> PositionIn(f.symbol).direction,
             quantity  |-> ClosedQuantity(f),
             pnl       |-> Gain(f) - f.commission]

Close(f) ==
  LET p == PositionIn(f.symbol)
      rest == [p EXCEPT !.quantity = @ - ClosedQuantity(f), !.value = @ - Released(f)]
  IN /\ trade_log' = Append(trade_log, Trade(f))
     /\ positions' = IF rest.quantity = 0
                     THEN [s \in DOMAIN positions \ {f.symbol} |-> positions[s]]
                     ELSE [positions EXCEPT ![f.symbol] = rest]

(* Mutant of Open: a second opening fill replaces the position. *)
OpenReplaces(f) ==
  /\ positions' = [s \in DOMAIN positions \cup {f.symbol} |->
       IF s = f.symbol
       THEN [direction |-> f.direction, quantity |-> f.quantity, value |-> Cost(f)]
       ELSE positions[s]]
  /\ UNCHANGED trade_log

(* Opening or averaging in. *)
Open(f) ==
  LET p == PositionIn(f.symbol)
      grown == [direction |-> f.direction,
                quantity  |-> p.quantity + f.quantity,
                value     |-> p.value + Cost(f)]
  IN /\ positions' = [s \in DOMAIN positions \cup {f.symbol} |->
                        IF s = f.symbol THEN grown ELSE positions[s]]
     /\ UNCHANGED trade_log

(* on_fill(), up to the PORTFOLIO_UPDATE it publishes, which carries       *)
(* TotalEquity' and cash'.                                                 *)
OnFill(f) == /\ cash' = CashAfter(f)
             /\ IF IsClosingTrade(f) THEN Close(f) ELSE Open(f)

Positions == [direction : Directions, quantity : Nat \ {0}, value : Int]
Trades == [symbol : Symbols, direction : Directions, quantity : Nat \ {0}, pnl : Int]

PortfolioTypeOK == /\ cash \in Int
                   /\ DOMAIN positions \subseteq Symbols
                   /\ \A s \in DOMAIN positions : positions[s] \in Positions
                   /\ trade_log \in Seq(Trades)
=============================================================================
