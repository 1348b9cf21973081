--------------------------- MODULE PortfolioProofs ---------------------------
(***************************************************************************)
(* Machine-checked proofs about the portfolio's bookkeeping, for every set *)
(* of symbols and every sequence of fills.                                 *)
(***************************************************************************)
EXTENDS PortfolioLedger, SequenceTheorems, TLAPS

IInv == TypeOK /\ UnitsExplained /\ FlowExplained

(* What a fill closes and releases are integers, within the position.      *)
LEMMA CloseBounds ==
  ASSUME PortfolioTypeOK, NEW f \in FillEvents
  PROVE  /\ PositionIn(f.symbol).quantity \in Nat
         /\ PositionIn(f.symbol).value \in Int
         /\ PositionIn(f.symbol).direction \in Directions
         /\ ClosedQuantity(f) \in Nat
         /\ ClosedQuantity(f) <= PositionIn(f.symbol).quantity
         /\ ClosedQuantity(f) <= f.quantity
         /\ IsClosingTrade(f) => ClosedQuantity(f) # 0
         /\ IsClosingTrade(f) => Released(f) \in Int
         /\ IsClosingTrade(f) /\ ClosedQuantity(f) = PositionIn(f.symbol).quantity
              => Released(f) = PositionIn(f.symbol).value
<1>1. /\ f.quantity \in Nat \ {0}
      /\ f.symbol \in Symbols
  BY DEF FillEvents
<1>2. /\ PositionIn(f.symbol).quantity \in Nat
      /\ PositionIn(f.symbol).value \in Int
      /\ PositionIn(f.symbol).direction \in Directions
  BY DEF PortfolioTypeOK, PositionIn, NoPosition, Directions, Positions
<1>3. /\ ClosedQuantity(f) \in Nat
      /\ ClosedQuantity(f) <= PositionIn(f.symbol).quantity
      /\ ClosedQuantity(f) <= f.quantity
      /\ IsClosingTrade(f) => ClosedQuantity(f) # 0
  BY <1>1, <1>2 DEF ClosedQuantity, IsClosingTrade
<1>4. ASSUME IsClosingTrade(f) PROVE Released(f) \in Int
  <2>1. /\ PositionIn(f.symbol).quantity \in Nat \ {0}
        /\ PositionIn(f.symbol).value * ClosedQuantity(f) \in Int
    BY <1>2, <1>3, <1>4 DEF IsClosingTrade
  <2>2. (PositionIn(f.symbol).value * ClosedQuantity(f))
           \div PositionIn(f.symbol).quantity \in Int
    BY <2>1
  <2>. QED BY <1>2, <2>2 DEF Released
<1>5. ClosedQuantity(f) = PositionIn(f.symbol).quantity
         => Released(f) = PositionIn(f.symbol).value
  BY DEF Released
<1>. QED BY <1>2, <1>3, <1>4, <1>5

(* A fill touches the position of its own symbol only ... *)
LEMMA OthersKept ==
  ASSUME PortfolioTypeOK, NEW f \in FillEvents, OnFill(f),
         NEW s \in Symbols, s # f.symbol
  PROVE  PositionIn(s)' = PositionIn(s)
<1>1. CASE IsClosingTrade(f)
  <2>1. f.symbol \in DOMAIN positions
    BY <1>1 DEF IsClosingTrade, PositionIn, NoPosition
  <2>. QED BY <1>1, <2>1 DEF OnFill, Close, PositionIn
<1>2. CASE ~ IsClosingTrade(f)
  BY <1>2 DEF OnFill, Open, PositionIn
<1>. QED BY <1>1, <1>2

(* ... which it opens or grows by the whole fill ... *)
LEMMA Opened ==
  ASSUME PortfolioTypeOK, NEW f \in FillEvents, OnFill(f), ~ IsClosingTrade(f)
  PROVE  PositionIn(f.symbol)' =
           [direction |-> f.direction,
            quantity  |-> PositionIn(f.symbol).quantity + f.quantity,
            value     |-> PositionIn(f.symbol).value + Cost(f)]
BY DEF OnFill, Open, PositionIn

(* ... or shrinks by what it closes, an empty position being erased.       *)
LEMMA Closed ==
  ASSUME PortfolioTypeOK, NEW f \in FillEvents, OnFill(f), IsClosingTrade(f)
  PROVE  PositionIn(f.symbol)' =
           IF ClosedQuantity(f) = PositionIn(f.symbol).quantity
           THEN NoPosition
           ELSE [direction |-> PositionIn(f.symbol).direction,
                 quantity  |-> PositionIn(f.symbol).quantity - ClosedQuantity(f),
                 value     |-> PositionIn(f.symbol).value - Released(f)]
<1>. DEFINE p == PositionIn(f.symbol)
<1>1. /\ f.symbol \in DOMAIN positions
      /\ p = positions[f.symbol]
  BY DEF IsClosingTrade, PositionIn, NoPosition
<1>2. p \in [direction : Directions, quantity : Nat \ {0}, value : Int]
  BY <1>1 DEF PortfolioTypeOK, Positions
<1>3. ClosedQuantity(f) \in Nat
  BY CloseBounds
<1>4. CASE ClosedQuantity(f) = p.quantity
  <2>1. positions' = [s \in DOMAIN positions \ {f.symbol} |-> positions[s]]
    BY <1>2, <1>4 DEF OnFill, Close
  <2>. QED BY <1>4, <2>1 DEF PositionIn
<1>5. CASE ClosedQuantity(f) # p.quantity
  <2>1. positions' = [positions EXCEPT ![f.symbol] =
                        [p EXCEPT !.quantity = @ - ClosedQuantity(f),
                                  !.value = @ - Released(f)]]
    BY <1>2, <1>3, <1>5 DEF OnFill, Close
  <2>2. PositionIn(f.symbol)' = [p EXCEPT !.quantity = @ - ClosedQuantity(f),
                                          !.value = @ - Released(f)]
    BY <1>1, <2>1 DEF PositionIn
  <2>. QED BY <1>2, <1>5, <2>2
<1>. QED BY <1>4, <1>5
-----------------------------------------------------------------------------
LEMMA Distribute ==
  ASSUME NEW a \in Int, NEW b \in Int, NEW c \in Int
  PROVE  a * (b - c) = a * b - a * c
  OBVIOUS

(* What a fill moves, in integers. *)
LEMMA MovesIntegers ==
  ASSUME PortfolioTypeOK, NEW f \in FillEvents
  PROVE  /\ Cost(f) \in Int
         /\ CashAfter(f) \in Int
         /\ f.commission \in Int
         /\ Excess(f) \in Int
         /\ f.fill_price * Excess(f) \in Int
         /\ IsClosingTrade(f) => Gain(f) \in Int
<1>1. /\ f.fill_price \in Int
      /\ f.quantity \in Int
      /\ f.commission \in Int
      /\ cash \in Int
  BY DEF FillEvents, PortfolioTypeOK
<1>2. /\ ClosedQuantity(f) \in Int
      /\ IsClosingTrade(f) => Released(f) \in Int
  BY CloseBounds
<1>3. f.fill_price * f.quantity \in Int /\ f.fill_price * ClosedQuantity(f) \in Int
  BY <1>1, <1>2
<1>4. Excess(f) \in Int
  BY <1>1, <1>2 DEF Excess
<1>5. f.fill_price * Excess(f) \in Int
  BY <1>1, <1>4
<1>. QED BY <1>1, <1>2, <1>3, <1>4, <1>5 DEF Cost, CashAfter, Gain

LEMMA PortfolioTypeStep ==
  ASSUME PortfolioTypeOK, NEW f \in FillEvents, OnFill(f)
  PROVE  PortfolioTypeOK'
<1>. DEFINE p == PositionIn(f.symbol)
<1>1. /\ f.symbol \in Symbols
      /\ f.direction \in Directions
      /\ f.quantity \in Nat \ {0}
  BY DEF FillEvents
<1>2. cash' \in Int
  BY MovesIntegers DEF OnFill
<1>3. DOMAIN positions' \subseteq Symbols
  BY <1>1 DEF OnFill, Open, Close, PortfolioTypeOK
<1>4. \A s \in DOMAIN positions' : positions'[s] = PositionIn(s)'
  BY DEF PositionIn
<1>5. ASSUME NEW s \in DOMAIN positions', s # f.symbol
      PROVE  positions'[s] \in Positions
  <2>1. s \in DOMAIN positions
    BY <1>5 DEF OnFill, Open, Close
  <2>2. positions'[s] = positions[s]
    BY <1>3, <1>4, <1>5, <2>1, OthersKept DEF PositionIn
  <2>. QED BY <2>1, <2>2 DEF PortfolioTypeOK
<1>6. ASSUME f.symbol \in DOMAIN positions'
      PROVE  positions'[f.symbol] \in Positions
  <2>1. CASE IsClosingTrade(f)
    <3>1. ClosedQuantity(f) # p.quantity
      BY <1>6, <2>1, CloseBounds DEF OnFill, Close
    <3>2. positions'[f.symbol] = [direction |-> p.direction,
                                  quantity  |-> p.quantity - ClosedQuantity(f),
                                  value     |-> p.value - Released(f)]
      BY <1>4, <1>6, <2>1, <3>1, Closed
    <3>3. p.quantity - ClosedQuantity(f) \in Nat \ {0}
      BY <3>1, CloseBounds
    <3>4. p.value - Released(f) \in Int
      BY <2>1, CloseBounds
    <3>. QED BY <3>2, <3>3, <3>4, CloseBounds DEF Positions
  <2>2. CASE ~ IsClosingTrade(f)
    <3>1. positions'[f.symbol] = [direction |-> f.direction,
                                  quantity  |-> p.quantity + f.quantity,
                                  value     |-> p.value + Cost(f)]
      BY <1>4, <1>6, <2>2, Opened
    <3>. QED BY <1>1, <3>1, CloseBounds, MovesIntegers DEF Positions
  <2>. QED BY <2>1, <2>2
<1>7. trade_log' \in Seq(Trades)
  <2>1. trade_log \in Seq(Trades)
    BY DEF PortfolioTypeOK
  <2>2. CASE IsClosingTrade(f)
    <3>1. Trade(f) \in Trades
      BY <1>1, <2>2, CloseBounds, MovesIntegers DEF Trade, Trades
    <3>2. trade_log' = Append(trade_log, Trade(f))
      BY <2>2 DEF OnFill, Close
    <3>. QED BY <2>1, <3>1, <3>2, AppendProperties
  <2>3. CASE ~ IsClosingTrade(f)
    BY <2>1, <2>3 DEF OnFill, Open
  <2>. QED BY <2>2, <2>3
<1>. QED BY <1>2, <1>3, <1>5, <1>6, <1>7 DEF PortfolioTypeOK
-----------------------------------------------------------------------------
(* What the ledger enters for a fill. *)
LEMMA Entered ==
  ASSUME TypeOK, NEW f \in FillEvents, OnFill(f),
         ledger' = [ledger EXCEPT ![f.symbol] = Entry(@, f)]
  PROVE  /\ ledger'[f.symbol] = Entry(ledger[f.symbol], f)
         /\ \A s \in Symbols \ {f.symbol} : ledger'[s] = ledger[s]
         /\ ledger' \in [Symbols -> LedgerEntries]
<1>1. f.symbol \in Symbols
  BY DEF FillEvents
<1>2. ledger[f.symbol] \in LedgerEntries
  BY <1>1 DEF TypeOK
<1>3. /\ cash \in Int
      /\ cash' \in Int
  BY MovesIntegers DEF TypeOK, PortfolioTypeOK, OnFill
<1>4. /\ f.quantity \in Int
      /\ f.commission \in Int
      /\ Excess(f) \in Int
      /\ f.fill_price * Excess(f) \in Int
      /\ IsClosingTrade(f) => Trade(f).pnl \in Int
  BY MovesIntegers DEF TypeOK, FillEvents, Trade
<1>5. Entry(ledger[f.symbol], f) \in LedgerEntries
  BY <1>2, <1>3, <1>4 DEF Entry, LedgerEntries, Signed
<1>. QED BY <1>1, <1>5 DEF TypeOK

(* What follows is about the symbol filled: its units and its cash, before *)
(* and after, when the fill opens or closes.                               *)
LEMMA OpenBalances ==
  ASSUME IInv, NEW f \in FillEvents, OnFill(f), ~ IsClosingTrade(f),
         ledger' = [ledger EXCEPT ![f.symbol] = Entry(@, f)]
  PROVE  LET s == f.symbol
             b == ledger'[s]
         IN /\ b.net = HeldUnits(s)' + b.dropped
            /\ b.received = b.realised - b.fees - HeldBasis(s)' + b.unbooked
<1>. DEFINE s == f.symbol
            b == ledger[s]
            p == PositionIn(s)
<1>1. /\ s \in Symbols
      /\ f.direction \in Directions
      /\ f.quantity \in Int
      /\ f.fill_price \in Int
      /\ f.commission \in Int
  BY DEF FillEvents
<1>2. /\ b \in LedgerEntries
      /\ cash \in Int
      /\ Cost(f) \in Int
  BY <1>1, MovesIntegers DEF IInv, TypeOK, PortfolioTypeOK
<1>3. \/ p.quantity = 0 /\ p.value = 0
      \/ p.direction = f.direction
  BY DEF IInv, TypeOK, PortfolioTypeOK, IsClosingTrade, PositionIn, NoPosition, Positions
<1>4. /\ p.quantity \in Int
      /\ p.value \in Int
      /\ p.direction \in Directions
  BY CloseBounds DEF IInv, TypeOK
<1>5. /\ b.net = HeldUnits(s) + b.dropped
      /\ b.received = b.realised - b.fees - HeldBasis(s) + b.unbooked
  BY <1>1 DEF IInv, UnitsExplained, FlowExplained
<1>6. /\ HeldUnits(s)' = Signed(f.direction, p.quantity + f.quantity)
      /\ HeldBasis(s)' = Signed(f.direction, p.value + Cost(f))
  <2>1. PositionIn(s)' = [direction |-> f.direction,
                          quantity  |-> p.quantity + f.quantity,
                          value     |-> p.value + Cost(f)]
    BY Opened DEF IInv, TypeOK
  <2>2. /\ HeldUnits(s)' = Signed(PositionIn(s)'.direction, PositionIn(s)'.quantity)
        /\ HeldBasis(s)' = Signed(PositionIn(s)'.direction, PositionIn(s)'.value)
    BY DEF HeldUnits, HeldBasis
  <2>. HIDE DEF p, s
  <2>. QED BY <2>1, <2>2
<1>7. ledger'[s] = Entry(b, f)
  BY Entered DEF IInv
<1>8. Excess(f) = 0 /\ f.fill_price * Excess(f) = 0
  BY <1>1 DEF Excess
<1>9. cash' = CashAfter(f)
  BY DEF OnFill
<1>10. /\ ledger'[s].net = b.net + Signed(f.direction, f.quantity)
       /\ ledger'[s].dropped = b.dropped
       /\ ledger'[s].unbooked = b.unbooked
       /\ ledger'[s].realised = b.realised
       /\ ledger'[s].fees = b.fees + f.commission
       /\ ledger'[s].received = b.received - Signed(f.direction, Cost(f)) - f.commission
  BY <1>1, <1>2, <1>7, <1>8, <1>9 DEF Entry, LedgerEntries, Signed, CashAfter
<1>11. ledger'[s].net = HeldUnits(s)' + ledger'[s].dropped
  BY <1>1, <1>2, <1>3, <1>4, <1>5, <1>6, <1>10
     DEF LedgerEntries, HeldUnits, Signed, Directions
<1>12. ledger'[s].received = ledger'[s].realised - ledger'[s].fees
                               - HeldBasis(s)' + ledger'[s].unbooked
  BY <1>1, <1>2, <1>3, <1>4, <1>5, <1>6, <1>10
     DEF LedgerEntries, HeldBasis, Signed, Directions
<1>. QED BY <1>11, <1>12

LEMMA CloseBalances ==
  ASSUME IInv, NEW f \in FillEvents, OnFill(f), IsClosingTrade(f),
         ledger' = [ledger EXCEPT ![f.symbol] = Entry(@, f)]
  PROVE  LET s == f.symbol
             b == ledger'[s]
         IN /\ b.net = HeldUnits(s)' + b.dropped
            /\ b.received = b.realised - b.fees - HeldBasis(s)' + b.unbooked
<1>. DEFINE s == f.symbol
            b == ledger[s]
            p == PositionIn(s)
            q == ClosedQuantity(f)
            r == Released(f)
<1>1. /\ s \in Symbols
      /\ f.direction \in Directions
      /\ f.quantity \in Int
      /\ f.fill_price \in Int
      /\ f.commission \in Int
  BY DEF FillEvents
<1>2. /\ b \in LedgerEntries
      /\ cash \in Int
  BY <1>1 DEF IInv, TypeOK, PortfolioTypeOK
<1>3. /\ p.quantity \in Int
      /\ p.value \in Int
      /\ p.direction \in Directions
      /\ p.direction # f.direction
      /\ q \in Int
      /\ r \in Int
      /\ q = p.quantity => r = p.value
  BY CloseBounds DEF IInv, TypeOK, IsClosingTrade
<1>4. /\ b.net = HeldUnits(s) + b.dropped
      /\ b.received = b.realised - b.fees - HeldBasis(s) + b.unbooked
  BY <1>1 DEF IInv, UnitsExplained, FlowExplained
<1>5. /\ HeldUnits(s)' = Signed(p.direction, p.quantity - q)
      /\ HeldBasis(s)' = Signed(p.direction, p.value - r)
  <2>1. PositionIn(s)' = IF q = p.quantity
                         THEN NoPosition
                         ELSE [direction |-> p.direction,
                               quantity  |-> p.quantity - q,
                               value     |-> p.value - r]
    BY Closed DEF IInv, TypeOK
  <2>2. /\ HeldUnits(s)' = Signed(PositionIn(s)'.direction, PositionIn(s)'.quantity)
        /\ HeldBasis(s)' = Signed(PositionIn(s)'.direction, PositionIn(s)'.value)
    BY DEF HeldUnits, HeldBasis
  <2>. HIDE DEF p, q, r, s
  <2>. QED BY <1>3, <2>1, <2>2 DEF NoPosition, Signed
<1>6. ledger'[s] = Entry(b, f)
  BY Entered DEF IInv
<1>. DEFINE total == f.fill_price * f.quantity
            taken == f.fill_price * q
<1>7. /\ total \in Int
      /\ taken \in Int
      /\ Excess(f) = f.quantity - q
      /\ f.fill_price * Excess(f) = total - taken
  BY <1>1, <1>3, Distribute DEF Excess
<1>8. /\ Cost(f) = total
      /\ Gain(f) = IF p.direction = "BUY" THEN taken - r ELSE r - taken
      /\ Trade(f).pnl = Gain(f) - f.commission
      /\ cash' = CashAfter(f)
  BY DEF Cost, Gain, Trade, OnFill
<1>. HIDE DEF total, taken, p, q, r, b
<1>9. /\ ledger'[s].net = b.net + Signed(f.direction, f.quantity)
      /\ ledger'[s].dropped = b.dropped + Signed(f.direction, f.quantity - q)
      /\ ledger'[s].unbooked = b.unbooked - Signed(f.direction, total - taken)
      /\ ledger'[s].realised = b.realised + (Gain(f) - f.commission)
      /\ ledger'[s].fees = b.fees + 0
      /\ ledger'[s].received = b.received - Signed(f.direction, total) - f.commission
  BY <1>1, <1>2, <1>6, <1>7, <1>8 DEF Entry, LedgerEntries, Signed, CashAfter
<1>10. /\ HeldUnits(s) = Signed(p.direction, p.quantity)
       /\ HeldBasis(s) = Signed(p.direction, p.value)
  BY DEF HeldUnits, HeldBasis, p
<1>11. ledger'[s].net = HeldUnits(s)' + ledger'[s].dropped
  BY <1>1, <1>2, <1>3, <1>4, <1>5, <1>9, <1>10
     DEF LedgerEntries, Signed, Directions
<1>12. ledger'[s].received = ledger'[s].realised - ledger'[s].fees
                               - HeldBasis(s)' + ledger'[s].unbooked
  BY <1>1, <1>2, <1>3, <1>4, <1>5, <1>7, <1>8, <1>9, <1>10
     DEF LedgerEntries, Signed, Directions
<1>. QED BY <1>11, <1>12-----------------------------------------------------------------------------
LEMMA InitInvariant == Init => IInv
<1>. SUFFICES ASSUME Init PROVE IInv
  OBVIOUS
<1>1. /\ cash \in Int
      /\ DOMAIN positions = {}
      /\ trade_log \in Seq(Trades)
  BY PortfolioAssumption, EmptySeq DEF Init, PortfolioInit
<1>2. ledger \in [Symbols -> LedgerEntries]
  BY DEF Init, LedgerEntries
<1>3. TypeOK
  BY <1>1, <1>2 DEF TypeOK, PortfolioTypeOK, Init
<1>4. \A s \in Symbols : PositionIn(s) = NoPosition
  BY <1>1 DEF PositionIn
<1>5. UnitsExplained /\ FlowExplained
  BY <1>4 DEF Init, UnitsExplained, FlowExplained, HeldUnits, HeldBasis, Signed,
              NoPosition
<1>. QED BY <1>3, <1>5 DEF IInv

LEMMA FillStep ==
  ASSUME IInv, NEW f \in Fills, Fill(f)
  PROVE  IInv'
<1>1. /\ f \in FillEvents
      /\ f.symbol \in Symbols
      /\ OnFill(f)
      /\ ledger' = [ledger EXCEPT ![f.symbol] = Entry(@, f)]
      /\ filled' \in Nat
  BY LedgerAssumption DEF Fill, FillEvents, IInv, TypeOK
<1>2. TypeOK'
  BY <1>1, PortfolioTypeStep, Entered DEF IInv, TypeOK
<1>3. /\ ledger'[f.symbol].net = HeldUnits(f.symbol)' + ledger'[f.symbol].dropped
      /\ ledger'[f.symbol].received =
           ledger'[f.symbol].realised - ledger'[f.symbol].fees
             - HeldBasis(f.symbol)' + ledger'[f.symbol].unbooked
  BY <1>1, OpenBalances, CloseBalances
<1>4. ASSUME NEW s \in Symbols, s # f.symbol
      PROVE  /\ ledger'[s] = ledger[s]
             /\ HeldUnits(s)' = HeldUnits(s)
             /\ HeldBasis(s)' = HeldBasis(s)
  <2>1. PositionIn(s)' = PositionIn(s)
    BY <1>1, <1>4, OthersKept DEF IInv, TypeOK
  <2>2. ledger'[s] = ledger[s]
    BY <1>1, <1>4, Entered DEF IInv
  <2>. QED BY <2>1, <2>2 DEF HeldUnits, HeldBasis
<1>5. UnitsExplained'
  <2>1. ASSUME NEW s \in Symbols
        PROVE  ledger'[s].net = HeldUnits(s)' + ledger'[s].dropped
    BY <1>3, <1>4 DEF IInv, UnitsExplained
  <2>. QED BY <2>1 DEF UnitsExplained
<1>6. FlowExplained'
  <2>1. ASSUME NEW s \in Symbols
        PROVE  ledger'[s].received = ledger'[s].realised - ledger'[s].fees
                                       - HeldBasis(s)' + ledger'[s].unbooked
    BY <1>3, <1>4 DEF IInv, FlowExplained
  <2>. QED BY <2>1 DEF FlowExplained
<1>. QED BY <1>2, <1>5, <1>6 DEF IInv

(* Types and both balances hold together: each needs the position's shape, *)
(* and nothing else.                                                       *)
THEOREM Invariance == Spec => []IInv
<1>1. IInv /\ [Next]_vars => IInv'
  <2>. SUFFICES ASSUME IInv, [Next]_vars PROVE IInv'
    OBVIOUS
  <2>1. CASE Next
    BY <2>1, FillStep DEF Next
  <2>2. CASE UNCHANGED vars
    BY <2>2 DEF vars, portfolio_vars, IInv, TypeOK, PortfolioTypeOK, UnitsExplained,
                FlowExplained, HeldUnits, HeldBasis, PositionIn
  <2>. QED BY <2>1, <2>2
<1>. QED BY <1>1, InitInvariant, PTL DEF Spec

(* PortfolioManager's variables keep their types; above all, no position   *)
(* of zero or fewer units stays in the map.                                *)
THEOREM TypeCorrect == Spec => []TypeOK
<1>1. IInv => TypeOK
  BY DEF IInv
<1>. QED BY <1>1, Invariance, PTL

(* However fills open, average into, reduce and close positions, a         *)
(* symbol's fills add up to the position held plus what over-closing fills *)
(* dropped.                                                                *)
THEOREM UnitsBalance == Spec => []UnitsExplained
<1>1. IInv => UnitsExplained
  BY DEF IInv
<1>. QED BY <1>1, Invariance, PTL

(* The cash a symbol's fills moved is its logged profit, less opening      *)
(* commissions, less the cost basis still held, but for the cash of        *)
(* over-closing fills.                                                     *)
THEOREM FlowBalance == Spec => []FlowExplained
<1>1. IInv => FlowExplained
  BY DEF IInv
<1>. QED BY <1>1, Invariance, PTL
=============================================================================
