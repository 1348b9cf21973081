--------------------------- MODULE PortfolioLedger ---------------------------
(***************************************************************************)
(* The portfolio under arbitrary fills, against double-entry bookkeeping:  *)
(* the ledger records, per symbol, what every fill moved, and the          *)
(* properties say how much of it the positions and the trade log account   *)
(* for.                                                                    *)
(***************************************************************************)
EXTENDS Portfolio

CONSTANTS Fills,      (* the fills considered                              *)
          MaxFills    (* bound on how many there are                       *)

ASSUME LedgerAssumption == Fills \subseteq FillEvents /\ MaxFills \in Nat

VARIABLES ledger,     (* history: per symbol, the sums of Entry            *)
          filled      (* history: number of fills                          *)

vars == <<portfolio_vars, ledger, filled>>

Init == /\ PortfolioInit
        /\ ledger = [s \in Symbols |-> [net |-> 0, received |-> 0, realised |-> 0,
                                        fees |-> 0, dropped |-> 0, unbooked |-> 0]]
        /\ filled = 0

(* The part of a closing fill that exceeds the position. *)
Excess(f) == IF IsClosingTrade(f) THEN f.quantity - ClosedQuantity(f) ELSE 0

(* net: units bought less units sold; received: cash in less cash out;     *)
(* realised: profit logged; fees: commissions no trade includes; dropped,  *)
(* unbooked: units and cash of fills beyond the position they close.       *)
Entry(b, f) ==
  [net      |-> b.net + Signed(f.direction, f.quantity),
   received |-> b.received + (cash' - cash),
   realised |-> b.realised + (IF IsClosingTrade(f) THEN Trade(f).pnl ELSE 0),
   fees     |-> b.fees + (IF IsClosingTrade(f) THEN 0 ELSE f.commission),
   dropped  |-> b.dropped + Signed(f.direction, Excess(f)),
   unbooked |-> b.unbooked - Signed(f.direction, f.fill_price * Excess(f))]

Fill(f) == /\ filled < MaxFills
           /\ filled' = filled + 1
           /\ OnFill(f)
           /\ ledger' = [ledger EXCEPT ![f.symbol] = Entry(@, f)]

Next == \E f \in Fills : Fill(f)

Spec == Init /\ [][Next]_vars
-----------------------------------------------------------------------------
LedgerEntries == [net : Int, received : Int, realised : Int, fees : Int,
                  dropped : Int, unbooked : Int]

TypeOK == /\ PortfolioTypeOK
          /\ ledger \in [Symbols -> LedgerEntries]
          /\ filled \in Nat

(* No unit is lost or counted twice across any sequence of opening,        *)
(* averaging, partial and full closes: a symbol's fills add up to the      *)
(* position held plus what over-closing fills dropped.                     *)
UnitsExplained ==
  \A s \in Symbols : ledger[s].net = HeldUnits(s) + ledger[s].dropped

(* The profit in the trade log is real: all cash that moved for a symbol   *)
(* is logged profit, less opening commissions, less the basis of what is   *)
(* still held, but for what over-closing fills left unbooked.              *)
FlowExplained ==
  \A s \in Symbols :
    LET b == ledger[s] IN
    b.received = b.realised - b.fees - HeldBasis(s) + b.unbooked
=============================================================================
