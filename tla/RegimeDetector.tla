---------------------------- MODULE RegimeDetector ----------------------------
(***************************************************************************)
(* analytics/MarketRegimeDetector.cpp: a window of the last prices, from   *)
(* whose returns and averages a regime is computed; changes are published. *)
(*                                                                         *)
(* A return p'/p - 1 is counted in 1/Unit, Unit being a common multiple of *)
(* the prices, so that all comparisons are exact.  Where doubles may not   *)
(* be, i.e. when a value equals its threshold, either outcome is possible. *)
(***************************************************************************)
EXTENDS Naturals, Integers, Sequences, FiniteSetsExt

CONSTANTS Prices,     (* prices of MARKET events                             *)
          Unit,       (* a common multiple of them                           *)
          Periods,    (* pairs the constructor is called with                *)
          MaxPrices,  (* bound on the MARKET events                          *)
          MaxStarts   (* bound on the calls of start()                       *)

ASSUME DetectorAssumption ==
  /\ Prices \subseteq Nat \ {0}
  /\ Unit \in Nat /\ Unit % 200 = 0
  /\ \A p \in Prices : Unit % p = 0
  /\ Periods \subseteq (Nat \ {0}) \X (Nat \ {0})
  /\ {MaxPrices, MaxStarts} \subseteq Nat

VARIABLES
  volatility_period,  (* constructor argument                                *)
  trend_period,       (* constructor argument                                *)
  subscriptions,  (* how often on_market_event() is subscribed to the bus    *)
  owed,           (* calls the bus still owes the last MARKET event          *)
  price_history,  (* price_history_                                          *)
  current_state,  (* current_state_                                          *)
  prices,         (* history: prices of all MARKET events since start()      *)
  told            (* history: the regime last published, initially default   *)

detector_vars == <<volatility_period, trend_period, subscriptions, owed, price_history,
                   current_state, prices, told>>

Volatilities == {"LOW", "NORMAL", "HIGH"}
Trends == {"SIDEWAYS", "TRENDING_UP", "TRENDING_DOWN"}
MarketStates == [volatility : Volatilities, trend : Trends]
Default == [volatility |-> "NORMAL", trend |-> "SIDEWAYS"]

DetectorInit ==
  /\ \E p \in Periods : volatility_period = p[1] /\ trend_period = p[2]
  /\ subscriptions = 0
  /\ owed = 0
  /\ price_history = <<>>
  /\ current_state = Default
  /\ prices = <<>>
  /\ told = Default

Window == Max({volatility_period, trend_period})

(* start() subscribes, each time it is called; stop() changes nothing.     *)
Start ==
  /\ subscriptions < MaxStarts
  /\ subscriptions' = subscriptions + 1
  /\ UNCHANGED <<volatility_period, trend_period, owed, price_history, current_state,
                 prices, told>>

(* The bus begins the next MARKET event. *)
Market(p) ==
  /\ owed = 0
  /\ subscriptions > 0
  /\ Len(prices) < MaxPrices
  /\ prices' = Append(prices, p)
  /\ owed' = subscriptions
  /\ UNCHANGED <<volatility_period, trend_period, subscriptions, price_history,
                 current_state, told>>
-----------------------------------------------------------------------------
Total(s, from, to) == MapThenSumSet(LAMBDA i : s[i], from .. to)

Returns(h) == [i \in 1 .. volatility_period - 1 |->
                 LET n == Len(h) - volatility_period + i
                 IN (h[n + 1] - h[n]) * (Unit \div h[n])]

(* n returns of a standard deviation of 1/d have n^2 times this variance.   *)
Square(n, d) == LET limit == n * (Unit \div d) IN limit * limit

(* The returns' standard deviation against 0.02 and 0.005.  Without a      *)
(* return it is 0/0; if all are equal but not 0, rounding may make the     *)
(* variance negative; either way it is NaN, and no comparison holds.       *)
VolatilitiesOf(h) ==
  LET r == Returns(h)
      n == Len(r)
      variance == n * MapThenSumSet(LAMBDA i : r[i] * r[i], 1 .. n)
                    - Total(r, 1, n) * Total(r, 1, n)
  IN IF n = 0 THEN {"NORMAL"}
     ELSE {v \in Volatilities :
             CASE v = "HIGH"   -> variance >= Square(n, 50)
               [] v = "LOW"    -> variance <= Square(n, 200)
               [] v = "NORMAL" -> \/ Square(n, 200) <= variance /\ variance <= Square(n, 50)
                                  \/ variance = 0 /\ r[1] # 0}

(* The averages of the two halves of the last trend_period prices, taken   *)
(* over half the period each; of an odd period the first half has one more *)
(* price than it is divided by.  A period of 1 divides by zero: NaN.       *)
TrendsOf(h) ==
  LET half   == trend_period \div 2
      end    == Len(h)
      first  == Total(h, end - trend_period + 1, end - half)
      second == Total(h, end - half + 1, end)
  IN IF half = 0 THEN {"SIDEWAYS"}
     ELSE {t \in Trends :
             CASE t = "TRENDING_UP"   -> 100 * second >= 101 * first
               [] t = "TRENDING_DOWN" -> 100 * second <= 99 * first
               [] t = "SIDEWAYS"      -> /\ 100 * second <= 101 * first
                                         /\ 100 * second >= 99 * first}

(* Mutant of Changed: a new trend alone is no change of regime. *)
VolatilityChanged(new_state) == new_state.volatility # current_state.volatility

Changed(new_state) == \/ new_state.volatility # current_state.volatility
                      \/ new_state.trend # current_state.trend

(* Mutant of Pushed: one price too many is kept. *)
PushedLate(p) == LET h == Append(price_history, p)
                 IN IF Len(h) > Window + 1 THEN Tail(h) ELSE h

Pushed(p) == LET h == Append(price_history, p)
             IN IF Len(h) > Window THEN Tail(h) ELSE h

(* on_market_event() and calculate_regime() *)
OnMarketEvent ==
  /\ owed > 0
  /\ owed' = owed - 1
  /\ price_history' = Pushed(prices[Len(prices)])
  /\ IF Len(price_history') < Window THEN UNCHANGED <<current_state, told>>
     ELSE \E v \in VolatilitiesOf(price_history'), t \in TrendsOf(price_history') :
            LET new_state == [volatility |-> v, trend |-> t]
            IN IF Changed(new_state)
               THEN current_state' = new_state /\ told' = new_state
               ELSE UNCHANGED <<current_state, told>>
  /\ UNCHANGED <<volatility_period, trend_period, subscriptions, prices>>

DetectorNext == Start \/ (\E p \in Prices : Market(p)) \/ OnMarketEvent
-----------------------------------------------------------------------------
(* The window never outgrows the longer period. *)
DetectorTypeOK ==
  /\ <<volatility_period, trend_period>> \in Periods
  /\ subscriptions \in 0 .. MaxStarts
  /\ owed \in 0 .. MaxStarts
  /\ price_history \in Seq(Prices) /\ Len(price_history) <= Window
  /\ current_state \in MarketStates
  /\ prices \in Seq(Prices)
  /\ told \in MarketStates

(* n ^ 2 times the variance of n numbers, by their pairwise differences. *)
Spread(r) == MapThenSumSet(LAMBDA ij : (r[ij[1]] - r[ij[2]]) * (r[ij[1]] - r[ij[2]]),
                           {ij \in (DOMAIN r) \X (DOMAIN r) : ij[1] < ij[2]})
LastOf(n) == SubSeq(prices, Len(prices) - n + 1, Len(prices))

(* What the strategies, which hear of changes only, take for the regime is *)
(* that of the latest prices: HIGH if the last returns deviate by over 2   *)
(* percent, LOW if by under half a percent (but NORMAL, by rounding, if    *)
(* they are all equal), up or down if the later half of the last prices is *)
(* on average over 1 percent above or below the earlier half.  For a       *)
(* detector that was started once, with an even trend period.              *)
RegimeKnown ==
  subscriptions = 1 /\ owed = 0 /\ trend_period % 2 = 0 /\ Len(prices) >= Window =>
    LET n       == volatility_period - 1
        recent  == LastOf(volatility_period)
        spread  == Spread([i \in 1 .. n |->
                             (recent[i + 1] - recent[i]) * (Unit \div recent[i])])
        halves  == LastOf(trend_period)
        earlier == Total(halves, 1, trend_period \div 2)
        later   == Total(halves, trend_period \div 2 + 1, trend_period)
    IN /\ told.volatility = "HIGH" => n > 0 /\ spread >= Square(n, 50)
       /\ told.volatility = "LOW"  => n > 0 /\ spread <= Square(n, 200)
       /\ told.volatility = "NORMAL" =>
            n = 0 \/ spread = 0 \/ spread \in Square(n, 200) .. Square(n, 50)
       /\ told.trend = "TRENDING_UP"   => 100 * later >= 101 * earlier
       /\ told.trend = "TRENDING_DOWN" => 100 * later <= 99 * earlier
       /\ told.trend = "SIDEWAYS" =>
            100 * later <= 101 * earlier /\ 100 * later >= 99 * earlier
=============================================================================
