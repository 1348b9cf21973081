------------------------------ MODULE MonteCarlo ------------------------------
(***************************************************************************)
(* MonteCarloSimulator: paths of resampled trades, and the percentiles of  *)
(* their results.  Equities are integers, and the trade logs considered    *)
(* such that they remain so.                                               *)
(***************************************************************************)
EXTENDS Statistics

CONSTANTS TradeLogs,      (* the profits of the trades to resample          *)
          Simulations,    (* values of num_simulations                      *)
          InitialEquity   (* initial_equity_                                *)

ASSUME MonteCarloAssumption == /\ \A t \in TradeLogs : t \in Seq(Int)
                               /\ Simulations \subseteq Nat
                               /\ InitialEquity \in Nat \ {0}

VARIABLES trades,             (* trade_returns_, times initial_equity_      *)
          num_simulations,    (* num_simulations_                           *)
          final_equities,     (* of the paths simulated, as a bag           *)
          simulating          (* "idle", "run" or "printed"                 *)

mc_vars == <<trades, num_simulations, final_equities, simulating>>

SimulatorInit == /\ trades = <<>>
                 /\ num_simulations = 0
                 /\ final_equities = <<>>
                 /\ simulating = "idle"

ConstructSimulator ==
  /\ simulating = "idle"
  /\ trades' \in TradeLogs
  /\ num_simulations' \in Simulations
  /\ simulating' = "run"
  /\ UNCHANGED final_equities

(* One path: as many trades as there are, each drawn from all of them.     *)
Path(draw) ==
  FoldLeft(LAMBDA curve, i :
             Append(curve, Last(curve) + (Last(curve) * trades[i]) \div InitialEquity),
           <<InitialEquity>>, draw)

SimulatePath ==
  /\ simulating = "run"
  /\ trades # <<>>
  /\ Size(final_equities) < num_simulations
  /\ \E draw \in [DOMAIN trades -> DOMAIN trades] :
       final_equities' = LET e == Last(Path(draw)) IN
         [x \in DOMAIN final_equities \cup {e} |->
            (IF x = e THEN 1 ELSE 0)
              + (IF x \in DOMAIN final_equities THEN final_equities[x] ELSE 0)]
  /\ UNCHANGED <<trades, num_simulations, simulating>>

(* print_results(), which prints nothing if nothing was simulated. *)
PrintResults ==
  /\ simulating = "run"
  /\ trades = <<>> \/ Size(final_equities) = num_simulations
  /\ simulating' = "printed"
  /\ UNCHANGED <<trades, num_simulations, final_equities>>

SimulatorNext == ConstructSimulator \/ SimulatePath \/ PrintResults
-----------------------------------------------------------------------------
(* No more than five in a hundred simulated results are worse than what is *)
(* printed as their 5th percentile, or better than the 95th, for any       *)
(* number of paths: the index into the sorted results is neither out of    *)
(* range nor off by one (MonteCarloSimulator.cpp:86-87).                   *)
OutcomesRank ==
  simulating = "printed" /\ Size(final_equities) > 0
    => RanksFromBelow(final_equities, 5) /\ RanksFromAbove(final_equities, 95)
=============================================================================
