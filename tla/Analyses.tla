------------------------------- MODULE Analyses -------------------------------
(***************************************************************************)
(* The parts of the system that no Application contains, of which a        *)
(* program uses one: the walk-forward analysis of a configuration file,    *)
(* the Monte Carlo simulation of a trade log, the market regime detector   *)
(* on a bus, or the timing of functions.                                   *)
(***************************************************************************)
EXTENDS WalkForward, MonteCarlo, PerformanceMonitor, RegimeDetector

VARIABLE analysis   (* the one used *)

analyses_vars == <<analysis, walk_vars, mc_vars, metrics, detector_vars>>

AnalysesInit ==
  /\ analysis \in {"walk_forward", "monte_carlo", "performance", "regime"}
  /\ AnalyzerInit /\ SimulatorInit /\ MonitorInit /\ DetectorInit
  /\ analysis # "regime" =>
       <<volatility_period, trend_period>> = CHOOSE p \in Periods : TRUE

AnalysesNext ==
  /\ UNCHANGED analysis
  /\ \/ analysis = "walk_forward" /\ AnalyzerNext /\ UNCHANGED <<mc_vars, metrics, detector_vars>>
     \/ analysis = "monte_carlo" /\ SimulatorNext /\ UNCHANGED <<walk_vars, metrics, detector_vars>>
     \/ analysis = "performance" /\ MonitorNext /\ UNCHANGED <<walk_vars, mc_vars, detector_vars>>
     \/ analysis = "regime" /\ DetectorNext /\ UNCHANGED <<walk_vars, mc_vars, metrics>>

(* Loops go on. *)
AnalysesSpec == /\ AnalysesInit /\ [][AnalysesNext]_analyses_vars
                /\ WF_walk_vars(walk # "idle" /\ AnalyzerNext)
-----------------------------------------------------------------------------
AnalysesTypeOK ==
  /\ DetectorTypeOK
  /\ WalkTypeOK
  /\ trades \in TradeLogs \cup {<<>>}
  /\ Size(final_equities) <= num_simulations
  /\ metrics \in [Timed -> [Durations -> 0 .. MaxSamples]]
=============================================================================
