-------------------------- MODULE PerformanceMonitor --------------------------
(***************************************************************************)
(* The metrics a TimerGuard records for each timed function, one list per  *)
(* name, each operation under metrics_mutex_, and the statistics of them   *)
(* that /performance returns.                                              *)
(***************************************************************************)
EXTENDS Statistics

CONSTANTS Timed,        (* names of timed functions                         *)
          Durations,    (* times a Timer may measure                        *)
          MaxSamples    (* bound on what is recorded before a reset         *)

ASSUME MonitorAssumption == /\ Durations \subseteq Nat
                            /\ IsFiniteSet(Durations)
                            /\ MaxSamples \in Nat

VARIABLE metrics        (* metrics_, as bags                                *)

MonitorInit == metrics = [f \in Timed |-> [t \in Durations |-> 0]]

(* record_metric(). *)
Recorded(f, t) == [metrics EXCEPT ![f][t] = @ + 1]

(* ~TimerGuard(): a timed function is left, by return or by exception. *)
LeaveTimed == \E f \in Timed, t \in Durations : /\ Size(metrics[f]) < MaxSamples
                                                /\ metrics' = Recorded(f, t)

(* reset(). *)
Reset == metrics' = [f \in Timed |-> [t \in Durations |-> 0]]

MonitorNext == LeaveTimed \/ Reset
-----------------------------------------------------------------------------
(* get_statistics() of one function. *)
GetStatistics(f) ==
  [p90 |-> Percentile(metrics[f], 90), p95 |-> Percentile(metrics[f], 95),
   p99 |-> Percentile(metrics[f], 99), count |-> Size(metrics[f])]

(* From the second measurement on there are percentiles, in order, and no  *)
(* more of the measurements exceed one than it promises                    *)
(* (PerformanceMonitor.h:53-67).                                           *)
LatenciesRank ==
  \A f \in Timed : LET s == GetStatistics(f) IN
    s.count > 1 =>
      /\ \A percent \in {90, 95, 99} : RanksFromAbove(metrics[f], percent)
      /\ \A x \in s.p90, y \in s.p95, z \in s.p99 : x <= y /\ y <= z
=============================================================================
