------------------------------ MODULE MCAnalyses ------------------------------
(* A file that has everything, and those that lack or vary one thing. *)
EXTENDS Analyses

Strategy(n, t) == [name |-> n, imbalance_threshold |-> t,
                   fields |-> {"params", "lookback_levels", "imbalance_threshold"}]

Full == [loads |-> TRUE, malformed |-> FALSE, run_mode |-> "WALK_FORWARD",
         sections |-> Sections, fields |-> Fields, sizing_first |-> FALSE,
         strategies |-> <<Strategy("imbalance", 12), Strategy("ticks", 14)>>,
         ranges |-> <<12, 14, 15>>, strategy_name |-> "imbalance",
         start_date |-> 0, end_date |-> 7, in_sample_days |-> 2, out_of_sample_days |-> 2]

MCFiles ==
  {Full,
   [Full EXCEPT !.loads = FALSE], [Full EXCEPT !.malformed = TRUE],
   [Full EXCEPT !.sizing_first = TRUE],
   [Full EXCEPT !.strategies = <<>>], [Full EXCEPT !.strategy_name = "ticks"],
   [Full EXCEPT !.ranges = <<>>], [Full EXCEPT !.ranges = <<12, 13>>],
   [Full EXCEPT !.out_of_sample_days = 0], [Full EXCEPT !.in_sample_days = 6]}
  \cup {[Full EXCEPT !.run_mode = m] : m \in {"absent", "LIVE", "OPTIMIZATION"}}
  \cup {[Full EXCEPT !.sections = Sections \ {s}] : s \in Sections}
  \cup {[Full EXCEPT !.fields = Fields \ {f}] : f \in Fields}
  \cup {[Full EXCEPT !.out_of_sample_days = o, !.end_date = e] : o \in 1 .. 3, e \in 6 .. 9}
  \cup {[Full EXCEPT !.strategies[1].fields = @ \ {f}] :
          f \in {"params", "lookback_levels", "imbalance_threshold"}}

(* 12 and 13 are printed alike. *)
MCShown == [t \in {12, 13, 14, 15} |-> IF t = 13 THEN 12 ELSE t]

(* Prices between which the returns are from 4 to 56 percent, two of them   *)
(* equal (16, 20, 25); even, odd and minimal periods.                       *)
MCPeriods == {<<3, 4>>, <<4, 2>>, <<3, 3>>, <<1, 2>>, <<2, 1>>}

MCTradeLogs == {<<>>, <<-2>>, <<4, -2>>, <<-2, 0>>}
MCSharpeRatios == {-1, 0, 1}
MCGarbage == {-1, 0, 3}
MCNoDate == -5
=============================================================================
