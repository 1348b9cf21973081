------------------------------ MODULE WalkForward ------------------------------
(***************************************************************************)
(* WalkForwardAnalyzer on a parsed configuration, and the Optimizer it     *)
(* runs in every period.  Dates are days.  The backtests are run_backtest()*)
(* of Lifecycle, of which matters here that it returns -- in BACKTEST mode *)
(* if the data file can be opened -- and what Sharpe ratio it reports.     *)
(***************************************************************************)
EXTENDS ConfigParser, FiniteSets, FiniteSetsExt, Functions

CONSTANTS Files,        (* the configuration files considered               *)
          SharpeRatios, (* what backtests may report, 0 if they report none *)
          Shown,        (* what is printed for a threshold                  *)
          Garbage,      (* what a number never assigned may turn out to be  *)
          NoDate,       (* what an empty date is parsed to                  *)
          MaxPeriods    (* bound on the periods                             *)

ASSUME WalkForwardAssumption == /\ Files \subseteq ConfigFiles
                                /\ SharpeRatios \subseteq Int /\ 0 \in SharpeRatios
                                /\ Garbage \subseteq Int /\ NoDate \in Int
                                /\ MaxPeriods \in Nat

VARIABLES
  walk,         (* "idle", "parsed", "loop", "optimize", "test" or "done";   *)
                (* "thrown", or "undefined"                                  *)
  file,         (* the file parsed                                           *)
  config,       (* base_config_, <<>> before                                 *)
  data_opens,   (* the data file of the backtests can be opened              *)
  span,         (* the loop's dates and durations                            *)
  periods,      (* the out-of-sample ranges tested, first and last day       *)
  test,         (* the test configuration run next                           *)
  results,      (* results_: by the threshold printed                        *)
  sharpes       (* history: what the optimizer's backtests reported          *)

period_vars == <<test, results, sharpes>>
walk_vars == <<walk, file, config, data_opens, span, periods, period_vars>>

AnalyzerInit ==
  /\ walk = "idle"
  /\ file = <<>>
  /\ config = <<>>
  /\ data_opens = FALSE
  /\ span = [current |-> 0, end |-> 0, in_sample |-> 0, out_of_sample |-> 0]
  /\ periods = <<>>
  /\ test = 1 /\ results = <<>> /\ sharpes = <<>>

ParseFile ==
  /\ walk = "idle"
  /\ file' \in Files
  /\ data_opens' \in BOOLEAN
  /\ IF Throws(file') THEN walk' = "thrown" /\ UNCHANGED config
                      ELSE walk' = "parsed" /\ config' = Parse(file')
  /\ UNCHANGED <<span, periods, period_vars>>

(* What a member of the section walk_forward may be. *)
Days(name) == IF config.member[<<"walk_forward", name>>] = "file" THEN {file[name]}
              ELSE IF <<"walk_forward", name>> \in Texts THEN {NoDate} ELSE Garbage

RunAnalyzer ==
  /\ walk = "parsed"
  /\ walk' = "loop"
  /\ span' \in [current : Days("start_date"), end : Days("end_date"),
                in_sample : Days("in_sample_days"),
                out_of_sample : Days("out_of_sample_days")]
  /\ UNCHANGED <<file, config, data_opens, periods, period_vars>>
-----------------------------------------------------------------------------
PeriodFits == span.current + span.in_sample + span.out_of_sample <= span.end

(* Mutant of BeginPeriod: the loop over the configurations is not begun anew. *)
BeginWhereLeft ==
  /\ walk = "loop"
  /\ PeriodFits
  /\ Len(periods) < MaxPeriods
  /\ walk' = "optimize"
  /\ results' = <<>> /\ sharpes' = <<>>
  /\ UNCHANGED <<file, config, data_opens, span, periods, test>>

(* A new Optimizer. *)
BeginPeriod ==
  /\ walk = "loop"
  /\ PeriodFits
  /\ Len(periods) < MaxPeriods
  /\ walk' = "optimize"
  /\ test' = 1 /\ results' = <<>> /\ sharpes' = <<>>
  /\ UNCHANGED <<file, config, data_opens, span, periods>>

OptimizedName == IF config.member[<<"optimization", "strategy_name">>] = "file"
                 THEN file.strategy_name ELSE ""

(* generate_test_configs(): one for each value of the range. *)
TestConfig(i) == [j \in DOMAIN config.strategies |->
  [config.strategies[j] EXCEPT !.imbalance_threshold =
     IF config.strategies[j].name = OptimizedName THEN config.ranges[i] ELSE @]]

(* Mutant of ResultKey: results are keyed by the base configuration. *)
BaseKey(i) == Shown[config.strategies[1].imbalance_threshold]
ResultKey(i) == Shown[TestConfig(i)[1].imbalance_threshold]

(* A backtest without data has no Sharpe ratio to report. *)
Reported == IF data_opens THEN SharpeRatios ELSE {0}

(* Results are keyed by what is printed for the first strategy's           *)
(* threshold, and there may be no first strategy.                          *)
RunTest ==
  /\ walk = "optimize"
  /\ test <= Len(config.ranges)
  /\ IF config.strategies = <<>> THEN walk' = "undefined" /\ UNCHANGED period_vars
     ELSE \E sharpe \in Reported :
            /\ results' = [k \in DOMAIN results \cup {ResultKey(test)} |->
                             IF k = ResultKey(test) THEN sharpe ELSE results[k]]
            /\ sharpes' = Append(sharpes, sharpe)
            /\ test' = test + 1
            /\ UNCHANGED walk
  /\ UNCHANGED <<file, config, data_opens, span, periods>>

Optimized ==
  /\ walk = "optimize"
  /\ test > Len(config.ranges)
  /\ walk' = "test"
  /\ UNCHANGED <<file, config, data_opens, span, periods, period_vars>>

(* Mutant of Advance: the next period begins after this one's last day. *)
AdvanceByPeriod == span.current + span.in_sample + span.out_of_sample
(* Mutant of Advance. *)
StayThere == span.current
Advance == span.current + span.out_of_sample

(* The out-of-sample backtest, which waits for ever for a file that cannot *)
(* be opened.                                                              *)
TestOutOfSample ==
  /\ walk = "test"
  /\ data_opens
  /\ walk' = "loop"
  /\ LET first == span.current + span.in_sample IN
       periods' = Append(periods, <<first, first + span.out_of_sample>>)
  /\ span' = [span EXCEPT !.current = Advance]
  /\ UNCHANGED <<file, config, data_opens, period_vars>>

EndAnalysis ==
  /\ walk = "loop"
  /\ ~ PeriodFits
  /\ walk' = "done"
  /\ UNCHANGED <<file, config, data_opens, span, periods, period_vars>>

AnalyzerNext == ParseFile \/ RunAnalyzer \/ BeginPeriod \/ RunTest \/ Optimized
                  \/ TestOutOfSample \/ EndAnalysis
-----------------------------------------------------------------------------
WalkTypeOK ==
  /\ walk \in {"idle", "parsed", "loop", "optimize", "test", "done", "thrown", "undefined"}
  /\ walk \in {"idle", "thrown"} \/ config.member \in [Fields -> {"file", "default",
                                                                  "empty", "unset"}]
  /\ span \in [current : Int, end : Int, in_sample : Int, out_of_sample : Int]
  /\ Len(periods) <= MaxPeriods
  /\ walk = "optimize" => test \in 1 .. Len(config.ranges) + 1 /\ Len(sharpes) = test - 1

(* A configuration file that has each of its sections in full, and the     *)
(* sections its run mode needs, leaves no number the components read       *)
(* indeterminate (Config.h, ConfigParser.cpp).                             *)
NothingUnset ==
  walk \notin {"idle", "thrown"} /\ Complete(file)
    /\ NeededSections(config.run_mode) \subseteq file.sections
    => /\ \A f \in Needed(config.run_mode) : config.member[f] # "unset"
       /\ \A i \in DOMAIN config.strategies : config.strategies[i].lookback_levels # "unset"

GivesDays == /\ Complete(file) /\ "walk_forward" \in file.sections
             /\ file.out_of_sample_days > 0

(* The out-of-sample ranges follow one another without gap or overlap,     *)
(* from the first day there is an in-sample range for, to a last day after *)
(* which another one would not fit (WalkForwardAnalyzer.cpp:42-81).        *)
PeriodsTile ==
  walk # "idle" /\ GivesDays =>
    /\ \A i \in 1 .. Len(periods) - 1 : periods[i][2] = periods[i + 1][1]
    /\ walk = "done" /\ periods # <<>> =>
         /\ periods[1][1] = file.start_date + file.in_sample_days
         /\ periods[Len(periods)][2] \in file.end_date - file.out_of_sample_days + 1 .. file.end_date

ThresholdsDiffer == Cardinality({Shown[config.ranges[i]] : i \in DOMAIN config.ranges})
                      = Len(config.ranges)

(* The best parameters the optimizer prints are those of a backtest that   *)
(* did best, if the strategy optimised is the first and the thresholds     *)
(* print differently: elsewhere results overwrite one another              *)
(* (Optimizer.cpp:46).                                                     *)
BestIsBest ==
  walk = "test" /\ sharpes # <<>> /\ config.strategies[1].name = OptimizedName
    /\ ThresholdsDiffer
    => \A k \in DOMAIN results : results[k] = Max(Range(results)) =>
         \E i \in DOMAIN sharpes : /\ Shown[config.ranges[i]] = k
                                   /\ sharpes[i] = Max(Range(sharpes))

(* The analysis ends if the file gives it positive numbers of days and a   *)
(* strategy, and the data file opens.  With no days to advance by it never *)
(* does (WalkForwardAnalyzer.cpp:79).                                      *)
WalkEnds ==
  walk = "parsed" /\ GivesDays /\ file.strategies # <<>> /\ data_opens ~> walk = "done"
=============================================================================
