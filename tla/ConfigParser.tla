----------------------------- MODULE ConfigParser -----------------------------
(***************************************************************************)
(* ConfigParser::parse(): where each member of the Config comes from.  A   *)
(* file is the sections it has, the fields in them and the few values that *)
(* matter here; a member is "file", from the file, "default", as Config.h  *)
(* initialises it, "empty", a string never assigned, or "unset", a number  *)
(* never assigned.  simdjson's get() assigns nothing if the value is not   *)
(* there, or is of another type.                                           *)
(***************************************************************************)
EXTENDS Integers, Sequences

Texts == {<<"data", "symbol">>, <<"data", "data_file">>,
          <<"websocket", "host">>, <<"websocket", "target">>, <<"websocket", "symbol">>,
          <<"optimization", "strategy_name">>,
          <<"walk_forward", "start_date">>, <<"walk_forward", "end_date">>,
          <<"machine_learning", "model_path">>}
Whole == {<<"websocket", "port">>, <<"walk_forward", "in_sample_days">>,
          <<"walk_forward", "out_of_sample_days">>}
DynamicSizing == <<"risk", "use_dynamic_sizing">>
Initialised == {<<"top", "initial_capital">>,
                <<"execution", "commission_pct">>, <<"execution", "slippage_pct">>,
                <<"risk", "risk_per_trade_pct">>, DynamicSizing,
                <<"analytics", "calculate_sharpe">>,
                <<"analytics", "calculate_max_drawdown">>}
Fields == Texts \cup Whole \cup Initialised
Sections == {f[1] : f \in Fields} \ {"top"}

RunMode == {"BACKTEST", "LIVE", "OPTIMIZATION", "WALK_FORWARD"}

(* A strategy's fields: "params", and "lookback_levels" and                *)
(* "imbalance_threshold" in it.                                            *)
StrategyFiles == [name : STRING, fields : SUBSET {"params", "lookback_levels",
                                                  "imbalance_threshold"},
                  imbalance_threshold : Nat]
DefaultThreshold == 15    (* in tenths *)

ConfigFiles ==
  [loads : BOOLEAN, malformed : BOOLEAN, run_mode : RunMode \cup {"absent"},
   sections : SUBSET Sections, fields : SUBSET Fields, sizing_first : BOOLEAN,
   strategies : Seq(StrategyFiles), ranges : Seq(Nat), strategy_name : STRING,
   start_date : Int, end_date : Int, in_sample_days : Int, out_of_sample_days : Int]

(* Mutant of Initial: the defaults are left to the file. *)
InitialUnset(f) == IF f \in Texts THEN "empty" ELSE "unset"

(* Config.h's initialisers. *)
Initial(f) == IF f \in Texts THEN "empty" ELSE IF f \in Whole THEN "unset" ELSE "default"

(* find_field() only looks behind risk_per_trade_pct, which was read last. *)
Overlooked(file, f) ==
  f = DynamicSizing /\ file.sizing_first /\ <<"risk", "risk_per_trade_pct">> \in file.fields

(* Texts and whole numbers are read into local variables, from which their *)
(* members are assigned whether or not they were found.                    *)
Parsed(file, f) ==
  IF /\ f[1] \in file.sections \cup {"top"}
     /\ f \in file.fields /\ ~ Overlooked(file, f)
  THEN "file" ELSE Initial(f)

ParsedRunMode(file) == IF file.run_mode \in {"LIVE", "OPTIMIZATION", "WALK_FORWARD"}
                       THEN file.run_mode ELSE "BACKTEST"

ParsedStrategy(s) ==
  [name |-> s.name,
   lookback_levels |-> IF "params" \notin s.fields THEN "default"
                       ELSE IF "lookback_levels" \in s.fields THEN "file" ELSE "unset",
   imbalance_threshold |-> IF {"params", "imbalance_threshold"} \subseteq s.fields
                           THEN s.imbalance_threshold ELSE DefaultThreshold]

(* A file that cannot be read, or has a strategy that is no object or a    *)
(* range that is no list of numbers, throws.                               *)
Throws(file) == ~ file.loads \/ file.malformed

Parse(file) ==
  [run_mode   |-> ParsedRunMode(file),
   member     |-> [f \in Fields |-> Parsed(file, f)],
   strategies |-> [i \in DOMAIN file.strategies |-> ParsedStrategy(file.strategies[i])],
   ranges     |-> IF "optimization" \in file.sections THEN file.ranges ELSE <<>>]

(* A file may omit what it does not need, but not part of a section.       *)
Complete(file) ==
  /\ \A f \in Fields : f[1] \in file.sections => f \in file.fields
  /\ \A i \in DOMAIN file.strategies :
       "params" \in file.strategies[i].fields
         => file.strategies[i].fields = {"params", "lookback_levels", "imbalance_threshold"}

(* What the components read, given the run mode. *)
Needed(mode) == Initialised \cup (IF mode = "LIVE" THEN {<<"websocket", "port">>} ELSE {})
                  \cup (IF mode = "WALK_FORWARD" THEN Whole \ {<<"websocket", "port">>} ELSE {})
NeededSections(mode) == (IF mode = "LIVE" THEN {"websocket"} ELSE {})
                          \cup (IF mode = "WALK_FORWARD" THEN {"walk_forward"} ELSE {})
=============================================================================
