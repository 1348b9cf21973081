------------------------------ MODULE Lifecycle ------------------------------
(***************************************************************************)
(* One Application and the threads it starts: the controller that calls    *)
(* run(), stop(), run_backtest() and the destructor (main(), an analysis   *)
(* or the API server's thread), the thread of main_loop(), the data        *)
(* handler's thread and the event bus's dispatch thread.  The bus appears  *)
(* at the level SerialBroadcast promises, plus stop()'s missed             *)
(* notification; the live data handler as LiveFeed; creating a thread may  *)
(* fail, where ThreadsFail says so.                                        *)
(***************************************************************************)
EXTENDS LiveFeed, Sequences, FiniteSets

CONSTANTS RunModes,   (* values of config_.run_mode                        *)
          Rows,       (* data rows in the data file, messages of a server  *)
          BadRows,    (* those that do not parse                           *)
          Commands,   (* what the controller calls                         *)
          ThreadsFail,    (* whether starting a thread may throw           *)
          MaxRuns     (* bound on the times main_loop() is started         *)

ASSUME LifecycleAssumption ==
  /\ RunModes \subseteq {"BACKTEST", "LIVE", "OPTIMIZATION", "WALK_FORWARD"}
  /\ Rows \in Nat
  /\ BadRows \subseteq 1 .. Rows
  /\ Commands \subseteq {"run", "stop", "run_backtest", "destroy"}
  /\ ThreadsFail \in BOOLEAN
  /\ MaxRuns \in Nat

VARIABLES
  run_mode,     (* config_.run_mode                                          *)
  file_opens,   (* the data file can be opened                               *)
  process,      (* "running", "terminated" by the runtime, or "undefined"    *)
  controller,   (* what the controller is doing                              *)
  is_running,   (* Application::is_running_                                  *)
  app_thread,   (* app_thread_: "none", "alive", or "finished" but joinable  *)
  main,         (* where main_loop() is, "idle" outside                      *)
  runs,         (* how often main_loop() was started                         *)
  threw,        (* history: it left by its catch clause                      *)
  subscribed,   (* of which runs the components subscribed to the bus        *)
  bus_running,  (* EventBus::is_running_                                     *)
  dispatcher,   (* its dispatch thread                                       *)
  missed,       (* it blocked just before stop()'s notification              *)
  queue,        (* event_queue_, by type                                     *)
  promise,      (* main_loop()'s promise is set                              *)
  seen          (* MARKET or ORDER_BOOK events the components were given     *)

(* reader is the data handler's thread; reading is HistoricCSVDataHandler's *)
(* is_running_, or the stream of WebSocketDataHandler.                      *)
app_vars == <<controller, is_running, app_thread>>
run_vars == <<main, runs, threw>>
bus_vars == <<bus_running, dispatcher, missed>>
config_vars == <<run_mode, file_opens>>
vars == <<config_vars, process, app_vars, run_vars, subscribed, bus_vars, queue, promise,
          live_vars, seen>>

Live == run_mode = "LIVE"

Init == /\ run_mode \in RunModes
        /\ file_opens \in BOOLEAN
        /\ process = "running"
        /\ controller = "idle"
        /\ is_running = FALSE
        /\ app_thread = "none"
        /\ main = "idle"
        /\ runs = 0
        /\ threw = FALSE
        /\ subscribed = {}
        /\ bus_running = FALSE
        /\ dispatcher = "none"
        /\ missed = FALSE
        /\ queue = <<>>
        /\ promise = FALSE
        /\ LiveInit
        /\ seen = 0

(* A step of a thread, which changes nothing of the configuration. *)
Step == process = "running" /\ UNCHANGED config_vars

(* A step of the controller. *)
Command(c) == /\ Step /\ controller = "idle" /\ c \in Commands
              /\ UNCHANGED <<runs, threw, subscribed, queue, promise, live_vars, seen>>

(* std::terminate() *)
Terminate == process' = "terminated" /\ UNCHANGED <<app_vars, main, bus_vars>>
-----------------------------------------------------------------------------
(* Mutant of Run: the flag is not raised. *)
RunFlagDown ==
  /\ Command("run")
  /\ runs < MaxRuns
  /\ ~ is_running
  /\ IF app_thread # "none" THEN Terminate
     ELSE /\ app_thread' = "alive"
          /\ main' = "build"
          /\ UNCHANGED <<process, controller, is_running, bus_vars>>

(* run() when not running.  Assigning a thread to app_thread_ while it     *)
(* still holds one terminates the process.                                 *)
Run ==
  /\ Command("run")
  /\ runs < MaxRuns
  /\ ~ is_running
  /\ IF app_thread # "none" THEN Terminate
     ELSE /\ is_running' = TRUE
          /\ app_thread' = "alive"
          /\ main' = "build"
          /\ UNCHANGED <<process, controller, bus_vars>>

(* No thread for main_loop(): run() throws, and leaves the flag up. *)
RunThrows ==
  /\ Command("run")
  /\ ThreadsFail
  /\ ~ is_running
  /\ is_running' = TRUE
  /\ UNCHANGED <<process, controller, app_thread, main, bus_vars>>

(* run_backtest(): main_loop() on the caller's own thread, which does not  *)
(* raise is_running_.  Callers use a fresh Application.                    *)
RunBacktest ==
  /\ Command("run_backtest")
  /\ runs = 0
  /\ app_thread = "none"
  /\ runs < MaxRuns
  /\ controller' = "in_backtest"
  /\ main' = "build"
  /\ UNCHANGED <<process, is_running, app_thread, bus_vars>>

(* stop() lowers the flag and joins; if the flag is down it does nothing.  *)
Stop ==
  /\ Command("stop")
  /\ is_running
  /\ is_running' = FALSE
  /\ controller' = IF app_thread = "none" THEN "idle" ELSE "stop_join"
  /\ UNCHANGED <<process, app_thread, main, bus_vars>>

(* ~Application(): stop(), then the members' destructors, of which         *)
(* app_thread_'s terminates the process if the thread was never joined.    *)
Destroy ==
  /\ Command("destroy")
  /\ IF ~ is_running /\ app_thread # "none" THEN Terminate
     ELSE /\ is_running' = FALSE
          /\ controller' = IF app_thread = "none" THEN "destroy_members" ELSE "destroy_join"
          /\ UNCHANGED <<process, app_thread, main, bus_vars>>

Join ==
  /\ Step
  /\ controller \in {"stop_join", "destroy_join"}
  /\ app_thread = "finished"
  /\ app_thread' = "none"
  /\ controller' = IF controller = "stop_join" THEN "idle" ELSE "destroy_members"
  /\ UNCHANGED <<process, is_running, run_vars, subscribed, bus_vars, queue, promise,
                 live_vars, seen>>

(* Each loop of the dispatch thread may be about to block over an empty    *)
(* queue when the flag is lowered.                                         *)
LowerBusFlag ==
  /\ bus_running' = FALSE
  /\ missed' \in (IF queue = <<>> THEN BOOLEAN ELSE {FALSE})
  /\ UNCHANGED dispatcher

(* The components are destroyed, and then the bus, which is stopped if     *)
(* main_loop() did not.                                                    *)
DestroyMembers ==
  /\ Step
  /\ controller = "destroy_members"
  /\ IF dispatcher = "none" THEN controller' = "destroyed" /\ UNCHANGED bus_vars
     ELSE controller' = "destroy_bus" /\ LowerBusFlag
  /\ UNCHANGED <<process, is_running, app_thread, run_vars, subscribed, queue, promise,
                 live_vars, seen>>

DestroyBus ==
  /\ Step
  /\ controller = "destroy_bus"
  /\ dispatcher = "exited"
  /\ dispatcher' = "none"
  /\ controller' = "destroyed"
  /\ UNCHANGED <<process, is_running, app_thread, run_vars, subscribed, bus_running,
                 missed, queue, promise, live_vars, seen>>

Returning == Join \/ DestroyMembers \/ DestroyBus
Controller == Run \/ RunThrows \/ RunBacktest \/ Stop \/ Destroy \/ Returning
-----------------------------------------------------------------------------
(* main_loop() *)
MainStep(from, to) == Step /\ main = from /\ main' = to /\ UNCHANGED process

(* A step that changes neither the Application nor what was delivered. *)
Quietly == UNCHANGED <<app_vars, runs, subscribed, promise, seen>>

(* New components replace, and so destroy, those of an earlier run, whose  *)
(* callbacks stay subscribed.                                              *)
Build ==
  /\ MainStep("build", "start_bus")
  /\ runs' = runs + 1
  /\ subscribed' = subscribed \cup {runs + 1}
  /\ promise' = FALSE
  /\ seen' = 0
  /\ UNCHANGED <<app_vars, threw, bus_vars, queue, live_vars>>

(* event_bus_->start(), which does nothing if the bus is running, and      *)
(* portfolio_manager_->start()'s publication.                              *)
StartBus ==
  /\ MainStep("start_bus", "start_reader")
  /\ bus_running' = TRUE
  /\ dispatcher' = IF bus_running THEN dispatcher ELSE "alive"
  /\ missed' = FALSE
  /\ queue' = Append(queue, "PORTFOLIO_UPDATE")
  /\ Quietly /\ UNCHANGED <<threw, live_vars>>

StartReader ==
  /\ MainStep("start_reader", "wait")
  /\ IF Live THEN LiveStart
     ELSE reading' = TRUE /\ reader' = "open" /\ row' = 0 /\ UNCHANGED used
  /\ Quietly /\ UNCHANGED <<threw, bus_vars, queue>>

(* No thread for the bus or the data handler: the catch clause stops       *)
(* nothing of what was started, but for what a start() itself set.         *)
Throw ==
  /\ ThreadsFail
  /\ threw' = TRUE
  /\ \/ /\ MainStep("start_bus", "finish")
        /\ ~ bus_running
        /\ bus_running' = TRUE
        /\ UNCHANGED <<dispatcher, missed, live_vars>>
     \/ /\ MainStep("start_reader", "finish")
        /\ reading' = TRUE
        /\ UNCHANGED <<bus_vars, reader, used, row>>
  /\ Quietly /\ UNCHANGED queue

(* Mutant of Wait: a backtest, too, waits for the flag alone. *)
WaitForFlag ==
  /\ MainStep("wait", "stop_reader")
  /\ ~ is_running
  /\ Quietly /\ UNCHANGED <<threw, bus_vars, queue, live_vars>>

(* A backtest waits for the promise, any other mode until is_running_ is   *)
(* down.                                                                   *)
Wait ==
  /\ MainStep("wait", "stop_reader")
  /\ IF run_mode = "BACKTEST" THEN promise ELSE ~ is_running
  /\ Quietly /\ UNCHANGED <<threw, bus_vars, queue, live_vars>>

StopReader ==
  /\ MainStep("stop_reader", "join_reader")
  /\ IF Live THEN Closing ELSE reading' = FALSE /\ UNCHANGED <<reader, used, row>>
  /\ Quietly /\ UNCHANGED <<threw, bus_vars, queue>>

JoinReader ==
  /\ MainStep("join_reader", "stop_bus")
  /\ Joined
  /\ Quietly /\ UNCHANGED <<threw, bus_vars, queue>>

(* Mutant of StopBus: the bus is told to stop without lowering its flag.   *)
StopBusFlagUp ==
  /\ MainStep("stop_bus", "join_bus")
  /\ Quietly /\ UNCHANGED <<threw, bus_vars, queue, live_vars>>

StopBus ==
  /\ MainStep("stop_bus", "join_bus")
  /\ LowerBusFlag
  /\ Quietly /\ UNCHANGED <<threw, queue, live_vars>>

(* Mutant of JoinBus: the dispatch thread is not waited for. *)
LeaveBus ==
  /\ MainStep("join_bus", "finish")
  /\ Quietly /\ UNCHANGED <<threw, bus_vars, queue, live_vars>>

JoinBus ==
  /\ MainStep("join_bus", "finish")
  /\ dispatcher # "alive"
  /\ dispatcher' = "none"
  /\ Quietly /\ UNCHANGED <<threw, bus_running, missed, queue, live_vars>>

(* The thread ends, or run_backtest() returns. *)
Finish ==
  /\ MainStep("finish", "idle")
  /\ is_running' = FALSE
  /\ app_thread' = IF app_thread = "alive" THEN "finished" ELSE app_thread
  /\ controller' = IF controller = "in_backtest" THEN "idle" ELSE controller
  /\ UNCHANGED <<runs, threw, subscribed, bus_vars, queue, promise, live_vars, seen>>

Main == Build \/ StartBus \/ StartReader \/ Throw \/ Wait \/ StopReader \/ JoinReader
          \/ StopBus \/ JoinBus \/ Finish
-----------------------------------------------------------------------------
(* The data handler's thread: HistoricCSVDataHandler::run(), or LiveFeed.  *)
ReaderStep == /\ Step
              /\ UNCHANGED <<process, app_vars, run_vars, subscribed, bus_vars, promise,
                             seen>>

(* A file that cannot be opened ends the thread without a SYSTEM event.    *)
OpenFile ==
  /\ ReaderStep
  /\ reader = "open"
  /\ reader' = IF file_opens THEN "read" ELSE "done"
  /\ UNCHANGED <<queue, reading, used, row>>

Connect == ReaderStep /\ Live /\ Connected /\ UNCHANGED queue

(* Mutant of ReadRow: the end of the file is not noticed. *)
ReadPastEnd ==
  /\ ReaderStep
  /\ Message
  /\ queue' = Append(queue, "MARKET")

(* A row of the file, or a message of the server. *)
ReadRow ==
  /\ ReaderStep
  /\ row < Rows
  /\ Message
  /\ queue' = IF row + 1 \in BadRows THEN queue ELSE Append(queue, "MARKET")

(* Mutant of EndOfData: the reader stops without a SYSTEM event. *)
EndSilently ==
  /\ ReaderStep
  /\ ~ Live
  /\ reader = "read"
  /\ ~ reading \/ row = Rows
  /\ reader' = "done"
  /\ UNCHANGED <<queue, reading, used, row>>

EndOfData ==
  /\ ReaderStep
  /\ ~ Live
  /\ reader = "read"
  /\ ~ reading \/ row = Rows
  /\ reader' = "done"
  /\ queue' = Append(queue, "SYSTEM")
  /\ UNCHANGED <<reading, used, row>>

Disconnect == ReaderStep /\ Live /\ Lost /\ UNCHANGED queue

FileReader == OpenFile \/ (ReadRow /\ ~ Live) \/ EndOfData
LiveReader == Connect \/ (ReadRow /\ Live) \/ Disconnect
-----------------------------------------------------------------------------
(* The dispatch thread calls every run's callbacks; those of an earlier    *)
(* run, or of an Application being destroyed, use destroyed components,    *)
(* and the former a promise that is off the stack.                         *)
Current == subscribed = {runs} /\ controller # "destroy_bus"

Deliver ==
  /\ Step
  /\ dispatcher = "alive"
  /\ queue # <<>>
  /\ queue' = Tail(queue)
  /\ process' = IF Current THEN process ELSE "undefined"
  /\ seen' = IF Head(queue) = "MARKET" THEN seen + 1 ELSE seen
  /\ promise' = (promise \/ Head(queue) = "SYSTEM")
  /\ UNCHANGED <<app_vars, run_vars, subscribed, bus_vars, live_vars>>

(* Mutant of DispatcherExits: the loop ends with the flag. *)
ExitUndrained ==
  /\ Step
  /\ dispatcher = "alive"
  /\ ~ bus_running /\ ~ missed
  /\ dispatcher' = "exited"
  /\ UNCHANGED <<process, app_vars, run_vars, subscribed, bus_running, missed, queue,
                 promise, live_vars, seen>>

DispatcherExits ==
  /\ Step
  /\ dispatcher = "alive"
  /\ ~ bus_running /\ queue = <<>> /\ ~ missed
  /\ dispatcher' = "exited"
  /\ UNCHANGED <<process, app_vars, run_vars, subscribed, bus_running, missed, queue,
                 promise, live_vars, seen>>

Dispatcher == Deliver \/ DispatcherExits

Threads == Main \/ FileReader \/ LiveReader \/ Dispatcher
Next == Controller \/ Threads

(* Every thread keeps running and a closed stream ends; the controller     *)
(* need not call anything, but a join returns once the thread it waits for *)
(* has finished.  The server need not accept or send anything.             *)
Spec == Init /\ [][Next]_vars
Fairness == /\ WF_vars(Returning)
            /\ WF_vars(Main)
            /\ WF_vars(FileReader)
            /\ WF_vars(Disconnect /\ reader = "read" /\ ~ reading)
            /\ WF_vars(Dispatcher)
FairSpec == Spec /\ Fairness
-----------------------------------------------------------------------------
TypeOK ==
  /\ run_mode \in RunModes
  /\ {file_opens, is_running, threw, bus_running, missed, promise, reading, used}
       \subseteq BOOLEAN
  /\ process \in {"running", "terminated", "undefined"}
  /\ controller \in {"idle", "in_backtest", "stop_join", "destroy_join",
                     "destroy_members", "destroy_bus", "destroyed"}
  /\ app_thread \in {"none", "alive", "finished"}
  /\ main \in {"idle", "build", "start_bus", "start_reader", "wait", "stop_reader",
               "join_reader", "stop_bus", "join_bus", "finish"}
  /\ runs \in 0 .. MaxRuns
  /\ subscribed \subseteq 1 .. MaxRuns
  /\ dispatcher \in {"none", "alive", "exited"}
  /\ queue \in Seq({"MARKET", "SYSTEM", "PORTFOLIO_UPDATE"})
  /\ reader \in {"none", "open", "connecting", "read", "done"}
  /\ row \in 0 .. Rows
  /\ seen \in Nat

Returned == process = "running" /\ runs > 0 /\ main = "idle"

(* When main_loop() returns, no thread it started is left and no event is  *)
(* undelivered: the reader is joined before the bus is stopped, and the    *)
(* bus drains.  If it returned by an exception there still is no reader,   *)
(* but there may be the dispatch thread.                                   *)
QuietOnReturn ==
  Returned => reader = "none" /\ (threw \/ (dispatcher = "none" /\ queue = <<>>))

SawEveryRow == seen = Rows - Cardinality(BadRows)

(* By the time main_loop() returns from a backtest, and so before          *)
(* run_backtest() or the API computes its report, the components were      *)
(* given every row of the file, also if stop() was called meanwhile.       *)
BacktestComplete == Returned /\ run_mode = "BACKTEST" /\ ~ threw => SawEveryRow

(* Optimizer.cpp:37, "run a single backtest": the same for the runs of the *)
(* optimizer and the walk-forward analyzer, in whatever mode.              *)
ReportComplete == Returned /\ file_opens => SawEveryRow

(* What main_loop() and stop() wait for comes, unless the bus's dispatch   *)
(* thread missed stop()'s notification, or a failed start() left the bus   *)
(* without one; the promise waits for a reader that could not open its     *)
(* file; a connection was not yet there to be closed; or the process was   *)
(* lost.                                                                   *)
Excused == \/ missed
           \/ bus_running /\ dispatcher = "none"
           \/ run_mode = "BACKTEST" /\ ~ file_opens
           \/ Live /\ main = "join_reader" /\ reading
           \/ process # "running"

(* A backtest ends by itself, a run in any other mode once it is told to.  *)
RunEnds ==
  main # "idle" /\ (run_mode = "BACKTEST" \/ ~ is_running) ~> main = "idle" \/ Excused

(* stop() and the destructor return. *)
StopCompletes ==
  controller \in {"stop_join", "destroy_join", "destroy_members", "destroy_bus"}
    ~> controller \in {"idle", "destroyed"} \/ Excused

(* "Backtester started" (APIServer.cpp:73): starting again after a run     *)
(* ended by itself does not end the process, by assigning to a thread      *)
(* never joined.                                                           *)
ProcessSurvives == process # "terminated"
=============================================================================
