------------------------------ MODULE ApiServer ------------------------------
(***************************************************************************)
(* APIServer and the Application it serves.  Its one thread accepts a      *)
(* connection, reads one request and handles it by calling the Application *)
(* -- it is the controller of Lifecycle while it serves -- and only then   *)
(* accepts the next.  The owner constructs both, starts and stops the      *)
(* server, and may itself call the Application when no server runs.        *)
(***************************************************************************)
EXTENDS Lifecycle

VARIABLES
  owner,        (* "idle", "serving", "joining" in stop(), or "joined"       *)
  ioc_stopped,  (* ioc_.stopped()                                            *)
  server,       (* where server_thread_ is, "none" before start()            *)
  request,      (* the target of the request being handled                   *)
  report        (* what the report being computed met: "at_rest" if there    *)
                (* was no run when it began, "amid" a run, "disturbed" if    *)
                (* what it reads was written meanwhile; "none" if none is    *)

Requests == {"start", "stop", "report", "pnl", "performance", "unknown"}

server_vars == <<owner, ioc_stopped, server, request>>
api_vars == <<vars, server_vars, report>>

ApiInit == /\ Init
           /\ owner = "idle"
           /\ ioc_stopped = FALSE
           /\ server = "none"
           /\ request = "unknown"
           /\ report = "none"
-----------------------------------------------------------------------------
(* The owner.  start() runs a new thread, also after stop(), when the      *)
(* io_context is stopped for good.                                         *)
OwnerStart ==
  /\ process = "running" /\ controller = "idle"
  /\ owner \in {"idle", "joined"}
  /\ owner' = "serving"
  /\ server' = "test"
  /\ UNCHANGED <<vars, ioc_stopped, request, report>>

OwnerStop ==
  /\ process = "running"
  /\ owner = "serving"
  /\ owner' = "joining"
  /\ ioc_stopped' = TRUE
  /\ UNCHANGED <<vars, server, request, report>>

OwnerJoin ==
  /\ process = "running"
  /\ owner = "joining"
  /\ server = "done"
  /\ owner' = "joined"
  /\ server' = "none"
  /\ UNCHANGED <<vars, ioc_stopped, request, report>>

OwnerCommand ==
  /\ owner \in {"idle", "joined"}
  /\ Run \/ RunThrows \/ RunBacktest \/ Stop \/ Destroy
  /\ UNCHANGED <<server_vars, report>>
-----------------------------------------------------------------------------
(* The server's thread. *)
Serve(from, to) == /\ process = "running"
                   /\ server = from /\ server' = to
                   /\ UNCHANGED <<owner, ioc_stopped>>

(* Mutant of TestStopped: the flag is not tested. *)
NeverTest == Serve("test", "accept") /\ UNCHANGED <<vars, request, report>>

TestStopped ==
  /\ Serve("test", IF ioc_stopped THEN "done" ELSE "accept")
  /\ UNCHANGED <<vars, request, report>>

(* accept() blocks until a client connects, whatever becomes of ioc_. *)
Accept == Serve("accept", "read") /\ UNCHANGED <<vars, request, report>>
AcceptThrows == Serve("accept", "done") /\ UNCHANGED <<vars, request, report>>

(* As a bound, no request starts more than MaxRuns runs. *)
ReadRequest ==
  /\ Serve("read", "handle")
  /\ request' \in Requests
  /\ (request' = "start" => runs + (IF main = "build" THEN 1 ELSE 0) < MaxRuns)
  /\ UNCHANGED <<vars, report>>

ReadFails == Serve("read", "test") /\ UNCHANGED <<vars, request, report>>

(* POST /start.  The loop is inside the try block: a run() that throws     *)
(* ends it.                                                                *)
HandleStart ==
  /\ request = "start"
  /\ \/ Serve("handle", "respond") /\ Run
     \/ Serve("handle", "respond") /\ is_running /\ UNCHANGED vars
     \/ Serve("handle", "done") /\ RunThrows
  /\ UNCHANGED <<request, report>>

(* POST /stop, whose handler waits for the run to end. *)
HandleStop ==
  /\ Serve("handle", "stopping")
  /\ request = "stop"
  /\ Stop \/ (~ is_running /\ UNCHANGED vars)
  /\ UNCHANGED <<request, report>>

Stopped ==
  /\ Serve("stopping", "respond")
  /\ controller = "idle"
  /\ UNCHANGED <<vars, request, report>>

(* GET /report and /pnl read what main_loop() and the dispatch thread      *)
(* write, without a lock.                                                  *)
BeginReport ==
  /\ Serve("handle", "reporting")
  /\ request \in {"report", "pnl"}
  /\ report' = IF main = "idle" /\ ~ threw THEN "at_rest" ELSE "amid"
  /\ UNCHANGED <<vars, request>>

EndReport ==
  /\ Serve("reporting", "respond")
  /\ report' = "none"
  /\ process' \in {"running"} \cup (IF report = "disturbed" THEN {"undefined"} ELSE {})
  /\ UNCHANGED <<config_vars, app_vars, run_vars, subscribed, bus_vars, queue, promise,
                 live_vars, seen, request>>

(* /performance takes PerformanceMonitor's lock; 404 for anything else. *)
HandleOther ==
  /\ Serve("handle", "respond")
  /\ request \in {"performance", "unknown"}
  /\ UNCHANGED <<vars, request, report>>

(* Whether or not the client is still there. *)
Respond == Serve("respond", "test") /\ UNCHANGED <<vars, request, report>>

Session == HandleStart \/ HandleStop \/ Stopped \/ BeginReport \/ EndReport \/ HandleOther
             \/ Respond
-----------------------------------------------------------------------------
(* main_loop() replaces the components, and a callback may lead to a fill. *)
Writes == (main = "build" /\ main' # main) \/ Len(queue') < Len(queue)

Application ==
  /\ Returning \/ Threads
  /\ report' = IF report # "none" /\ Writes THEN "disturbed" ELSE report
  /\ UNCHANGED server_vars

ApiNext == \/ OwnerStart \/ OwnerStop \/ OwnerJoin \/ OwnerCommand
           \/ TestStopped \/ Accept \/ AcceptThrows \/ ReadRequest \/ ReadFails \/ Session
           \/ Application

(* Clients need not connect or send anything, and the owner need not call  *)
(* anything; every thread keeps running, as in Lifecycle.                  *)
ApiSpec == ApiInit /\ [][ApiNext]_api_vars
ApiFairSpec == /\ ApiSpec
               /\ Fairness
               /\ WF_api_vars(TestStopped \/ Session)
               /\ WF_api_vars(OwnerJoin)
-----------------------------------------------------------------------------
ApiTypeOK ==
  /\ TypeOK
  /\ owner \in {"idle", "serving", "joining", "joined"}
  /\ ioc_stopped \in BOOLEAN
  /\ server \in {"none", "test", "accept", "read", "handle", "stopping", "reporting",
                 "respond", "done"}
  /\ request \in Requests
  /\ report \in {"none", "at_rest", "amid", "disturbed"}

(* When "Backtester stopped" is answered, no run is in progress, no thread *)
(* of it is left and no event is undelivered, unless a run failed by an    *)
(* exception: stop() does nothing when is_running_ is down, but then there *)
(* is no run (APIServer.cpp:75-80, Application.cpp:49-59).                 *)
StoppedIsQuiet ==
  server = "respond" /\ request = "stop" /\ process = "running" /\ ~ threw
    => main = "idle" /\ dispatcher = "none" /\ reader = "none" /\ queue = <<>>

(* A report or P&L snapshot that is begun when there is no run is never    *)
(* disturbed: only a request can start a run, and main_loop() leaves no    *)
(* thread that writes to the components.  Amid a run it may be, and is     *)
(* then undefined behaviour (Application.cpp:61-82).                       *)
AtRestUndisturbed == [][report = "at_rest" => report' # "disturbed"]_api_vars

(* stop() on the server returns once the request being handled is          *)
(* answered; while the thread waits in accept() or read() it needs a       *)
(* client for that (APIServer.cpp:24-31, 41).                              *)
ServerEnds ==
  owner = "joining" /\ server \notin {"accept", "read"} ~> owner = "joined" \/ Excused
=============================================================================
