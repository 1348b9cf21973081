---------------------------- MODULE WebSocketFeed ----------------------------
(***************************************************************************)
(* data/WebSocketDataHandler.cpp, the data handler of LIVE mode: a chain   *)
(* of asynchronous operations whose completion handlers run on the thread  *)
(* of an io_context, and stop(), which Application's main loop calls from  *)
(* its own thread.                                                         *)
(*                                                                         *)
(* Of Boost the module assumes: at most what was initiated completes;      *)
(* io_context::run() returns when no work is left or the context is        *)
(* stopped, and leaves it stopped; a stopped context runs no handler; and  *)
(* close() does nothing but report an error unless the WebSocket handshake *)
(* is done, and otherwise ends the stream, so that the operation then      *)
(* outstanding fails.                                                      *)
(***************************************************************************)
EXTENDS Naturals, Sequences

CONSTANTS MaxMessages,  (* bound on the messages the server sends            *)
          MaxStarts     (* bound on the calls of start()                     *)

ASSUME WebSocketAssumption == {MaxMessages, MaxStarts} \subseteq Nat

(* What process_message() tells apart: the answer to the subscription, a   *)
(* message that is no depthUpdate, one that makes the parser throw, and    *)
(* depth updates with and without a level of positive quantity.            *)
Messages == {"confirmation", "other", "malformed", "book", "empty_book"}

VARIABLES
  starts,       (* calls of start()                                          *)
  caller,       (* Application's thread: "idle", or in stop(): "dispatch",   *)
                (* "join"                                                    *)
  ioc_thread,   (* ioc_thread_: "none", "running" ioc_.run(), "returned"     *)
  ioc_stopped,  (* ioc_.stopped()                                            *)
  operation,    (* the asynchronous operation outstanding                    *)
  close_queued, (* stop()'s lambda is waiting for the io_context             *)
  refused,      (* history: its close() came before the handshake was done   *)
  stream,       (* ws_: "unconnected", "open" or "closed"                    *)
  buffer,       (* buffer_, as the messages in it                            *)
  received,     (* history: what the server sent                             *)
  published     (* history: positions in received published as ORDER_BOOK    *)

ioc_vars == <<ioc_thread, ioc_stopped>>
data_vars == <<buffer, received, published>>
vars == <<starts, caller, ioc_vars, operation, close_queued, refused, stream, data_vars>>

Init == /\ starts = 0
        /\ caller = "idle"
        /\ ioc_thread = "none"
        /\ ioc_stopped = FALSE
        /\ operation = "none"
        /\ close_queued = FALSE
        /\ refused = FALSE
        /\ stream = "unconnected"
        /\ buffer = <<>>
        /\ received = <<>>
        /\ published = <<>>
-----------------------------------------------------------------------------
(* start(); nothing restarts a stopped io_context. *)
Start ==
  /\ caller = "idle"
  /\ ioc_thread = "none"
  /\ starts < MaxStarts
  /\ starts' = starts + 1
  /\ ioc_thread' = "running"
  /\ operation' = "resolve"
  /\ UNCHANGED <<caller, ioc_stopped, close_queued, refused, stream, data_vars>>

(* stop() looks at the context ... *)
StopTest ==
  /\ caller = "idle"
  /\ ioc_thread # "none"
  /\ caller' = IF ioc_stopped THEN "join" ELSE "dispatch"
  /\ UNCHANGED <<starts, ioc_vars, operation, close_queued, refused, stream, data_vars>>

(* ... hands it the closing, though it may have stopped meanwhile ... *)
StopDispatch ==
  /\ caller = "dispatch"
  /\ close_queued' = TRUE
  /\ caller' = "join"
  /\ UNCHANGED <<starts, ioc_vars, operation, refused, stream, data_vars>>

(* ... and joins its thread. *)
StopJoin ==
  /\ caller = "join"
  /\ ioc_thread = "returned"
  /\ ioc_thread' = "none"
  /\ caller' = "idle"
  /\ UNCHANGED <<starts, ioc_stopped, operation, close_queued, refused, stream,
                 data_vars>>
-----------------------------------------------------------------------------
(* The io_context's thread *)
IocRuns == ioc_thread = "running" /\ ~ ioc_stopped

(* Mutant of RunReturns: the context can be run again. *)
RunRestarted ==
  /\ ioc_thread = "running"
  /\ ioc_stopped \/ (operation = "none" /\ ~ close_queued)
  /\ ioc_thread' = "returned"
  /\ UNCHANGED <<starts, caller, ioc_stopped, operation, close_queued, refused, stream,
                 data_vars>>

RunReturns ==
  /\ ioc_thread = "running"
  /\ ioc_stopped \/ (operation = "none" /\ ~ close_queued)
  /\ ioc_thread' = "returned"
  /\ ioc_stopped' = TRUE
  /\ UNCHANGED <<starts, caller, operation, close_queued, refused, stream, data_vars>>

Close ==
  /\ IocRuns
  /\ close_queued
  /\ close_queued' = FALSE
  /\ stream' = IF stream = "open" THEN "closed" ELSE stream
  /\ refused' = (stream = "unconnected")
  /\ UNCHANGED <<starts, caller, ioc_vars, operation, data_vars>>

(* Mutant of Fails: the handler goes on in spite of the error. *)
ErrorIgnored ==
  /\ IocRuns
  /\ operation # "none"
  /\ stream' = IF stream = "open" THEN "closed" ELSE stream
  /\ UNCHANGED <<starts, caller, ioc_vars, operation, close_queued, refused, data_vars>>

(* A handler that is given an error logs it and initiates nothing. *)
Fails ==
  /\ IocRuns
  /\ operation # "none"
  /\ operation' = "none"
  /\ stream' = IF stream = "open" THEN "closed" ELSE stream
  /\ UNCHANGED <<starts, caller, ioc_vars, close_queued, refused, data_vars>>

Completes(done, next) ==
  /\ IocRuns
  /\ stream # "closed"
  /\ operation = done
  /\ operation' = next
  /\ UNCHANGED <<starts, caller, ioc_vars, close_queued, refused>>

OnResolve      == Completes("resolve", "connect") /\ UNCHANGED <<stream, data_vars>>
OnConnect      == Completes("connect", "ssl_handshake") /\ UNCHANGED <<stream, data_vars>>
OnSslHandshake == Completes("ssl_handshake", "handshake") /\ UNCHANGED <<stream, data_vars>>
OnHandshake    == Completes("handshake", "write") /\ stream' = "open"
                                                  /\ UNCHANGED data_vars
OnWrite        == Completes("write", "read") /\ UNCHANGED <<stream, data_vars>>

(* process_message() on all that is in the buffer: two messages on end are *)
(* no document it understands.                                             *)
IsBook(messages) == messages = <<"book">>

(* Mutant of Consumed: the buffer keeps what was processed. *)
Unconsumed(messages) == messages

(* buffer_ after on_read(). *)
Consumed(messages) == <<>>

OnRead ==
  /\ Completes("read", "read")
  /\ Len(received) < MaxMessages
  /\ \E m \in Messages :
       LET read == Append(buffer, m) IN
       /\ received' = Append(received, m)
       /\ published' = IF IsBook(read) THEN Append(published, Len(received) + 1)
                                       ELSE published
       /\ buffer' = Consumed(read)
  /\ UNCHANGED stream

Chain == \/ RunReturns \/ Close \/ Fails
         \/ OnResolve \/ OnConnect \/ OnSslHandshake \/ OnHandshake \/ OnWrite
         \/ OnRead

Next == Start \/ StopTest \/ StopDispatch \/ StopJoin \/ Chain

(* The io_context's thread keeps running its handlers, an operation on a   *)
(* closed stream fails, and the connection attempts come to an end; the    *)
(* server need not send anything.                                          *)
Fairness == /\ WF_vars(StopDispatch)
            /\ WF_vars(StopJoin)
            /\ WF_vars(RunReturns)
            /\ WF_vars(Close)
            /\ WF_vars(stream = "closed" /\ Fails)
            /\ WF_vars(OnResolve \/ OnConnect \/ OnSslHandshake \/ OnHandshake \/ OnWrite)

Spec == Init /\ [][Next]_vars
FairSpec == Spec /\ Fairness
-----------------------------------------------------------------------------
(* The buffer is empty between two handlers. *)
TypeOK ==
  /\ starts \in 0 .. MaxStarts
  /\ caller \in {"idle", "dispatch", "join"}
  /\ ioc_thread \in {"none", "running", "returned"}
  /\ {ioc_stopped, close_queued, refused} \subseteq BOOLEAN
  /\ operation \in {"none", "resolve", "connect", "ssl_handshake", "handshake",
                    "write", "read"}
  /\ stream \in {"unconnected", "open", "closed"}
  /\ buffer = <<>>
  /\ received \in Seq(Messages)
  /\ published \in Seq(Nat)

(* Every book the server sent is published once, in the order sent,        *)
(* whatever confirmations, malformed and foreign messages come in between. *)
BooksInOrder ==
  /\ \A i, j \in DOMAIN published : i < j => published[i] < published[j]
  /\ {published[i] : i \in DOMAIN published} = {n \in DOMAIN received : received[n] = "book"}

(* stop() returns, also when the connection fails, or the io_context runs  *)
(* out of work, while stop() is on its way; except if its close() came     *)
(* before the handshake was done.                                          *)
StopReturnsUnlessRefused == caller = "join" ~> caller = "idle" \/ refused

(* The handler is, to whoever starts and stops it, the connection that     *)
(* LiveFeed describes and Lifecycle's LIVE mode uses: nothing is taken     *)
(* from it outside start() and stop(), a close ends it, and it connects    *)
(* once only, however often it is started.                                 *)
Client == CASE ioc_thread = "none" -> "none"
            [] ioc_thread # "none" /\ (ioc_stopped \/ operation = "none") -> "done"
            [] OTHER -> IF stream = "unconnected" THEN "connecting" ELSE "read"
Connection == INSTANCE LiveFeed WITH
  reader <- Client, reading <- Client \in {"connecting", "read"} /\ stream # "closed",
  used <- starts > 0, row <- Len(received)
IsConnection == Connection!LiveSpec

(* Component.h:20, "implement start() and stop() methods for thread        *)
(* management": stop() ends the thread that start() began.                 *)
StopReturns == caller = "join" ~> caller = "idle"
=============================================================================
