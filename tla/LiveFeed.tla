------------------------------- MODULE LiveFeed -------------------------------
(***************************************************************************)
(* What Application's main loop sees of a live data handler, and what      *)
(* WebSocketFeed is shown to implement: a connection that is made once,    *)
(* delivers messages, and is over when it fails or is closed; and a stop() *)
(* that closes it only once it is made.                                    *)
(***************************************************************************)
EXTENDS Naturals

VARIABLES reader,   (* "none", "connecting", "read" or "done"                *)
          reading,  (* further messages may be taken                         *)
          used,     (* its io_context was run                                 *)
          row       (* messages taken                                        *)

live_vars == <<reader, reading, used, row>>

LiveInit == reader = "none" /\ reading = FALSE /\ used = FALSE /\ row = 0

(* The io_context of an earlier start() is not restarted. *)
LiveStart ==
  /\ reader = "none"
  /\ reader' = IF used THEN "done" ELSE "connecting"
  /\ reading' = ~ used
  /\ used' = TRUE
  /\ UNCHANGED row

Connected ==
  /\ reader = "connecting"
  /\ reader' = "read"
  /\ UNCHANGED <<reading, used, row>>

Message ==
  /\ reader = "read" /\ reading
  /\ row' = row + 1
  /\ UNCHANGED <<reader, reading, used>>

(* An operation failed, or the stream was closed. *)
Lost ==
  /\ reader \in {"connecting", "read"}
  /\ reader' = "done"
  /\ reading' = FALSE
  /\ UNCHANGED <<used, row>>

(* stop()'s close() is refused as long as there is no connection. *)
Closing ==
  /\ reading' = (reading /\ reader = "connecting")
  /\ UNCHANGED <<reader, used, row>>

Joined ==
  /\ reader = "done"
  /\ reader' = "none"
  /\ UNCHANGED <<reading, used, row>>

LiveNext == LiveStart \/ Connected \/ Message \/ Lost \/ Closing \/ Joined

(* A closed stream comes to its end. *)
LiveSpec == /\ LiveInit /\ [][LiveNext]_live_vars
            /\ WF_live_vars(reader = "read" /\ ~ reading /\ Lost)
=============================================================================
