--------------------------- MODULE SerialBroadcast ---------------------------
(***************************************************************************)
(* What the components of the trading system rely on when they talk over   *)
(* the EventBus: one totally ordered log of events, each handed to the     *)
(* callbacks registered for its type in the order they registered, one     *)
(* event after the other and one callback at a time.  Threads, the queue   *)
(* mutex, the condition variable and the stop flag are absent; module      *)
(* EventBus implements this specification.                                 *)
(***************************************************************************)
EXTENDS Naturals, Sequences

CONSTANTS EventTypes,   (* the values of enum EventType                     *)
          Callbacks,    (* the std::function objects passed to subscribe()  *)
          TypeOf        (* the event type each callback subscribes to       *)

VARIABLES log,      (* every event published so far, by type                *)
          begun,    (* how many of them have been begun                     *)
          members,  (* callbacks registered per type, in order              *)
          pending,  (* callbacks still owed the event begun last            *)
          calls,    (* per callback, the log positions it was called with   *)
          joined    (* per callback, the value of begun when it registered  *)

vars == <<log, begun, members, pending, calls, joined>>

Registered == {c \in Callbacks : \E i \in DOMAIN members[TypeOf[c]] :
                                    members[TypeOf[c]][i] = c}

Init == /\ log = <<>>
        /\ begun = 0
        /\ members = [t \in EventTypes |-> <<>>]
        /\ pending = <<>>
        /\ calls = [c \in Callbacks |-> <<>>]
        /\ joined = [c \in Callbacks |-> 0]

Post(t) == /\ log' = Append(log, t)
           /\ UNCHANGED <<begun, members, pending, calls, joined>>

Register(c) == /\ c \notin Registered
               /\ members' = [members EXCEPT ![TypeOf[c]] = Append(@, c)]
               /\ joined' = [joined EXCEPT ![c] = begun]
               /\ UNCHANGED <<log, begun, pending, calls>>

Begin == /\ pending = <<>>
         /\ begun < Len(log)
         /\ begun' = begun + 1
         /\ pending' = members[log[begun + 1]]
         /\ UNCHANGED <<log, members, calls, joined>>

Call == /\ pending # <<>>
        /\ pending' = Tail(pending)
        /\ calls' = [calls EXCEPT ![Head(pending)] = Append(@, begun)]
        /\ UNCHANGED <<log, begun, members, joined>>

Next == \/ Begin
        \/ Call
        \/ \E t \in EventTypes : Post(t)
        \/ \E c \in Callbacks : Register(c)

Spec == Init /\ [][Next]_vars
-----------------------------------------------------------------------------
IsPending(c) == \E i \in DOMAIN pending : pending[i] = c

(* The log positions callback c must have been called with by now. *)
Owed(c) == {i \in joined[c] + 1 .. begun :
              /\ c \in Registered
              /\ log[i] = TypeOf[c]
              /\ ~ (i = begun /\ IsPending(c))}

(* A callback is called with every event of its type published since it    *)
(* registered took effect, never twice with one event, and in publication  *)
(* order: what the components' handlers, which keep unsynchronised state,  *)
(* take for granted.                                                       *)
ExactlyOnceInOrder ==
  \A c \in Callbacks :
    /\ {calls[c][n] : n \in DOMAIN calls[c]} = Owed(c)
    /\ \A m, n \in DOMAIN calls[c] : m < n => calls[c][m] < calls[c][n]
=============================================================================
