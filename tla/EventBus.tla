------------------------------ MODULE EventBus ------------------------------
(***************************************************************************)
(* core/EventBus.h and core/EventBus.cpp: a queue filled by any thread and *)
(* drained by one dispatch thread, which waits on a condition variable.    *)
(*                                                                         *)
(* The queue is kept as the log of everything ever pushed (published) and  *)
(* the number of events popped from it (taken): std::queue is FIFO, so     *)
(* event_queue_ holds positions taken + 1 .. Len(published).               *)
(*                                                                         *)
(* A critical section of queue_mutex_ that does not block is one step.     *)
(* The dispatch thread holds the mutex across steps only between finding   *)
(* the wait predicate false and blocking, i.e. exactly when dispatcher =   *)
(* "block"; this is the window in which stop(), which takes no lock, can   *)
(* lower is_running_ unnoticed.                                            *)
(***************************************************************************)
EXTENDS Naturals, Sequences

CONSTANTS EventTypes,   (* enum EventType                                   *)
          Callbacks,    (* the std::function objects passed to subscribe()  *)
          TypeOf,       (* the event type each callback subscribes to       *)
          Publishes,    (* what a callback publishes when it is called      *)
          Producers,    (* threads other than the dispatch thread           *)
          Sources,      (* event types those threads publish                *)
          MaxPublished  (* producers publish only below this log length     *)

ASSUME EventBusAssumption ==
  /\ TypeOf \in [Callbacks -> EventTypes]
  /\ Publishes \in [Callbacks -> Seq(EventTypes)]
  /\ Sources \subseteq EventTypes
  /\ MaxPublished \in Nat

VARIABLES is_running,   (* the atomic flag is_running_                      *)
          published,    (* everything pushed on event_queue_ so far         *)
          taken,        (* how many of those were popped                    *)
          subscribers,  (* subscribers_: callbacks per type, in order       *)
          dispatcher,   (* where the dispatch thread is, "none" without one *)
          to_notify,    (* subscribers_to_notify not yet called             *)
          reaction,     (* what the callback being run has yet to publish   *)
          notifying,    (* producers between their push and notify_one()    *)
          controller,   (* the thread that calls start() and stop()         *)
          late,         (* history: producers' pushes since the flag fell   *)
          calls,        (* history: per callback, log positions called with *)
          joined        (* history: per callback, events begun when it      *)
                        (* subscribed                                       *)

queue_vars == <<published, taken>>
dispatch_vars == <<dispatcher, to_notify, reaction>>
vars == <<is_running, published, taken, subscribers, dispatcher, to_notify,
          reaction, notifying, controller, late, calls, joined>>

QueueEmpty == taken = Len(published)
(* Mutant of QueueMutexFree: publish() pushes without the mutex. *)
PushUnlocked == TRUE

QueueMutexFree == dispatcher # "block"
Current == published[taken]

(* Events whose subscriber list has been copied. *)
Begun == IF dispatcher = "copy" THEN taken - 1 ELSE taken

Subscribed == {c \in Callbacks : \E i \in DOMAIN subscribers[TypeOf[c]] :
                                    subscribers[TypeOf[c]][i] = c}

Init == /\ is_running = FALSE
        /\ published = <<>>
        /\ taken = 0
        /\ subscribers = [t \in EventTypes |-> <<>>]
        /\ dispatcher = "none"
        /\ to_notify = <<>>
        /\ reaction = <<>>
        /\ notifying = {}
        /\ controller = "idle"
        /\ late = 0
        /\ calls = [c \in Callbacks |-> <<>>]
        /\ joined = [c \in Callbacks |-> 0]
-----------------------------------------------------------------------------
(* subscribe(), under subscribers_mutex_, from any thread at any time. *)
Subscribe(c) ==
  /\ c \notin Subscribed
  /\ subscribers' = [subscribers EXCEPT ![TypeOf[c]] = Append(@, c)]
  /\ joined' = [joined EXCEPT ![c] = Begun]
  /\ UNCHANGED <<is_running, queue_vars, dispatch_vars, notifying, controller,
                 late, calls>>

(* publish() by another thread: the push under queue_mutex_ ...            *)
Push(p, t) ==
  /\ p \notin notifying
  /\ Len(published) < MaxPublished
  /\ QueueMutexFree
  /\ published' = Append(published, t)
  /\ notifying' = notifying \cup {p}
  /\ late' = IF is_running THEN late ELSE late + 1
  /\ UNCHANGED <<is_running, taken, subscribers, dispatch_vars, controller,
                 calls, joined>>

(* A notification reaches the dispatch thread only if it is blocked. *)
Wake == dispatcher' = IF dispatcher = "blocked" THEN "acquire" ELSE dispatcher

(* ... and notify_one() after the mutex is released. *)
NotifyOne(p) ==
  /\ p \in notifying
  /\ notifying' = notifying \ {p}
  /\ Wake
  /\ UNCHANGED <<is_running, queue_vars, subscribers, to_notify, reaction,
                 controller, late, calls, joined>>

(* start(): raise the flag, spawn the dispatch thread. *)
Start ==
  /\ controller = "idle"
  /\ ~ is_running
  /\ is_running' = TRUE
  /\ dispatcher' = "loop"
  /\ controller' = "running"
  /\ UNCHANGED <<queue_vars, subscribers, to_notify, reaction, notifying, late,
                 calls, joined>>

(* stop(): lower the flag without queue_mutex_ ... *)
StopLowerFlag ==
  /\ controller = "running"
  /\ is_running
  /\ is_running' = FALSE
  /\ late' = 0
  /\ controller' = "notify"
  /\ UNCHANGED <<queue_vars, subscribers, dispatch_vars, notifying, calls, joined>>

(* ... notify_all() ... *)
StopNotifyAll ==
  /\ controller = "notify"
  /\ Wake
  /\ controller' = "join"
  /\ UNCHANGED <<is_running, queue_vars, subscribers, to_notify, reaction,
                 notifying, late, calls, joined>>

(* ... and join(), which returns once the dispatch loop has finished. *)
StopJoin ==
  /\ controller = "join"
  /\ dispatcher = "exited"
  /\ dispatcher' = "none"
  /\ controller' = "idle"
  /\ UNCHANGED <<is_running, queue_vars, subscribers, to_notify, reaction,
                 notifying, late, calls, joined>>
-----------------------------------------------------------------------------
(* dispatch_loop().  A step that only moves the dispatch thread. *)
Goto(from, to) ==
  /\ dispatcher = from
  /\ dispatcher' = to
  /\ UNCHANGED <<is_running, queue_vars, subscribers, to_notify, reaction,
                 notifying, controller, late, calls, joined>>

(* Mutants of TestEmpty: the loop ends with the flag alone, or never.      *)
ExitUndrained == Goto("test_empty", "exited")
LoopForever == Goto("test_empty", "acquire")

(* while (is_running_ || !event_queue_.empty()): the flag first, and only  *)
(* if it is down the queue.  empty() is read without queue_mutex_ and may  *)
(* race with a push: it compares one pointer that the push overwrites, so  *)
(* it sees the queue before or after the push.                             *)
TestRunning == IF is_running THEN Goto("loop", "acquire")
                             ELSE Goto("loop", "test_empty")
TestEmpty == IF QueueEmpty THEN Goto("test_empty", "exited")
                           ELSE Goto("test_empty", "acquire")

(* The wait predicate is false: the thread is about to block, and still    *)
(* holds queue_mutex_.                                                     *)
PredicateFalse == is_running /\ QueueEmpty /\ Goto("acquire", "block")

(* wait() releases the mutex and blocks; it may also return unnotified.    *)
Block == Goto("block", "blocked")
SpuriousWakeup == Goto("blocked", "acquire")

(* Woken to shut down: nothing to pop, back to the loop condition. *)
NothingToPop == ~ is_running /\ QueueEmpty /\ Goto("acquire", "loop")

(* Mutant of Pop: no second look at the queue after a shutdown wakeup.     *)
PopUnchecked ==
  /\ dispatcher = "acquire"
  /\ ~ QueueEmpty \/ ~ is_running
  /\ taken' = taken + 1
  /\ dispatcher' = "copy"
  /\ UNCHANGED <<is_running, published, subscribers, to_notify, reaction,
                 notifying, controller, late, calls, joined>>

Pop ==
  /\ dispatcher = "acquire"
  /\ ~ QueueEmpty
  /\ taken' = taken + 1
  /\ dispatcher' = "copy"
  /\ UNCHANGED <<is_running, published, subscribers, to_notify, reaction,
                 notifying, controller, late, calls, joined>>

(* The list is copied under subscribers_mutex_, so a callback that         *)
(* subscribes during a dispatch is not called with this event.             *)
CopySubscribers ==
  /\ dispatcher = "copy"
  /\ to_notify' = subscribers[Current]
  /\ dispatcher' = "deliver"
  /\ UNCHANGED <<is_running, queue_vars, subscribers, reaction, notifying,
                 controller, late, calls, joined>>

CallSubscriber ==
  /\ dispatcher = "deliver"
  /\ reaction = <<>>
  /\ to_notify # <<>>
  /\ to_notify' = Tail(to_notify)
  /\ reaction' = Publishes[Head(to_notify)]
  /\ calls' = [calls EXCEPT ![Head(to_notify)] = Append(@, taken)]
  /\ UNCHANGED <<is_running, queue_vars, subscribers, dispatcher, notifying,
                 controller, late, joined>>

(* A callback publishes.  Its notify_one() finds nobody blocked, for the   *)
(* only thread that ever waits is the one running the callback.            *)
SubscriberPublishes ==
  /\ dispatcher = "deliver"
  /\ reaction # <<>>
  /\ published' = Append(published, Head(reaction))
  /\ reaction' = Tail(reaction)
  /\ UNCHANGED <<is_running, taken, subscribers, dispatcher, to_notify,
                 notifying, controller, late, calls, joined>>

(* Mutant of SubscriberThrows: the try is around the loop over callbacks.  *)
ThrowEndsDispatch ==
  /\ dispatcher = "deliver"
  /\ reaction # <<>>
  /\ reaction' = <<>>
  /\ to_notify' = <<>>
  /\ UNCHANGED <<is_running, queue_vars, subscribers, dispatcher, notifying,
                 controller, late, calls, joined>>

(* A callback throws a std::exception, which the loop catches and logs. *)
SubscriberThrows ==
  /\ dispatcher = "deliver"
  /\ reaction # <<>>
  /\ reaction' = <<>>
  /\ UNCHANGED <<is_running, queue_vars, subscribers, dispatcher, to_notify,
                 notifying, controller, late, calls, joined>>

DispatchDone == reaction = <<>> /\ to_notify = <<>> /\ Goto("deliver", "loop")

Dispatch == \/ TestRunning
            \/ TestEmpty
            \/ PredicateFalse
            \/ Block
            \/ NothingToPop
            \/ Pop
            \/ CopySubscribers
            \/ CallSubscriber
            \/ SubscriberPublishes
            \/ SubscriberThrows
            \/ DispatchDone

Next == \/ \E c \in Callbacks : Subscribe(c)
        \/ \E p \in Producers, t \in Sources : Push(p, t)
        \/ \E p \in Producers : NotifyOne(p)
        \/ Start
        \/ StopLowerFlag
        \/ StopNotifyAll
        \/ StopJoin
        \/ SpuriousWakeup
        \/ Dispatch

(* Every thread keeps running, but nobody has to publish, to subscribe, to *)
(* start or to stop, a spurious wakeup need not happen, and a callback     *)
(* returns.                                                                *)
Fairness == /\ \A p \in Producers : WF_vars(NotifyOne(p))
            /\ WF_vars(StopNotifyAll)
            /\ WF_vars(StopJoin)
            /\ WF_vars(Dispatch)

Spec == Init /\ [][Next]_vars
FairSpec == Spec /\ Fairness
-----------------------------------------------------------------------------
TypeOK ==
  /\ is_running \in BOOLEAN
  /\ published \in Seq(EventTypes)
  /\ taken \in 0 .. Len(published)
  /\ subscribers \in [EventTypes -> Seq(Callbacks)]
  /\ dispatcher \in {"none", "loop", "test_empty", "acquire", "block", "blocked",
                     "copy", "deliver", "exited"}
  /\ to_notify \in Seq(Callbacks)
  /\ reaction \in Seq(EventTypes)
  /\ notifying \subseteq Producers
  /\ controller \in {"idle", "running", "notify", "join"}
  /\ late \in Nat
  /\ calls \in [Callbacks -> Seq(Nat)]
  /\ joined \in [Callbacks -> Nat]

(* stop() is graceful (EventBus.h:50): when no dispatch thread is left,    *)
(* all that can remain in the queue was published by other threads after   *)
(* the flag was lowered.  Everything published before stop(), and whatever *)
(* callbacks published in reaction while the queue drained, was delivered. *)
Drained == controller = "idle" => Len(published) - taken <= late

(* The dispatch thread never blocks over a non-empty queue unless the      *)
(* notification that will wake it is still on its way: the push is under   *)
(* the mutex the predicate is evaluated under.                             *)
NoLostPublish ==
  dispatcher = "blocked" /\ ~ QueueEmpty => notifying # {}

(* An event published while the bus runs is popped, even if the bus is     *)
(* stopped meanwhile.  Positions above MaxPublished are those that only    *)
(* the callbacks' own publications reach.                                  *)
EventuallyTaken ==
  \A i \in 1 .. 2 * MaxPublished :
    is_running /\ Len(published) >= i ~> taken >= i

(* The bus delivers events as a serial broadcast does. *)
Contract == INSTANCE SerialBroadcast WITH log <- published,
                                          begun <- Begun,
                                          members <- subscribers,
                                          pending <- to_notify
Broadcasts == Contract!Spec

(* What that is worth to a component: its callback is called with every    *)
(* event of its type published since its subscription took effect, never   *)
(* twice with one event, and in the order of publication, whoever else     *)
(* publishes, subscribes, throws or stops the bus meanwhile.               *)
ExactlyOnceInOrder == Contract!ExactlyOnceInOrder

(* EventBus.h:50, "Stops the event bus's processing thread gracefully":    *)
(* a call of stop() returns.                                               *)
StopReturns == controller = "join" ~> controller = "idle"

(* What is true of stop(): it returns, or the dispatch thread is left      *)
(* blocked over an empty queue, having missed the notification.            *)
StopReturnsOrParked ==
  controller = "join" ~> \/ controller = "idle"
                         \/ dispatcher = "blocked" /\ QueueEmpty
=============================================================================
