--------------------------- MODULE EventBusProofs ---------------------------
(***************************************************************************)
(* Machine-checked proofs about EventBus, for every set of event types,    *)
(* callbacks and producers.                                                *)
(***************************************************************************)
EXTENDS EventBus, SequenceTheorems, TLAPS

(* Which thread can be where: stop() and the dispatch loop never disagree  *)
(* about whether the bus runs.                                             *)
ThreadsAgree ==
  /\ dispatcher = "none" <=> controller = "idle"
  /\ is_running <=> controller = "running"
  /\ dispatcher \in {"test_empty", "exited"} => ~ is_running

(* Only a dispatch in progress owes callbacks or publications. *)
DispatchOwes ==
  /\ dispatcher # "deliver" => to_notify = <<>> /\ reaction = <<>>
  /\ dispatcher = "copy" => taken > 0

(* What the last unlocked look at the queue saw still bounds its length. *)
ExitedEmpty ==
  dispatcher \in {"none", "exited"} => Len(published) - taken <= late

(* The mutex keeps the queue empty between the predicate and the wait. *)
BlocksOnEmpty == dispatcher = "block" => QueueEmpty

IInv == /\ TypeOK
        /\ ThreadsAgree
        /\ DispatchOwes
        /\ ExitedEmpty
        /\ BlocksOnEmpty
        /\ NoLostPublish

-----------------------------------------------------------------------------
(* Growing the log keeps its old part and lengthens it by one. *)
LEMMA AppendFacts ==
  ASSUME NEW S, NEW s \in Seq(S), NEW e \in S
  PROVE  /\ Append(s, e) \in Seq(S)
         /\ Len(Append(s, e)) = Len(s) + 1
         /\ \A i \in 1 .. Len(s) : Append(s, e)[i] = s[i]
  BY AppendProperties

(* The fields of the queue, the dispatch and the registrations keep their  *)
(* types: each action of EventBus preserves TypeOK.                        *)
LEMMA TypeStep == TypeOK /\ DispatchOwes /\ [Next]_vars => TypeOK'
<1>. SUFFICES ASSUME TypeOK, DispatchOwes, [Next]_vars PROVE TypeOK'
  OBVIOUS
<1>. USE EventBusAssumption DEF TypeOK
<1>1. ASSUME NEW c \in Callbacks, Subscribe(c) PROVE TypeOK'
  <2>1. Append(subscribers[TypeOf[c]], c) \in Seq(Callbacks)
    BY AppendFacts
  <2>2. Begun \in Nat
    BY <1>1 DEF Begun, DispatchOwes
  <2>. QED BY <1>1, <2>1, <2>2 DEF Subscribe, queue_vars, dispatch_vars
<1>2. ASSUME NEW p \in Producers, NEW t \in Sources, Push(p, t) PROVE TypeOK'
  <2>1. /\ Append(published, t) \in Seq(EventTypes)
        /\ Len(Append(published, t)) = Len(published) + 1
    BY AppendFacts
  <2>. QED BY <1>2, <2>1 DEF Push, dispatch_vars
<1>3. ASSUME NEW p \in Producers, NotifyOne(p) PROVE TypeOK'
  BY <1>3 DEF NotifyOne, Wake, queue_vars
<1>4. CASE Start
  BY <1>4 DEF Start, queue_vars
<1>5. CASE StopLowerFlag
  BY <1>5 DEF StopLowerFlag, queue_vars, dispatch_vars
<1>6. CASE StopNotifyAll
  BY <1>6 DEF StopNotifyAll, Wake, queue_vars
<1>7. CASE StopJoin
  BY <1>7 DEF StopJoin, queue_vars
<1>8. CASE SpuriousWakeup
  BY <1>8 DEF SpuriousWakeup, Goto, queue_vars
<1>9. CASE TestRunning \/ TestEmpty \/ PredicateFalse \/ Block \/ NothingToPop \/ DispatchDone
  BY <1>9 DEF TestRunning, TestEmpty, PredicateFalse, Block, NothingToPop,
              DispatchDone, Goto, queue_vars
<1>10. CASE Pop
  BY <1>10 DEF Pop, QueueEmpty
<1>11. CASE CopySubscribers
  BY <1>11 DEF CopySubscribers, Current, queue_vars, DispatchOwes
<1>12. CASE CallSubscriber
  BY <1>12 DEF CallSubscriber, queue_vars
<1>13. CASE SubscriberPublishes
  BY <1>13 DEF SubscriberPublishes
<1>14. CASE SubscriberThrows
  BY <1>14 DEF SubscriberThrows, queue_vars
<1>15. CASE UNCHANGED vars
  BY <1>15 DEF vars
<1>. QED
  BY <1>1, <1>2, <1>3, <1>4, <1>5, <1>6, <1>7, <1>8, <1>9, <1>10, <1>11, <1>12,
     <1>13, <1>14, <1>15 DEF Next, Dispatch

(* The rest of the invariant: which thread is where, what a dispatch owes, *)
(* and how the queue relates to both.                                      *)
LEMMA ThreadStep ==
  IInv /\ [Next]_vars => /\ ThreadsAgree'
                         /\ DispatchOwes'
                         /\ ExitedEmpty'
                         /\ BlocksOnEmpty'
                         /\ NoLostPublish'
<1>. DEFINE Rest == /\ ThreadsAgree
                    /\ DispatchOwes
                    /\ ExitedEmpty
                    /\ BlocksOnEmpty
                    /\ NoLostPublish
<1>. SUFFICES ASSUME IInv, [Next]_vars PROVE Rest'
  OBVIOUS
<1>. USE EventBusAssumption DEF IInv, TypeOK, ThreadsAgree, DispatchOwes,
         ExitedEmpty, BlocksOnEmpty, NoLostPublish, QueueEmpty
<1>1. ASSUME NEW c \in Callbacks, Subscribe(c) PROVE Rest'
  BY <1>1 DEF Subscribe, queue_vars, dispatch_vars
<1>2. ASSUME NEW p \in Producers, NEW t \in Sources, Push(p, t) PROVE Rest'
  <2>1. Len(Append(published, t)) = Len(published) + 1
    BY AppendFacts
  <2>. QED BY <1>2, <2>1 DEF Push, QueueMutexFree, dispatch_vars
<1>3. ASSUME NEW p \in Producers, NotifyOne(p) PROVE Rest'
  BY <1>3 DEF NotifyOne, Wake, queue_vars
<1>4. CASE Start
  BY <1>4 DEF Start, queue_vars
<1>5. CASE StopLowerFlag
  BY <1>5 DEF StopLowerFlag, queue_vars, dispatch_vars
<1>6. CASE StopNotifyAll
  BY <1>6 DEF StopNotifyAll, Wake, queue_vars
<1>7. CASE StopJoin
  BY <1>7 DEF StopJoin, queue_vars
<1>8. CASE SpuriousWakeup
  BY <1>8 DEF SpuriousWakeup, Goto, queue_vars
<1>9. CASE TestRunning \/ TestEmpty
  BY <1>9 DEF TestRunning, TestEmpty, Goto, queue_vars
<1>10. CASE PredicateFalse \/ Block \/ NothingToPop \/ DispatchDone
  <2>1. CASE PredicateFalse
    BY <2>1 DEF PredicateFalse, Goto, queue_vars
  <2>2. CASE Block
    BY <2>2 DEF Block, Goto, queue_vars
  <2>3. CASE NothingToPop
    BY <2>3 DEF NothingToPop, Goto, queue_vars
  <2>4. CASE DispatchDone
    BY <2>4 DEF DispatchDone, Goto, queue_vars
  <2>. QED BY <1>10, <2>1, <2>2, <2>3, <2>4
<1>11. CASE Pop
  BY <1>11 DEF Pop
<1>12. CASE CopySubscribers
  BY <1>12 DEF CopySubscribers, queue_vars
<1>13. CASE CallSubscriber
  BY <1>13 DEF CallSubscriber, queue_vars
<1>14. CASE SubscriberPublishes
  BY <1>14 DEF SubscriberPublishes
<1>15. CASE SubscriberThrows
  BY <1>15 DEF SubscriberThrows, queue_vars
<1>16. CASE UNCHANGED vars
  BY <1>16 DEF vars
<1>. HIDE DEF Rest, IInv, TypeOK, ThreadsAgree, DispatchOwes, ExitedEmpty,
         BlocksOnEmpty, NoLostPublish
<1>. QED
  BY <1>1, <1>2, <1>3, <1>4, <1>5, <1>6, <1>7, <1>8, <1>9, <1>10, <1>11, <1>12,
     <1>13, <1>14, <1>15, <1>16 DEF Next, Dispatch

LEMMA InitInvariant == Init => IInv
<1>1. Init => TypeOK
  <2>1. /\ <<>> \in Seq(EventTypes)
        /\ <<>> \in Seq(Callbacks)
        /\ <<>> \in Seq(Nat)
        /\ Len(<<>>) = 0
    BY EmptySeq
  <2>. SUFFICES ASSUME Init PROVE TypeOK
    OBVIOUS
  <2>2. subscribers \in [EventTypes -> Seq(Callbacks)]
    BY <2>1 DEF Init
  <2>3. /\ calls \in [Callbacks -> Seq(Nat)]
        /\ joined \in [Callbacks -> Nat]
    BY <2>1 DEF Init
  <2>4. /\ published \in Seq(EventTypes)
        /\ to_notify \in Seq(Callbacks)
        /\ reaction \in Seq(EventTypes)
    BY <2>1, Zenon DEF Init
  <2>5. taken \in 0 .. Len(published)
    BY <2>1 DEF Init
  <2>. QED BY <2>2, <2>3, <2>4, <2>5 DEF Init, TypeOK
<1>2. Init => ThreadsAgree /\ DispatchOwes /\ BlocksOnEmpty /\ NoLostPublish
  BY DEF Init, ThreadsAgree, DispatchOwes, BlocksOnEmpty, NoLostPublish
<1>3. Init => ExitedEmpty
  BY DEF Init, ExitedEmpty
<1>. QED
  BY <1>1, <1>2, <1>3 DEF IInv

(* The inductive invariant holds in every reachable state of the bus. *)
THEOREM Invariance == Spec => []IInv
<1>1. Init => IInv
  BY InitInvariant
<1>2. IInv /\ [Next]_vars => IInv'
  BY TypeStep, ThreadStep DEF IInv
<1>. QED
  BY <1>1, <1>2, PTL DEF Spec

(* Every variable of the bus keeps its type. *)
THEOREM TypeCorrect == Spec => []TypeOK
<1>1. IInv => TypeOK
  BY DEF IInv
<1>. QED
  BY <1>1, Invariance, PTL

(* stop() is graceful: once no dispatch thread is left, only events that   *)
(* other threads published after the flag fell can remain in the queue.    *)
THEOREM GracefulStop == Spec => []Drained
<1>1. IInv => Drained
  BY DEF IInv, ThreadsAgree, ExitedEmpty, Drained
<1>. QED
  BY <1>1, Invariance, PTL

(* The dispatch thread never sleeps over a queued event whose notification *)
(* is not still on its way, however many threads publish.                  *)
THEOREM PublishNeverLost == Spec => []NoLostPublish
<1>1. IInv => NoLostPublish
  BY DEF IInv
<1>. QED
  BY <1>1, Invariance, PTL
-----------------------------------------------------------------------------
(* Every step of the bus is a step of the serial broadcast or leaves it    *)
(* alone.                                                                  *)
LEMMA StepSimulates ==
  IInv /\ [Next]_vars => [Contract!Next]_(Contract!vars)
<1>. DEFINE Simulated == Contract!Next \/ UNCHANGED Contract!vars
<1>. SUFFICES ASSUME IInv, [Next]_vars PROVE Simulated
  OBVIOUS
<1>. USE DEF IInv, DispatchOwes
<1>0. ASSUME UNCHANGED <<published, Begun, subscribers, to_notify, calls, joined>>
      PROVE Simulated
  BY <1>0 DEF Contract!vars
<1>1. ASSUME NEW c \in Callbacks, Subscribe(c) PROVE Simulated
  <2>1. Contract!Register(c)
    BY <1>1 DEF Subscribe, Subscribed, Contract!Register, Contract!Registered,
                queue_vars, dispatch_vars, Begun
  <2>. QED BY <2>1 DEF Contract!Next
<1>2. ASSUME NEW p \in Producers, NEW t \in Sources, Push(p, t) PROVE Simulated
  <2>1. Contract!Post(t)
    BY <1>2 DEF Push, Contract!Post, dispatch_vars, Begun
  <2>. QED BY <2>1, EventBusAssumption DEF Contract!Next
<1>3. ASSUME NEW p \in Producers, NotifyOne(p) PROVE Simulated
  BY <1>0, <1>3 DEF NotifyOne, Wake, queue_vars, Begun
<1>4. CASE Start
  <2>1. dispatcher # "copy"
    BY <1>4 DEF Start, ThreadsAgree
  <2>. QED BY <1>0, <1>4, <2>1 DEF Start, queue_vars, Begun
<1>5. CASE StopLowerFlag
  BY <1>0, <1>5 DEF StopLowerFlag, queue_vars, dispatch_vars, Begun
<1>6. CASE StopNotifyAll
  BY <1>0, <1>6 DEF StopNotifyAll, Wake, queue_vars, Begun
<1>7. CASE StopJoin
  BY <1>0, <1>7 DEF StopJoin, queue_vars, Begun
<1>8. CASE SpuriousWakeup
  BY <1>0, <1>8 DEF SpuriousWakeup, Goto, queue_vars, Begun
<1>9. CASE TestRunning \/ TestEmpty
  BY <1>0, <1>9 DEF TestRunning, TestEmpty, Goto, queue_vars, Begun
<1>10. CASE PredicateFalse \/ Block \/ NothingToPop \/ DispatchDone
  BY <1>0, <1>10 DEF PredicateFalse, Block, NothingToPop, DispatchDone, Goto,
                     queue_vars, Begun
<1>11. CASE Pop
  BY <1>0, <1>11 DEF Pop, Begun, TypeOK
<1>12. CASE CopySubscribers
  <2>1. Contract!Begin
    BY <1>12 DEF CopySubscribers, Current, Contract!Begin, queue_vars, Begun, TypeOK
  <2>. QED BY <2>1 DEF Contract!Next
<1>13. CASE CallSubscriber
  <2>1. Contract!Call
    BY <1>13 DEF CallSubscriber, Contract!Call, queue_vars, Begun
  <2>. QED BY <2>1 DEF Contract!Next
<1>14. CASE SubscriberPublishes
  <2>1. Head(reaction) \in EventTypes
    BY <1>14, HeadTailProperties DEF SubscriberPublishes, TypeOK
  <2>2. Contract!Post(Head(reaction))
    BY <1>14 DEF SubscriberPublishes, Contract!Post, Begun
  <2>. QED BY <2>1, <2>2 DEF Contract!Next
<1>15. CASE SubscriberThrows
  BY <1>0, <1>15 DEF SubscriberThrows, queue_vars, Begun
<1>16. CASE UNCHANGED vars
  BY <1>0, <1>16 DEF vars, Begun
<1>. HIDE DEF Simulated, IInv
<1>. QED
  BY <1>1, <1>2, <1>3, <1>4, <1>5, <1>6, <1>7, <1>8, <1>9, <1>10, <1>11, <1>12,
     <1>13, <1>14, <1>15, <1>16 DEF Next, Dispatch

(* Threads, the mutexes, the condition variable and the stop flag are      *)
(* invisible to subscribers: EventBus implements SerialBroadcast.          *)
THEOREM ImplementsBroadcast == Spec => Broadcasts
<1>1. Init => Contract!Init
  BY DEF Init, Contract!Init, Begun
<1>2. IInv /\ [Next]_vars => [Contract!Next]_(Contract!vars)
  BY StepSimulates
<1>. QED
  BY <1>1, <1>2, Invariance, PTL DEF Spec, Broadcasts, Contract!Spec
-----------------------------------------------------------------------------
(* What is proved of every serial broadcast, of this one. *)
Proved == INSTANCE SerialBroadcastProofs WITH log <- published,
                                              begun <- Begun,
                                              members <- subscribers,
                                              pending <- to_notify

(* Every callback is called with each event of its type published since    *)
(* its subscription took effect, once and in order, whatever threads       *)
(* publish, subscribe, throw, stop and restart the bus.                    *)
THEOREM CalledOnceInOrder == Spec => []ExactlyOnceInOrder
<1>1. Proved!Spec => []Proved!ExactlyOnceInOrder
  BY Proved!OnceInOrder, EventBusAssumption
<1>2. Contract!Init => Proved!Init
  BY DEF Contract!Init, Proved!Init
<1>3. [Contract!Next]_(Contract!vars) => [Proved!Next]_(Proved!vars)
  BY DEF Contract!Next, Contract!vars, Contract!Begin, Contract!Call, Contract!Post,
         Contract!Register, Contract!Registered, Proved!Next, Proved!vars, Proved!Begin,
         Proved!Call, Proved!Post, Proved!Register, Proved!Registered
<1>4. Proved!ExactlyOnceInOrder => ExactlyOnceInOrder
  BY DEF Proved!ExactlyOnceInOrder, ExactlyOnceInOrder, Contract!ExactlyOnceInOrder,
         Proved!Owed, Contract!Owed, Proved!IsPending, Contract!IsPending,
         Proved!Registered, Contract!Registered
<1>. QED
  BY <1>1, <1>2, <1>3, <1>4, ImplementsBroadcast, PTL
     DEF Broadcasts, Contract!Spec, Proved!Spec
=============================================================================
