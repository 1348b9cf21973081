-------------------------- MODULE ApplicationProofs --------------------------
(***************************************************************************)
(* For any data file, any number of runs, whatever the controller calls    *)
(* and whatever requests arrive: the types of Lifecycle's variables, that  *)
(* main_loop() returns quietly, and, for the Application behind the API    *)
(* server, that what /stop answers is true, and a report begun at rest is  *)
(* not disturbed.                                                          *)
(***************************************************************************)
EXTENDS ApiServer, FiniteSetTheorems, SequenceTheorems, TLAPS

(* main_loop() is on the thread of run(), or on the caller's in            *)
(* run_backtest(); is_running_ is up until it ends or is told to; and no   *)
(* more runs begin than are allowed.                                       *)
ThreadsAgree ==
  /\ main # "idle" <=> (app_thread = "alive" \/ controller = "in_backtest")
  /\ controller \in {"in_backtest", "destroy_members", "destroy_bus", "destroyed"}
       => app_thread = "none"
  /\ app_thread = "alive" /\ controller \notin {"stop_join", "destroy_join"}
       => is_running
  /\ main = "build" => runs < MaxRuns

(* There is a reader only between its start and its join. *)
ReaderBelongs == reader # "none" => main \in {"wait", "stop_reader", "join_reader"}

(* As long as nothing threw there is a dispatch thread from the start of   *)
(* the bus to its join, and no event outside; it ends only when the bus is *)
(* stopped, and over an empty queue.                                       *)
BusServes ==
  /\ ~ threw /\ main \in {"idle", "build", "start_bus", "finish"}
       => ~ bus_running /\ dispatcher = "none" /\ queue = <<>>
  /\ ~ threw /\ main \in {"start_reader", "wait", "stop_reader", "join_reader", "stop_bus"}
       => bus_running /\ dispatcher = "alive"
  /\ ~ threw /\ main = "join_bus" => ~ bus_running /\ dispatcher # "none"
  /\ dispatcher = "exited" => queue = <<>>
  /\ dispatcher = "exited" \/ (dispatcher = "alive" /\ ~ bus_running)
       => main = "join_bus" \/ controller = "destroy_bus"

IInv == TypeOK /\ ThreadsAgree /\ ReaderBelongs /\ BusServes

LEMMA InitIInv == Init => IInv
<1>. SUFFICES ASSUME Init PROVE IInv
  OBVIOUS
<1>. USE LifecycleAssumption DEF Init, LiveInit
<1>1. TypeOK
  <2>1. {file_opens, is_running, threw, bus_running, missed, promise, reading, used} \subseteq BOOLEAN
    OBVIOUS
  <2>. QED BY <2>1 DEF TypeOK
<1>2. ThreadsAgree
  BY DEF ThreadsAgree
<1>3. ReaderBelongs
  BY DEF ReaderBelongs
<1>4. BusServes
  BY DEF BusServes
<1>. QED BY <1>1, <1>2, <1>3, <1>4 DEF IInv

LEMMA TypeStep == TypeOK /\ ThreadsAgree /\ [Next]_vars => TypeOK'
<1>. SUFFICES ASSUME TypeOK, ThreadsAgree, [Next]_vars PROVE TypeOK'
  OBVIOUS
<1>. USE LifecycleAssumption DEF TypeOK, ThreadsAgree, Step, app_vars, run_vars, bus_vars, config_vars, live_vars
<1>1. CASE Run
  BY <1>1 DEF Run, Command, Terminate
<1>2. CASE RunThrows
  BY <1>2 DEF RunThrows, Command
<1>3. CASE RunBacktest
  BY <1>3 DEF RunBacktest, Command
<1>4. CASE Stop
  BY <1>4 DEF Stop, Command
<1>5. CASE Destroy
  BY <1>5 DEF Destroy, Command, Terminate
<1>6. CASE Join
  BY <1>6 DEF Join
<1>7. CASE DestroyMembers
  BY <1>7 DEF DestroyMembers, LowerBusFlag
<1>8. CASE DestroyBus
  BY <1>8 DEF DestroyBus
<1>9. CASE Build
  <2>. USE <1>9 DEF Build, MainStep
  <2>1. runs' \in 1 .. MaxRuns
    OBVIOUS
  <2>2. subscribed' \subseteq 1 .. MaxRuns
    BY <2>1
  <2>3. seen' \in Nat /\ promise' \in BOOLEAN
    OBVIOUS
  <2>. QED BY <2>1, <2>2, <2>3
<1>10. CASE StartBus
  <2>. USE <1>10 DEF StartBus, MainStep, Quietly
  <2>1. queue' \in Seq({"MARKET", "SYSTEM", "PORTFOLIO_UPDATE"})
    OBVIOUS
  <2>2. dispatcher' \in {"none", "alive", "exited"}
    OBVIOUS
  <2>. QED BY <2>1, <2>2
<1>11. CASE StartReader
  <2>. USE <1>11 DEF StartReader, MainStep, Quietly
  <2>1. CASE Live
    BY <2>1 DEF LiveStart
  <2>2. CASE ~ Live
    BY <2>2
  <2>. QED BY <2>1, <2>2
<1>12. CASE Throw
  BY <1>12 DEF Throw, MainStep, Quietly
<1>13. CASE Wait
  BY <1>13 DEF Wait, MainStep, Quietly
<1>14. CASE StopReader
  BY <1>14 DEF StopReader, MainStep, Quietly, Closing
<1>15. CASE JoinReader
  BY <1>15 DEF JoinReader, MainStep, Quietly, Joined
<1>16. CASE StopBus
  BY <1>16 DEF StopBus, MainStep, Quietly, LowerBusFlag
<1>17. CASE JoinBus
  BY <1>17 DEF JoinBus, MainStep, Quietly
<1>18. CASE Finish
  BY <1>18 DEF Finish, MainStep
<1>19. CASE OpenFile
  BY <1>19 DEF OpenFile, ReaderStep
<1>20. CASE Connect
  BY <1>20 DEF Connect, ReaderStep, Connected
<1>21. CASE ReadRow
  BY <1>21 DEF ReadRow, ReaderStep, Message
<1>22. CASE EndOfData
  BY <1>22 DEF EndOfData, ReaderStep
<1>23. CASE Disconnect
  BY <1>23 DEF Disconnect, ReaderStep, Lost
<1>24. CASE Deliver
  BY <1>24 DEF Deliver
<1>25. CASE DispatcherExits
  BY <1>25 DEF DispatcherExits
<1>26. CASE UNCHANGED vars
  BY <1>26 DEF vars
<1>. QED
  BY <1>1, <1>2, <1>3, <1>4, <1>5, <1>6, <1>7, <1>8, <1>9, <1>10, <1>11, <1>12, <1>13, <1>14, <1>15, <1>16, <1>17, <1>18, <1>19, <1>20, <1>21, <1>22, <1>23, <1>24, <1>25, <1>26
  DEF Next, Controller, Returning, Threads, Main, FileReader, LiveReader, Dispatcher

LEMMA ThreadsStep == IInv /\ [Next]_vars => ThreadsAgree'
<1>. SUFFICES ASSUME IInv, [Next]_vars PROVE ThreadsAgree'
  OBVIOUS
<1>. USE LifecycleAssumption DEF IInv, TypeOK, ThreadsAgree, Step, app_vars, run_vars, bus_vars, config_vars, live_vars
<1>1. CASE Run
  BY <1>1 DEF Run, Command, Terminate
<1>2. CASE RunThrows
  BY <1>2 DEF RunThrows, Command
<1>3. CASE RunBacktest
  BY <1>3 DEF RunBacktest, Command
<1>4. CASE Stop
  BY <1>4 DEF Stop, Command
<1>5. CASE Destroy
  BY <1>5 DEF Destroy, Command, Terminate
<1>6. CASE Join
  BY <1>6 DEF Join
<1>7. CASE DestroyMembers
  BY <1>7 DEF DestroyMembers, LowerBusFlag
<1>8. CASE DestroyBus
  BY <1>8 DEF DestroyBus
<1>9. CASE Build
  BY <1>9 DEF Build, MainStep
<1>10. CASE StartBus
  BY <1>10 DEF StartBus, MainStep, Quietly
<1>11. CASE StartReader
  BY <1>11 DEF StartReader, MainStep, Quietly, LiveStart
<1>12. CASE Throw
  BY <1>12 DEF Throw, MainStep, Quietly
<1>13. CASE Wait
  BY <1>13 DEF Wait, MainStep, Quietly
<1>14. CASE StopReader
  BY <1>14 DEF StopReader, MainStep, Quietly, Closing
<1>15. CASE JoinReader
  BY <1>15 DEF JoinReader, MainStep, Quietly, Joined
<1>16. CASE StopBus
  BY <1>16 DEF StopBus, MainStep, Quietly, LowerBusFlag
<1>17. CASE JoinBus
  BY <1>17 DEF JoinBus, MainStep, Quietly
<1>18. CASE Finish
  BY <1>18 DEF Finish, MainStep
<1>19. CASE OpenFile
  BY <1>19 DEF OpenFile, ReaderStep
<1>20. CASE Connect
  BY <1>20 DEF Connect, ReaderStep, Connected
<1>21. CASE ReadRow
  BY <1>21 DEF ReadRow, ReaderStep, Message
<1>22. CASE EndOfData
  BY <1>22 DEF EndOfData, ReaderStep
<1>23. CASE Disconnect
  BY <1>23 DEF Disconnect, ReaderStep, Lost
<1>24. CASE Deliver
  BY <1>24 DEF Deliver
<1>25. CASE DispatcherExits
  BY <1>25 DEF DispatcherExits
<1>26. CASE UNCHANGED vars
  BY <1>26 DEF vars
<1>. QED
  BY <1>1, <1>2, <1>3, <1>4, <1>5, <1>6, <1>7, <1>8, <1>9, <1>10, <1>11, <1>12, <1>13, <1>14, <1>15, <1>16, <1>17, <1>18, <1>19, <1>20, <1>21, <1>22, <1>23, <1>24, <1>25, <1>26
  DEF Next, Controller, Returning, Threads, Main, FileReader, LiveReader, Dispatcher

LEMMA ReaderStays == IInv /\ [Next]_vars => ReaderBelongs'
<1>. SUFFICES ASSUME IInv, [Next]_vars PROVE ReaderBelongs'
  OBVIOUS
<1>. USE LifecycleAssumption DEF IInv, TypeOK, ThreadsAgree, ReaderBelongs, Step, app_vars, run_vars, bus_vars, config_vars, live_vars
<1>1. CASE Run
  BY <1>1 DEF Run, Command, Terminate
<1>2. CASE RunThrows
  BY <1>2 DEF RunThrows, Command
<1>3. CASE RunBacktest
  BY <1>3 DEF RunBacktest, Command
<1>4. CASE Stop
  BY <1>4 DEF Stop, Command
<1>5. CASE Destroy
  BY <1>5 DEF Destroy, Command, Terminate
<1>6. CASE Join
  BY <1>6 DEF Join
<1>7. CASE DestroyMembers
  BY <1>7 DEF DestroyMembers, LowerBusFlag
<1>8. CASE DestroyBus
  BY <1>8 DEF DestroyBus
<1>9. CASE Build
  BY <1>9 DEF Build, MainStep
<1>10. CASE StartBus
  BY <1>10 DEF StartBus, MainStep, Quietly
<1>11. CASE StartReader
  BY <1>11 DEF StartReader, MainStep, Quietly, LiveStart
<1>12. CASE Throw
  BY <1>12 DEF Throw, MainStep, Quietly
<1>13. CASE Wait
  BY <1>13 DEF Wait, MainStep, Quietly
<1>14. CASE StopReader
  BY <1>14 DEF StopReader, MainStep, Quietly, Closing
<1>15. CASE JoinReader
  BY <1>15 DEF JoinReader, MainStep, Quietly, Joined
<1>16. CASE StopBus
  BY <1>16 DEF StopBus, MainStep, Quietly, LowerBusFlag
<1>17. CASE JoinBus
  BY <1>17 DEF JoinBus, MainStep, Quietly
<1>18. CASE Finish
  BY <1>18 DEF Finish, MainStep
<1>19. CASE OpenFile
  BY <1>19 DEF OpenFile, ReaderStep
<1>20. CASE Connect
  BY <1>20 DEF Connect, ReaderStep, Connected
<1>21. CASE ReadRow
  BY <1>21 DEF ReadRow, ReaderStep, Message
<1>22. CASE EndOfData
  BY <1>22 DEF EndOfData, ReaderStep
<1>23. CASE Disconnect
  BY <1>23 DEF Disconnect, ReaderStep, Lost
<1>24. CASE Deliver
  BY <1>24 DEF Deliver
<1>25. CASE DispatcherExits
  BY <1>25 DEF DispatcherExits
<1>26. CASE UNCHANGED vars
  BY <1>26 DEF vars
<1>. QED
  BY <1>1, <1>2, <1>3, <1>4, <1>5, <1>6, <1>7, <1>8, <1>9, <1>10, <1>11, <1>12, <1>13, <1>14, <1>15, <1>16, <1>17, <1>18, <1>19, <1>20, <1>21, <1>22, <1>23, <1>24, <1>25, <1>26
  DEF Next, Controller, Returning, Threads, Main, FileReader, LiveReader, Dispatcher

LEMMA BusStep == IInv /\ [Next]_vars => BusServes'
<1>. SUFFICES ASSUME IInv, [Next]_vars PROVE BusServes'
  OBVIOUS
<1>. USE LifecycleAssumption DEF IInv, TypeOK, ThreadsAgree, ReaderBelongs, BusServes, Step, app_vars, run_vars, bus_vars, config_vars, live_vars
<1>1. CASE Run
  BY <1>1 DEF Run, Command, Terminate
<1>2. CASE RunThrows
  BY <1>2 DEF RunThrows, Command
<1>3. CASE RunBacktest
  BY <1>3 DEF RunBacktest, Command
<1>4. CASE Stop
  BY <1>4 DEF Stop, Command
<1>5. CASE Destroy
  BY <1>5 DEF Destroy, Command, Terminate
<1>6. CASE Join
  BY <1>6 DEF Join
<1>7. CASE DestroyMembers
  BY <1>7 DEF DestroyMembers, LowerBusFlag
<1>8. CASE DestroyBus
  BY <1>8 DEF DestroyBus
<1>9. CASE Build
  BY <1>9 DEF Build, MainStep
<1>10. CASE StartBus
  BY <1>10 DEF StartBus, MainStep, Quietly
<1>11. CASE StartReader
  BY <1>11 DEF StartReader, MainStep, Quietly, LiveStart
<1>12. CASE Throw
  BY <1>12 DEF Throw, MainStep, Quietly
<1>13. CASE Wait
  BY <1>13 DEF Wait, MainStep, Quietly
<1>14. CASE StopReader
  BY <1>14 DEF StopReader, MainStep, Quietly, Closing
<1>15. CASE JoinReader
  BY <1>15 DEF JoinReader, MainStep, Quietly, Joined
<1>16. CASE StopBus
  BY <1>16 DEF StopBus, MainStep, Quietly, LowerBusFlag
<1>17. CASE JoinBus
  BY <1>17 DEF JoinBus, MainStep, Quietly
<1>18. CASE Finish
  BY <1>18 DEF Finish, MainStep
<1>19. CASE OpenFile
  BY <1>19 DEF OpenFile, ReaderStep
<1>20. CASE Connect
  BY <1>20 DEF Connect, ReaderStep, Connected
<1>21. CASE ReadRow
  BY <1>21 DEF ReadRow, ReaderStep, Message
<1>22. CASE EndOfData
  BY <1>22 DEF EndOfData, ReaderStep
<1>23. CASE Disconnect
  BY <1>23 DEF Disconnect, ReaderStep, Lost
<1>24. CASE Deliver
  BY <1>24 DEF Deliver
<1>25. CASE DispatcherExits
  BY <1>25 DEF DispatcherExits
<1>26. CASE UNCHANGED vars
  BY <1>26 DEF vars
<1>. QED
  BY <1>1, <1>2, <1>3, <1>4, <1>5, <1>6, <1>7, <1>8, <1>9, <1>10, <1>11, <1>12, <1>13, <1>14, <1>15, <1>16, <1>17, <1>18, <1>19, <1>20, <1>21, <1>22, <1>23, <1>24, <1>25, <1>26
  DEF Next, Controller, Returning, Threads, Main, FileReader, LiveReader, Dispatcher

LEMMA StepIInv == IInv /\ [Next]_vars => IInv'
  BY TypeStep, ThreadsStep, ReaderStays, BusStep DEF IInv

LEMMA Invariant == Spec => []IInv
  BY InitIInv, StepIInv, PTL DEF Spec

(* Lifecycle's variables keep their types: no more runs begin, and no more *)
(* rows are read, than there may be.                                       *)
THEOREM TypeCorrect == Spec => []TypeOK
  BY Invariant, PTL DEF IInv

LEMMA QuietIfIInv == IInv => QuietOnReturn
  BY DEF IInv, ReaderBelongs, BusServes, QuietOnReturn, Returned

(* When main_loop() returns there is no reader and, unless it returned by  *)
(* an exception, no dispatch thread and no undelivered event.              *)
THEOREM ReturnsQuietly == Spec => []QuietOnReturn
  BY Invariant, QuietIfIInv, PTL
-----------------------------------------------------------------------------
EventTypes == {"MARKET", "SYSTEM", "PORTFOLIO_UPDATE"}

(* Where the MARKET events of a queue are, and the rows of the first n     *)
(* that make one.                                                          *)
Markets(q) == {i \in 1 .. Len(q) : q[i] = "MARKET"}
InFlight(q) == Cardinality(Markets(q))
GoodRows(n) == n - Cardinality(BadRows \cap 1 .. n)

LEMMA InFlightType ==
  ASSUME NEW q \in Seq(EventTypes)
  PROVE  IsFiniteSet(Markets(q)) /\ InFlight(q) \in Nat
<1>1. IsFiniteSet(1 .. Len(q))
  BY FS_Interval
<1>. QED BY <1>1, FS_Subset, FS_CardinalityType DEF Markets, InFlight

LEMMA InFlightEmpty == InFlight(<<>>) = 0
<1>1. Markets(<<>>) = {}
  BY DEF Markets
<1>. QED BY <1>1, FS_EmptySet DEF InFlight

(* Publishing a MARKET event adds one. *)
LEMMA InFlightAppend ==
  ASSUME NEW q \in Seq(EventTypes), NEW e \in EventTypes
  PROVE  InFlight(Append(q, e)) = InFlight(q) + (IF e = "MARKET" THEN 1 ELSE 0)
<1>. DEFINE n == Len(q) + 1
<1>1. /\ Len(Append(q, e)) = n
      /\ \A i \in 1 .. Len(q) : Append(q, e)[i] = q[i]
      /\ Append(q, e)[n] = e
  BY AppendProperties
<1>2. Markets(Append(q, e)) = Markets(q) \cup (IF e = "MARKET" THEN {n} ELSE {})
  BY <1>1 DEF Markets
<1>3. n \notin Markets(q)
  BY DEF Markets
<1>4. CASE e = "MARKET"
  BY <1>2, <1>3, <1>4, InFlightType, FS_AddElement DEF InFlight
<1>5. CASE e # "MARKET"
  BY <1>2, <1>5, InFlightType DEF InFlight
<1>. QED BY <1>4, <1>5

(* Delivering one takes it away. *)
LEMMA InFlightTail ==
  ASSUME NEW q \in Seq(EventTypes), q # <<>>
  PROVE  InFlight(q) = InFlight(Tail(q)) + (IF Head(q) = "MARKET" THEN 1 ELSE 0)
<1>. DEFINE Rest == Markets(q) \ {1}
<1>1. /\ Tail(q) \in Seq(EventTypes)
      /\ Len(Tail(q)) = Len(q) - 1
      /\ \A i \in 1 .. Len(Tail(q)) : Tail(q)[i] = q[i + 1]
      /\ Len(q) \in Nat \ {0} /\ Head(q) = q[1]
  BY HeadTailProperties, LenProperties, EmptySeq
<1>2. Cardinality(Rest) = InFlight(Tail(q))
  <2>. DEFINE shift == [i \in Markets(Tail(q)) |-> i + 1]
  <2>1. shift \in Bijection(Markets(Tail(q)), Rest)
    <3>1. shift \in [Markets(Tail(q)) -> Rest]
      BY <1>1 DEF Markets
    <3>2. \A i, j \in Markets(Tail(q)) : shift[i] = shift[j] => i = j
      BY <1>1 DEF Markets
    <3>3. ASSUME NEW k \in Rest PROVE \E i \in Markets(Tail(q)) : shift[i] = k
      <4>1. k - 1 \in Markets(Tail(q))
        BY <1>1 DEF Markets
      <4>. WITNESS k - 1 \in Markets(Tail(q))
      <4>. QED BY <4>1, <1>1 DEF Markets
    <3>. QED BY <3>1, <3>2, <3>3 DEF Bijection, Injection, Surjection, IsInjective
  <2>2. IsFiniteSet(Markets(Tail(q)))
    BY <1>1, InFlightType
  <2>. QED BY <2>1, <2>2, FS_Bijection DEF ExistsBijection, InFlight
<1>3. 1 \in Markets(q) <=> Head(q) = "MARKET"
  BY <1>1 DEF Markets
<1>4. Cardinality(Rest) = IF 1 \in Markets(q) THEN InFlight(q) - 1 ELSE InFlight(q)
  BY InFlightType, FS_RemoveElement DEF InFlight
<1>. QED BY <1>2, <1>3, <1>4, <1>1, InFlightType

LEMMA GoodRowsStep ==
  ASSUME NEW n \in 0 .. Rows - 1
  PROVE  /\ GoodRows(n) \in Int
         /\ GoodRows(n + 1) = GoodRows(n) + (IF n + 1 \in BadRows THEN 0 ELSE 1)
<1>1. IsFiniteSet(BadRows \cap 1 .. n)
  BY FS_Interval, FS_Subset
<1>2. Cardinality(BadRows \cap 1 .. n) \in Nat
  BY <1>1, FS_CardinalityType
<1>3. CASE n + 1 \in BadRows
  <2>1. BadRows \cap 1 .. n + 1 = (BadRows \cap 1 .. n) \cup {n + 1}
    BY <1>3, LifecycleAssumption
  <2>2. n + 1 \notin BadRows \cap 1 .. n
    OBVIOUS
  <2>3. Cardinality(BadRows \cap 1 .. n + 1) = Cardinality(BadRows \cap 1 .. n) + 1
    BY <1>1, <2>1, <2>2, FS_AddElement
  <2>. QED BY <1>2, <1>3, <2>3 DEF GoodRows
<1>4. CASE n + 1 \notin BadRows
  <2>1. BadRows \cap 1 .. n + 1 = BadRows \cap 1 .. n
    BY <1>4, LifecycleAssumption
  <2>. QED BY <1>2, <1>4, <2>1 DEF GoodRows
<1>. QED BY <1>3, <1>4

(* A backtest that nothing disturbed: what was read is on the queue or     *)
(* delivered; SYSTEM, and so the promise, comes last.                      *)
RowsCounted ==
  run_mode = "BACKTEST" /\ ~ threw =>
    /\ main \in {"start_bus", "start_reader"} =>
         seen = 0 /\ InFlight(queue) = 0 /\ ~ promise
           /\ \A i \in DOMAIN queue : queue[i] # "SYSTEM"
    /\ main \in {"wait", "stop_reader", "join_reader", "stop_bus", "join_bus", "finish"}
         => seen + InFlight(queue) = GoodRows(row)
    /\ main = "wait" =>
         /\ reading
         /\ promise \/ (\E i \in DOMAIN queue : queue[i] = "SYSTEM")
              => row = Rows /\ reader = "done"
    /\ main \in {"stop_reader", "join_reader", "stop_bus", "join_bus", "finish"}
         => row = Rows /\ reader \in {"done", "none"}
    /\ main = "idle" /\ runs > 0 => seen = GoodRows(Rows)

LEMMA GoodRowsNone == GoodRows(0) = 0
<1>1. BadRows \cap 1 .. 0 = {}
  OBVIOUS
<1>. QED BY <1>1, FS_EmptySet DEF GoodRows

(* The mode does not change, and an exception is not forgotten. *)
LEMMA Lasting == [Next]_vars => run_mode' = run_mode /\ (threw => threw')
  BY DEF Next, Controller, Returning, Threads, Main, FileReader, LiveReader, Dispatcher,
         Run, RunThrows, RunBacktest, Stop, Destroy, Join, DestroyMembers, DestroyBus,
         Build, StartBus, StartReader, Throw, Wait, StopReader, JoinReader, StopBus,
         JoinBus, Finish, OpenFile, Connect, ReadRow, EndOfData, Disconnect, Deliver,
         DispatcherExits, Command, Step, MainStep, Quietly, ReaderStep, vars, config_vars,
         run_vars

LEMMA RowsStep == IInv /\ RowsCounted /\ [Next]_vars => RowsCounted'
<1>. SUFFICES ASSUME IInv, RowsCounted, [Next]_vars, run_mode = "BACKTEST", ~ threw,
                     run_mode' = "BACKTEST", ~ threw'
              PROVE  RowsCounted'
  BY Lasting DEF RowsCounted
<1>. USE LifecycleAssumption DEF IInv, TypeOK, ThreadsAgree, ReaderBelongs, BusServes, RowsCounted,
       Step, app_vars, run_vars, bus_vars, config_vars, live_vars, Live, EventTypes
<1>1. CASE Run
  BY <1>1 DEF Run, Command, Terminate
<1>2. CASE RunThrows
  BY <1>2 DEF RunThrows, Command
<1>3. CASE RunBacktest
  BY <1>3 DEF RunBacktest, Command
<1>4. CASE Stop
  BY <1>4 DEF Stop, Command
<1>5. CASE Destroy
  BY <1>5 DEF Destroy, Command, Terminate
<1>6. CASE Join
  BY <1>6 DEF Join
<1>7. CASE DestroyMembers
  BY <1>7 DEF DestroyMembers, LowerBusFlag
<1>8. CASE DestroyBus
  BY <1>8 DEF DestroyBus
<1>9. CASE Build
  <2>. USE <1>9 DEF Build, MainStep
  <2>1. main' = "start_bus" /\ queue' = <<>> /\ seen' = 0 /\ ~ promise'
    OBVIOUS
  <2>. QED BY <2>1, InFlightEmpty
<1>10. CASE StartBus
  <2>. USE <1>10 DEF StartBus, MainStep, Quietly
  <2>1. main' = "start_reader" /\ queue' = <<"PORTFOLIO_UPDATE">> /\ seen' = 0 /\ ~ promise'
    OBVIOUS
  <2>2. InFlight(queue') = 0
    <3>1. Markets(<<"PORTFOLIO_UPDATE">>) = {}
      BY DEF Markets
    <3>. QED BY <2>1, <3>1, FS_EmptySet DEF InFlight
  <2>3. \A i \in DOMAIN queue' : queue'[i] # "SYSTEM"
    BY <2>1
  <2>. QED BY <2>1, <2>2, <2>3
<1>11. CASE StartReader
  <2>. USE <1>11 DEF StartReader, MainStep, Quietly
  <2>1. /\ main' = "wait" /\ reading' /\ row' = 0
        /\ UNCHANGED <<queue, seen, promise>>
    OBVIOUS
  <2>2. seen' + InFlight(queue') = GoodRows(row')
    BY <2>1, GoodRowsNone
  <2>3. ~ promise' /\ \A i \in DOMAIN queue' : queue'[i] # "SYSTEM"
    BY <2>1
  <2>. QED BY <2>1, <2>2, <2>3
<1>12. CASE Throw
  BY <1>12 DEF Throw, MainStep, Quietly
<1>13. CASE Wait
  BY <1>13 DEF Wait, MainStep, Quietly
<1>14. CASE StopReader
  BY <1>14 DEF StopReader, MainStep, Quietly, Closing
<1>15. CASE JoinReader
  BY <1>15 DEF JoinReader, MainStep, Quietly, Joined
<1>16. CASE StopBus
  BY <1>16 DEF StopBus, MainStep, Quietly, LowerBusFlag
<1>17. CASE JoinBus
  BY <1>17 DEF JoinBus, MainStep, Quietly
<1>18. CASE Finish
  <2>. USE <1>18 DEF Finish, MainStep
  <2>1. queue = <<>> /\ seen + InFlight(queue) = GoodRows(Rows)
    OBVIOUS
  <2>2. seen' = GoodRows(Rows)
    BY <2>1, InFlightEmpty
  <2>. QED BY <2>2
<1>19. CASE OpenFile
  BY <1>19 DEF OpenFile, ReaderStep
<1>20. CASE Connect
  BY <1>20 DEF Connect, ReaderStep, Connected
<1>21. CASE ReadRow
  <2>. USE <1>21 DEF ReadRow, ReaderStep, Message
  <2>1. /\ main = "wait" /\ main' = "wait" /\ reading'
        /\ ~ promise' /\ \A i \in DOMAIN queue : queue[i] # "SYSTEM"
    OBVIOUS
  <2>2. row \in 0 .. Rows - 1 /\ row' = row + 1 /\ seen' = seen
    OBVIOUS
  <2>3. CASE row + 1 \in BadRows
    <3>1. queue' = queue
      BY <2>3
    <3>. QED BY <2>1, <2>2, <2>3, <3>1, GoodRowsStep
  <2>4. CASE row + 1 \notin BadRows
    <3>1. queue' = Append(queue, "MARKET")
      BY <2>4
    <3>2. InFlight(queue') = InFlight(queue) + 1 /\ InFlight(queue) \in Nat
      BY <3>1, InFlightAppend, InFlightType
    <3>3. seen' + InFlight(queue') = GoodRows(row')
      BY <2>1, <2>2, <2>4, <3>2, GoodRowsStep
    <3>4. \A i \in DOMAIN queue' : queue'[i] # "SYSTEM"
      BY <2>1, <3>1, AppendProperties
    <3>. QED BY <2>1, <3>3, <3>4
  <2>. QED BY <2>3, <2>4
<1>22. CASE EndOfData
  <2>. USE <1>22 DEF EndOfData, ReaderStep
  <2>1. /\ main = "wait" /\ main' = "wait" /\ reading'
        /\ row' = Rows /\ reader' = "done" /\ UNCHANGED <<row, seen>>
    OBVIOUS
  <2>2. InFlight(queue') = InFlight(queue) /\ InFlight(queue) \in Nat
    BY InFlightAppend, InFlightType
  <2>. QED BY <2>1, <2>2
<1>23. CASE Disconnect
  BY <1>23 DEF Disconnect, ReaderStep, Lost
<1>24. CASE Deliver
  <2>. USE <1>24 DEF Deliver
  <2>1. /\ queue # <<>> /\ queue' = Tail(queue) /\ main \notin {"idle", "finish"}
        /\ UNCHANGED <<main, runs, row, reader, reading>>
    OBVIOUS
  <2>2. seen' + InFlight(queue') = seen + InFlight(queue)
    <3>1. InFlight(queue') \in Nat
      BY <2>1, InFlightType, HeadTailProperties
    <3>. QED BY <2>1, <3>1, InFlightTail
  <2>3. \A i \in DOMAIN queue' : i + 1 \in DOMAIN queue /\ queue'[i] = queue[i + 1]
    BY <2>1, HeadTailProperties, LenProperties
  <2>4. promise' => promise \/ \E i \in DOMAIN queue : queue[i] = "SYSTEM"
    <3>1. 1 \in DOMAIN queue /\ Head(queue) = queue[1]
      BY <2>1, LenProperties, EmptySeq
    <3>. QED BY <3>1
  <2>5. InFlight(queue) = 0 => InFlight(queue') = 0 /\ seen' = seen
    <3>1. InFlight(queue') \in Nat
      BY <2>1, InFlightType, HeadTailProperties
    <3>2. InFlight(queue) = InFlight(queue') + (IF Head(queue) = "MARKET" THEN 1 ELSE 0)
      BY <2>1, InFlightTail
    <3>3. InFlight(queue) = 0 => InFlight(queue') = 0 /\ Head(queue) # "MARKET"
      BY <3>1, <3>2
    <3>. QED BY <3>3
  <2>. QED BY <2>1, <2>2, <2>3, <2>4, <2>5
<1>25. CASE DispatcherExits
  BY <1>25 DEF DispatcherExits
<1>26. CASE UNCHANGED vars
  BY <1>26 DEF vars
<1>. QED
  BY <1>1, <1>2, <1>3, <1>4, <1>5, <1>6, <1>7, <1>8, <1>9, <1>10, <1>11, <1>12, <1>13, <1>14, <1>15, <1>16, <1>17, <1>18, <1>19, <1>20, <1>21, <1>22, <1>23, <1>24, <1>25, <1>26
  DEF Next, Controller, Returning, Threads, Main, FileReader, LiveReader, Dispatcher

LEMMA CompleteIfCounted == RowsCounted => BacktestComplete
<1>1. BadRows \cap 1 .. Rows = BadRows
  BY LifecycleAssumption
<1>. QED BY <1>1 DEF RowsCounted, BacktestComplete, Returned, SawEveryRow, GoodRows

(* A backtest whose main_loop() returned without an exception gave the     *)
(* components every row that parses, for any file and whenever stop() was  *)
(* called.                                                                 *)
THEOREM BacktestSeesAll == Spec => []BacktestComplete
<1>1. Init => RowsCounted
  BY DEF Init, RowsCounted
<1>. QED BY Invariant, <1>1, CompleteIfCounted, RowsStep, PTL DEF Spec
-----------------------------------------------------------------------------
(***************************************************************************)
(* The Application behind the API server.                                  *)
(***************************************************************************)
(* The server's thread exists while the owner lets it serve, has nothing   *)
(* of its own going on in the Application unless it waits for stop(), and  *)
(* computes a report only at the place where it reads.                     *)
Serving ==
  /\ owner \in {"idle", "joined"} => server = "none"
  /\ server \notin {"none", "stopping"} => controller = "idle"
  /\ server = "stopping" => request = "stop" /\ controller \in {"idle", "stop_join"}
  /\ server = "reporting" => request \in {"report", "pnl"}
  /\ server \in {"stopping", "respond"} /\ request = "stop" => ~ is_running
  /\ report # "none" => server = "reporting"
  /\ report = "at_rest" => main = "idle" /\ ~ threw

ServerTypeOK ==
  /\ owner \in {"idle", "serving", "joining", "joined"}
  /\ ioc_stopped \in BOOLEAN
  /\ server \in {"none", "test", "accept", "read", "handle", "stopping", "reporting",
                 "respond", "done"}
  /\ request \in Requests
  /\ report \in {"none", "at_rest", "amid", "disturbed"}

ApiIInv == IInv /\ RowsCounted /\ ServerTypeOK /\ Serving

(* To the Application a step of server and owner is a step of its          *)
(* controller, or none, but for the reading that meets a write.            *)
LEMMA ApiStepIsStep == [ApiNext]_api_vars => [Next]_vars \/ EndReport
  BY DEF ApiNext, api_vars, OwnerStart, OwnerStop, OwnerJoin, OwnerCommand, TestStopped,
         Accept, AcceptThrows, ReadRequest, ReadFails, Session, HandleStart, HandleStop,
         Stopped, BeginReport, HandleOther, Respond, Application, Next, Controller

LEMMA LifecycleKept == ApiIInv /\ [ApiNext]_api_vars => IInv' /\ RowsCounted'
<1>. SUFFICES ASSUME ApiIInv, [ApiNext]_api_vars PROVE IInv' /\ RowsCounted'
  OBVIOUS
<1>1. CASE [Next]_vars
  BY <1>1, StepIInv, RowsStep DEF ApiIInv
<1>2. CASE EndReport
  <2>. USE <1>2 DEF EndReport, config_vars, app_vars, run_vars, bus_vars, live_vars
  <2>1. process' \in {"running", "terminated", "undefined"}
    OBVIOUS
  <2>2. TypeOK'
    BY <2>1 DEF ApiIInv, IInv, TypeOK
  <2>3. ThreadsAgree' /\ ReaderBelongs' /\ BusServes'
    BY DEF ApiIInv, IInv, ThreadsAgree, ReaderBelongs, BusServes
  <2>4. RowsCounted'
    BY DEF ApiIInv, RowsCounted
  <2>. QED BY <2>2, <2>3, <2>4 DEF IInv
<1>. QED BY <1>1, <1>2, ApiStepIsStep

LEMMA ServerTypeStep == ApiIInv /\ [ApiNext]_api_vars => ServerTypeOK'
<1>. SUFFICES ASSUME ApiIInv, [ApiNext]_api_vars PROVE ServerTypeOK'
  OBVIOUS
<1>. USE DEF ApiIInv, ServerTypeOK, server_vars, Requests, Serve
<1>1. CASE OwnerStart \/ OwnerStop \/ OwnerJoin \/ OwnerCommand
  BY <1>1 DEF OwnerStart, OwnerStop, OwnerJoin, OwnerCommand
<1>2. CASE TestStopped \/ Accept \/ AcceptThrows \/ ReadRequest \/ ReadFails
  BY <1>2 DEF TestStopped, Accept, AcceptThrows, ReadRequest, ReadFails
<1>3. CASE Session
  BY <1>3 DEF Session, HandleStart, HandleStop, Stopped, BeginReport, EndReport, HandleOther,
              Respond
<1>4. CASE Application
  BY <1>4 DEF Application
<1>5. CASE UNCHANGED api_vars
  BY <1>5 DEF api_vars
<1>. QED BY <1>1, <1>2, <1>3, <1>4, <1>5 DEF ApiNext

(* What the Application's own threads leave alone: nothing begins by       *)
(* itself, and no controller that waits turns to anything new.             *)
LEMMA ApplicationKeeps ==
  ASSUME Returning \/ Threads
  PROVE  /\ main = "idle" => UNCHANGED <<main, threw>>
         /\ controller = "idle" => UNCHANGED controller
         /\ controller = "stop_join" => controller' \in {"idle", "stop_join"}
         /\ ~ is_running => ~ is_running'
<1>. USE DEF app_vars, run_vars
<1>1. CASE Returning
  BY <1>1 DEF Returning, Join, DestroyMembers, DestroyBus
<1>2. CASE Main
  BY <1>2 DEF Main, Build, StartBus, StartReader, Throw, Wait, StopReader, JoinReader,
              StopBus, JoinBus, Finish, MainStep, Quietly
<1>3. CASE FileReader \/ LiveReader \/ Dispatcher
  BY <1>3 DEF FileReader, LiveReader, Dispatcher, OpenFile, Connect, ReadRow, EndOfData,
              Disconnect, Deliver, DispatcherExits, ReaderStep
<1>. QED BY <1>1, <1>2, <1>3 DEF Threads

LEMMA ServingStep == ApiIInv /\ [ApiNext]_api_vars => Serving'
<1>. SUFFICES ASSUME ApiIInv, [ApiNext]_api_vars PROVE Serving'
  OBVIOUS
<1>. USE DEF ApiIInv, ServerTypeOK, Serving, server_vars, vars, app_vars, run_vars
<1>1. CASE OwnerStart
  BY <1>1 DEF OwnerStart
<1>2. CASE OwnerStop
  BY <1>2 DEF OwnerStop
<1>3. CASE OwnerJoin
  BY <1>3 DEF OwnerJoin
<1>4. CASE OwnerCommand
  BY <1>4 DEF OwnerCommand
<1>5. CASE TestStopped \/ Accept \/ AcceptThrows \/ ReadRequest \/ ReadFails
  BY <1>5 DEF TestStopped, Accept, AcceptThrows, ReadRequest, ReadFails, Serve
<1>6. CASE HandleStart
  BY <1>6 DEF HandleStart, Serve, Run, RunThrows, Command, Terminate
<1>7. CASE HandleStop
  BY <1>7 DEF HandleStop, Serve, Stop, Command
<1>8. CASE Stopped
  BY <1>8 DEF Stopped, Serve
<1>9. CASE BeginReport
  BY <1>9 DEF BeginReport, Serve
<1>10. CASE EndReport
  BY <1>10 DEF EndReport, Serve, config_vars, bus_vars, live_vars
<1>11. CASE HandleOther
  BY <1>11 DEF HandleOther, Serve
<1>12. CASE Respond
  BY <1>12 DEF Respond, Serve
<1>13. CASE Application
  BY <1>13, ApplicationKeeps DEF Application
<1>14. CASE UNCHANGED api_vars
  BY <1>14 DEF api_vars
<1>. QED BY <1>1, <1>2, <1>3, <1>4, <1>5, <1>6, <1>7, <1>8, <1>9, <1>10, <1>11, <1>12,
            <1>13, <1>14 DEF ApiNext, Session

LEMMA ApiInvariant == ApiSpec => []ApiIInv
<1>1. ApiInit => ApiIInv
  <2>1. ApiInit => IInv
    BY InitIInv DEF ApiInit
  <2>2. ApiInit => RowsCounted
    BY DEF ApiInit, Init, RowsCounted
  <2>3. ApiInit => ServerTypeOK
    BY DEF ApiInit, ServerTypeOK, Requests
  <2>4. ApiInit => Serving
    BY DEF ApiInit, Serving
  <2>. QED BY <2>1, <2>2, <2>3, <2>4 DEF ApiIInv
<1>2. ApiIInv /\ [ApiNext]_api_vars => ApiIInv'
  BY LifecycleKept, ServerTypeStep, ServingStep DEF ApiIInv
<1>. QED BY <1>1, <1>2, PTL DEF ApiSpec

(* Everything keeps its type, whoever calls the Application. *)
THEOREM ApiTypeCorrect == ApiSpec => []ApiTypeOK
<1>1. ApiIInv => ApiTypeOK
  BY DEF ApiIInv, IInv, ServerTypeOK, ApiTypeOK
<1>. QED BY ApiInvariant, <1>1, PTL

(* Also behind the server main_loop() returns quietly, and from a backtest *)
(* with every row seen.                                                    *)
THEOREM ServedQuietly == ApiSpec => [](QuietOnReturn /\ BacktestComplete)
<1>1. ApiIInv => QuietOnReturn /\ BacktestComplete
  BY QuietIfIInv, CompleteIfCounted DEF ApiIInv
<1>. QED BY ApiInvariant, <1>1, PTL

(* "Backtester stopped" is true when it is answered. *)
THEOREM StopAnswersTruly == ApiSpec => []StoppedIsQuiet
<1>1. ApiIInv => StoppedIsQuiet
  BY DEF ApiIInv, IInv, ThreadsAgree, ReaderBelongs, BusServes, Serving, StoppedIsQuiet
<1>. QED BY ApiInvariant, <1>1, PTL

(* A report or snapshot begun when there is no run reads what nobody       *)
(* writes.                                                                 *)
THEOREM ReportsAtRest == ApiSpec => AtRestUndisturbed
<1>1. ASSUME ApiIInv, [ApiNext]_api_vars, report = "at_rest"
      PROVE  report' # "disturbed"
  <2>1. /\ main = "idle" /\ ~ threw /\ server = "reporting"
        /\ reader = "none" /\ dispatcher = "none" /\ queue = <<>>
    BY <1>1 DEF ApiIInv, IInv, ReaderBelongs, BusServes, Serving
  <2>2. CASE Application
    <3>1. main' = "idle"
      BY <2>1, <2>2, ApplicationKeeps DEF Application
    <3>2. queue' = queue
      BY <2>1, <2>2 DEF Application, Returning, Join, DestroyMembers, DestroyBus, Threads,
           Main, Build, StartBus, StartReader, Throw, Wait, StopReader, JoinReader, StopBus,
           JoinBus, Finish, MainStep, FileReader, LiveReader, OpenFile, Connect, ReadRow,
           EndOfData, Disconnect, Connected, Message, Lost, ReaderStep, Dispatcher, Deliver,
           DispatcherExits
    <3>3. ~ Writes
      BY <2>1, <3>1, <3>2 DEF Writes
    <3>. QED BY <1>1, <2>2, <3>3 DEF Application
  <2>3. CASE ~ Application
    BY <1>1, <2>1, <2>3 DEF ApiNext, api_vars, OwnerStart, OwnerStop, OwnerJoin, OwnerCommand,
       TestStopped, Accept, AcceptThrows, ReadRequest, ReadFails, Session, HandleStart,
       HandleStop, Stopped, BeginReport, EndReport, HandleOther, Respond, Serve
  <2>. QED BY <2>2, <2>3
<1>2. ApiIInv /\ [ApiNext]_api_vars
        => [report = "at_rest" => report' # "disturbed"]_api_vars
  BY <1>1
<1>. QED BY ApiInvariant, <1>2, PTL DEF ApiSpec, AtRestUndisturbed
=============================================================================
