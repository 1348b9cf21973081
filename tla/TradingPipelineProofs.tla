------------------------ MODULE TradingPipelineProofs ------------------------
(***************************************************************************)
(* Machine-checked proofs about the trading pipeline, for every set of     *)
(* symbols, every sequence of strategies and every feed, however long.     *)
(***************************************************************************)
EXTENDS TradingPipeline, SequenceTheorems, FiniteSetTheorems, WellFoundedInduction, TLAPS

Entries(s) == {s[i] : i \in DOMAIN s}

(* The log is a sequence of events of the types of Event.h, and what is    *)
(* of a data handler's type came from a data handler.                      *)
LogTyped ==
  /\ log \in Seq(Entries(log))
  /\ begun \in 0 .. Len(log)
  /\ \A i \in DOMAIN log : /\ log[i].type \in EventTypes
                           /\ log[i].type \in FeedTypes => log[i] \in FeedEvents

(* The bus knows the callbacks subscribed so far, each under its own type, *)
(* and all of them before anything is published.                           *)
Wired ==
  /\ built \in 0 .. Len(Subscriptions) + 1
  /\ members \in [EventTypes -> Seq(CallbacksOf(Subscriptions))]
  /\ \A k \in DOMAIN Subscriptions :
       k <= built => Subscriptions[k].callback \in Entries(members[Subscriptions[k].type])
  /\ \A t \in EventTypes : \A c \in Entries(members[t]) :
       [callback |-> c, type |-> t] \in Entries(Subscriptions)
  /\ Len(log) > 0 => Started

(* What is still to be called subscribed to the type of the current event. *)
PendingWired ==
  /\ pending \in Seq(CallbacksOf(Subscriptions))
  /\ \A c \in Entries(pending) :
       /\ begun > 0
       /\ [callback |-> c, type |-> Current.type] \in Entries(Subscriptions)

(* StrategyManager loops over a quote only, and what a callback is yet to  *)
(* publish is one event, and not a signal.                                 *)
InCallback ==
  /\ loop \in 0 .. Len(Strategies)
  /\ loop > 0 => begun > 0 /\ Current.type \in {"MARKET", "ORDER_BOOK"}
  /\ reaction # <<>> => /\ begun > 0
                        /\ Tail(reaction) = <<>>
                        /\ Head(reaction).type \in {"ORDER", "FILL", "PORTFOLIO_UPDATE"}

BusInv == LogTyped /\ Wired /\ PendingWired /\ InCallback
-----------------------------------------------------------------------------
LEMMA TailEntries ==
  ASSUME NEW S, NEW s \in Seq(S), s # <<>>
  PROVE  /\ Tail(s) \in Seq(S)
         /\ Entries(s) = {Head(s)} \cup Entries(Tail(s))
<1>1. /\ Len(s) \in Nat \ {0}
      /\ DOMAIN s = 1 .. Len(s)
      /\ Head(s) = s[1]
  BY EmptySeq, LenProperties
<1>2. /\ Tail(s) \in Seq(S)
      /\ Len(Tail(s)) = Len(s) - 1
      /\ \A i \in 1 .. Len(Tail(s)) : Tail(s)[i] = s[i + 1]
  BY HeadTailProperties
<1>3. DOMAIN Tail(s) = 1 .. Len(s) - 1
  BY <1>2, LenProperties
<1>4. ASSUME NEW i \in DOMAIN s PROVE s[i] \in {Head(s)} \cup Entries(Tail(s))
  <2>1. CASE i = 1 BY <1>1, <2>1
  <2>2. CASE i # 1
    <3>1. i - 1 \in DOMAIN Tail(s) /\ Tail(s)[i - 1] = s[i]
      BY <1>1, <1>2, <1>3, <2>2
    <3>. QED BY <3>1 DEF Entries
  <2>. QED BY <2>1, <2>2
<1>5. ASSUME NEW i \in DOMAIN Tail(s) PROVE Tail(s)[i] \in Entries(s)
  BY <1>1, <1>2, <1>3 DEF Entries
<1>6. Head(s) \in Entries(s)
  BY <1>1 DEF Entries
<1>. QED BY <1>2, <1>4, <1>5, <1>6 DEF Entries

LEMMA AppendEntries ==
  ASSUME NEW S, NEW s \in Seq(S), NEW e
  PROVE  /\ Append(s, e) \in Seq(S \cup {e})
         /\ Append(s, e) \in Seq(Entries(Append(s, e)))
         /\ Len(Append(s, e)) = Len(s) + 1
         /\ Len(s) \in Nat
         /\ DOMAIN s = 1 .. Len(s)
         /\ DOMAIN Append(s, e) = 1 .. Len(s) + 1
         /\ \A i \in DOMAIN s : Append(s, e)[i] = s[i]
         /\ Append(s, e)[Len(s) + 1] = e
         /\ Entries(Append(s, e)) = Entries(s) \cup {e}
<1>. DEFINE t == Append(s, e)
<1>1. s \in Seq(S \cup {e})
  <2>1. S \subseteq S \cup {e}
    OBVIOUS
  <2>. QED BY <2>1, SeqMonotonic
<1>2. /\ t \in Seq(S \cup {e})
      /\ Len(t) = Len(s) + 1
      /\ \A i \in 1 .. Len(s) : t[i] = s[i]
      /\ t[Len(s) + 1] = e
  BY <1>1, AppendProperties
<1>3. /\ Len(s) \in Nat
      /\ DOMAIN s = 1 .. Len(s)
      /\ DOMAIN t = 1 .. Len(s) + 1
      /\ t \in [1 .. Len(s) + 1 -> S \cup {e}]
  BY <1>1, <1>2, LenProperties
<1>4. Entries(t) = Entries(s) \cup {e}
  BY <1>2, <1>3 DEF Entries
<1>5. t \in [1 .. Len(s) + 1 -> Entries(t)]
  BY <1>3 DEF Entries
<1>6. t \in Seq(Entries(t))
  <2>. HIDE DEF t
  <2>1. Seq(Entries(t)) = UNION {[1 .. n -> Entries(t)] : n \in Nat}
    BY SeqDef
  <2>2. Len(s) + 1 \in Nat
    BY <1>3
  <2>. QED BY <1>5, <2>1, <2>2
<1>. QED BY <1>2, <1>3, <1>4, <1>6

(* What publishing an event does to the log. *)
LEMMA Extended ==
  ASSUME LogTyped, NEW e, Publish(e)
  PROVE  /\ log' \in Seq(Entries(log'))
         /\ Len(log) \in Nat /\ Len(log') = Len(log) + 1
         /\ DOMAIN log = 1 .. Len(log) /\ DOMAIN log' = 1 .. Len(log) + 1
         /\ \A i \in DOMAIN log : log'[i] = log[i]
         /\ log'[Len(log) + 1] = e
<1>1. log \in Seq(Entries(log)) /\ log' = Append(log, e)
  BY DEF LogTyped, Publish
<1>2. PICK S : log \in Seq(S)
  BY <1>1
<1>3. log' \in Seq(Entries(log'))
  <2>1. Append(log, e) \in Seq(Entries(Append(log, e)))
    BY <1>2, AppendEntries, Zenon
  <2>. QED BY <1>1, <2>1, Zenon
<1>4. /\ Len(log) \in Nat /\ Len(log') = Len(log) + 1
      /\ DOMAIN log = 1 .. Len(log) /\ DOMAIN log' = 1 .. Len(log) + 1
      /\ \A i \in DOMAIN log : log'[i] = log[i]
      /\ log'[Len(log) + 1] = e
  BY <1>1, <1>2, AppendEntries
<1>. QED BY <1>3, <1>4

(* A callback is called with an event of the type it subscribed to, and    *)
(* is then no longer pending, unless it is called again.                   *)
LEMMA Called ==
  ASSUME BusInv, NEW c, Call(c)
  PROVE  /\ begun \in DOMAIN log /\ begun > 0
         /\ [callback |-> c, type |-> Current.type] \in Entries(Subscriptions)
         /\ c \in Entries(pending)
         /\ Entries(pending) = {c} \cup Entries(pending')
         /\ pending' \in Seq(CallbacksOf(Subscriptions))
         /\ Current' = Current
         /\ Current.type \in EventTypes
         /\ loop = 0 /\ reaction = <<>>
<1>1. /\ pending' \in Seq(CallbacksOf(Subscriptions))
      /\ Entries(pending) = {c} \cup Entries(pending')
  BY TailEntries DEF BusInv, PendingWired, Call
<1>2. begun > 0 /\ [callback |-> c, type |-> Current.type] \in Entries(Subscriptions)
  BY <1>1 DEF BusInv, PendingWired
<1>3. begun \in DOMAIN log
  BY <1>2, LenProperties DEF BusInv, LogTyped
<1>4. Current' = Current
  BY DEF Current, Call, bus_vars
<1>. QED BY <1>1, <1>2, <1>3, <1>4 DEF BusInv, LogTyped, Current, Call, Returned

LEMMA SubscriptionsTyped ==
  /\ Len(Subscriptions) = 12
  /\ DOMAIN Subscriptions = 1 .. 12
  /\ \A k \in 1 .. 12 : /\ Subscriptions[k].type \in EventTypes
                        /\ Subscriptions[k] = [callback |-> Subscriptions[k].callback,
                                              type |-> Subscriptions[k].type]
<1>1. Len(Subscriptions) = 12 /\ DOMAIN Subscriptions = 1 .. 12
  BY DEF Subscriptions
<1>2. ASSUME NEW k \in 1 .. 12
      PROVE  /\ Subscriptions[k].type \in EventTypes
             /\ Subscriptions[k] = [callback |-> Subscriptions[k].callback,
                                   type |-> Subscriptions[k].type]
  <2>1. \/ k \in {1, 2, 3} \/ k \in {4, 5, 6} \/ k \in {7, 8, 9} \/ k \in {10, 11, 12}
    OBVIOUS
  <2>2. CASE k \in {1, 2, 3} BY <2>2 DEF Subscriptions, EventTypes
  <2>3. CASE k \in {4, 5, 6} BY <2>3 DEF Subscriptions, EventTypes
  <2>4. CASE k \in {7, 8, 9} BY <2>4 DEF Subscriptions, EventTypes
  <2>5. CASE k \in {10, 11, 12} BY <2>5 DEF Subscriptions, EventTypes
  <2>. QED BY <2>1, <2>2, <2>3, <2>4, <2>5
<1>. QED BY <1>1, <1>2

(* The type each callback subscribed to. *)
LEMMA CallbackTypes ==
  ASSUME NEW c, NEW t, [callback |-> c, type |-> t] \in Entries(Subscriptions)
  PROVE  /\ c = "StrategyManager.on_market_event" <=> t = "MARKET" /\ c # "RiskManager.on_market"
         /\ c = "StrategyManager.on_order_book_event"
              <=> t = "ORDER_BOOK" /\ c # "RiskManager.on_order_book"
         /\ c = "StrategyManager.on_news_event" <=> t = "NEWS"
         /\ c = "StrategyManager.on_market_regime_event" <=> t = "MARKET_REGIME_CHANGED"
         /\ c = "PortfolioManager.on_fill" <=> t = "FILL"
         /\ c = "RiskManager.on_signal" <=> t = "SIGNAL"
         /\ c = "RiskManager.on_market" => t = "MARKET"
         /\ c = "RiskManager.on_portfolio_update" => t = "PORTFOLIO_UPDATE"
         /\ c = "RiskManager.on_order_book" => t = "ORDER_BOOK"
         /\ c = "ExecutionHandler.on_order" <=> t = "ORDER"
         /\ c = "Analytics.on_portfolio_update" => t = "PORTFOLIO_UPDATE"
         /\ c = "Application.on_system" <=> t = "SYSTEM"
BY DEF Subscriptions, Entries
-----------------------------------------------------------------------------
(* Whoever publishes, once everything is wired, leaves the bus wired.      *)
LEMMA Publishing ==
  ASSUME BusInv, NEW e, Publish(e), Started',
         e.type \in EventTypes, e.type \in FeedTypes => e \in FeedEvents,
         built' \in {built, built + 1}, built' <= Len(Subscriptions) + 1,
         UNCHANGED <<members, begun, pending>>
  PROVE  LogTyped' /\ Wired' /\ PendingWired' /\ (begun > 0 => Current' = Current)
<1>1. begun > 0 => Current' = Current
  BY Extended DEF BusInv, LogTyped, Current
<1>2. LogTyped'
  BY Extended DEF BusInv, LogTyped
<1>3. Wired'
  <2>1. built \in 0 .. 13 /\ Len(Subscriptions) = 12 /\ DOMAIN Subscriptions = 1 .. 12
    BY SubscriptionsTyped DEF BusInv, Wired
  <2>2. built' \in {built, built + 1} /\ built' <= 13
    BY <2>1
  <2>3. built' > 12
    BY <2>1 DEF Started
  <2>4. built' \in 0 .. 13 /\ \A k \in 1 .. 12 : k <= built' => k <= built
    BY <2>1, <2>2, <2>3
  <2>. QED BY <2>1, <2>4 DEF BusInv, Wired
<1>4. PendingWired'
  BY <1>1 DEF BusInv, PendingWired
<1>. QED BY <1>1, <1>2, <1>3, <1>4

(* A call leaves the bus wired. *)
LEMMA Calling ==
  ASSUME BusInv, NEW c, Call(c)
  PROVE  LogTyped' /\ Wired' /\ PendingWired'
<1>1. LogTyped' /\ Wired'
  BY DEF BusInv, LogTyped, Wired, Started, Call, bus_vars
<1>2. PendingWired'
  BY Called DEF BusInv, PendingWired, Call, bus_vars
<1>. QED BY <1>1, <1>2

LEMMA BusInvInit == Init => BusInv
<1>. SUFFICES ASSUME Init PROVE BusInv
  OBVIOUS
<1>1. /\ log \in Seq(Entries(log)) /\ Len(log) = 0
      /\ pending \in Seq(CallbacksOf(Subscriptions)) /\ Entries(pending) = {} /\ DOMAIN log = {}
  BY EmptySeq DEF Init, Entries
<1>2. members \in [EventTypes -> Seq(CallbacksOf(Subscriptions))]
      /\ \A t \in EventTypes : Entries(members[t]) = {}
  BY EmptySeq DEF Init, Entries
<1>3. Len(Strategies) \in Nat
  BY PipelineAssumption, LenProperties
<1>. QED BY <1>1, <1>2, <1>3, SubscriptionsTyped
         DEF Init, BusInv, LogTyped, Wired, PendingWired, InCallback

LEMMA Reacting ==
  ASSUME NEW e, Reacts(e)
  PROVE  reaction' # <<>> /\ Head(reaction') = e /\ Tail(reaction') = <<>> /\ loop' = loop
BY DEF Reacts

LEMMA ConstructKeepsBus == BusInv /\ Construct => BusInv'
<1>. SUFFICES ASSUME BusInv, Construct PROVE BusInv'
  OBVIOUS
<1>. DEFINE s == Subscriptions[built + 1]
<1>1. /\ built \in 0 .. 11 /\ built' = built + 1 /\ built + 1 \in DOMAIN Subscriptions
      /\ Len(Subscriptions) = 12 /\ DOMAIN Subscriptions = 1 .. 12
  <2>1. Len(Subscriptions) = 12 /\ DOMAIN Subscriptions = 1 .. 12
    BY SubscriptionsTyped
  <2>2. built \in 0 .. 13
    BY <2>1 DEF BusInv, Wired
  <2>3. built < 12 /\ built' = built + 1
    BY <2>1 DEF Construct
  <2>. QED BY <2>1, <2>2, <2>3
<1>2. /\ s.type \in EventTypes
      /\ s.callback \in CallbacksOf(Subscriptions)
      /\ s = [callback |-> s.callback, type |-> s.type]
      /\ s \in Entries(Subscriptions)
  BY <1>1, SubscriptionsTyped DEF CallbacksOf, Entries
<1>3. ~ Started
  BY <1>1 DEF Started
<1>4. Len(log) = 0 /\ begun = 0 /\ log' = log /\ begun' = begun
  BY <1>3, LenProperties DEF BusInv, LogTyped, Wired, Construct
<1>5. LogTyped' /\ PendingWired' /\ InCallback'
  BY <1>4 DEF BusInv, LogTyped, PendingWired, InCallback, Construct, call_vars, Current
<1>6. /\ members' \in [EventTypes -> Seq(CallbacksOf(Subscriptions))]
      /\ \A t \in EventTypes : Entries(members'[t]) =
           IF t = s.type THEN Entries(members[t]) \cup {s.callback} ELSE Entries(members[t])
  <2>1. members' = [members EXCEPT ![s.type] = Append(@, s.callback)]
    BY DEF Construct
  <2>2. members \in [EventTypes -> Seq(CallbacksOf(Subscriptions))]
    BY DEF BusInv, Wired
  <2>3. members[s.type] \in Seq(CallbacksOf(Subscriptions))
    BY <1>2, <2>2
  <2>4. /\ Append(members[s.type], s.callback) \in Seq(CallbacksOf(Subscriptions))
        /\ Entries(Append(members[s.type], s.callback))
             = Entries(members[s.type]) \cup {s.callback}
    BY <1>2, <2>3, AppendProperties, AppendEntries
  <2>. HIDE DEF s
  <2>. QED BY <1>2, <2>1, <2>2, <2>4
<1>7. \A k \in DOMAIN Subscriptions : k <= built' =>
        Subscriptions[k].callback \in Entries(members'[Subscriptions[k].type])
  <2>. SUFFICES ASSUME NEW k \in 1 .. 12, k <= built + 1
                PROVE  Subscriptions[k].callback \in Entries(members'[Subscriptions[k].type])
    BY <1>1
  <2>1. Subscriptions[k].type \in EventTypes
    BY SubscriptionsTyped
  <2>2. CASE k = built + 1
    BY <1>2, <1>6, <2>2
  <2>3. CASE k <= built
    <3>1. Subscriptions[k].callback \in Entries(members[Subscriptions[k].type])
      BY <1>1, <2>3 DEF BusInv, Wired
    <3>. QED BY <1>6, <2>1, <3>1
  <2>. QED BY <1>1, <2>2, <2>3
<1>8. \A t \in EventTypes : \A c \in Entries(members'[t]) :
        [callback |-> c, type |-> t] \in Entries(Subscriptions)
  BY <1>2, <1>6 DEF BusInv, Wired
<1>9. built' \in 0 .. 13 /\ Len(log') = 0
  BY <1>1, <1>4
<1>10. Wired'
  <2>1. built' \in 0 .. Len(Subscriptions) + 1 /\ (Len(log') > 0 => Started')
    BY <1>1, <1>9
  <2>. HIDE DEF s
  <2>. QED BY <1>6, <1>7, <1>8, <2>1 DEF Wired
<1>. QED BY <1>5, <1>10 DEF BusInv

LEMMA BeginKeepsBus == BusInv /\ Begin => BusInv'
<1>. SUFFICES ASSUME BusInv, Begin PROVE BusInv'
  OBVIOUS
<1>1. /\ begun' = begun + 1 /\ begun' \in DOMAIN log /\ log' = log
      /\ begun' \in 0 .. Len(log) /\ begun' > 0
      /\ Current' = log[begun'] /\ Current'.type \in EventTypes
      /\ pending' = members[Current'.type]
  BY LenProperties DEF BusInv, LogTyped, Begin, Current
<1>2. LogTyped'
  BY <1>1 DEF BusInv, LogTyped
<1>3. Wired'
  BY DEF BusInv, Wired, Begin, Started
<1>4. PendingWired'
  BY <1>1 DEF BusInv, Wired, PendingWired
<1>5. InCallback'
  BY DEF BusInv, InCallback, Begin, Returned
<1>. QED BY <1>2, <1>3, <1>4, <1>5 DEF BusInv

(* A callback that returns silently, or with one event to publish, leaves  *)
(* nothing else behind.                                                    *)
LEMMA Returning ==
  ASSUME BusInv, NEW c, Call(c),
         \/ ReturnsSilently
         \/ \E e : e.type \in {"ORDER", "FILL", "PORTFOLIO_UPDATE"} /\ Reacts(e)
  PROVE  BusInv'
<1>1. LogTyped' /\ Wired' /\ PendingWired'
  BY Calling
<1>2. loop' = 0
  BY Called DEF ReturnsSilently, Reacts
<1>3. reaction' # <<>> => /\ begun' > 0
                          /\ Tail(reaction') = <<>>
                          /\ Head(reaction').type \in {"ORDER", "FILL", "PORTFOLIO_UPDATE"}
  <2>1. reaction = <<>> /\ begun' = begun /\ begun > 0
    BY Called DEF Call, bus_vars
  <2>. QED BY <2>1, Reacting DEF ReturnsSilently
<1>4. Len(Strategies) \in Nat
  BY PipelineAssumption, LenProperties
<1>. QED BY <1>1, <1>2, <1>3, <1>4 DEF BusInv, InCallback

LEMMA PublishersKeepBus ==
  ASSUME BusInv, PortfolioStart \/ Feed \/ PublishReaction \/ Evaluate
  PROVE  BusInv'
<1>0. /\ Len(Subscriptions) = 12 /\ built \in 0 .. 13 /\ Len(Strategies) \in Nat
      /\ loop \in 0 .. Len(Strategies)
  BY SubscriptionsTyped, PipelineAssumption, LenProperties DEF BusInv, Wired, InCallback
<1>1. CASE PortfolioStart
  <2>. DEFINE e == [type |-> "PORTFOLIO_UPDATE", total_equity |-> InitialCapital,
                    cash |-> cash, cause |-> 0]
  <2>1. /\ Publish(e) /\ built' = 13 /\ Started' /\ built' = built + 1
        /\ UNCHANGED <<members, begun, pending, loop, reaction>>
    BY <1>0, <1>1 DEF PortfolioStart, call_vars, Started
  <2>2. e.type \in EventTypes /\ e.type \notin FeedTypes
    BY DEF EventTypes, FeedTypes
  <2>. HIDE DEF e
  <2>3. LogTyped' /\ Wired' /\ PendingWired' /\ (begun > 0 => Current' = Current)
    BY <1>0, <2>1, <2>2, Publishing
  <2>. QED BY <2>1, <2>3 DEF BusInv, InCallback
<1>2. CASE Feed
  <2>1. PICK e : Publish(e) /\ (e \in FeedEvents \/ e = [type |-> "SYSTEM"])
    BY <1>2 DEF Feed
  <2>2. /\ Started /\ UNCHANGED <<built, members, begun, pending, loop, reaction>>
    BY <1>2 DEF Feed, bus_vars, call_vars
  <2>3. e.type \in EventTypes /\ (e.type \in FeedTypes => e \in FeedEvents)
    BY <2>1, PipelineAssumption
    DEF EventTypes, FeedTypes, MarketEvents, OrderBookEvents, NewsEvents,
        MarketRegimeChangedEvents
  <2>4. Started' /\ built' <= Len(Subscriptions) + 1
    BY <1>0, <2>2 DEF Started
  <2>5. LogTyped' /\ Wired' /\ PendingWired' /\ (begun > 0 => Current' = Current)
    BY <2>1, <2>2, <2>3, <2>4, Publishing
  <2>. QED BY <2>2, <2>5 DEF BusInv, InCallback
<1>3. CASE PublishReaction
  <2>1. /\ Publish(Head(reaction)) /\ reaction' = <<>>
        /\ Head(reaction).type \in {"ORDER", "FILL", "PORTFOLIO_UPDATE"}
        /\ UNCHANGED <<built, members, begun, pending, loop>>
    BY <1>3 DEF PublishReaction, BusInv, InCallback, bus_vars
  <2>. DEFINE e == Head(reaction)
  <2>2. e.type \in EventTypes /\ e.type \notin FeedTypes /\ Publish(e)
    BY <2>1 DEF EventTypes, FeedTypes
  <2>. HIDE DEF e
  <2>3. Started /\ Started' /\ built' <= Len(Subscriptions) + 1
    BY <1>0, <1>3, <2>1, LenProperties
    DEF Started, PublishReaction, BusInv, InCallback, Wired, LogTyped
  <2>4. LogTyped' /\ Wired' /\ PendingWired' /\ (begun > 0 => Current' = Current)
    BY <2>1, <2>2, <2>3, Publishing
  <2>. QED BY <2>1, <2>4 DEF BusInv, InCallback
<1>4. CASE Evaluate
  <2>1. /\ loop > 0 /\ begun > 0 /\ Started
        /\ loop' \in 0 .. Len(Strategies)
        /\ UNCHANGED <<built, members, begun, pending, reaction>>
    BY <1>0, <1>4, LenProperties
    DEF Evaluate, BusInv, InCallback, Wired, LogTyped, bus_vars
  <2>2. Started' /\ built' <= Len(Subscriptions) + 1
    BY <1>0, <2>1 DEF Started
  <2>3. CASE UNCHANGED log
    <3>1. LogTyped' /\ Wired' /\ PendingWired' /\ Current' = Current
      BY <2>1, <2>2, <2>3 DEF BusInv, LogTyped, Wired, PendingWired, Current
    <3>. QED BY <2>1, <3>1 DEF BusInv, InCallback
  <2>4. CASE \E s, d : Publish([type |-> "SIGNAL", symbol |-> s, direction |-> d,
                               cause |-> begun])
    <3>1. PICK e : /\ Publish(e)
                   /\ e.type = "SIGNAL"
      BY <2>4
    <3>2. e.type \in EventTypes /\ e.type \notin FeedTypes
      BY <3>1 DEF EventTypes, FeedTypes
    <3>3. LogTyped' /\ Wired' /\ PendingWired' /\ (begun > 0 => Current' = Current)
      BY <2>1, <2>2, <3>1, <3>2, Publishing
    <3>. QED BY <2>1, <3>3 DEF BusInv, InCallback
  <2>. QED BY <1>4, <2>3, <2>4 DEF Evaluate
<1>. QED BY <1>1, <1>2, <1>3, <1>4

LEMMA CallbacksKeepBus ==
  ASSUME BusInv,
         \/ EnterLoop \/ OnNews \/ OnMarketRegime
         \/ RiskOnMarket \/ RiskOnOrderBook \/ RiskOnPortfolioUpdate \/ RiskOnSignal
         \/ OnOrder \/ PortfolioOnFill
         \/ AnalyticsOnPortfolioUpdate \/ OnSystem
  PROVE  BusInv'
<1>1. CASE EnterLoop
  <2>1. PICK c \in {"StrategyManager.on_market_event", "StrategyManager.on_order_book_event"} :
          Call(c)
    BY <1>1 DEF EnterLoop
  <2>2. LogTyped' /\ Wired' /\ PendingWired'
    BY <2>1, Calling
  <2>3. /\ Current' = Current
        /\ Current.type \in {"MARKET", "ORDER_BOOK"}
        /\ reaction = <<>> /\ begun > 0
    BY <2>1, Called, CallbackTypes
  <2>4. reaction' = reaction /\ begun' = begun
    BY <1>1, <2>1 DEF EnterLoop, Call, bus_vars
  <2>5. loop' \in 0 .. Len(Strategies)
    BY <1>1, PipelineAssumption, EmptySeq, LenProperties DEF EnterLoop
  <2>. QED BY <2>2, <2>3, <2>4, <2>5 DEF BusInv, InCallback
<1>2. CASE OnNews \/ OnMarketRegime
  BY <1>2, Returning DEF OnNews, OnMarketRegime
<1>3. CASE RiskOnMarket \/ RiskOnOrderBook \/ RiskOnPortfolioUpdate
  BY <1>3, Returning DEF RiskOnMarket, RiskOnOrderBook, RiskOnPortfolioUpdate
<1>4. CASE RiskOnSignal
  <2>1. \/ ReturnsSilently
        \/ \E e : e.type \in {"ORDER", "FILL", "PORTFOLIO_UPDATE"} /\ Reacts(e)
    <3>1. CASE Current.symbol \notin DOMAIN latest_prices
      BY <1>4, <3>1 DEF RiskOnSignal
    <3>2. CASE Current.symbol \in DOMAIN latest_prices
      <4>1. PICK price, quantity :
              \/ ReturnsSilently
              \/ Reacts([type |-> "ORDER", symbol |-> Current.symbol,
                         direction |-> Current.direction, quantity |-> quantity,
                         market_price |-> price, cause |-> begun])
        BY <1>4, <3>2 DEF RiskOnSignal
      <4>. QED BY <4>1
    <3>. QED BY <3>1, <3>2
  <2>. QED BY <1>4, <2>1, Returning DEF RiskOnSignal
<1>5. CASE OnOrder
  <2>1. \E e : e.type \in {"ORDER", "FILL", "PORTFOLIO_UPDATE"} /\ Reacts(e)
    BY <1>5 DEF OnOrder
  <2>. QED BY <1>5, <2>1, Returning DEF OnOrder
<1>6. CASE PortfolioOnFill
  <2>1. PICK e : Reacts(e) /\ e.type = "PORTFOLIO_UPDATE"
    BY <1>6 DEF PortfolioOnFill, PortfolioUpdate
  <2>. QED BY <1>6, <2>1, Returning DEF PortfolioOnFill
<1>7. CASE AnalyticsOnPortfolioUpdate \/ OnSystem
  BY <1>7, Returning DEF AnalyticsOnPortfolioUpdate, OnSystem
<1>. QED BY <1>1, <1>2, <1>3, <1>4, <1>5, <1>6, <1>7

(* Once all is wired, an event has every callback of its type called. *)
LEMMA AllCalled ==
  ASSUME Wired, Started
  PROVE  /\ "RiskManager.on_market" \in Entries(members["MARKET"])
         /\ "RiskManager.on_order_book" \in Entries(members["ORDER_BOOK"])
         /\ "StrategyManager.on_news_event" \in Entries(members["NEWS"])
         /\ "StrategyManager.on_market_regime_event"
              \in Entries(members["MARKET_REGIME_CHANGED"])
         /\ "PortfolioManager.on_fill" \in Entries(members["FILL"])
         /\ "RiskManager.on_portfolio_update" \in Entries(members["PORTFOLIO_UPDATE"])
         /\ "Analytics.on_portfolio_update" \in Entries(members["PORTFOLIO_UPDATE"])
<1>1. \A k \in 1 .. 12 : Subscriptions[k].callback \in Entries(members[Subscriptions[k].type])
  <2>0. Len(Subscriptions) = 12 /\ DOMAIN Subscriptions = 1 .. 12
    BY SubscriptionsTyped
  <2>1. built \in 0 .. 13 /\ built > 12
    BY <2>0 DEF Wired, Started
  <2>2. \A k \in 1 .. 12 : k <= built
    BY <2>1
  <2>. QED BY <2>0, <2>2 DEF Wired
<1>2. /\ Subscriptions[7] = [callback |-> "RiskManager.on_market", type |-> "MARKET"]
      /\ Subscriptions[9] = [callback |-> "RiskManager.on_order_book", type |-> "ORDER_BOOK"]
      /\ Subscriptions[3] = [callback |-> "StrategyManager.on_news_event", type |-> "NEWS"]
      /\ Subscriptions[4] = [callback |-> "StrategyManager.on_market_regime_event",
                             type |-> "MARKET_REGIME_CHANGED"]
      /\ Subscriptions[5] = [callback |-> "PortfolioManager.on_fill", type |-> "FILL"]
      /\ Subscriptions[8] = [callback |-> "RiskManager.on_portfolio_update",
                             type |-> "PORTFOLIO_UPDATE"]
      /\ Subscriptions[11] = [callback |-> "Analytics.on_portfolio_update",
                              type |-> "PORTFOLIO_UPDATE"]
  BY DEF Subscriptions
<1>. QED BY <1>1, <1>2

LEMMA BusInvStep == BusInv /\ [Next]_vars => BusInv'
<1>1. BusInv /\ UNCHANGED vars => BusInv'
  BY DEF BusInv, LogTyped, Wired, PendingWired, InCallback, Started, Current, vars, bus_vars,
         call_vars
<1>. QED BY <1>1, ConstructKeepsBus, BeginKeepsBus, PublishersKeepBus, CallbacksKeepBus
         DEF Next
-----------------------------------------------------------------------------
(* RiskManager takes the price of an event of type MARKET in one callback, *)
(* and the best bid of a book that has one in another.                     *)
PriceCallbacks == {"RiskManager.on_market", "RiskManager.on_order_book"}
GivesPrice(e, c) ==
  \/ c = "RiskManager.on_market" /\ e.type = "MARKET"
  \/ c = "RiskManager.on_order_book" /\ e.type = "ORDER_BOOK" /\ e.best_bid > 0
IsQuote(e) == \E c \in PriceCallbacks : GivesPrice(e, c)

(* The callback c has been called with event i. *)
Handled(i, c) == i < begun \/ (i = begun /\ c \notin Entries(pending))

(* Each quote RiskManager has been called with left it a price. *)
PricesKept ==
  \A i \in 1 .. begun : \A c \in PriceCallbacks :
    GivesPrice(log[i], c) /\ Handled(i, c) => log[i].symbol \in DOMAIN latest_prices

(* Each signal was caused by a quote of its symbol, already begun. *)
SignalsCaused ==
  \A i \in DOMAIN log : log[i].type = "SIGNAL" =>
    /\ log[i].cause \in 1 .. begun
    /\ log[i].cause < i
    /\ log[log[i].cause].symbol = log[i].symbol
    /\ IsQuote(log[log[i].cause])

PriceInv == BusInv /\ PricesKept /\ SignalsCaused

LEMMA PricesKeptByCall ==
  ASSUME BusInv, PricesKept, NEW c, Call(c),
         DOMAIN latest_prices \subseteq DOMAIN latest_prices',
         c \in PriceCallbacks /\ GivesPrice(Current, c) => Current.symbol \in DOMAIN latest_prices'
  PROVE  PricesKept'
<1>1. begun' = begun /\ log' = log
  BY DEF Call, bus_vars
<1>. SUFFICES ASSUME NEW i \in 1 .. begun, NEW r \in PriceCallbacks,
                     GivesPrice(log[i], r), Handled(i, r)'
              PROVE  log[i].symbol \in DOMAIN latest_prices'
  BY <1>1 DEF PricesKept
<1>2. CASE Handled(i, r)
  BY <1>2 DEF PricesKept
<1>3. CASE ~ Handled(i, r)
  <2>1. i = begun /\ r = c
    BY <1>1, <1>3, Called DEF Handled
  <2>. QED BY <2>1 DEF Current
<1>. QED BY <1>2, <1>3

(* What the loop of StrategyManager publishes is caused by the event it    *)
(* handles, a quote of the signal's symbol.                                *)
LEMMA EvaluateSignals ==
  ASSUME BusInv, Evaluate, log' # log
  PROVE  /\ begun \in DOMAIN log /\ begun > 0 /\ IsQuote(Current)
         /\ \E d : Publish([type |-> "SIGNAL", symbol |-> Current.symbol,
                            direction |-> d, cause |-> begun])
<1>1. /\ loop > 0 /\ begun > 0 /\ begun \in DOMAIN log
      /\ Current.type \in {"MARKET", "ORDER_BOOK"}
  BY LenProperties DEF BusInv, LogTyped, InCallback, Evaluate
<1>2. PICK s : /\ s \in IF Current.type = "MARKET" THEN MarketSignals(loop, Current)
                                                   ELSE BookSignals(loop, Current)
               /\ Publish([type |-> "SIGNAL", symbol |-> s.symbol,
                           direction |-> s.direction, cause |-> begun])
  BY DEF Evaluate
<1>3. s.symbol = Current.symbol /\ IsQuote(Current)
  BY <1>1, <1>2 DEF MarketSignals, BookSignals, IsQuote, PriceCallbacks, GivesPrice
<1>. QED BY <1>1, <1>2, <1>3

LEMMA PriceInvInit == Init => PriceInv
BY BusInvInit DEF Init, PriceInv, PricesKept, SignalsCaused

LEMMA PriceInvStep == PriceInv /\ [Next]_vars => PriceInv'
<1>. SUFFICES ASSUME PriceInv, [Next]_vars PROVE PricesKept' /\ SignalsCaused'
  BY BusInvStep DEF PriceInv
<1>. USE DEF PriceInv
<1>0. /\ begun \in 0 .. Len(log) /\ Len(log) \in Nat /\ DOMAIN log = 1 .. Len(log)
  BY LenProperties DEF BusInv, LogTyped
<1>1. ASSUME UNCHANGED <<log, begun, pending, latest_prices>>
      PROVE  PricesKept' /\ SignalsCaused'
  BY <1>1 DEF PricesKept, SignalsCaused, Handled
<1>2. ASSUME NEW e, Publish(e), UNCHANGED <<begun, pending, latest_prices>>,
             e.type = "SIGNAL" => \E d :
               /\ e = [type |-> "SIGNAL", symbol |-> Current.symbol, direction |-> d,
                       cause |-> begun]
               /\ begun > 0
               /\ IsQuote(Current)
      PROVE  PricesKept' /\ SignalsCaused'
  <2>1. /\ DOMAIN log' = 1 .. Len(log) + 1
        /\ \A i \in DOMAIN log : log'[i] = log[i]
        /\ log'[Len(log) + 1] = e
    BY <1>2, Extended DEF BusInv
  <2>2. PricesKept'
    BY <1>0, <1>2, <2>1 DEF PricesKept, Handled
  <2>3. ASSUME NEW i \in DOMAIN log, log'[i].type = "SIGNAL"
        PROVE  /\ log'[i].cause \in 1 .. begun'
               /\ log'[i].cause < i
               /\ log'[log'[i].cause].symbol = log'[i].symbol
               /\ IsQuote(log'[log'[i].cause])
    BY <1>0, <1>2, <2>1, <2>3 DEF SignalsCaused
  <2>4. ASSUME e.type = "SIGNAL"
        PROVE  /\ e.cause \in 1 .. begun'
               /\ e.cause < Len(log) + 1
               /\ log'[e.cause].symbol = e.symbol
               /\ IsQuote(log'[e.cause])
    BY <1>0, <1>2, <2>1, <2>4 DEF Current
  <2>5. SignalsCaused'
    BY <1>0, <2>1, <2>3, <2>4 DEF SignalsCaused
  <2>. QED BY <2>2, <2>5
<1>3. ASSUME NEW c, Call(c),
             DOMAIN latest_prices \subseteq DOMAIN latest_prices',
             c \in PriceCallbacks /\ GivesPrice(Current, c)
               => Current.symbol \in DOMAIN latest_prices'
      PROVE  PricesKept' /\ SignalsCaused'
  <2>1. PricesKept'
    BY <1>3, PricesKeptByCall
  <2>. QED BY <1>3, <2>1 DEF SignalsCaused, Call, bus_vars
<1>4. CASE UNCHANGED vars
  BY <1>1, <1>4 DEF vars, bus_vars, call_vars, risk_vars
<1>5. CASE Construct
  BY <1>1, <1>5 DEF Construct, call_vars, risk_vars
<1>6. CASE PortfolioStart
  BY <1>2, <1>6 DEF PortfolioStart, call_vars, risk_vars
<1>7. CASE Feed
  <2>1. PICK e : Publish(e) /\ (e \in FeedEvents \/ e = [type |-> "SYSTEM"])
    BY <1>7 DEF Feed
  <2>2. e.type # "SIGNAL"
    BY <2>1, PipelineAssumption
    DEF MarketEvents, OrderBookEvents, NewsEvents, MarketRegimeChangedEvents
  <2>. QED BY <1>2, <1>7, <2>1, <2>2 DEF Feed, bus_vars, call_vars, risk_vars
<1>8. CASE PublishReaction
  <2>1. Publish(Head(reaction)) /\ Head(reaction).type # "SIGNAL"
    BY <1>8 DEF PublishReaction, BusInv, InCallback
  <2>. QED BY <1>2, <1>8, <2>1 DEF PublishReaction, bus_vars, risk_vars
<1>9. CASE Evaluate
  <2>1. CASE log' = log
    BY <1>1, <1>9, <2>1 DEF Evaluate, bus_vars, risk_vars
  <2>2. CASE log' # log
    BY <1>2, <1>9, <2>2, EvaluateSignals DEF Evaluate, bus_vars, risk_vars
  <2>. QED BY <2>1, <2>2
<1>10. CASE Begin
  <2>1. /\ begun' = begun + 1 /\ log' = log /\ latest_prices' = latest_prices
        /\ begun + 1 \in DOMAIN log
        /\ Entries(pending) = {} /\ pending' = members[log[begun + 1].type]
    BY <1>0, <1>10 DEF Begin, risk_vars, Entries
  <2>2. Started
    BY <1>0, <2>1 DEF BusInv, Wired
  <2>3. /\ log[begun + 1].type = "MARKET" => "RiskManager.on_market" \in Entries(pending')
        /\ log[begun + 1].type = "ORDER_BOOK"
             => "RiskManager.on_order_book" \in Entries(pending')
    BY <2>1, <2>2, AllCalled DEF BusInv
  <2>4. PricesKept'
    <3>. SUFFICES ASSUME NEW i \in 1 .. begun + 1, NEW r \in PriceCallbacks,
                         GivesPrice(log[i], r), Handled(i, r)'
                  PROVE  log[i].symbol \in DOMAIN latest_prices
      BY <2>1 DEF PricesKept
    <3>1. i # begun + 1
      BY <1>0, <2>1, <2>3 DEF Handled, GivesPrice
    <3>2. i \in 1 .. begun
      BY <1>0, <3>1
    <3>3. Handled(i, r)
      BY <1>0, <2>1, <3>2 DEF Handled
    <3>. QED BY <3>2, <3>3 DEF PricesKept
  <2>. QED BY <1>0, <2>1, <2>4 DEF SignalsCaused
<1>11. CASE RiskOnMarket
  BY <1>3, <1>11 DEF RiskOnMarket, Put
<1>12. CASE RiskOnOrderBook
  <2>1. Call("RiskManager.on_order_book")
        /\ (GivesPrice(Current, "RiskManager.on_order_book") => Current.best_bid # 0)
    BY <1>12 DEF RiskOnOrderBook, GivesPrice
  <2>2. CASE Current.best_bid = 0
    BY <1>3, <1>12, <2>1, <2>2 DEF RiskOnOrderBook
  <2>3. CASE Current.best_bid # 0
    BY <1>3, <1>12, <2>1, <2>3 DEF RiskOnOrderBook, Put
  <2>. QED BY <2>2, <2>3
<1>13. CASE EnterLoop
  BY <1>3, <1>13 DEF EnterLoop, risk_vars, PriceCallbacks
<1>14. CASE OnNews \/ OnMarketRegime
  BY <1>3, <1>14 DEF OnNews, OnMarketRegime, risk_vars, PriceCallbacks
<1>15. CASE RiskOnPortfolioUpdate \/ RiskOnSignal
  BY <1>3, <1>15 DEF RiskOnPortfolioUpdate, RiskOnSignal, risk_vars, PriceCallbacks
<1>16. CASE OnOrder \/ PortfolioOnFill
  BY <1>3, <1>16 DEF OnOrder, PortfolioOnFill, risk_vars, PriceCallbacks
<1>17. CASE AnalyticsOnPortfolioUpdate \/ OnSystem
  BY <1>3, <1>17 DEF AnalyticsOnPortfolioUpdate, OnSystem, risk_vars, PriceCallbacks
<1>. QED BY <1>4, <1>5, <1>6, <1>7, <1>8, <1>9, <1>10, <1>11, <1>12, <1>13, <1>14, <1>15,
            <1>16, <1>17 DEF Next

LEMMA PriceInvSafe == PriceInv => SignalHasPrice
<1>. SUFFICES ASSUME PriceInv, pending # <<>>, Head(pending) = "RiskManager.on_signal"
              PROVE  Current.symbol \in DOMAIN latest_prices
  BY DEF SignalHasPrice
<1>1. /\ begun \in 0 .. Len(log) /\ Len(log) \in Nat /\ DOMAIN log = 1 .. Len(log)
  BY LenProperties DEF PriceInv, BusInv, LogTyped
<1>2. /\ begun > 0
      /\ [callback |-> "RiskManager.on_signal", type |-> Current.type] \in Entries(Subscriptions)
  BY TailEntries DEF PriceInv, BusInv, PendingWired
<1>3. Current.type = "SIGNAL" /\ begun \in DOMAIN log
  BY <1>1, <1>2, CallbackTypes
<1>4. /\ Current.cause \in 1 .. begun /\ Current.cause < begun
      /\ log[Current.cause].symbol = Current.symbol
      /\ IsQuote(log[Current.cause])
  BY <1>3 DEF PriceInv, SignalsCaused, Current
<1>. QED BY <1>1, <1>4 DEF PriceInv, PricesKept, Handled, IsQuote

(* RiskManager never has to reject a signal for want of a price: whatever  *)
(* strategies there are and whatever the feed, every quote a strategy      *)
(* signals on reached RiskManager before the signal does.                  *)
THEOREM AlwaysPriced == Spec => []SignalHasPrice
<1>1. Spec => []PriceInv
  BY PriceInvInit, PriceInvStep, PTL DEF Spec
<1>. QED BY <1>1, PriceInvSafe, PTL
-----------------------------------------------------------------------------
(***************************************************************************)
(* Who is subscribed to the bus, and in which order.                       *)
(***************************************************************************)
(* A callback is subscribed by its constructor only; signals, orders and   *)
(* fills have one subscriber each.                                         *)
Sole == {5, 6, 10}
Subscribed ==
  /\ \A t \in EventTypes : \A c \in Entries(members[t]) :
       \E k \in 1 .. 12 : k <= built /\ Subscriptions[k].callback = c
  /\ \A k \in Sole : members[Subscriptions[k].type] =
                       IF built < k THEN <<>> ELSE <<Subscriptions[k].callback>>
  /\ \A k \in Sole : begun > 0 /\ Current.type = Subscriptions[k].type =>
                       pending \in {<<>>, <<Subscriptions[k].callback>>}

LEMMA SoleTypes ==
  /\ Subscriptions[5] = [callback |-> "PortfolioManager.on_fill", type |-> "FILL"]
  /\ Subscriptions[6] = [callback |-> "RiskManager.on_signal", type |-> "SIGNAL"]
  /\ Subscriptions[10] = [callback |-> "ExecutionHandler.on_order", type |-> "ORDER"]
  /\ \A k \in 1 .. 12 : \A i \in Sole :
       Subscriptions[k].type = Subscriptions[i].type => k = i
<1>1. \A k \in 1 .. 12 : Subscriptions[k].type = "FILL" => k = 5
  BY DEF Subscriptions
<1>2. \A k \in 1 .. 12 : Subscriptions[k].type = "SIGNAL" => k = 6
  BY DEF Subscriptions
<1>3. \A k \in 1 .. 12 : Subscriptions[k].type = "ORDER" => k = 10
  BY DEF Subscriptions
<1>4. /\ Subscriptions[5] = [callback |-> "PortfolioManager.on_fill", type |-> "FILL"]
      /\ Subscriptions[6] = [callback |-> "RiskManager.on_signal", type |-> "SIGNAL"]
      /\ Subscriptions[10] = [callback |-> "ExecutionHandler.on_order", type |-> "ORDER"]
  BY DEF Subscriptions
<1>. QED BY <1>1, <1>2, <1>3, <1>4 DEF Sole

LEMMA AppendAdds ==
  ASSUME NEW S, NEW s \in Seq(S), NEW e
  PROVE  Entries(Append(s, e)) = Entries(s) \cup {e}
<1>1. /\ DOMAIN s = 1 .. Len(s) /\ Len(s) \in Nat
      /\ DOMAIN Append(s, e) = 1 .. Len(s) + 1
      /\ \A i \in DOMAIN s : Append(s, e)[i] = s[i]
      /\ Append(s, e)[Len(s) + 1] = e
  BY AppendEntries
<1>. QED BY <1>1 DEF Entries

LEMMA CallbacksDiffer ==
  \A j, k \in 1 .. 12 : Subscriptions[j].callback = Subscriptions[k].callback => j = k
<1>. SUFFICES ASSUME NEW j \in 1 .. 12, NEW k \in 1 .. 12,
                     Subscriptions[j].callback = Subscriptions[k].callback, j < k
              PROVE  FALSE
  OBVIOUS
<1>1. CASE j \in 1 .. 4
  BY <1>1 DEF Subscriptions
<1>2. CASE j \in 5 .. 8
  BY <1>2 DEF Subscriptions
<1>3. CASE j \in 9 .. 12
  BY <1>3 DEF Subscriptions
<1>. QED BY <1>1, <1>2, <1>3

LEMMA SubscribedInit == Init => Subscribed
<1>. SUFFICES ASSUME Init PROVE Subscribed
  OBVIOUS
<1>1. /\ built = 0 /\ begun = 0
      /\ \A t \in EventTypes : members[t] = <<>>
  BY DEF Init
<1>2. \A k \in Sole : Subscriptions[k].type \in EventTypes /\ built < k
  BY <1>1, SubscriptionsTyped DEF Sole
<1>3. Entries(<<>>) = {}
  BY DEF Entries
<1>. QED BY <1>1, <1>2, <1>3 DEF Subscribed

LEMMA ConstructKeepsSubscribed == BusInv /\ Subscribed /\ Construct => Subscribed'
<1>. SUFFICES ASSUME BusInv, Subscribed, Construct PROVE Subscribed'
  OBVIOUS
<1>1. /\ built \in 0 .. 11 /\ built' = built + 1
      /\ members' = [members EXCEPT ![Subscriptions[built + 1].type] =
                       Append(@, Subscriptions[built + 1].callback)]
  <2>1. Len(Subscriptions) = 12 /\ built \in 0 .. 13
    BY SubscriptionsTyped DEF BusInv, Wired
  <2>. QED BY <2>1 DEF Construct
<1>2. PICK n \in 1 .. 12 : n = built + 1
  BY <1>1
<1>3. /\ members \in [EventTypes -> Seq(CallbacksOf(Subscriptions))]
      /\ Subscriptions[n].type \in EventTypes
  BY SubscriptionsTyped DEF BusInv, Wired
<1>4. begun' = 0
  <2>1. ~ Started
    BY <1>1, SubscriptionsTyped DEF Started
  <2>2. Len(log) = 0
    BY <2>1, LenProperties DEF BusInv, LogTyped, Wired
  <2>. QED BY <2>2 DEF BusInv, LogTyped, Construct
<1>5. ASSUME NEW t \in EventTypes, NEW c \in Entries(members'[t])
      PROVE  \E k \in 1 .. 12 : k <= built' /\ Subscriptions[k].callback = c
  <2>1. c \in Entries(members[t]) \/ c = Subscriptions[n].callback
    <3>1. CASE t = Subscriptions[n].type
      <4>0. PICK d : d = Subscriptions[n].callback
        OBVIOUS
      <4>1. members'[t] = Append(members[t], d) /\ members[t] \in Seq(CallbacksOf(Subscriptions))
        BY <1>1, <1>2, <1>3, <3>1, <4>0
      <4>2. Entries(Append(members[t], d)) = Entries(members[t]) \cup {d}
        BY <4>1, AppendAdds
      <4>. QED BY <4>0, <4>1, <4>2, <1>5
    <3>2. CASE t # Subscriptions[n].type
      BY <1>1, <1>2, <1>3, <1>5, <3>2
    <3>. QED BY <3>1, <3>2
  <2>2. CASE c \in Entries(members[t])
    BY <1>1, <2>2 DEF Subscribed
  <2>3. CASE c = Subscriptions[n].callback
    BY <1>1, <1>2, <2>3
  <2>. QED BY <2>1, <2>2, <2>3
<1>6. ASSUME NEW k \in Sole
      PROVE  members'[Subscriptions[k].type] =
               IF built' < k THEN <<>> ELSE <<Subscriptions[k].callback>>
  <2>1. k \in 1 .. 12
    BY DEF Sole
  <2>2. Subscriptions[k].type \in EventTypes
    BY <2>1, SubscriptionsTyped
  <2>3. CASE k = n
    <3>1. members[Subscriptions[k].type] = <<>>
      <4>1. built < k
        BY <1>1, <1>2, <2>3
      <4>. QED BY <4>1 DEF Subscribed
    <3>. DEFINE d == Subscriptions[k].callback
                t == Subscriptions[k].type
    <3>2. members'[t] = Append(<<>>, d)
      <4>1. members' = [members EXCEPT ![t] = Append(@, d)] /\ members[t] = <<>>
        BY <1>1, <1>2, <2>3, <3>1
      <4>2. t \in DOMAIN members
        BY <1>3, <2>2
      <4>. HIDE DEF t, d
      <4>. QED BY <4>1, <4>2
    <3>. HIDE DEF d
    <3>3. members'[t] = <<d>>
      BY <3>2
    <3>4. ~ (built' < k)
      BY <1>1, <1>2, <2>3
    <3>. HIDE DEF t
    <3>5. members'[t] = IF built' < k THEN <<>> ELSE <<d>>
      BY <3>3, <3>4
    <3>. QED BY <3>5 DEF d, t
  <2>4. CASE k # n
    <3>1. Subscriptions[k].type # Subscriptions[n].type
      BY <2>4, SoleTypes
    <3>2. members'[Subscriptions[k].type] = members[Subscriptions[k].type]
      BY <1>1, <1>2, <1>3, <2>2, <3>1
    <3>3. built' < k <=> built < k
      BY <1>1, <1>2, <2>1, <2>4
    <3>. QED BY <3>2, <3>3 DEF Subscribed
  <2>. QED BY <2>3, <2>4
<1>. QED BY <1>4, <1>5, <1>6 DEF Subscribed

(* What a step is to the bus: a constructor's, a callback called, an event *)
(* begun or published, or none of its business.                            *)
PublishesOne ==
  /\ UNCHANGED <<members, begun, pending, calls>>
  /\ (built' = built /\ Started) \/ (built = 12 /\ built' = 13)
  /\ begun > 0 => Current' = Current
  /\ \E e : Publish(e) /\ e.type \in EventTypes
LeavesBus == UNCHANGED <<built, members, log, begun, pending, calls>>

LEMMA BusSteps ==
  ASSUME BusInv, [Next]_vars
  PROVE  Construct \/ Begin \/ (\E c : Call(c)) \/ PublishesOne \/ LeavesBus
<1>0. begun > 0 => Started
  BY SubscriptionsTyped, LenProperties DEF BusInv, LogTyped, Wired
<1>1. ASSUME NEW e, Publish(e), UNCHANGED begun
      PROVE  begun > 0 => Current' = Current
  BY <1>1, Extended DEF BusInv, LogTyped, Current
<1>2. CASE PortfolioStart
  <2>. DEFINE e == [type |-> "PORTFOLIO_UPDATE", total_equity |-> InitialCapital,
                    cash |-> cash, cause |-> 0]
  <2>1. Publish(e) /\ e.type \in EventTypes
    BY <1>2 DEF PortfolioStart, EventTypes
  <2>2. /\ UNCHANGED <<members, begun, pending, calls>>
        /\ built = 12 /\ built' = 13
    BY <1>2, SubscriptionsTyped DEF PortfolioStart, call_vars
  <2>3. begun > 0 => Current' = Current
    BY <1>1, <2>1, <2>2
  <2>4. \E f : Publish(f) /\ f.type \in EventTypes
    BY <2>1
  <2>. HIDE DEF e
  <2>. QED BY <2>2, <2>3, <2>4 DEF PublishesOne
<1>3. CASE Feed
  <2>1. PICK e : Publish(e) /\ (e \in FeedEvents \/ e = [type |-> "SYSTEM"])
    BY <1>3 DEF Feed
  <2>2. e.type \in EventTypes
    BY <2>1, PipelineAssumption
    DEF EventTypes, MarketEvents, OrderBookEvents, NewsEvents, MarketRegimeChangedEvents
  <2>3. Started /\ UNCHANGED <<built, members, begun, pending, calls>>
    BY <1>3 DEF Feed, bus_vars, call_vars
  <2>4. begun > 0 => Current' = Current
    BY <1>1, <2>1, <2>3
  <2>. QED BY <2>1, <2>2, <2>3, <2>4 DEF PublishesOne
<1>4. CASE PublishReaction
  <2>. DEFINE e == Head(reaction)
  <2>1. Publish(e) /\ e.type \in EventTypes /\ begun > 0
    BY <1>4 DEF PublishReaction, BusInv, InCallback, EventTypes
  <2>2. UNCHANGED <<built, members, begun, pending, calls>>
    BY <1>4 DEF PublishReaction, bus_vars
  <2>3. begun > 0 => Current' = Current
    BY <1>1, <2>1, <2>2
  <2>4. \E f : Publish(f) /\ f.type \in EventTypes
    BY <2>1
  <2>. HIDE DEF e
  <2>. QED BY <1>0, <2>1, <2>2, <2>3, <2>4 DEF PublishesOne
<1>5. CASE Evaluate
  <2>1. /\ UNCHANGED <<built, members, begun, pending, calls>>
        /\ begun > 0
    BY <1>5 DEF Evaluate, BusInv, InCallback, bus_vars
  <2>2. UNCHANGED log \/ \E s, d : Publish([type |-> "SIGNAL", symbol |-> s, direction |-> d,
                                            cause |-> begun])
    BY <1>5 DEF Evaluate
  <2>3. CASE UNCHANGED log
    BY <2>1, <2>3 DEF LeavesBus
  <2>4. CASE ~ UNCHANGED log
    <3>1. PICK s, d : Publish([type |-> "SIGNAL", symbol |-> s, direction |-> d,
                               cause |-> begun])
      BY <2>2, <2>4
    <3>2. PICK e : Publish(e) /\ e.type = "SIGNAL"
      BY <3>1
    <3>3. Current' = Current
      BY <1>1, <2>1, <3>2
    <3>4. e.type \in EventTypes
      BY <3>2 DEF EventTypes
    <3>. QED BY <1>0, <2>1, <3>2, <3>3, <3>4 DEF PublishesOne
  <2>. QED BY <2>3, <2>4
<1>6. CASE \/ EnterLoop \/ OnNews \/ OnMarketRegime
           \/ RiskOnMarket \/ RiskOnOrderBook \/ RiskOnPortfolioUpdate \/ RiskOnSignal
           \/ OnOrder \/ PortfolioOnFill
           \/ AnalyticsOnPortfolioUpdate \/ OnSystem
  <2>1. \E c : Call(c)
    BY <1>6, Zenon DEF EnterLoop, OnNews, OnMarketRegime, RiskOnMarket, RiskOnOrderBook,
       RiskOnPortfolioUpdate, RiskOnSignal, OnOrder, PortfolioOnFill,
       AnalyticsOnPortfolioUpdate, OnSystem
  <2>. QED BY <2>1
<1>7. CASE UNCHANGED vars
  BY <1>7 DEF vars, bus_vars, call_vars, LeavesBus
<1>. QED BY <1>2, <1>3, <1>4, <1>5, <1>6, <1>7 DEF Next

LEMMA SubscribedStep == BusInv /\ Subscribed /\ [Next]_vars => Subscribed'
<1>. SUFFICES ASSUME BusInv, Subscribed, [Next]_vars PROVE Subscribed'
  OBVIOUS
<1>1. CASE Begin
  <2>1. UNCHANGED <<built, members>> /\ pending' = members[log[begun + 1].type]
        /\ log' = log /\ begun' = begun + 1 /\ Current' = log[begun + 1]
    BY <1>1 DEF Begin, Current
  <2>2. built > 12
    BY <1>1, SubscriptionsTyped, LenProperties DEF Begin, BusInv, LogTyped, Wired, Started
  <2>3. ASSUME NEW k \in Sole
        PROVE  ~ built < k
    <3>1. k \in 1 .. 12 /\ built \in Int
      <4>1. k \in 1 .. 12
        BY DEF Sole
      <4>2. built \in 0 .. 13
        BY SubscriptionsTyped DEF BusInv, Wired
      <4>. QED BY <4>1, <4>2
    <3>. QED BY <2>2, <3>1
  <2>. QED BY <2>1, <2>3 DEF Subscribed
<1>2. CASE \E c : Call(c)
  <2>1. PICK c : Call(c)
    BY <1>2
  <2>2. /\ UNCHANGED <<built, members, begun>> /\ Current' = Current
        /\ pending # <<>> /\ pending' = Tail(pending)
    BY <2>1, Called DEF Call, bus_vars
  <2>3. ASSUME NEW k \in Sole, begun > 0, Current.type = Subscriptions[k].type
        PROVE  pending' = <<>>
    <3>1. pending = <<Subscriptions[k].callback>>
      BY <2>2, <2>3 DEF Subscribed
    <3>. QED BY <2>2, <3>1
  <2>. QED BY <2>2, <2>3 DEF Subscribed
<1>3. ASSUME UNCHANGED <<members, begun, pending>>, begun > 0 => Current' = Current,
             built' = built \/ (built = 12 /\ built' = 13)
      PROVE  Subscribed'
  <2>1. \A k \in 1 .. 12 : k <= built => k <= built'
    BY <1>3
  <2>2. \A k \in Sole : built < k <=> built' < k
    <3>1. \A k \in Sole : k \in 1 .. 12
      BY DEF Sole
    <3>2. built \in 0 .. 13
      BY SubscriptionsTyped DEF BusInv, Wired
    <3>. QED BY <1>3, <3>1, <3>2
  <2>. QED BY <1>3, <2>1, <2>2 DEF Subscribed
<1>4. CASE PublishesOne
  BY <1>3, <1>4 DEF PublishesOne
<1>5. CASE LeavesBus
  <2>1. Current' = Current
    BY <1>5 DEF LeavesBus, Current
  <2>. QED BY <1>3, <1>5, <2>1 DEF LeavesBus
<1>. QED BY <1>1, <1>2, <1>4, <1>5, BusSteps, ConstructKeepsSubscribed
-----------------------------------------------------------------------------
(***************************************************************************)
(* The pipeline uses the bus as the serial broadcast that EventBus is      *)
(* shown to be.                                                            *)
(***************************************************************************)
(* A log, by the types of its events. *)
TypesOf(s) == [i \in DOMAIN s |-> s[i].type]

LEMMA TypesOfSeq ==
  ASSUME NEW S, NEW s \in Seq(S)
  PROVE  /\ TypesOf(s) \in Seq(Entries(TypesOf(s)))
         /\ Len(TypesOf(s)) = Len(s)
         /\ \A i \in 1 .. Len(s) : TypesOf(s)[i] = s[i].type
<1>1. DOMAIN s = 1 .. Len(s) /\ Len(s) \in Nat
  BY LenProperties
<1>2. TypesOf(s) \in [1 .. Len(s) -> Entries(TypesOf(s))]
  BY <1>1 DEF TypesOf, Entries
<1>3. TypesOf(s) \in Seq(Entries(TypesOf(s)))
  <2>1. \A T : \A n \in Nat : [1 .. n -> T] \subseteq Seq(T)
    BY SeqDef
  <2>. QED BY <1>1, <1>2, <2>1
<1>4. DOMAIN TypesOf(s) = 1 .. Len(s)
  BY <1>1 DEF TypesOf
<1>5. Len(TypesOf(s)) = Len(s)
  BY <1>1, <1>3, <1>4, LenProperties
<1>. QED BY <1>1, <1>3, <1>5 DEF TypesOf

LEMMA TypesOfAppend ==
  ASSUME NEW S, NEW s \in Seq(S), NEW e
  PROVE  TypesOf(Append(s, e)) = Append(TypesOf(s), e.type)
<1>1. PICK ts, ta, x : ts = TypesOf(s) /\ ta = TypesOf(Append(s, e)) /\ x = e.type
  OBVIOUS
<1>2. /\ DOMAIN Append(s, e) = 1 .. Len(s) + 1 /\ Len(s) \in Nat
      /\ \A i \in 1 .. Len(s) : Append(s, e)[i] = s[i]
      /\ Append(s, e)[Len(s) + 1] = e
  BY AppendEntries
<1>3. PICK T : ts \in Seq(T) /\ Len(ts) = Len(s) /\ \A i \in 1 .. Len(s) : ts[i] = s[i].type
  BY <1>1, TypesOfSeq
<1>4. /\ DOMAIN Append(ts, x) = 1 .. Len(s) + 1
      /\ \A i \in 1 .. Len(s) : Append(ts, x)[i] = ts[i]
      /\ Append(ts, x)[Len(s) + 1] = x
  BY <1>3, AppendEntries
<1>5. Append(ts, x) = [i \in 1 .. Len(s) + 1 |-> Append(ts, x)[i]]
  <2>1. PICK T2 : Append(ts, x) \in Seq(T2)
    BY <1>3, AppendEntries
  <2>. QED BY <1>4, <2>1, LenProperties
<1>6. ta = [i \in 1 .. Len(s) + 1 |-> Append(s, e)[i].type]
  BY <1>1, <1>2 DEF TypesOf
<1>7. \A i \in 1 .. Len(s) + 1 : Append(s, e)[i].type = Append(ts, x)[i]
  BY <1>1, <1>2, <1>3, <1>4
<1>8. ta = Append(ts, x)
  BY <1>5, <1>6, <1>7
<1>. QED BY <1>1, <1>8

LEMMA TypeOfEach ==
  ASSUME NEW k \in 1 .. 12
  PROVE  /\ Subscriptions[k].callback \in CallbacksOf(Subscriptions)
         /\ TypeOfCallback[Subscriptions[k].callback] = Subscriptions[k].type
<1>1. DOMAIN Subscriptions = 1 .. 12
  BY SubscriptionsTyped
<1>2. PICK c : c = Subscriptions[k].callback
  OBVIOUS
<1>3. c \in CallbacksOf(Subscriptions)
  BY <1>1, <1>2 DEF CallbacksOf
<1>4. PICK r : r = CHOOSE s \in {Subscriptions[i] : i \in DOMAIN Subscriptions} : s.callback = c
  OBVIOUS
<1>5. r \in {Subscriptions[i] : i \in DOMAIN Subscriptions} /\ r.callback = c
  BY <1>1, <1>2, <1>4
<1>6. r = Subscriptions[k]
  BY <1>1, <1>2, <1>5, CallbacksDiffer
<1>7. TypeOfCallback[c] = r.type
  BY <1>3, <1>4 DEF TypeOfCallback
<1>. QED BY <1>2, <1>3, <1>6, <1>7

(* The log of the contract. *)
LEMMA ContractLog ==
  ASSUME BusInv
  PROVE  /\ Len(TypesOf(log)) = Len(log)
         /\ \A i \in 1 .. Len(log) : TypesOf(log)[i] = log[i].type
BY TypesOfSeq DEF BusInv, LogTyped

(* While the constructors run, nothing has been dispatched. *)
LEMMA ConstructingQuiet == BusInv /\ Construct => Len(log) = 0 /\ begun = 0
<1>. SUFFICES ASSUME BusInv, Construct PROVE Len(log) = 0 /\ begun = 0
  OBVIOUS
<1>1. ~ Started
  <2>1. Len(Subscriptions) = 12 /\ built \in 0 .. 13
    BY SubscriptionsTyped DEF BusInv, Wired
  <2>. QED BY <2>1 DEF Construct, Started
<1>. QED BY <1>1, LenProperties DEF BusInv, LogTyped, Wired

LEMMA BusSimulates ==
  ASSUME BusInv, Subscribed, [Next]_vars
  PROVE  [Contract!Next]_(Contract!vars)
<1>1. CASE Construct
  <2>1. /\ built \in 0 .. 11
        /\ members' = [members EXCEPT ![Subscriptions[built + 1].type] =
                         Append(@, Subscriptions[built + 1].callback)]
        /\ UNCHANGED <<log, begun, pending, calls>>
    <3>1. Len(Subscriptions) = 12 /\ built \in 0 .. 13
      BY SubscriptionsTyped DEF BusInv, Wired
    <3>. QED BY <1>1, <3>1 DEF Construct, call_vars
  <2>2. PICK n \in 1 .. 12 : n = built + 1
    BY <2>1
  <2>3. PICK c : c = Subscriptions[n].callback
    OBVIOUS
  <2>4. c \in CallbacksOf(Subscriptions) /\ TypeOfCallback[c] = Subscriptions[n].type
    BY <2>3, TypeOfEach
  <2>5. c \notin Contract!Registered
    <3>1. Subscriptions[n].type \in EventTypes
      BY SubscriptionsTyped
    <3>2. ASSUME c \in Entries(members[Subscriptions[n].type]) PROVE FALSE
      <4>1. PICK k \in 1 .. 12 : k <= built /\ Subscriptions[k].callback = c
        BY <3>1, <3>2 DEF Subscribed
      <4>2. k = n
        BY <2>3, <4>1, CallbacksDiffer
      <4>. QED BY <2>1, <2>2, <4>1, <4>2
    <3>. QED BY <2>4, <3>2 DEF Contract!Registered, Entries
  <2>6. begun = 0
    BY <1>1, ConstructingQuiet
  <2>7. Contract!Register(c)
    <3>1. members' = [members EXCEPT ![TypeOfCallback[c]] = Append(@, c)]
      BY <2>1, <2>2, <2>3, <2>4
    <3>2. [d \in CallbacksOf(Subscriptions) |-> 0]
            = [[d \in CallbacksOf(Subscriptions) |-> 0] EXCEPT ![c] = begun]
      BY <2>4, <2>6
    <3>. QED BY <2>1, <2>5, <3>1, <3>2 DEF Contract!Register
  <2>. QED BY <2>4, <2>7 DEF Contract!Next
<1>2. CASE Begin
  <2>1. /\ begun + 1 \in 1 .. Len(log)
        /\ Len(TypesOf(log)) = Len(log)
        /\ TypesOf(log)[begun + 1] = log[begun + 1].type
    <3>1. begun + 1 \in 1 .. Len(log)
      BY <1>2, LenProperties DEF Begin, BusInv, LogTyped
    <3>. QED BY <3>1, ContractLog
  <2>2. Contract!Begin
    BY <1>2, <2>1 DEF Begin, Contract!Begin, TypesOf
  <2>. QED BY <2>2 DEF Contract!Next
<1>3. CASE \E c : Call(c)
  <2>1. Contract!Call
    BY <1>3 DEF Call, Contract!Call, bus_vars
  <2>. QED BY <2>1 DEF Contract!Next
<1>4. CASE PublishesOne
  <2>1. PICK e : Publish(e) /\ e.type \in EventTypes
    BY <1>4 DEF PublishesOne
  <2>2. TypesOf(log') = Append(TypesOf(log), e.type)
    <3>1. PICK S : log \in Seq(S)
      BY DEF BusInv, LogTyped
    <3>2. TypesOf(Append(log, e)) = Append(TypesOf(log), e.type)
      BY <3>1, TypesOfAppend
    <3>. QED BY <2>1, <3>2 DEF Publish
  <2>3. Contract!Post(e.type)
    BY <1>4, <2>2 DEF PublishesOne, Contract!Post, TypesOf
  <2>. QED BY <2>1, <2>3 DEF Contract!Next
<1>5. CASE LeavesBus
  BY <1>5 DEF LeavesBus, Contract!vars
<1>. QED BY <1>1, <1>2, <1>3, <1>4, <1>5, BusSteps

LEMMA BusInvariant == Spec => [](BusInv /\ Subscribed)
<1>1. Init => BusInv /\ Subscribed
  BY BusInvInit, SubscribedInit
<1>2. BusInv /\ Subscribed /\ [Next]_vars => (BusInv /\ Subscribed)'
  BY BusInvStep, SubscribedStep
<1>. QED BY <1>1, <1>2, PTL DEF Spec

(* The pipeline uses the bus as the contract has it: constructors          *)
(* subscribe, each callback once and before anything is published, and     *)
(* everybody else publishes or is called.                                  *)
THEOREM PipelineUsesBus == Spec => UsesBus
<1>1. Init => Contract!Init
  <2>. SUFFICES ASSUME Init PROVE Contract!Init
    OBVIOUS
  <2>1. TypesOf(log) = <<>>
    BY DEF Init, TypesOf
  <2>. QED BY <2>1 DEF Init, Contract!Init, TypesOf
<1>2. BusInv /\ Subscribed /\ [Next]_vars => [Contract!Next]_(Contract!vars)
  BY BusSimulates
<1>. QED BY <1>1, <1>2, BusInvariant, PTL DEF Spec, UsesBus, Contract!Spec

(* What is proved of every serial broadcast, of the pipeline's. *)
Proved == INSTANCE SerialBroadcastProofs WITH
  Callbacks <- CallbacksOf(Subscriptions), TypeOf <- TypeOfCallback,
  log <- [i \in DOMAIN log |-> log[i].type],
  joined <- [c \in CallbacksOf(Subscriptions) |-> 0]

(* What a component keeps without a lock is safe to keep: each callback of *)
(* the pipeline is called with every event of its type begun so far, once  *)
(* and in the order of publication.                                        *)
THEOREM PipelineCalledInOrder == Spec => []Contract!ExactlyOnceInOrder
<1>0. TypeOfCallback \in [CallbacksOf(Subscriptions) -> EventTypes]
  <2>1. ASSUME NEW c \in CallbacksOf(Subscriptions) PROVE TypeOfCallback[c] \in EventTypes
    <3>1. PICK k \in 1 .. 12 : c = Subscriptions[k].callback
      BY SubscriptionsTyped DEF CallbacksOf
    <3>. QED BY <3>1, TypeOfEach, SubscriptionsTyped
  <2>. QED BY <2>1 DEF TypeOfCallback
<1>1. Proved!Spec => []Proved!ExactlyOnceInOrder
  BY <1>0, Proved!OnceInOrder
<1>2. Contract!Init => Proved!Init
  BY DEF Contract!Init, Proved!Init
<1>3. [Contract!Next]_(Contract!vars) => [Proved!Next]_(Proved!vars)
  BY DEF Contract!Next, Contract!vars, Contract!Begin, Contract!Call, Contract!Post,
         Contract!Register, Contract!Registered, Proved!Next, Proved!vars, Proved!Begin,
         Proved!Call, Proved!Post, Proved!Register, Proved!Registered
<1>4. Proved!ExactlyOnceInOrder => Contract!ExactlyOnceInOrder
  BY DEF Proved!ExactlyOnceInOrder, Contract!ExactlyOnceInOrder,
         Proved!Owed, Contract!Owed, Proved!IsPending, Contract!IsPending,
         Proved!Registered, Contract!Registered
<1>. QED
  BY <1>1, <1>2, <1>3, <1>4, PipelineUsesBus, PTL
     DEF UsesBus, Contract!Spec, Proved!Spec
-----------------------------------------------------------------------------
(***************************************************************************)
(* What is held is worth an integer: the fold over the open positions,     *)
(* which is defined by recursion, has integer values, or a smallest set of *)
(* positions would be a counterexample.                                    *)
(***************************************************************************)
(* The sums over the subsets of the open positions, as the fold computes   *)
(* them: one position, whichever CHOOSE takes, after the other.            *)
SomeOf(s) == CHOOSE x \in s : TRUE
SumOfStep(f, s) == IF s = {} THEN 0 ELSE positions[SomeOf(s)].value + f[s \ {SomeOf(s)}]
SumsUpTo(n) == {s \in SUBSET DOMAIN positions : Cardinality(s) <= n}

LEMMA SumsExist ==
  ASSUME IsFiniteSet(DOMAIN positions), \A s \in DOMAIN positions : positions[s].value \in Int
  PROVE  \E f \in [SUBSET DOMAIN positions -> Int] :
           \A s \in SUBSET DOMAIN positions : f[s] = SumOfStep(f, s)
<1>. DEFINE Solved(n) == \E f \in [SumsUpTo(n) -> Int] : \A s \in SumsUpTo(n) : f[s] = SumOfStep(f, s)
            R == OpToRel(<, Nat)
            Unsolved == {n \in Nat : ~ Solved(n)}
<1>0. \A s \in SUBSET DOMAIN positions :
        IsFiniteSet(s) /\ Cardinality(s) \in Nat /\ (Cardinality(s) = 0 <=> s = {})
        /\ Cardinality(s) <= Cardinality(DOMAIN positions)
  BY FS_Subset, FS_CardinalityType, FS_EmptySet
<1>1. Solved(0)
  <2>. DEFINE f == [s \in SumsUpTo(0) |-> 0]
  <2>1. \A s \in SumsUpTo(0) : s = {}
    BY <1>0 DEF SumsUpTo
  <2>2. f \in [SumsUpTo(0) -> Int] /\ \A s \in SumsUpTo(0) : f[s] = SumOfStep(f, s)
    BY <2>1 DEF SumOfStep
  <2>. QED BY <2>2
<1>2. ASSUME NEW n \in Nat, Solved(n) PROVE Solved(n + 1)
  <2>1. PICK f \in [SumsUpTo(n) -> Int] : \A s \in SumsUpTo(n) : f[s] = SumOfStep(f, s)
    BY <1>2
  <2>. DEFINE g == [s \in SumsUpTo(n + 1) |-> SumOfStep(f, s)]
  <2>2. ASSUME NEW s \in SumsUpTo(n + 1), s # {}
        PROVE  /\ SomeOf(s) \in s /\ s \ {SomeOf(s)} \in SumsUpTo(n)
               /\ positions[SomeOf(s)].value \in Int
    <3>1. SomeOf(s) \in s /\ s \in SUBSET DOMAIN positions /\ Cardinality(s) <= n + 1
      BY <2>2 DEF SomeOf, SumsUpTo
    <3>2. Cardinality(s \ {SomeOf(s)}) = Cardinality(s) - 1 /\ Cardinality(s) \in Nat
      BY <1>0, <3>1, FS_RemoveElement
    <3>. QED BY <3>1, <3>2 DEF SumsUpTo
  <2>3. g \in [SumsUpTo(n + 1) -> Int]
    <3>1. ASSUME NEW s \in SumsUpTo(n + 1) PROVE SumOfStep(f, s) \in Int
      BY <2>2 DEF SumOfStep
    <3>. QED BY <3>1
  <2>4. ASSUME NEW s \in SumsUpTo(n + 1) PROVE g[s] = SumOfStep(g, s)
    <3>1. CASE s = {}
      BY <3>1 DEF SumOfStep
    <3>2. CASE s # {}
      <4>1. s \ {SomeOf(s)} \in SumsUpTo(n) /\ s \ {SomeOf(s)} \in SumsUpTo(n + 1)
        BY <2>2, <3>2, <1>0 DEF SumsUpTo
      <4>2. g[s \ {SomeOf(s)}] = f[s \ {SomeOf(s)}]
        BY <2>1, <4>1
      <4>. QED BY <3>2, <4>2 DEF SumOfStep
    <3>. QED BY <3>1, <3>2
  <2>. HIDE DEF g
  <2>. QED BY <2>3, <2>4
<1>3. Unsolved = {}
  <2>. SUFFICES ASSUME Unsolved # {} PROVE FALSE
    OBVIOUS
  <2>1. PICK m \in Unsolved : \A k \in Unsolved : ~ (<<k, m>> \in R)
    <3>1. Unsolved \subseteq Nat
      OBVIOUS
    <3>. HIDE DEF Unsolved, R
    <3>2. IsWellFoundedOn(R, Nat)
      BY NatLessThanWellFounded DEF R
    <3>. QED BY <3>1, <3>2, WFMin
  <2>2. m \in Nat /\ ~ Solved(m)
    OBVIOUS
  <2>. HIDE DEF Solved
  <2>3. m - 1 \in Nat /\ m - 1 < m
    BY <1>1, <2>2
  <2>4. Solved(m - 1)
    BY <2>1, <2>2, <2>3 DEF OpToRel
  <2>5. Solved((m - 1) + 1)
    BY <1>2, <2>3, <2>4
  <2>. QED BY <2>2, <2>5
<1>4. PICK n : n = Cardinality(DOMAIN positions)
  OBVIOUS
<1>5. n \in Nat /\ SumsUpTo(n) = SUBSET DOMAIN positions
  BY <1>0, <1>4 DEF SumsUpTo
<1>6. Solved(n)
  BY <1>3, <1>5
<1>. QED BY <1>5, <1>6

(* ... so that what is held is worth an integer. *)
LEMMA HoldingsInteger ==
  ASSUME IsFiniteSet(DOMAIN positions), \A s \in DOMAIN positions : positions[s].value \in Int
  PROVE  OpenPositionsValue \in Int
<1>. DEFINE Sum(f, S) ==
       [s \in SUBSET S |->
          IF s = {} THEN 0
          ELSE positions[CHOOSE x \in s : TRUE].value + f[s \ {CHOOSE x \in s : TRUE}]]
<1>. DEFINE sum == CHOOSE f : f = Sum(f, DOMAIN positions)
<1>1. \E f : f = Sum(f, DOMAIN positions)
  <2>1. PICK f \in [SUBSET DOMAIN positions -> Int] :
          \A s \in SUBSET DOMAIN positions : f[s] = SumOfStep(f, s)
    BY SumsExist
  <2>2. f = Sum(f, DOMAIN positions)
    BY <2>1 DEF SumOfStep, SomeOf
  <2>. QED BY <2>2
<1>2. sum = Sum(sum, DOMAIN positions)
  <2>. HIDE DEF Sum
  <2>. QED BY <1>1
<1>3. OpenPositionsValue = sum[DOMAIN positions]
  BY DEF OpenPositionsValue, MapThenSumSet, MapThenFoldSet
<1>4. PICK g : g = sum
  OBVIOUS
<1>5. \A s \in SUBSET DOMAIN positions : g[s] = SumOfStep(g, s)
  <2>. HIDE DEF sum
  <2>. QED BY <1>2, <1>4 DEF SumOfStep, SomeOf
<1>. HIDE DEF sum, Sum
<1>. DEFINE Bad == {s \in SUBSET DOMAIN positions : g[s] \notin Int}
            D == FiniteSubsetsOf(DOMAIN positions)
            L == StrictSubsetOrdering(DOMAIN positions)
<1>6. Bad = {}
  <2>. SUFFICES ASSUME Bad # {} PROVE FALSE
    OBVIOUS
  <2>1. Bad \subseteq D
    BY FS_Subset DEF FiniteSubsetsOf
  <2>2. PICK b \in Bad : \A c \in Bad : ~ (<<c, b>> \in L)
    <3>1. IsWellFoundedOn(L, D)
      BY FS_StrictSubsetOrderingWellFounded
    <3>. HIDE DEF Bad, L, D
    <3>. QED BY <2>1, <3>1, WFMin
  <2>3. b \in SUBSET DOMAIN positions /\ g[b] = SumOfStep(g, b)
    BY <1>5
  <2>4. CASE b = {}
    BY <2>3, <2>4 DEF SumOfStep
  <2>5. CASE b # {}
    <3>1. SomeOf(b) \in b
      BY <2>5 DEF SomeOf
    <3>2. PICK c : c = b \ {SomeOf(b)}
      OBVIOUS
    <3>3. c \in SUBSET DOMAIN positions /\ <<c, b>> \in L
      BY <2>3, <3>1, <3>2 DEF StrictSubsetOrdering
    <3>4. g[c] \in Int
      BY <2>2, <3>3
    <3>. QED BY <2>3, <2>5, <3>1, <3>2, <3>4 DEF SumOfStep
  <2>. QED BY <2>4, <2>5
<1>. QED BY <1>3, <1>4, <1>6
-----------------------------------------------------------------------------
(***************************************************************************)
(* The types of the variables.                                             *)
(***************************************************************************)
HoldingsTypes == PortfolioTypeOK /\ IsFiniteSet(DOMAIN positions)
MessageTypes == /\ log \in Seq(Events)
                /\ reaction \in Seq(Reactions)
                /\ calls \in [CallbacksOf(Subscriptions) -> Seq(Nat)]
StrategyTypes ==
  /\ thresholds \in [StrategyIds -> Nat]
  /\ DOMAIN sentiment_scores = StrategyIds
  /\ \A i \in StrategyIds : \A s \in DOMAIN sentiment_scores[i] :
       sentiment_scores[i][s] \in -2 .. 2
RiskTypes == /\ \A s \in DOMAIN latest_prices : latest_prices[s] \in Nat \ {0}
             /\ latest_equity \in Int /\ latest_cash \in Int
ReportTypes == equity_curve \in Seq(Int) /\ completed \in BOOLEAN

TypeInv == /\ BusInv /\ HoldingsTypes /\ MessageTypes
           /\ StrategyTypes /\ RiskTypes /\ ReportTypes

LEMMA TypesSuffice == TypeInv => TypeOK
BY DEF TypeInv, TypeOK, BusInv, LogTyped, Wired, PendingWired, InCallback, HoldingsTypes,
       MessageTypes, StrategyTypes, RiskTypes, ReportTypes

(* An event is what its type says. *)
LEMMA EventKinds ==
  ASSUME NEW e \in Events
  PROVE  /\ e.type = "MARKET" => e \in MarketEvents
         /\ e.type = "ORDER_BOOK" => e \in OrderBookEvents
         /\ e.type = "NEWS" => e \in NewsEvents
         /\ e.type = "MARKET_REGIME_CHANGED" => e \in MarketRegimeChangedEvents
         /\ e.type = "SIGNAL" => e \in SignalEvents
         /\ e.type = "ORDER" => e \in OrderEvents
         /\ e.type = "FILL" => e \in PublishedFills
         /\ e.type = "PORTFOLIO_UPDATE" => e \in PortfolioUpdates
<1>1. CASE e \in FeedEvents
  BY <1>1, PipelineAssumption
  DEF MarketEvents, OrderBookEvents, NewsEvents, MarketRegimeChangedEvents
<1>2. CASE e \in SignalEvents
  BY <1>2 DEF SignalEvents
<1>3. CASE e \in Reactions
  BY <1>3 DEF Reactions, OrderEvents, PublishedFills, PortfolioUpdates
<1>4. CASE e = [type |-> "SYSTEM"]
  BY <1>4
<1>. QED BY <1>1, <1>2, <1>3, <1>4 DEF Events

LEMMA CurrentTyped ==
  ASSUME BusInv, MessageTypes, begun > 0
  PROVE  Current \in Events
BY LenProperties, ElementOfSeq DEF BusInv, LogTyped, MessageTypes, Current

(* What is held and the cash are worth an integer. *)
LEMMA EquityInteger == HoldingsTypes => TotalEquity \in Int
<1>. SUFFICES ASSUME HoldingsTypes PROVE TotalEquity \in Int
  OBVIOUS
<1>1. OpenPositionsValue \in Int
  BY HoldingsInteger DEF HoldingsTypes, PortfolioTypeOK, Positions
<1>2. cash \in Int
  BY DEF HoldingsTypes, PortfolioTypeOK
<1>. QED BY <1>1, <1>2 DEF TotalEquity

LEMMA EquityIntegerNext == HoldingsTypes' => TotalEquity' \in Int
<1>1. (HoldingsTypes => TotalEquity \in Int)'
  BY EquityInteger, PTL
<1>. QED BY <1>1

LEMMA NatProduct == \A a, b \in Nat : a * b \in Nat
OBVIOUS

LEMMA PositiveProduct == \A a, b \in Nat \ {0} : a * b \in Nat \ {0}
OBVIOUS

LEMMA QuotientNat == \A a \in Nat : \A b \in Nat \ {0} : a \div b \in Nat /\ a \div b <= a
OBVIOUS

(* RiskManager's quantities are integers. *)
LEMMA QuantityInteger ==
  ASSUME NEW equity \in Int, NEW price \in Nat \ {0}, NEW confidence \in Nat
  PROVE  OrderQuantity(equity, price, confidence) \in Int
<1>1. /\ RiskDivisor * 100 * price \in Nat \ {0}
      /\ MinQuantity \in Nat /\ MinOrderValue \in Nat
      /\ equity * confidence \in Int
  <2>1. RiskDivisor * 100 \in Nat \ {0} /\ MinQuantity \in Nat /\ MinOrderValue \in Nat
    BY PipelineAssumption
  <2>2. equity * confidence \in Int
    OBVIOUS
  <2>. QED BY <2>1, <2>2, PositiveProduct
<1>2. PICK raw : raw = (equity * confidence) \div (RiskDivisor * 100 * price)
  OBVIOUS
<1>3. raw \in Int
  BY <1>1, <1>2
<1>4. Max({raw, MinQuantity}) \in Int
  <2>1. \E x \in {raw, MinQuantity} : \A y \in {raw, MinQuantity} : x >= y
    BY <1>1, <1>3
  <2>2. Max({raw, MinQuantity}) \in {raw, MinQuantity}
    BY <2>1 DEF Max
  <2>. QED BY <1>1, <1>3, <2>2
<1>5. MinOrderValue \div price \in Int
  BY <1>1, QuotientNat
<1>. QED BY <1>2, <1>4, <1>5 DEF OrderQuantity

(* ExecutionHandler's fills are priced and charged in naturals. *)
LEMMA FillTyped ==
  ASSUME NEW o \in OrderEvents
  PROVE  FillPrice(o) \in Nat /\ (FillPrice(o) * o.quantity) \div CommissionDivisor \in Nat
<1>1. o.market_price \in Nat /\ o.quantity \in Nat /\ SlippageDivisor \in Nat \ {0}
      /\ CommissionDivisor \in Nat \ {0}
  BY PipelineAssumption DEF OrderEvents
<1>2. o.market_price \div SlippageDivisor \in Nat
      /\ o.market_price \div SlippageDivisor <= o.market_price
  BY <1>1, QuotientNat
<1>3. FillPrice(o) \in Nat
  BY <1>1, <1>2 DEF FillPrice
<1>. QED BY <1>1, <1>3, NatProduct, QuotientNat
-----------------------------------------------------------------------------
(* What PortfolioProofs proves of on_fill(), for the fills published here. *)
Books == INSTANCE PortfolioProofs WITH ledger <- <<>>, filled <- 0,
                                       Fills <- {}, MaxFills <- 0

FillOf(e) == [symbol |-> e.symbol, direction |-> e.direction, quantity |-> e.quantity,
              fill_price |-> e.fill_price, commission |-> e.commission]

LEMMA OnFillOf == ASSUME NEW e, OnFill(e) PROVE Books!OnFill(FillOf(e))
BY DEF OnFill, CashAfter, IsClosingTrade, Close, Open, Cost, Trade, Gain, Released,
       ClosedQuantity, PositionIn, NoPosition, FillOf,
       Books!OnFill, Books!CashAfter, Books!IsClosingTrade, Books!Close, Books!Open,
       Books!Cost, Books!Trade, Books!Gain, Books!Released, Books!ClosedQuantity,
       Books!PositionIn, Books!NoPosition

LEMMA FillKeepsTypes ==
  ASSUME HoldingsTypes, NEW e \in PublishedFills, OnFill(e)
  PROVE  HoldingsTypes'
<1>0. PICK f : f = FillOf(e)
  OBVIOUS
<1>1. f \in Books!FillEvents /\ Books!OnFill(f)
  BY <1>0, OnFillOf DEF FillOf, Books!FillEvents, PublishedFills, Directions, Books!Directions
<1>2. Books!PortfolioTypeOK
  BY DEF HoldingsTypes, PortfolioTypeOK, Books!PortfolioTypeOK, Positions, Trades,
         Books!Positions, Books!Trades, Directions, Books!Directions
<1>3. Books!LedgerAssumption /\ Books!PortfolioAssumption
  BY PortfolioAssumption DEF Books!LedgerAssumption, Books!PortfolioAssumption
<1>4. Books!PortfolioTypeOK'
  BY <1>1, <1>2, <1>3, Books!PortfolioTypeStep
<1>5. PortfolioTypeOK'
  BY <1>4 DEF PortfolioTypeOK, Books!PortfolioTypeOK, Positions, Trades, Books!Positions,
              Books!Trades, Directions, Books!Directions
<1>6. IsFiniteSet(DOMAIN positions')
  <2>1. \/ DOMAIN positions' = DOMAIN positions
        \/ \E x : DOMAIN positions' = DOMAIN positions \ {x}
        \/ \E x : DOMAIN positions' = DOMAIN positions \cup {x}
    BY DEF OnFill, Open, Close
  <2>. QED BY <2>1, FS_AddElement, FS_RemoveElement DEF HoldingsTypes
<1>. QED BY <1>5, <1>6 DEF HoldingsTypes
-----------------------------------------------------------------------------
(* The type of the event a callback is called with. *)
LEMMA CallType ==
  ASSUME BusInv, NEW c, Call(c)
  PROVE  /\ begun > 0
         /\ c = "StrategyManager.on_market_event" => Current.type = "MARKET"
         /\ c = "StrategyManager.on_order_book_event" => Current.type = "ORDER_BOOK"
         /\ c = "StrategyManager.on_news_event" => Current.type = "NEWS"
         /\ c = "StrategyManager.on_market_regime_event"
              => Current.type = "MARKET_REGIME_CHANGED"
         /\ c = "PortfolioManager.on_fill" => Current.type = "FILL"
         /\ c = "RiskManager.on_signal" => Current.type = "SIGNAL"
         /\ c = "RiskManager.on_market" => Current.type = "MARKET"
         /\ c = "RiskManager.on_portfolio_update" => Current.type = "PORTFOLIO_UPDATE"
         /\ c = "RiskManager.on_order_book" => Current.type = "ORDER_BOOK"
         /\ c = "ExecutionHandler.on_order" => Current.type = "ORDER"
         /\ c = "Analytics.on_portfolio_update" => Current.type = "PORTFOLIO_UPDATE"
<1>1. PICK t : t = Current.type
  OBVIOUS
<1>2. begun > 0 /\ [callback |-> c, type |-> t] \in Entries(Subscriptions)
  BY <1>1, Called
<1>3. /\ c = "StrategyManager.on_market_event" => t = "MARKET"
      /\ c = "StrategyManager.on_order_book_event" => t = "ORDER_BOOK"
      /\ c = "StrategyManager.on_news_event" => t = "NEWS"
      /\ c = "StrategyManager.on_market_regime_event" => t = "MARKET_REGIME_CHANGED"
      /\ c = "PortfolioManager.on_fill" => t = "FILL"
      /\ c = "RiskManager.on_signal" => t = "SIGNAL"
      /\ c = "RiskManager.on_market" => t = "MARKET"
      /\ c = "RiskManager.on_portfolio_update" => t = "PORTFOLIO_UPDATE"
      /\ c = "RiskManager.on_order_book" => t = "ORDER_BOOK"
      /\ c = "ExecutionHandler.on_order" => t = "ORDER"
      /\ c = "Analytics.on_portfolio_update" => t = "PORTFOLIO_UPDATE"
  BY <1>2, CallbackTypes
<1>. QED BY <1>1, <1>2, <1>3

LEMMA TypeInvInit == Init => TypeInv
<1>. SUFFICES ASSUME Init PROVE TypeInv
  OBVIOUS
<1>1. BusInv
  BY BusInvInit
<1>2. HoldingsTypes
  <2>1. DOMAIN positions = {} /\ trade_log \in Seq(Trades) /\ cash \in Int
    BY EmptySeq, PortfolioAssumption DEF Init, PortfolioInit
  <2>. QED BY <2>1, FS_EmptySet DEF HoldingsTypes, PortfolioTypeOK
<1>3. MessageTypes
  <2>1. log \in Seq(Events) /\ reaction \in Seq(Reactions)
    BY EmptySeq, Zenon DEF Init
  <2>2. calls \in [CallbacksOf(Subscriptions) -> Seq(Nat)]
    BY EmptySeq DEF Init
  <2>. QED BY <2>1, <2>2 DEF MessageTypes
<1>4. StrategyTypes
  <2>1. ASSUME NEW i \in StrategyIds PROVE Strategies[i].threshold \in Nat
    <3>1. Strategies[i] \in [kind : {"every_tick", "imbalance"}, symbol : Symbols,
                             threshold : Nat]
      BY PipelineAssumption, ElementOfSeq, LenProperties DEF StrategyIds
    <3>. QED BY <3>1
  <2>. QED BY <2>1 DEF Init, StrategyTypes
<1>5. RiskTypes
  BY PortfolioAssumption DEF Init, RiskTypes
<1>6. ReportTypes
  <2>1. equity_curve \in Seq(Int)
    BY EmptySeq, Zenon DEF Init
  <2>. QED BY <2>1 DEF Init, ReportTypes
<1>. QED BY <1>1, <1>2, <1>3, <1>4, <1>5, <1>6 DEF TypeInv

(* Publishing an event keeps the log typed ... *)
LEMMA PublishTyped ==
  ASSUME MessageTypes, NEW e \in Events, Publish(e)
  PROVE  log' \in Seq(Events)
BY AppendProperties DEF MessageTypes, Publish

(* ... and so does a call, and what the callback is yet to publish. *)
LEMMA CallTyped ==
  ASSUME BusInv, MessageTypes, NEW c, Call(c),
         reaction' = reaction \/ \E e \in Reactions : Reacts(e)
  PROVE  MessageTypes'
<1>1. c \in CallbacksOf(Subscriptions)
  <2>1. c \in Entries(pending) /\ pending \in Seq(CallbacksOf(Subscriptions))
    BY Called DEF BusInv, PendingWired
  <2>. QED BY <2>1, LenProperties, ElementOfSeq DEF Entries
<1>2. begun \in Nat /\ calls[c] \in Seq(Nat)
  BY <1>1, LenProperties DEF BusInv, LogTyped, MessageTypes
<1>3. Append(calls[c], begun) \in Seq(Nat)
  BY <1>2, AppendProperties
<1>4. calls' \in [CallbacksOf(Subscriptions) -> Seq(Nat)]
  BY <1>1, <1>3 DEF Call, MessageTypes
<1>5. reaction' \in Seq(Reactions)
  <2>1. CASE reaction' = reaction
    BY <2>1 DEF MessageTypes
  <2>2. ASSUME NEW e \in Reactions, Reacts(e) PROVE reaction' \in Seq(Reactions)
    BY <2>2 DEF Reacts
  <2>. QED BY <2>1, <2>2
<1>. QED BY <1>4, <1>5 DEF MessageTypes, Call

LEMMA StrategiesTyped ==
  ASSUME NEW i \in StrategyIds
  PROVE  Strategies[i] \in [kind : {"every_tick", "imbalance"}, symbol : Symbols,
                           threshold : Nat]
BY PipelineAssumption, ElementOfSeq, LenProperties DEF StrategyIds

(* RiskManager's orders ... *)
LEMMA SignalTyped ==
  ASSUME TypeInv, RiskOnSignal
  PROVE  MessageTypes'
<1>1. Call("RiskManager.on_signal") /\ Current \in SignalEvents
  <2>1. Call("RiskManager.on_signal")
    BY DEF RiskOnSignal
  <2>2. Current.type = "SIGNAL" /\ begun > 0
    BY <2>1, CallType DEF TypeInv
  <2>. QED BY <2>1, <2>2, CurrentTyped, EventKinds DEF TypeInv
<1>2. reaction' = reaction \/ \E e \in Reactions : Reacts(e)
  <2>1. CASE Current.symbol \notin DOMAIN latest_prices
    BY <2>1 DEF RiskOnSignal, ReturnsSilently
  <2>2. CASE Current.symbol \in DOMAIN latest_prices
    <3>1. PICK confidence \in TradeConfidence :
            LET price == latest_prices[Current.symbol]
                quantity == OrderQuantity(latest_equity, price, confidence)
            IN IF quantity <= 0 \/ quantity * price > latest_cash THEN ReturnsSilently
               ELSE Reacts([type |-> "ORDER", symbol |-> Current.symbol,
                             direction |-> Current.direction, quantity |-> quantity,
                             market_price |-> price, cause |-> begun])
      BY <2>2 DEF RiskOnSignal
    <3>2. PICK price, quantity : /\ price = latest_prices[Current.symbol]
                                 /\ quantity = OrderQuantity(latest_equity, price, confidence)
      OBVIOUS
    <3>3. price \in Nat \ {0} /\ confidence \in Nat
      <4>1. price \in Nat \ {0}
        BY <2>2, <3>2 DEF TypeInv, RiskTypes
      <4>2. TradeConfidence \subseteq 50 .. 100
        BY PipelineAssumption DEF TradeConfidence
      <4>. QED BY <4>1, <4>2
    <3>4. quantity \in Int
      BY <3>2, <3>3, QuantityInteger DEF TypeInv, RiskTypes
    <3>5. CASE quantity <= 0 \/ quantity * price > latest_cash
      BY <3>1, <3>2, <3>5 DEF ReturnsSilently
    <3>6. CASE ~ (quantity <= 0 \/ quantity * price > latest_cash)
      <4>1. PICK e : e = [type |-> "ORDER", symbol |-> Current.symbol,
                          direction |-> Current.direction, quantity |-> quantity,
                          market_price |-> price, cause |-> begun]
        OBVIOUS
      <4>2. Reacts(e)
        BY <3>1, <3>2, <3>6, <4>1
      <4>3. begun \in Nat
        BY LenProperties DEF TypeInv, BusInv, LogTyped
      <4>4. e \in OrderEvents
        BY <1>1, <3>3, <3>4, <3>6, <4>1, <4>3 DEF OrderEvents, SignalEvents
      <4>. QED BY <4>2, <4>4 DEF Reactions
    <3>. QED BY <3>5, <3>6
  <2>. QED BY <2>1, <2>2
<1>. QED BY <1>1, <1>2, CallTyped DEF TypeInv

(* ... ExecutionHandler's fills ... *)
LEMMA OrderTyped ==
  ASSUME TypeInv, OnOrder
  PROVE  MessageTypes'
<1>1. Call("ExecutionHandler.on_order") /\ Current \in OrderEvents
  <2>1. Call("ExecutionHandler.on_order")
    BY DEF OnOrder
  <2>2. Current.type = "ORDER" /\ begun > 0
    BY <2>1, CallType DEF TypeInv
  <2>. QED BY <2>1, <2>2, CurrentTyped, EventKinds DEF TypeInv
<1>2. begun \in Nat
  BY LenProperties DEF TypeInv, BusInv, LogTyped
<1>3. PICK p, c : /\ p = FillPrice(Current)
                  /\ c = (FillPrice(Current) * Current.quantity) \div CommissionDivisor
  OBVIOUS
<1>4. p \in Nat /\ c \in Nat
  BY <1>1, <1>3, FillTyped
<1>5. PICK e : e = [type |-> "FILL", symbol |-> Current.symbol,
                    direction |-> Current.direction, quantity |-> Current.quantity,
                    fill_price |-> p, commission |-> c, cause |-> begun]
  OBVIOUS
<1>6. Reacts(e)
  BY <1>3, <1>5 DEF OnOrder
<1>7. e \in PublishedFills
  BY <1>1, <1>2, <1>4, <1>5 DEF PublishedFills, OrderEvents
<1>. QED BY <1>1, <1>6, <1>7, CallTyped DEF TypeInv, Reactions

(* ... and the portfolio's updates are typed. *)
LEMMA FillOfOrderTyped ==
  ASSUME TypeInv, PortfolioOnFill
  PROVE  HoldingsTypes' /\ MessageTypes'
<1>1. Call("PortfolioManager.on_fill") /\ Current \in PublishedFills
  <2>1. Call("PortfolioManager.on_fill")
    BY DEF PortfolioOnFill
  <2>2. Current.type = "FILL" /\ begun > 0
    BY <2>1, CallType DEF TypeInv
  <2>. QED BY <2>1, <2>2, CurrentTyped, EventKinds DEF TypeInv
<1>2. HoldingsTypes'
  <2>1. PICK e : e = Current
    OBVIOUS
  <2>. QED BY <1>1, <2>1, FillKeepsTypes DEF PortfolioOnFill, TypeInv
<1>3. PICK q, m : q = TotalEquity' /\ m = cash'
  OBVIOUS
<1>4. q \in Int /\ m \in Int
  BY <1>2, <1>3, EquityIntegerNext DEF HoldingsTypes, PortfolioTypeOK
<1>5. begun' = begun /\ begun \in Nat
  BY <1>1, LenProperties DEF Call, bus_vars, TypeInv, BusInv, LogTyped
<1>6. Reacts([type |-> "PORTFOLIO_UPDATE", total_equity |-> q, cash |-> m, cause |-> begun])
  BY <1>3, <1>5 DEF PortfolioOnFill, PortfolioUpdate
<1>7. [type |-> "PORTFOLIO_UPDATE", total_equity |-> q, cash |-> m, cause |-> begun]
        \in Reactions
  BY <1>4, <1>5 DEF Reactions, PortfolioUpdates
<1>8. MessageTypes'
  BY <1>1, <1>6, <1>7, CallTyped DEF TypeInv
<1>. QED BY <1>2, <1>8

LEMMA TypeInvStep == TypeInv /\ [Next]_vars => TypeInv'
<1>. SUFFICES ASSUME TypeInv, [Next]_vars
              PROVE  HoldingsTypes' /\ MessageTypes' /\ StrategyTypes' /\ RiskTypes' /\ ReportTypes'
  BY BusInvStep DEF TypeInv
<1>1. UNCHANGED portfolio_vars => HoldingsTypes'
  BY DEF portfolio_vars, TypeInv, HoldingsTypes, PortfolioTypeOK
<1>2. UNCHANGED strategy_vars => StrategyTypes'
  BY DEF strategy_vars, TypeInv, StrategyTypes
<1>3. UNCHANGED risk_vars => RiskTypes'
  BY DEF risk_vars, TypeInv, RiskTypes
<1>4. UNCHANGED report_vars => ReportTypes'
  BY DEF report_vars, TypeInv, ReportTypes
<1>5. UNCHANGED <<log, reaction, calls>> => MessageTypes'
  BY DEF TypeInv, MessageTypes
<1>6. ASSUME NEW e \in Events, Publish(e), reaction' \in Seq(Reactions), UNCHANGED calls
      PROVE  MessageTypes'
  BY <1>6, PublishTyped DEF TypeInv, MessageTypes
<1>7. ASSUME NEW c, Call(c), UNCHANGED reaction PROVE MessageTypes'
  BY <1>7, CallTyped DEF TypeInv
<1>8. reaction \in Seq(Reactions)
  BY DEF TypeInv, MessageTypes
<1>9. begun \in Nat
  BY LenProperties DEF TypeInv, BusInv, LogTyped
<1>10. CASE UNCHANGED vars
  BY <1>1, <1>2, <1>3, <1>4, <1>5, <1>10 DEF vars, call_vars
<1>11. CASE Construct
  BY <1>1, <1>2, <1>3, <1>4, <1>5, <1>11 DEF Construct, call_vars
<1>12. CASE PortfolioStart
  <2>1. PICK e : Publish(e)
                 /\ e = [type |-> "PORTFOLIO_UPDATE", total_equity |-> InitialCapital,
                         cash |-> cash, cause |-> 0]
    BY <1>12 DEF PortfolioStart
  <2>2. cash \in Int /\ InitialCapital \in Int
    BY PortfolioAssumption DEF TypeInv, HoldingsTypes, PortfolioTypeOK
  <2>3. e \in Events
    BY <2>1, <2>2 DEF Events, Reactions, PortfolioUpdates
  <2>4. MessageTypes'
    BY <1>6, <1>8, <1>12, <2>1, <2>3 DEF PortfolioStart, call_vars
  <2>. QED BY <1>1, <1>2, <1>3, <1>4, <1>12, <2>4 DEF PortfolioStart
<1>13. CASE Feed
  <2>1. PICK e : Publish(e) /\ (e \in FeedEvents \/ e = [type |-> "SYSTEM"])
    BY <1>13 DEF Feed
  <2>2. MessageTypes'
    BY <1>6, <1>8, <1>13, <2>1 DEF Feed, call_vars, Events
  <2>. QED BY <1>1, <1>2, <1>3, <1>4, <1>13, <2>2 DEF Feed
<1>14. CASE Begin
  BY <1>1, <1>2, <1>3, <1>4, <1>5, <1>14 DEF Begin
<1>15. CASE PublishReaction
  <2>1. Head(reaction) \in Reactions /\ Tail(reaction) \in Seq(Reactions)
    BY <1>8, <1>15, HeadTailProperties DEF PublishReaction
  <2>2. MessageTypes'
    BY <1>6, <1>15, <2>1 DEF PublishReaction, Events
  <2>. QED BY <1>1, <1>2, <1>3, <1>4, <1>15, <2>2 DEF PublishReaction
<1>16. CASE EnterLoop
  <2>1. MessageTypes'
    BY <1>7, <1>16 DEF EnterLoop
  <2>. QED BY <1>1, <1>2, <1>3, <1>4, <1>16, <2>1 DEF EnterLoop
<1>17. CASE Evaluate
  <2>1. begun > 0 /\ Current.type \in {"MARKET", "ORDER_BOOK"}
    BY <1>17 DEF Evaluate, TypeInv, BusInv, InCallback
  <2>2. Current.symbol \in Symbols
    BY <2>1, CurrentTyped, EventKinds DEF TypeInv, MarketEvents, OrderBookEvents
  <2>3. CASE log' = log
    BY <1>1, <1>2, <1>3, <1>4, <1>5, <1>17, <2>3 DEF Evaluate
  <2>4. CASE log' # log
    <3>1. PICK s : /\ s \in IF Current.type = "MARKET" THEN MarketSignals(loop, Current)
                                                     ELSE BookSignals(loop, Current)
                   /\ Publish([type |-> "SIGNAL", symbol |-> s.symbol,
                               direction |-> s.direction, cause |-> begun])
      BY <1>17, <2>4 DEF Evaluate
    <3>2. s.symbol \in Symbols /\ s.direction \in Directions
      BY <2>2, <3>1 DEF MarketSignals, BookSignals, Directions
    <3>3. [type |-> "SIGNAL", symbol |-> s.symbol,
           direction |-> s.direction, cause |-> begun] \in Events
      BY <1>9, <3>2 DEF Events, SignalEvents
    <3>4. MessageTypes'
      BY <1>6, <1>8, <1>17, <3>1, <3>3 DEF Evaluate
    <3>. QED BY <1>1, <1>2, <1>3, <1>4, <1>17, <3>4 DEF Evaluate
  <2>. QED BY <2>3, <2>4
<1>18. CASE OnNews
  <2>1. Call("StrategyManager.on_news_event") /\ reaction' = reaction
    BY <1>18 DEF OnNews, ReturnsSilently
  <2>2. Current \in NewsEvents
    <3>1. Current.type = "NEWS" /\ begun > 0
      BY <2>1, CallType DEF TypeInv
    <3>. QED BY <3>1, CurrentTyped, EventKinds DEF TypeInv
  <2>3. StrategyTypes'
    <3>1. thresholds' = thresholds /\ DOMAIN sentiment_scores' = StrategyIds
      BY <1>18 DEF OnNews
    <3>2. ASSUME NEW i \in StrategyIds, NEW s \in DOMAIN sentiment_scores'[i]
          PROVE  sentiment_scores'[i][s] \in -2 .. 2
      <4>1. sentiment_scores'[i] = IF Imbalance(i)
              THEN Put(sentiment_scores[i], Current.symbol, Current.sentiment)
              ELSE sentiment_scores[i]
        BY <1>18 DEF OnNews
      <4>. QED BY <2>2, <3>2, <4>1 DEF Put, NewsEvents, TypeInv, StrategyTypes
    <3>. QED BY <3>1, <3>2 DEF TypeInv, StrategyTypes, StrategyIds
  <2>. QED BY <1>1, <1>3, <1>4, <1>7, <1>18, <2>1, <2>3 DEF OnNews
<1>19. CASE OnMarketRegime
  <2>1. Call("StrategyManager.on_market_regime_event") /\ reaction' = reaction
    BY <1>19 DEF OnMarketRegime, ReturnsSilently
  <2>2. StrategyTypes'
    <3>1. ASSUME NEW i \in StrategyIds
          PROVE  /\ Strategies[i].threshold \in Nat
                 /\ (Strategies[i].threshold * 3) \div 2 \in Nat
      <4>1. Strategies[i].threshold \in Nat
        BY StrategiesTyped
      <4>. QED BY <4>1
    <3>2. thresholds' \in [StrategyIds -> Nat]
      BY <1>19, <3>1 DEF OnMarketRegime
    <3>. QED BY <1>19, <3>2 DEF OnMarketRegime, TypeInv, StrategyTypes, StrategyIds
  <2>. QED BY <1>1, <1>3, <1>4, <1>7, <1>19, <2>1, <2>2 DEF OnMarketRegime
<1>20. CASE RiskOnMarket
  <2>1. Call("RiskManager.on_market") /\ reaction' = reaction
    BY <1>20 DEF RiskOnMarket, ReturnsSilently
  <2>2. Current \in MarketEvents
    <3>1. Current.type = "MARKET" /\ begun > 0
      BY <2>1, CallType DEF TypeInv
    <3>. QED BY <3>1, CurrentTyped, EventKinds DEF TypeInv
  <2>3. RiskTypes'
    BY <1>20, <2>2 DEF RiskOnMarket, Put, MarketEvents, TypeInv, RiskTypes
  <2>. QED BY <1>1, <1>2, <1>4, <1>7, <1>20, <2>1, <2>3 DEF RiskOnMarket
<1>21. CASE RiskOnOrderBook
  <2>1. Call("RiskManager.on_order_book") /\ reaction' = reaction
    BY <1>21 DEF RiskOnOrderBook, ReturnsSilently
  <2>2. Current \in OrderBookEvents
    <3>1. Current.type = "ORDER_BOOK" /\ begun > 0
      BY <2>1, CallType DEF TypeInv
    <3>. QED BY <3>1, CurrentTyped, EventKinds DEF TypeInv
  <2>3. RiskTypes'
    BY <1>21, <2>2 DEF RiskOnOrderBook, Put, OrderBookEvents, TypeInv, RiskTypes
  <2>. QED BY <1>1, <1>2, <1>4, <1>7, <1>21, <2>1, <2>3 DEF RiskOnOrderBook
<1>22. CASE RiskOnPortfolioUpdate
  <2>1. Call("RiskManager.on_portfolio_update") /\ reaction' = reaction
    BY <1>22 DEF RiskOnPortfolioUpdate, ReturnsSilently
  <2>2. Current \in PortfolioUpdates
    <3>1. Current.type = "PORTFOLIO_UPDATE" /\ begun > 0
      BY <2>1, CallType DEF TypeInv
    <3>. QED BY <3>1, CurrentTyped, EventKinds DEF TypeInv
  <2>3. RiskTypes'
    BY <1>22, <2>2 DEF RiskOnPortfolioUpdate, PortfolioUpdates, TypeInv, RiskTypes
  <2>. QED BY <1>1, <1>2, <1>4, <1>7, <1>22, <2>1, <2>3 DEF RiskOnPortfolioUpdate
<1>23. CASE RiskOnSignal
  BY <1>1, <1>2, <1>3, <1>4, <1>23, SignalTyped DEF RiskOnSignal
<1>24. CASE OnOrder
  BY <1>1, <1>2, <1>3, <1>4, <1>24, OrderTyped DEF OnOrder
<1>25. CASE PortfolioOnFill
  BY <1>2, <1>3, <1>4, <1>25, FillOfOrderTyped DEF PortfolioOnFill
<1>26. CASE AnalyticsOnPortfolioUpdate
  <2>1. Call("Analytics.on_portfolio_update") /\ reaction' = reaction
    BY <1>26 DEF AnalyticsOnPortfolioUpdate, ReturnsSilently
  <2>2. Current \in PortfolioUpdates
    <3>1. Current.type = "PORTFOLIO_UPDATE" /\ begun > 0
      BY <2>1, CallType DEF TypeInv
    <3>. QED BY <3>1, CurrentTyped, EventKinds DEF TypeInv
  <2>3. ReportTypes'
    <3>1. Current.total_equity \in Int /\ equity_curve \in Seq(Int)
      BY <2>2 DEF PortfolioUpdates, TypeInv, ReportTypes
    <3>2. equity_curve' \in Seq(Int)
      BY <1>26, <3>1, AppendProperties DEF AnalyticsOnPortfolioUpdate
    <3>. QED BY <1>26, <3>2 DEF AnalyticsOnPortfolioUpdate, TypeInv, ReportTypes
  <2>. QED BY <1>1, <1>2, <1>3, <1>7, <1>26, <2>1, <2>3 DEF AnalyticsOnPortfolioUpdate
<1>27. CASE OnSystem
  <2>1. Call("Application.on_system") /\ reaction' = reaction
    BY <1>27 DEF OnSystem, ReturnsSilently
  <2>2. ReportTypes'
    BY <1>27 DEF OnSystem, TypeInv, ReportTypes
  <2>. QED BY <1>1, <1>2, <1>3, <1>7, <1>27, <2>1, <2>2 DEF OnSystem
<1>. QED BY <1>10, <1>11, <1>12, <1>13, <1>14, <1>15, <1>16, <1>17, <1>18, <1>19, <1>20,
            <1>21, <1>22, <1>23, <1>24, <1>25, <1>26, <1>27 DEF Next

(* Every event of the log and everything the components keep of it is of   *)
(* the type the code gives it, whatever is fed and however far ahead of    *)
(* the dispatch thread.                                                    *)
THEOREM PipelineTypeCorrect == Spec => []TypeOK
<1>1. Spec => []TypeInv
  BY TypeInvInit, TypeInvStep, PTL DEF Spec
<1>. QED BY <1>1, TypesSuffice, PTL
=============================================================================
