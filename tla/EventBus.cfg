SPECIFICATION FairSpec
CONSTANTS
  MARKET = MARKET
  SIGNAL = SIGNAL
  strategy = strategy
  risk_market = risk_market
  risk_signal = risk_signal
  EventTypes = {MARKET, SIGNAL}
  Callbacks = {strategy, risk_market, risk_signal}
  TypeOf <- MCTypeOf
  Publishes <- MCPublishes
  Producers = {p1, p2}
  Sources = {MARKET}
  MaxPublished = 2
INVARIANTS
  TypeOK
  Drained
  NoLostPublish
  ExactlyOnceInOrder
PROPERTIES
  Broadcasts
  EventuallyTaken
  StopReturnsOrParked
