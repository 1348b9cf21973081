----------------------------- MODULE MCEventBus -----------------------------
(***************************************************************************)
(* A small bus for TLC: market data makes a strategy publish a signal,     *)
(* market data also goes to the risk manager, and so does the signal.      *)
(***************************************************************************)
EXTENDS EventBus

CONSTANTS MARKET, SIGNAL,                       \* event types
          strategy, risk_market, risk_signal    \* callbacks

MCTypeOf == [c \in Callbacks |-> IF c = risk_signal THEN SIGNAL ELSE MARKET]
MCPublishes == [c \in Callbacks |-> IF c = strategy THEN <<SIGNAL>> ELSE <<>>]
=============================================================================
