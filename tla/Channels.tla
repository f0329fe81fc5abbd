------------------------------ MODULE Channels ------------------------------
(***************************************************************************)
(* What the threads and tasks of main() share: the bounded market channel  *)
(* (crossbeam, capacity 1024) and the resync_needed flag.  send() blocks   *)
(* while the channel is full: an action that sends is enabled only when    *)
(* there is room.                                                          *)
(***************************************************************************)
EXTENDS Types

CONSTANT MarketCap     \* capacity of the market channel

ASSUME MarketCapAssumption == MarketCap \in Nat \ {0}

VARIABLES
    market,            \* the market channel, oldest event first
    resync_needed      \* the AtomicBool between the book and the pollers

Room == Len(market) < MarketCap

Send(event) ==
    /\ Room
    /\ market' = Append(market, event)

Waiting(type) == market # << >> /\ Head(market).type = type

Receive(type) ==
    /\ Waiting(type)
    /\ market' = Tail(market)
=============================================================================
