---------------------------- MODULE MCMarketData ----------------------------
(***************************************************************************)
(* MarketData for TLC: two levels that symmetry may exchange, and the      *)
(* stuttering of a behaviour whose exchange has reached MaxId and whose    *)
(* tasks have nothing left to do.                                          *)
(***************************************************************************)
EXTENDS MarketData, TLC

CONSTANT FaultyIds     \* changes explored with all faults

CONSTANTS ConnectFails, Losses, InitFails, PollFails, WatchdogFires, Trades

MCBound ==
    [connectFail |-> ConnectFails, loss |-> Losses, initFail |-> InitFails,
     pollFail |-> PollFails, watchdog |-> WatchdogFires, trade |-> Trades]

Symmetry == Permutations(Level)

(* Beyond FaultyIds changes of the exchange only one connection is         *)
(* explored, with a lost message and a failing fetch, or with a trade;     *)
(* before it every fault and two connections.                              *)
Explored ==
    \/ exId <= FaultyIds /\ budget["trade"] = Trades
    \/ /\ exId > FaultyIds /\ conn = 1
       /\ \A k \in {"connectFail", "initFail", "watchdog"} : budget[k] = Bound[k]
       /\ \/ budget["trade"] = Trades
          \/ budget["loss"] = Losses /\ budget["pollFail"] = PollFails
       /\ reader = "read" /\ ~silent

Quiet ==
    /\ exId = MaxId
    /\ market = << >> /\ ~resync_needed /\ watchdog = "sleep"
    /\ \A c \in 1 .. conn : initial[c].pc = "done" /\ poller[c].pc = "poll"
    /\ reader = "read"
    /\ UNCHANGED vars

MCSpec == Init /\ [][Next \/ Quiet]_vars

MCFairSpec == MCSpec /\ Fairness
=============================================================================
