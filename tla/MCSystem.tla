------------------------------ MODULE MCSystem ------------------------------
(***************************************************************************)
(* System for TLC: two bids and one ask, so that the best bid moves and    *)
(* the book has both sides or not, the bounds of MCMarketData, and an      *)
(* exchange that starts with all three levels.                             *)
(***************************************************************************)
EXTENDS System

CONSTANTS
    SecondIds, Losses, PollFails, Trades

MCLevel ==
    {[side |-> "bid", price |-> 1990], [side |-> "bid", price |-> 2000],
     [side |-> "ask", price |-> 2002]}

MCBound ==
    [connectFail |-> 0, loss |-> Losses, initFail |-> 0,
     pollFail |-> PollFails, watchdog |-> 0, trade |-> Trades]

(* A second connection comes into play with at most SecondIds changes of   *)
(* the exchange, more changes and the trade with one connection.           *)
Explored ==
    \/ exId <= SecondIds /\ budget["trade"] = Trades
    \/ exId > SecondIds /\ conn <= 1 /\ reader \in {"connect", "read"}

MCSpec ==
    /\ SystemInit /\ hist[0] = [l \in Level |-> 1]
    /\ [][SystemNext /\ Explored']_systemVars
    /\ SystemFairness
=============================================================================
