----------------------------- MODULE Strategies -----------------------------
(***************************************************************************)
(* The choice of a strategy by name, which main and the backtester both    *)
(* make, and the call of its on_orderbook.                                 *)
(***************************************************************************)
EXTENDS PingPong, MomentumScalp

CONSTANT Configured    \* the names the configuration may give

VARIABLE strategy

strategyVars == <<strategy, positionVars, momentumVars>>

Known == {"noop", "pingpong", "momentum"}

StrategiesTypeOK ==
    /\ strategy \in Known
    /\ PositionTypeOK
    /\ MomentumTypeOK

(* main falls back to noop for a name it does not know. *)
StrategiesInit ==
    /\ \E name \in Configured : strategy = IF name \in Known THEN name ELSE "noop"
    /\ PositionInit
    /\ MomentumInit

(* What on_orderbook returns ... *)
SignalOf(q) ==
    CASE strategy = "pingpong" -> PingPongSignal(q)
      [] strategy = "momentum" -> MomentumSignal(q)
      [] strategy = "noop"     -> NoSignal

(* ... and what it does to the strategy. *)
Asked(q) ==
    /\ \/ strategy = "pingpong" /\ PingPongAsked(q) /\ UNCHANGED momentumVars
       \/ strategy = "momentum" /\ MomentumAsked(q)
       \/ strategy = "noop" /\ UNCHANGED <<positionVars, momentumVars>>
    /\ UNCHANGED strategy
=============================================================================
