------------------------------ MODULE PingPong ------------------------------
(***************************************************************************)
(* The ping-pong strategy (src/src/strategy/ping_pong.rs): buy at the best *)
(* bid, sell at the best ask for a profit or at the best bid to stop.      *)
(***************************************************************************)
EXTENDS Strategy

CONSTANTS
    EdgeBp,            \* min_edge_pct
    StopBp             \* stop_pct

ASSUME PingPongAssumption == {EdgeBp, StopBp} \subseteq Nat

PingPongEnters(q) == ~holding /\ EntryQty(q.bid) > 0

PingPongExits(q) == holding /\ (Gained(q.ask, EdgeBp) \/ Lost(q.bid, StopBp))

PingPongSignal(q) ==
    CASE PingPongEnters(q) -> Buy(q.bid, EntryQty(q.bid))
      [] PingPongExits(q)  -> Sell(IF Gained(q.ask, EdgeBp) THEN q.ask ELSE q.bid, entry_qty)
      [] OTHER             -> NoSignal

PingPongAsked(q) ==
    \/ PingPongEnters(q) /\ Enter(q.bid)
    \/ PingPongExits(q) /\ Exit
    \/ ~PingPongEnters(q) /\ ~PingPongExits(q) /\ UNCHANGED positionVars
=============================================================================
