----------------------------- MODULE MCBacktest -----------------------------
(***************************************************************************)
(* Backtest for TLC: the levels that the walk and the snapshot can quote,  *)
(* and a walk that may fall by a level, stay or rise by half a level.      *)
(***************************************************************************)
EXTENDS Backtest

Span == IF SnapLevels > 2 THEN SnapLevels ELSE 2

MCLevel ==
    [side : {"bid"}, price : BasePrice - MaxDrift - Span * Gap .. BasePrice + MaxDrift]
    \cup
    [side : {"ask"}, price : BasePrice - MaxDrift .. BasePrice + MaxDrift + Span * Gap]

MCSteps == [file |-> {1}, synthetic |-> {-2, 0, 1}]
Leaning == {[bid |-> 2, ask |-> 1], [bid |-> 1, ask |-> 2]}
=============================================================================
