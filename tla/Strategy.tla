------------------------------ MODULE Strategy ------------------------------
(***************************************************************************)
(* What the strategies share (src/src/strategy/mod.rs): a strategy is      *)
(* shown the top of the book and answers with a signal.  A quote is what   *)
(* they read of an OrderbookSnapshot: the best prices and the volume of    *)
(* the top levels.  A snapshot with an empty side is no quote: every       *)
(* strategy holds on it and changes nothing.                               *)
(*                                                                         *)
(* A strategy changes its state when it emits a signal; it never learns    *)
(* what the risk checker made of it.  Quantities are whole steps of        *)
(* QTY_STEP, percentages basis points.                                     *)
(***************************************************************************)
EXTENDS Integers

CONSTANTS
    OrderQty,          \* qty
    Budget             \* max_notional

ASSUME StrategyAssumption == {OrderQty, Budget} \subseteq Nat

VARIABLES
    holding,           \* the strategy believes that it has a position
    entry_price,
    entry_qty

positionVars == <<holding, entry_price, entry_qty>>

Quote == [bid : Nat, ask : Nat, bidVol : Nat, askVol : Nat]

NoSignal == [side |-> "Hold"]

Buy(price, qty) == [side |-> "Buy", price |-> price, qty |-> qty]

Sell(price, qty) == [side |-> "Sell", price |-> price, qty |-> qty]

PositionTypeOK == holding \in BOOLEAN /\ {entry_price, entry_qty} \subseteq Nat

PositionInit == holding = FALSE /\ entry_price = 0 /\ entry_qty = 0

(* entry_qty_at: the configured quantity, cut down to the budget. *)
EntryQty(price) ==
    IF price > 0 /\ Budget \div price < OrderQty THEN Budget \div price ELSE OrderQty

(* Mutant: the position remembered with the quantity of the configuration. *)
EnterUncut(price) ==
    /\ holding' = TRUE
    /\ entry_price' = price
    /\ entry_qty' = OrderQty

Enter(price) ==
    /\ holding' = TRUE
    /\ entry_price' = price
    /\ entry_qty' = EntryQty(price)

Exit == holding' = FALSE /\ UNCHANGED <<entry_price, entry_qty>>

(* A price at least bp basis points above the entry, or below it. *)
Gained(price, bp) == price * 10000 >= entry_price * (10000 + bp)

Lost(price, bp) == price * 10000 <= entry_price * (10000 - bp)
=============================================================================
