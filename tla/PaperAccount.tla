---------------------------- MODULE PaperAccount ----------------------------
(***************************************************************************)
(* The simulated account (src/src/pnl.rs, PaperAccount): cash and fees     *)
(* around a FifoPnl.  The account is only touched under its write lock, so *)
(* on_buy and on_sell are atomic.  Money is counted in 1/Cent of price     *)
(* times quantity.                                                         *)
(***************************************************************************)
EXTENDS FifoPnl

CONSTANTS
    Capital,           \* paper.initial_capital_usdt
    FeeBp              \* paper.fee_pct, in basis points

ASSUME AccountAssumption == Capital \in Nat /\ FeeBp \in Nat

VARIABLES
    buy_queue,         \* open buys, oldest first: price and remaining quantity
    realized_pnl,
    buy_notional,
    cash,
    total_fees,
    bought             \* history: every buy, as it was filled

accountVars == <<buy_queue, realized_pnl, buy_notional, cash, total_fees, bought>>

Cent == 10000

AccountTypeOK ==
    /\ buy_queue \in Seq(Lot)
    /\ {realized_pnl, cash} \subseteq Int
    /\ {buy_notional, total_fees} \subseteq Nat
    /\ bought \in Seq(Lot)

AccountInit ==
    /\ buy_queue = << >>
    /\ realized_pnl = 0
    /\ buy_notional = 0
    /\ cash = Capital * Cent
    /\ total_fees = 0
    /\ bought = << >>

(* PaperAccount::on_buy and FifoPnl::on_buy. *)
OnBuy(price, qty) ==
    /\ buy_queue' = Append(buy_queue, [price |-> price, qty |-> qty])
    /\ buy_notional' = buy_notional + price * qty
    /\ cash' = cash - price * qty * (Cent + FeeBp)
    /\ total_fees' = total_fees + price * qty * FeeBp
    /\ bought' = Append(bought, [price |-> price, qty |-> qty])
    /\ UNCHANGED realized_pnl

(* Mutant: cash credited for the whole order, matched or not. *)
OnSellUnmatched(price, qty) ==
    LET m == MatchSell(buy_queue, price, qty)
    IN  /\ buy_queue' = m.queue
        /\ realized_pnl' = realized_pnl + m.pnl
        /\ cash' = cash + price * qty * (Cent - FeeBp)
        /\ total_fees' = total_fees + price * qty * FeeBp
        /\ UNCHANGED <<buy_notional, bought>>

(* PaperAccount::on_sell: cash and fees only for the quantity matched. *)
OnSell(price, qty) ==
    LET m == MatchSell(buy_queue, price, qty)
        matched == qty - m.remaining
    IN  /\ buy_queue' = m.queue
        /\ realized_pnl' = realized_pnl + m.pnl
        /\ cash' = cash + price * matched * (Cent - FeeBp)
        /\ total_fees' = total_fees + price * matched * FeeBp
        /\ UNCHANGED <<buy_notional, bought>>

PositionQty == OpenQty(buy_queue)

(* equity() without a mark price: the position at its cost. *)
Equity == cash + OpenNotional(buy_queue) * Cent

-----------------------------------------------------------------------------
(***************************************************************************)
(* The books balance: cash plus the cost of the open position is the       *)
(* initial capital plus the realized profit less the fees.  No sequence of *)
(* buys, sells, partial matches and unmatched sells makes or loses money.  *)
(***************************************************************************)
LedgerBalances == Equity = (Capital + realized_pnl) * Cent - total_fees

(***************************************************************************)
(* Matching is first in, first out: what is open is the latest buys as     *)
(* they were filled, except that the oldest of them may be partly sold.    *)
(***************************************************************************)
FifoOrder ==
    \/ buy_queue = << >>
    \/ LET oldest == Len(bought) - Len(buy_queue) + 1
       IN  /\ oldest >= 1
           /\ Tail(buy_queue) = SubSeq(bought, oldest + 1, Len(bought))
           /\ Head(buy_queue).price = bought[oldest].price
           /\ Head(buy_queue).qty <= bought[oldest].qty
=============================================================================
