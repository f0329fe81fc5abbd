------------------------------ MODULE FifoPnl -------------------------------
(***************************************************************************)
(* The FIFO profit-and-loss tracker (src/src/pnl.rs, FifoPnl), which the   *)
(* paper account and the backtester share, as operators on the queue of    *)
(* open buys.  The loop of on_sell is a fold over the queue.               *)
(*                                                                         *)
(* Quantities are whole steps, so QTY_EPSILON separates 0 from 1: what is  *)
(* not modelled is the dust that f64 subtraction can leave.                *)
(***************************************************************************)
EXTENDS Integers, SequencesExt

Lot == [price : Nat, qty : Nat \ {0}]

(* One iteration of on_sell: match what remains against a lot. *)
MatchLot(price, acc, lot) ==
    LET matched == IF acc.remaining <= lot.qty THEN acc.remaining ELSE lot.qty
    IN  [remaining |-> acc.remaining - matched,
         pnl |-> acc.pnl + (price - lot.price) * matched,
         queue |-> IF matched = lot.qty
                   THEN acc.queue
                   ELSE Append(acc.queue, [lot EXCEPT !.qty = @ - matched])]

(* Mutant: the newest lot first. *)
MatchSellLifo(queue, price, qty) ==
    LET m == FoldLeft(LAMBDA acc, lot : MatchLot(price, acc, lot),
                      [remaining |-> qty, pnl |-> 0, queue |-> << >>], Reverse(queue))
    IN  [m EXCEPT !.queue = Reverse(@)]

MatchSell(queue, price, qty) ==
    FoldLeft(LAMBDA acc, lot : MatchLot(price, acc, lot),
             [remaining |-> qty, pnl |-> 0, queue |-> << >>], queue)

Total(f) == FoldLeft(LAMBDA sum, x : sum + x, 0, f)

(* position_qty and position_notional. *)
OpenQty(queue) == Total([i \in DOMAIN queue |-> queue[i].qty])

OpenNotional(queue) == Total([i \in DOMAIN queue |-> queue[i].price * queue[i].qty])
=============================================================================
