---------------------------- MODULE RiskChecker ----------------------------
(***************************************************************************)
(* The pre-trade checks of the book thread (src/src/risk.rs).  check() is  *)
(* one action per way out of it: a signal fails one of the limits, fails   *)
(* the rate limit, draws an order id that is still remembered, or becomes  *)
(* a ValidatedOrder.                                                       *)
(*                                                                         *)
(* Prices and quantities are natural numbers, quantities in steps of the   *)
(* exchange.  Money is counted in 1/Unit of the product of the two, so     *)
(* that percentages with two decimals are exact.                           *)
(***************************************************************************)
EXTENDS Integers, FiniteSets, SequencesExt

CONSTANTS
    MaxOrderQty,       \* risk.max_order_qty
    MinFreeBalance,    \* risk.min_free_balance_usdt
    PriceBandBp,       \* risk.price_band_pct, in basis points
    MaxOrdersPerSec,   \* risk.max_orders_per_sec
    Second,            \* clock ticks in a second
    MaxSeen            \* MAX_SEEN_ORDER_IDS

ASSUME RiskAssumption ==
    /\ {MaxOrderQty, MinFreeBalance, PriceBandBp, MaxOrdersPerSec} \subseteq Nat
    /\ {Second, MaxSeen} \subseteq Nat \ {0}

VARIABLES
    now,               \* the monotonic clock
    order_timestamps,  \* when the orders of the last second were approved
    seen_order_ids,    \* ids that may not be drawn again
    seen_order_queue,  \* the same ids, oldest first
    approved           \* history: the id and the time of every approved order

riskVars == <<order_timestamps, seen_order_ids, seen_order_queue, approved>>

Unit == 10000

Headroom == 10         \* 0.1 % of an order's notional

Signal == [side : {"Buy", "Sell"}, price : Nat, qty : Nat]

RiskTypeOK ==
    /\ now \in Nat
    /\ order_timestamps \in Seq(Nat) /\ Len(order_timestamps) <= MaxOrdersPerSec
    /\ Len(seen_order_queue) <= MaxSeen
    /\ seen_order_ids = {seen_order_queue[i] : i \in DOMAIN seen_order_queue}

RiskInit ==
    /\ now = 0
    /\ order_timestamps = << >>
    /\ seen_order_ids = {}
    /\ seen_order_queue = << >>
    /\ approved = << >>

Abs(x) == IF x < 0 THEN -x ELSE x

(* The price is near the one the book shows; no price, no check. *)
InBand(sig, mid) == mid > 0 => Abs(sig.price - mid) * Unit <= PriceBandBp * mid

(* Mutant: no headroom for the fee. *)
AffordableWithoutFee(sig, balance) ==
    /\ balance >= MinFreeBalance * Unit
    /\ sig.price * sig.qty * Unit <= balance

Affordable(sig, balance) ==
    /\ balance >= MinFreeBalance * Unit
    /\ sig.price * sig.qty * (Unit + Headroom) <= balance

(* Mutant: the kill switch forgotten. *)
WithinLimitsUnhalted(sig, mid, balance, halted) ==
    /\ sig.qty <= MaxOrderQty
    /\ sig.side = "Buy" => Affordable(sig, balance)
    /\ InBand(sig, mid)

(* The kill switch, the size, the balance (for buys only) and the price band. *)
WithinLimits(sig, mid, balance, halted) ==
    /\ ~halted
    /\ sig.qty <= MaxOrderQty
    /\ sig.side = "Buy" => Affordable(sig, balance)
    /\ InBand(sig, mid)

(* Mutant: a window that forgets an order one tick early. *)
RetainShort(kept, t) == IF now - t < Second - 1 THEN Append(kept, t) ELSE kept

Retain(kept, t) == IF now - t < Second THEN Append(kept, t) ELSE kept

(* order_timestamps.retain: what is left of the last second. *)
Recent == FoldLeft(Retain, << >>, order_timestamps)

RejectLimits(sig, mid, balance, halted) ==
    /\ ~WithinLimits(sig, mid, balance, halted)
    /\ UNCHANGED <<now, riskVars>>

RejectRate(sig, mid, balance, halted) ==
    /\ WithinLimits(sig, mid, balance, halted)
    /\ Len(Recent) >= MaxOrdersPerSec
    /\ order_timestamps' = Recent
    /\ UNCHANGED <<now, seen_order_ids, seen_order_queue, approved>>

RejectDuplicate(sig, mid, balance, halted, id) ==
    /\ WithinLimits(sig, mid, balance, halted)
    /\ Len(Recent) < MaxOrdersPerSec
    /\ id \in seen_order_ids
    /\ order_timestamps' = Recent
    /\ UNCHANGED <<now, seen_order_ids, seen_order_queue, approved>>

(* The ids still remembered when a new one has to fit in. *)
Evicted == IF Len(seen_order_queue) >= MaxSeen THEN {Head(seen_order_queue)} ELSE {}

(* Mutant: nothing leaves the queue. *)
KeptAll == seen_order_queue

Kept == IF Len(seen_order_queue) >= MaxSeen THEN Tail(seen_order_queue) ELSE seen_order_queue

(* Mutant: the id is remembered in the queue only. *)
ApproveUnremembered(sig, mid, balance, halted, id) ==
    /\ WithinLimits(sig, mid, balance, halted)
    /\ Len(Recent) < MaxOrdersPerSec
    /\ id \notin seen_order_ids
    /\ seen_order_ids' = seen_order_ids \ Evicted
    /\ seen_order_queue' = Append(Kept, id)
    /\ order_timestamps' = Append(Recent, now)
    /\ approved' = Append(approved, [id |-> id, at |-> now])
    /\ UNCHANGED now

Approve(sig, mid, balance, halted, id) ==
    /\ WithinLimits(sig, mid, balance, halted)
    /\ Len(Recent) < MaxOrdersPerSec
    /\ id \notin seen_order_ids
    /\ seen_order_ids' = (seen_order_ids \ Evicted) \cup {id}
    /\ seen_order_queue' = Append(Kept, id)
    /\ order_timestamps' = Append(Recent, now)
    /\ approved' = Append(approved, [id |-> id, at |-> now])
    /\ UNCHANGED now

ClockTick ==
    /\ now' = now + 1
    /\ UNCHANGED riskVars

-----------------------------------------------------------------------------
(***************************************************************************)
(* In no second, wherever it starts, are more than max_orders_per_sec      *)
(* orders approved: pruning the timestamps at each check loses none that   *)
(* still counts.                                                           *)
(***************************************************************************)
RateLimited ==
    \A t \in 0 .. now :
        Cardinality({i \in DOMAIN approved : approved[i].at \in t .. t + Second - 1})
            <= MaxOrdersPerSec

(***************************************************************************)
(* No id is given to two of any MaxSeen + 1 consecutive orders, however    *)
(* often the id generator repeats itself: the bounded set and the queue    *)
(* that evicts from it stay in step.                                       *)
(***************************************************************************)
NoDuplicateInWindow ==
    \A i, j \in DOMAIN approved :
        i < j /\ j - i <= MaxSeen => approved[i].id # approved[j].id
=============================================================================
