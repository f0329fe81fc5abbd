------------------------------ MODULE Trading -------------------------------
(***************************************************************************)
(* From a live book to a filled order (src/src/main.rs and                 *)
(* src/src/execution.rs).  The book thread asks the strategy, has the      *)
(* signal checked and sends the order over a bounded channel, blocking     *)
(* while it is full.  The executor task takes orders one at a time,        *)
(* changes the account and then stores the cash balance in an atomic,      *)
(* which is all that the next risk check knows of the account.             *)
(***************************************************************************)
EXTENDS RiskChecker, PaperAccount, Strategies, KillSwitch

CONSTANTS
    OrderCap,          \* capacity of the order channel
    Quotes,            \* quotes that a live book can show
    MaxOrders,         \* bound: orders approved
    MaxTime            \* bound: clock ticks

ASSUME TradingAssumption ==
    /\ OrderCap \in Nat \ {0}
    /\ Quotes \subseteq Quote
    /\ MaxOrders \in Nat /\ MaxTime \in Nat

VARIABLES
    outbox,            \* an order the book thread is blocked on sending
    orders,            \* the order channel
    executing,         \* an order the executor has taken
    filled,            \* ... and whether the account has changed already
    cash_bits,
    fills,             \* history: ids of the orders filled
    late,              \* history: fills since the kill switch was set
    excused,           \* history: a sell was rejected, and not for the balance
    overlapped         \* history: a buy was approved with an order still under way

execVars == <<orders, executing, filled, cash_bits>>

checkHistory == <<excused, overlapped>>

history == <<fills, late, checkHistory>>

tradingVars ==
    <<now, riskVars, accountVars, strategyVars, killVars, outbox, execVars, history>>

ValidatedOrder == [signal : Signal, client_order_id : Nat]

TradingTypeOK ==
    /\ RiskTypeOK
    /\ AccountTypeOK
    /\ StrategiesTypeOK
    /\ KillSwitchTypeOK
    /\ {outbox, executing} \subseteq Seq(ValidatedOrder)
    /\ Len(outbox) <= 1 /\ Len(executing) <= 1
    /\ orders \in Seq(ValidatedOrder) /\ Len(orders) <= OrderCap
    /\ filled \in BOOLEAN /\ cash_bits \in Int /\ late \in Nat
    /\ {excused, overlapped} \subseteq BOOLEAN

TradingInit ==
    /\ RiskInit
    /\ AccountInit
    /\ StrategiesInit
    /\ KillSwitchInit
    /\ outbox = << >> /\ orders = << >> /\ executing = << >> /\ filled = FALSE
    /\ cash_bits = cash
    /\ fills = << >> /\ late = 0 /\ excused = FALSE /\ overlapped = FALSE

-----------------------------------------------------------------------------
(* Limits that may reject a sell: everything but the balance. *)
MayReject(sig, mid) ==
    \/ halt_flag
    \/ Len(Recent) >= MaxOrdersPerSec
    \/ sig.qty > MaxOrderQty
    \/ ~InBand(sig, mid)

UnderWay == outbox # << >> \/ orders # << >> \/ executing # << >>

(* RiskChecker::check and the send of an approved order.  Order ids are    *)
(* random UUIDs, taken to be fresh here.                                   *)
Submit(sig, mid) ==
    LET id == Len(approved) + 1
    IN  \/ /\ \/ RejectLimits(sig, mid, cash_bits, halt_flag)
              \/ RejectRate(sig, mid, cash_bits, halt_flag)
           /\ excused' = (excused \/ (sig.side = "Sell" /\ MayReject(sig, mid)))
           /\ UNCHANGED <<outbox, overlapped>>
        \/ /\ Approve(sig, mid, cash_bits, halt_flag, id)
           /\ outbox' = <<[signal |-> sig, client_order_id |-> id]>>
           /\ overlapped' = (overlapped \/ (sig.side = "Buy" /\ UnderWay))
           /\ UNCHANGED excused

(* A live update of the book: the strategy, the check, the send.  The "mid" *)
(* price of the check is the best bid.                                      *)
OnOrderbook(q) ==
    /\ outbox = << >>
    /\ Asked(q)
    /\ IF SignalOf(q) = NoSignal
       THEN UNCHANGED <<now, riskVars, outbox, checkHistory>>
       ELSE Submit(SignalOf(q), q.bid)
    /\ UNCHANGED <<accountVars, killVars, execVars, fills, late>>

(* Mutant: try_send for send, and its error ignored: a full channel drops the order. *)
SendOrderOrDrop ==
    /\ outbox # << >>
    /\ orders' = IF Len(orders) < OrderCap THEN orders \o outbox ELSE orders
    /\ outbox' = << >>
    /\ UNCHANGED <<now, riskVars, accountVars, strategyVars, killVars, executing, filled, cash_bits, history>>

SendOrder ==
    /\ outbox # << >>
    /\ Len(orders) < OrderCap
    /\ orders' = orders \o outbox
    /\ outbox' = << >>
    /\ UNCHANGED <<now, riskVars, accountVars, strategyVars, killVars, executing, filled, cash_bits, history>>

TakeOrder ==
    /\ executing = << >>
    /\ orders # << >>
    /\ executing' = <<Head(orders)>>
    /\ orders' = Tail(orders)
    /\ filled' = FALSE
    /\ UNCHANGED <<now, riskVars, accountVars, strategyVars, killVars, outbox, cash_bits, history>>

(* execute_with_state, up to the change of the account. *)
FillOrder ==
    /\ executing # << >>
    /\ ~filled
    /\ LET sig == executing[1].signal
       IN  IF sig.side = "Buy" THEN OnBuy(sig.price, sig.qty) ELSE OnSell(sig.price, sig.qty)
    /\ filled' = TRUE
    /\ fills' = Append(fills, executing[1].client_order_id)
    /\ late' = IF halt_flag THEN late + 1 ELSE 0
    /\ UNCHANGED <<now, riskVars, strategyVars, killVars, outbox, orders, executing, cash_bits, checkHistory>>

(* ... and the store that mirrors the cash, still under the account's lock. *)
MirrorCash ==
    /\ filled
    /\ cash_bits' = cash
    /\ executing' = << >>
    /\ filled' = FALSE
    /\ UNCHANGED <<now, riskVars, accountVars, strategyVars, killVars, outbox, orders, history>>

Executor == TakeOrder \/ FillOrder \/ MirrorCash

Tick ==
    /\ now < MaxTime
    /\ ClockTick
    /\ UNCHANGED <<accountVars, strategyVars, killVars, outbox, execVars, history>>

SwitchStep ==
    /\ KillSwitchNext
    /\ late' = IF halt_flag' THEN late ELSE 0
    /\ UNCHANGED <<now, riskVars, accountVars, strategyVars, outbox, execVars, fills, checkHistory>>

TradingNext ==
    \/ Len(approved) < MaxOrders /\ \E q \in Quotes : OnOrderbook(q)
    \/ SendOrder
    \/ Executor
    \/ Tick
    \/ SwitchStep

TradingSpec == TradingInit /\ [][TradingNext]_tradingVars

-----------------------------------------------------------------------------
(* Orders approved and not yet filled, oldest first. *)
InFlight == (IF filled THEN << >> ELSE executing) \o orders \o outbox

(***************************************************************************)
(* The kill switch stops new orders, not those on their way: after it is   *)
(* set no more orders are filled than the book thread, the channel and the *)
(* executor together can hold.                                             *)
(***************************************************************************)
LateFillsBounded == late + Len(InFlight) <= OrderCap + 2 \/ ~halt_flag

(***************************************************************************)
(* The position of the account is the one the strategy believes it holds:  *)
(* with no order in flight the account is flat, or the strategy is holding *)
(* just what is open.  Only the kill switch, the size limit, the rate      *)
(* limit and the price band can part the two, by rejecting a sell.  The    *)
(* balance does not, since the code checks it for buys only (the comment   *)
(* in check() gives the reason: a sell that it blocked would strand the    *)
(* position).  docs/configuration.md:62 and :67 say that every Buy and     *)
(* Sell has to pass that check; with sells checked too, an account that a  *)
(* buy left below the floor would break this property.                     *)
(***************************************************************************)
PositionFollowsStrategy ==
    InFlight = << >> /\ ~excused =>
        buy_queue = << >> \/ (holding /\ PositionQty = entry_qty)

(***************************************************************************)
(* The check of the balance, its headroom included, is enough for an order *)
(* that is alone on its way: only a buy approved while another order is    *)
(* under way can overdraw the account.                                     *)
(***************************************************************************)
SolventWhenAlone == overlapped \/ cash >= 0

(***************************************************************************)
(* The blocking send, the channel and the executor are one queue: what the *)
(* risk checker approves, and only that, is filled once and in the order   *)
(* of approval, and nothing is lost while the channel is full.             *)
(***************************************************************************)
Pipeline == INSTANCE OrderPipeline
    WITH Capacity <- OrderCap + 2,
         accepted <- Len(approved),
         queue    <- [i \in DOMAIN InFlight |-> InFlight[i].client_order_id]

ImplementsPipeline == Pipeline!PipelineSpec

(***************************************************************************)
(* What docs/configuration.md says of initial_capital_usdt: a buy that     *)
(* exceeds the balance is rejected by the risk check.  So no fill          *)
(* overdraws the account.                                                  *)
(***************************************************************************)
CashNeverNegative == cash >= 0
=============================================================================
