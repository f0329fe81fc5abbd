--------------------------- MODULE MomentumScalp ----------------------------
(***************************************************************************)
(* The momentum strategy (src/src/strategy/momentum_scalp.rs).  It keeps   *)
(* the latest mid prices in a ring buffer, buys at the best ask when the   *)
(* price has risen over the lookback window and the book leans to the bid  *)
(* side, and sells at the best bid for a profit, at a loss or after        *)
(* max_hold_ticks; then it stays flat for cooldown_ticks.  A mid price is  *)
(* counted in halves, so that it is a whole number.                        *)
(***************************************************************************)
EXTENDS Strategy

CONSTANTS
    PriceBuf,          \* PRICE_BUF
    LookbackTicks,     \* lookback_ticks, as it is configured
    MomentumBp,        \* entry_mom_pct
    ImbalanceBp,       \* imbalance_min
    TakeProfitBp,      \* tp_pct
    StopOutBp,         \* stop_pct
    MaxHold,           \* max_hold_ticks
    Cooldown           \* cooldown_ticks

ASSUME MomentumAssumption ==
    /\ PriceBuf \in Nat \ {0}
    /\ {LookbackTicks, MomentumBp, ImbalanceBp, TakeProfitBp, StopOutBp} \subseteq Nat
    /\ {MaxHold, Cooldown} \subseteq Nat

VARIABLES
    ring,              \* prices, head and filled
    held_ticks,
    cooldown_left

momentumVars == <<ring, held_ticks, cooldown_left>>

Ring == [prices : [0 .. PriceBuf - 1 -> Nat], head : 0 .. PriceBuf - 1, filled : 0 .. PriceBuf]

MomentumTypeOK ==
    /\ ring \in Ring
    /\ held_ticks \in Nat
    /\ cooldown_left \in 0 .. Cooldown

MomentumInit ==
    /\ ring = [prices |-> [i \in 0 .. PriceBuf - 1 |-> 0], head |-> 0, filled |-> 0]
    /\ held_ticks = 0
    /\ cooldown_left = 0

Lookback == IF LookbackTicks <= PriceBuf - 1 THEN LookbackTicks ELSE PriceBuf - 1

Mid(q) == q.bid + q.ask

(* Mutant: a head that does not wrap. *)
PushedUnwrapped(r, mid) ==
    [prices |-> [r.prices EXCEPT ![r.head] = mid],
     head   |-> r.head + 1,
     filled |-> IF r.filled < PriceBuf THEN r.filled + 1 ELSE r.filled]

(* push_price *)
Pushed(r, mid) ==
    [prices |-> [r.prices EXCEPT ![r.head] = mid],
     head   |-> (r.head + 1) % PriceBuf,
     filled |-> IF r.filled < PriceBuf THEN r.filled + 1 ELSE r.filled]

(* lookback_price *)
WarmedUp(r) == r.filled > Lookback

(* Mutant: counted from the next free slot instead of the latest sample. *)
PastFromHead(r) == r.prices[(r.head + PriceBuf - Lookback) % PriceBuf]

Past(r) == r.prices[(r.head + PriceBuf - 1 - Lookback) % PriceBuf]

Rising(r, mid) ==
    /\ WarmedUp(r)
    /\ Past(r) > 0
    /\ (mid - Past(r)) * 10000 >= MomentumBp * Past(r)

BidHeavy(q) ==
    /\ q.bidVol + q.askVol > 0
    /\ q.bidVol * 10000 >= ImbalanceBp * (q.bidVol + q.askVol)

MomentumEnters(q) ==
    /\ ~holding
    /\ cooldown_left = 0
    /\ Rising(Pushed(ring, Mid(q)), Mid(q))
    /\ BidHeavy(q)
    /\ EntryQty(q.ask) > 0

MomentumExits(q) ==
    /\ holding
    /\ \/ Gained(q.bid, TakeProfitBp)
       \/ Lost(q.bid, StopOutBp)
       \/ held_ticks + 1 >= MaxHold

MomentumSignal(q) ==
    CASE MomentumEnters(q) -> Buy(q.ask, EntryQty(q.ask))
      [] MomentumExits(q)  -> Sell(q.bid, entry_qty)
      [] OTHER             -> NoSignal

MomentumAsked(q) ==
    /\ ring' = Pushed(ring, Mid(q))
    /\ \/ MomentumEnters(q) /\ Enter(q.ask) /\ held_ticks' = 0 /\ UNCHANGED cooldown_left
       \/ MomentumExits(q) /\ Exit /\ held_ticks' = held_ticks + 1 /\ cooldown_left' = Cooldown
       \/ /\ ~MomentumEnters(q) /\ ~MomentumExits(q)
          /\ held_ticks' = IF holding THEN held_ticks + 1 ELSE held_ticks
          /\ cooldown_left' = IF ~holding /\ cooldown_left > 0 THEN cooldown_left - 1
                              ELSE cooldown_left
          /\ UNCHANGED positionVars

-----------------------------------------------------------------------------
(***************************************************************************)
(* The ring buffer read from its oldest sample to its latest.              *)
(***************************************************************************)
Window ==
    [i \in 1 .. ring.filled |->
        ring.prices[(ring.head + PriceBuf - ring.filled + i - 1) % PriceBuf]]
=============================================================================
