----------------------------- MODULE Dashboard ------------------------------
(***************************************************************************)
(* The state that the dashboard shares with the trading threads            *)
(* (src/src/dashboard/mod.rs) and the tasks that read it                   *)
(* (src/src/dashboard/server.rs).  The book thread and the executor write  *)
(* it field by field, each under a lock or an atomic of its own, once a    *)
(* second the sampler adds a point, and each client puts a state together  *)
(* from reads at different moments.                                        *)
(*                                                                         *)
(* Prices, fills and trades are numbers in the order in which they happen; *)
(* 0 is an empty slot or an empty side.  The account is the number of its  *)
(* fills, and so are buy_count and sell_count together.  The flags         *)
(* connected and is_live are in MarketData, halt_flag in KillSwitch, the   *)
(* figures of the account in PaperAccount.                                 *)
(***************************************************************************)
EXTENDS Integers, Sequences

CONSTANTS
    Client,            \* the WebSocket clients
    TradeCap,          \* length of recent_trades
    PriceCap,          \* length of price_history
    PnlCap,            \* length of pnl_history
    MaxEvents,         \* bound: depth updates
    MaxFills           \* bound: fills

ASSUME DashboardAssumption ==
    /\ {TradeCap, PriceCap, PnlCap} \subseteq Nat \ {0}
    /\ {MaxEvents, MaxFills} \subseteq Nat

VARIABLES
    event_count, snapshot, price_history, prices, updater,
    account, counts, recent_trades, filler,
    events_last_checkpoint, events_last_sec, pnl_history, published, sampler,
    view               \* what each client has read so far

bookSide == <<event_count, snapshot, price_history, prices, updater>>

fillSide == <<account, counts, recent_trades, filler>>

sampleSide == <<events_last_checkpoint, events_last_sec, pnl_history, published, sampler>>

dashboardVars == <<bookSide, fillSide, sampleSide, view>>

Latest(q) == IF q = << >> THEN 0 ELSE q[Len(q)]

(* Mutant: the queue is never cut. *)
PushUnbounded(q, x, cap) == Append(q, x)

(* Mutant: the full queue drops its newest entry. *)
PushDropsNewest(q, x, cap) == Append(IF Len(q) >= cap THEN SubSeq(q, 1, cap - 1) ELSE q, x)

Push(q, x, cap) == Append(IF Len(q) >= cap THEN Tail(q) ELSE q, x)

Asleep == [pc |-> "tick", count |-> 0, last |-> 0]

NoView == [pc |-> "tick", snapshot |-> 0, trades |-> << >>, prices |-> << >>,
           account |-> 0, counts |-> 0]

DashboardInit ==
    /\ event_count = 0 /\ snapshot = 0 /\ price_history = << >>
    /\ prices = 0 /\ updater = [pc |-> "recv", price |-> 0]
    /\ account = 0 /\ counts = 0
    /\ recent_trades = << >> /\ filler = "take"
    /\ events_last_checkpoint = 0 /\ events_last_sec = 0 /\ pnl_history = << >>
    /\ published = 0 /\ sampler = Asleep
    /\ view = [c \in Client |-> NoView]

-----------------------------------------------------------------------------
(***************************************************************************)
(* The book thread.  An update that was not applied only counts; one that  *)
(* was also adds its best bid, if there is one, to the history, is given   *)
(* to the strategy and then moves into the snapshot slot.                  *)
(***************************************************************************)
(* Mutant: the snapshot is shown before the history has its price. *)
CountUpdateShowsFirst ==
    /\ updater.pc = "recv"
    /\ event_count < MaxEvents
    /\ event_count' = event_count + 1
    /\ \/ UNCHANGED <<prices, updater, snapshot>>
       \/ /\ prices' = prices + 1 /\ snapshot' = prices'
          /\ updater' = [pc |-> "price", price |-> prices']
       \/ updater' = [pc |-> "store", price |-> 0] /\ UNCHANGED <<prices, snapshot>>
    /\ UNCHANGED <<price_history, fillSide, sampleSide, view>>

CountUpdate ==
    /\ updater.pc = "recv"
    /\ event_count < MaxEvents
    /\ event_count' = event_count + 1
    /\ \/ UNCHANGED <<prices, updater>>
       \/ prices' = prices + 1 /\ updater' = [pc |-> "price", price |-> prices']
       \/ updater' = [pc |-> "store", price |-> 0] /\ UNCHANGED prices
    /\ UNCHANGED <<snapshot, price_history, fillSide, sampleSide, view>>

(* update_price_history. *)
PushPrice ==
    /\ updater.pc = "price"
    /\ price_history' = Push(price_history, updater.price, PriceCap)
    /\ updater' = [updater EXCEPT !.pc = "store"]
    /\ UNCHANGED <<event_count, snapshot, prices, fillSide, sampleSide, view>>

StoreSnapshot ==
    /\ updater.pc = "store"
    /\ snapshot' = updater.price
    /\ updater' = [updater EXCEPT !.pc = "recv"]
    /\ UNCHANGED <<event_count, price_history, prices, fillSide, sampleSide, view>>

(***************************************************************************)
(* The executor: with the write lock of the account it counts the fill and *)
(* changes the account, then it adds the trade to the list.                *)
(***************************************************************************)
Locked == filler = "counted"

CountFill ==
    /\ filler = "take"
    /\ account < MaxFills
    /\ counts' = counts + 1
    /\ filler' = "counted"
    /\ UNCHANGED <<bookSide, account, recent_trades, sampleSide, view>>

FillAccount ==
    /\ Locked
    /\ account' = account + 1
    /\ filler' = "filled"
    /\ UNCHANGED <<bookSide, counts, recent_trades, sampleSide, view>>

(* add_trade. *)
AddTrade ==
    /\ filler = "filled"
    /\ recent_trades' = Push(recent_trades, account, TradeCap)
    /\ filler' = "take"
    /\ UNCHANGED <<bookSide, account, counts, sampleSide, view>>

(***************************************************************************)
(* sample_second, called by one task: the events since the checkpoint, and *)
(* the total PnL of the account (the price it is taken at is left out).    *)
(***************************************************************************)
SampleCount ==
    /\ sampler.pc = "tick"
    /\ sampler' = [sampler EXCEPT !.pc = "swap", !.count = event_count]
    /\ UNCHANGED <<bookSide, fillSide, view, events_last_checkpoint, events_last_sec, pnl_history, published>>

(* Mutant: the checkpoint is set to a second read of the counter. *)
SwapCheckpointRereads ==
    /\ sampler.pc = "swap"
    /\ sampler' = [sampler EXCEPT !.pc = "store", !.last = events_last_checkpoint]
    /\ events_last_checkpoint' = event_count
    /\ UNCHANGED <<bookSide, fillSide, view, events_last_sec, pnl_history, published>>

SwapCheckpoint ==
    /\ sampler.pc = "swap"
    /\ sampler' = [sampler EXCEPT !.pc = "store", !.last = events_last_checkpoint]
    /\ events_last_checkpoint' = sampler.count
    /\ UNCHANGED <<bookSide, fillSide, view, events_last_sec, pnl_history, published>>

StoreRate ==
    /\ sampler.pc = "store"
    /\ LET rate == IF sampler.count > sampler.last THEN sampler.count - sampler.last ELSE 0
       IN  events_last_sec' = rate /\ published' = published + rate
    /\ sampler' = [sampler EXCEPT !.pc = "pnl"]
    /\ UNCHANGED <<bookSide, fillSide, view, events_last_checkpoint, pnl_history>>

SamplePnl ==
    /\ sampler.pc = "pnl"
    /\ ~Locked
    /\ pnl_history' = Push(pnl_history, account, PnlCap)
    /\ sampler' = Asleep
    /\ UNCHANGED <<bookSide, fillSide, view, events_last_checkpoint, events_last_sec, published>>

Sampler == SampleCount \/ SwapCheckpoint \/ StoreRate \/ SamplePnl

(***************************************************************************)
(* to_dashboard_state for one client, field by field, and the push.        *)
(***************************************************************************)
Reads(c, pc, next, field, value) ==
    /\ view[c].pc = pc
    /\ view' = [view EXCEPT ![c] = [[@ EXCEPT !.pc = next] EXCEPT ![field] = value]]
    /\ UNCHANGED <<bookSide, fillSide, sampleSide>>

ReadSnapshot(c) == Reads(c, "tick", "trades", "snapshot", snapshot)

ReadTrades(c) == Reads(c, "trades", "prices", "trades", recent_trades)

ReadPrices(c) == Reads(c, "prices", "account", "prices", price_history)

ReadAccount(c) == ~Locked /\ Reads(c, "account", "counts", "account", account)

(* Mutant: the list of trades is read after the account. *)
ReadCountsThenTrades(c) ==
    /\ view[c].pc = "counts"
    /\ view' = [view EXCEPT ![c].pc = "push", ![c].counts = counts, ![c].trades = recent_trades]
    /\ UNCHANGED <<bookSide, fillSide, sampleSide>>

ReadCounts(c) == Reads(c, "counts", "push", "counts", counts)

(* The socket takes the state, or is closed and the task ends. *)
PushState(c) ==
    /\ view[c].pc = "push"
    /\ \E pc \in {"tick", "closed"} : view' = [view EXCEPT ![c] = [NoView EXCEPT !.pc = pc]]
    /\ UNCHANGED <<bookSide, fillSide, sampleSide>>

ClientTask(c) ==
    \/ ReadSnapshot(c) \/ ReadTrades(c) \/ ReadPrices(c)
    \/ ReadAccount(c) \/ ReadCounts(c) \/ PushState(c)

DashboardNext ==
    \/ CountUpdate \/ PushPrice \/ StoreSnapshot
    \/ CountFill \/ FillAccount \/ AddTrade
    \/ Sampler
    \/ \E c \in Client : ClientTask(c)

DashboardSpec == DashboardInit /\ [][DashboardNext]_dashboardVars

-----------------------------------------------------------------------------
DashboardTypeOK ==
    /\ {event_count, snapshot, prices, published} \subseteq Nat
    /\ {events_last_checkpoint, events_last_sec} \subseteq Nat
    /\ {account, counts} \subseteq Nat /\ counts - account \in {0, 1}
    /\ Len(recent_trades) <= TradeCap /\ Len(price_history) <= PriceCap
    /\ Len(pnl_history) <= PnlCap
    /\ \A c \in Client : view[c].pc \in {"tick", "trades", "prices", "account", "counts", "push", "closed"}

Shown == {view[c] : c \in {d \in Client : view[d].pc = "push"}}

(***************************************************************************)
(* What a client is shown hangs together although it is read at different  *)
(* moments: every trade on the list is in the figures of the account, and  *)
(* every fill in those figures is counted.                                 *)
(***************************************************************************)
ShownTradesBooked ==
    \A v \in Shown :
        /\ \A i \in DOMAIN v.trades : v.trades[i] <= v.account
        /\ v.account <= v.counts

(***************************************************************************)
(* The chart a client is shown reaches the price that it is shown: its     *)
(* last point is the best bid of the snapshot or a later one.              *)
(***************************************************************************)
ChartReachesQuote == \A v \in Shown : v.snapshot <= Latest(v.prices)

(***************************************************************************)
(* The full lists keep the latest entries, in order and without a hole.    *)
(***************************************************************************)
ConsecutiveTo(q, last) == \A i \in DOMAIN q : q[i] = last - Len(q) + i

ListsKeepLatest ==
    /\ ConsecutiveTo(recent_trades, Latest(recent_trades))
    /\ ConsecutiveTo(price_history, Latest(price_history))
    /\ filler = "take" => Latest(recent_trades) = account

(***************************************************************************)
(* No event is counted in two of the rates, or in none: the rates of all   *)
(* seconds add up to the checkpoint, however the counter moves on between  *)
(* the steps of the sampler.                                               *)
(***************************************************************************)
RatesAddUp == sampler.pc # "store" => published = events_last_checkpoint
=============================================================================
