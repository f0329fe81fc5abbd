------------------------------ MODULE Backtest ------------------------------
(***************************************************************************)
(* The backtester (src/src/backtest/mod.rs and src/src/bin/backtest.rs):   *)
(* depth events from a file, or from the synthetic generator of            *)
(* src/src/backtest/data_loader.rs, are replayed through the order book,   *)
(* the strategy and the risk checker of the live program.                  *)
(*                                                                         *)
(* The events are a vector in the code.  Here each one is drawn when the   *)
(* replay asks for it, which is the same thing: neither source reads what  *)
(* the replay does.  market holds the event drawn; resync_needed stands    *)
(* for the flag that the replay makes for each call and throws away.       *)
(***************************************************************************)
EXTENDS Orderbook, TopOfBook, Strategies, RiskChecker, FifoPnl

CONSTANTS
    Sources,           \* where the events may come from: "file", "synthetic"
    BasePrice,         \* base_price
    Gap,               \* the distance between quoted levels
    Steps,             \* steps of the random walk, by source
    MaxDrift,          \* bound: how far the walk leaves the base price
    SnapLevels,        \* levels on a side of the synthetic snapshot
    Volumes,           \* quantities quoted: on the bid and on the ask side
    FreeBalance,       \* free_balance_usdt, which nothing updates here
    Uuid,              \* what Uuid::new_v4 can draw
    MaxEvents,         \* num_events
    MaxTime            \* bound: clock ticks

ASSUME BacktestAssumption ==
    /\ Sources \subseteq {"file", "synthetic"}
    /\ {BasePrice, MaxDrift, FreeBalance, MaxEvents, MaxTime} \subseteq Nat
    /\ {Gap, SnapLevels} \subseteq Nat \ {0}
    /\ \A s \in Sources : Steps[s] \subseteq Int
    /\ Volumes \subseteq [bid : Qty \ {0}, ask : Qty \ {0}]

VARIABLES
    source,            \* which of Sources this run reads
    phase,             \* "start", "replay" or "done"
    walk,              \* the generator: mid, quoted prices, last id, events drawn
    quote,             \* the quote the strategy saw last
    asked,             \* history: how often the strategy was asked
    trades,
    result             \* the BacktestResult, once the run is done

loadVars == <<source, walk>>

replayVars == <<phase, quote, asked, trades, result>>

backtestVars ==
    <<market, resync_needed, bookVars, strategyVars, now, riskVars, loadVars, replayVars>>

NoQuote == [bid |-> 0, ask |-> 0, bidVol |-> 0, askVol |-> 0]

BacktestInit ==
    /\ market = << >> /\ resync_needed = FALSE
    /\ OrderbookInit
    /\ StrategiesInit
    /\ RiskInit
    /\ source \in Sources
    /\ phase = "start"
    /\ walk = [mid |-> BasePrice, last |-> 0, made |-> 0,
               bids |-> {BasePrice - i * Gap : i \in 1 .. SnapLevels},
               asks |-> {BasePrice + i * Gap : i \in 1 .. SnapLevels}]
    /\ quote = NoQuote /\ asked = 0 /\ trades = << >> /\ result = << >>

-----------------------------------------------------------------------------
(***************************************************************************)
(* generate_synthetic_data.                                                *)
(***************************************************************************)
At(side, prices) == {l \in Level : l.side = side /\ l.price \in prices}

SyntheticSnapshot(qty) ==
    [type |-> "DepthSnapshot", id |-> walk.last,
     book |-> [l \in Level |->
                 IF l \in At("bid", walk.bids) \cup At("ask", walk.asks) THEN qty ELSE 0]]

(* Mutant: the asks quoted before are left standing. *)
DeletedBidsOnly(bids, asks) == At("bid", walk.bids \ bids)

(* The levels quoted before that are not quoted again. *)
Deleted(bids, asks) == At("bid", walk.bids \ bids) \cup At("ask", walk.asks \ asks)

(* The next event: the deletions, then the new quotes around the new mid.  *)
(* In a file the ids may skip.                                             *)
Draw(step, skip, vol) ==
    LET mid  == walk.mid + step
        bids == {mid - Gap, mid - 2 * Gap}
        asks == {mid + Gap, mid + 2 * Gap}
        pu   == walk.last + skip
    IN  /\ walk' = [mid |-> mid, last |-> pu + 1, made |-> walk.made + 1,
                    bids |-> bids, asks |-> asks]
        /\ Send([type |-> "DepthUpdate", pu |-> pu, U |-> pu + 1, u |-> pu + 1,
                 levels |-> [l \in Deleted(bids, asks) \cup At("bid", bids) \cup At("ask", asks) |->
                               IF l \in At("bid", bids) \cup At("ask", asks) THEN vol[l.side] ELSE 0]])

NextEvent ==
    /\ phase = "replay" /\ market = << >>
    /\ walk.made < MaxEvents
    /\ \E step \in Steps[source], vol \in Volumes :
         /\ walk.mid + step \in BasePrice - MaxDrift .. BasePrice + MaxDrift
         /\ \E skip \in IF source = "file" THEN {0, 1} ELSE {0} : Draw(step, skip, vol)
    /\ UNCHANGED <<resync_needed, bookVars, strategyVars, now, riskVars, source, replayVars>>

-----------------------------------------------------------------------------
(***************************************************************************)
(* Backtester::run.                                                        *)
(***************************************************************************)
(* The snapshot, if there is one: a file has none. *)
Start ==
    /\ phase = "start"
    /\ phase' = "replay"
    /\ \/ source = "file" /\ UNCHANGED <<resync_needed, bookVars>>
       \/ source = "synthetic" /\ \E qty \in Qty \ {0} : HandleSnapshot(SyntheticSnapshot(qty))
    /\ UNCHANGED <<market, strategyVars, now, riskVars, loadVars, quote, asked, trades, result>>

(* The check of a signal; an order that passes is a trade at once. *)
Trades(sig, mid) ==
    \/ RejectLimits(sig, mid, FreeBalance * Unit, FALSE) /\ UNCHANGED trades
    \/ RejectRate(sig, mid, FreeBalance * Unit, FALSE) /\ UNCHANGED trades
    \/ \E id \in Uuid :
         \/ RejectDuplicate(sig, mid, FreeBalance * Unit, FALSE, id) /\ UNCHANGED trades
         \/ Approve(sig, mid, FreeBalance * Unit, FALSE, id) /\ trades' = Append(trades, sig)

OnSnapshot(q) ==
    /\ Asked(q)
    /\ quote' = q /\ asked' = asked + 1
    /\ IF SignalOf(q) = NoSignal
       THEN UNCHANGED <<now, riskVars, trades>>
       ELSE Trades(SignalOf(q), q.bid)

(* One event that the book applies, and one that it does not. *)
ReplayApplied ==
    /\ Receive("DepthUpdate")
    /\ ApplyUpdate(Head(market))
    /\ IF HasQuote(book') THEN \E q \in {QuoteOf(book')} : OnSnapshot(q)
       ELSE UNCHANGED <<strategyVars, now, riskVars, quote, asked, trades>>
    /\ UNCHANGED <<loadVars, phase, result>>

ReplaySkipped ==
    /\ Receive("DepthUpdate")
    /\ LET e == Head(market) IN BufferUpdate(e) \/ SkipStale(e) \/ DetectGap(e)
    /\ UNCHANGED <<strategyVars, now, riskVars, loadVars, replayVars>>

(* The final pass over the trades, and the counts. *)
OnTrade(acc, t) ==
    IF t.side = "Buy"
    THEN [acc EXCEPT !.queue = Append(@, [price |-> t.price, qty |-> t.qty])]
    ELSE LET m == MatchSell(acc.queue, t.price, t.qty)
         IN  [queue |-> m.queue, pnl |-> acc.pnl + m.pnl]

Pnl(s) == FoldLeft(OnTrade, [queue |-> << >>, pnl |-> 0], s).pnl

Count(s, side) == Cardinality({k \in DOMAIN s : s[k].side = side})

Finish ==
    /\ phase = "replay" /\ market = << >> /\ walk.made = MaxEvents
    /\ phase' = "done"
    /\ result' = <<[total |-> Len(trades), buys |-> Count(trades, "Buy"),
                    sells |-> Count(trades, "Sell"), pnl |-> Pnl(trades)]>>
    /\ UNCHANGED <<market, resync_needed, bookVars, strategyVars, now, riskVars, loadVars,
                   quote, asked, trades>>

(* The risk checker's clock runs on while the replay does. *)
WallClock ==
    /\ now < MaxTime
    /\ phase = "replay" /\ market = << >>
    /\ ClockTick
    /\ UNCHANGED <<market, resync_needed, bookVars, strategyVars, loadVars, replayVars>>

BacktestNext == Start \/ NextEvent \/ ReplayApplied \/ ReplaySkipped \/ Finish \/ WallClock

BacktestSpec == BacktestInit /\ [][BacktestNext]_backtestVars

-----------------------------------------------------------------------------
BacktestTypeOK ==
    /\ StrategiesTypeOK /\ RiskTypeOK
    /\ state \in {"Buffering", "Live"} /\ lastUpdateId \in Nat /\ book \in Book
    /\ phase \in {"start", "replay", "done"}
    /\ trades \in Seq(Signal)

(***************************************************************************)
(* The book tracks the walk: after every event of the generator it holds   *)
(* just the levels quoted last, so that it is never crossed and stale      *)
(* levels never pile up.                                                   *)
(***************************************************************************)
BookTracksWalk ==
    source = "synthetic" /\ phase # "start" /\ market = << >> =>
        /\ {l \in Level : book[l] > 0} = At("bid", walk.bids) \cup At("ask", walk.asks)
        /\ \A b \in Present(book, "bid"), a \in Present(book, "ask") : b.price < a.price

(***************************************************************************)
(* The quantity that the first k trades of s bought, and sold out of it: a *)
(* sell beyond the open position sells nothing.                            *)
(***************************************************************************)
Turnover(s) ==
    LET t[k \in 0 .. Len(s)] ==
            IF k = 0 THEN [bought |-> 0, sold |-> 0]
            ELSE IF s[k].side = "Buy"
                 THEN [t[k - 1] EXCEPT !.bought = @ + s[k].qty]
                 ELSE [t[k - 1] EXCEPT !.sold = Min({@ + s[k].qty, t[k - 1].bought})]
    IN  t

(* The price of unit i, of those that total counts: of the trade that reaches it. *)
UnitPrice(s, total, i) ==
    s[CHOOSE k \in 1 .. Len(s) : total[k - 1] < i /\ i <= total[k]].price

(***************************************************************************)
(* The reported profit pairs the first unit sold with the first bought,    *)
(* the second with the second and so on, whatever the quantities of the    *)
(* trades, and whatever the risk checker rejected in between.              *)
(***************************************************************************)
PairedPnl(s) ==
    LET n == Len(s)
        turnover == Turnover(s)
        bought == [k \in 0 .. n |-> turnover[k].bought]
        sold == [k \in 0 .. n |-> turnover[k].sold]
    IN  Total([i \in 1 .. sold[n] |-> UnitPrice(s, sold, i) - UnitPrice(s, bought, i)])

ReportPairsTrades ==
    phase = "done" =>
        /\ result[1].pnl = PairedPnl(trades)
        /\ result[1].buys + result[1].sells = result[1].total

(***************************************************************************)
(* The momentum strategy follows its rule: the ring buffer is a window of  *)
(* the latest mid prices, the lookback price the one that many samples     *)
(* ago, no position outlives max_hold_ticks, and none is opened within     *)
(* cooldown_ticks of the last.  The rule knows nothing of other            *)
(* strategies.                                                             *)
(***************************************************************************)
Momentum == strategy = "momentum"

Rule == INSTANCE MomentumRule
    WITH Size    <- PriceBuf,
         quote   <- IF Momentum THEN quote ELSE NoQuote,
         window  <- Window,
         holding <- Momentum /\ holding,
         entry   <- IF Momentum THEN entry_price ELSE 0,
         age     <- IF Momentum /\ holding THEN held_ticks ELSE Cooldown - cooldown_left

FollowsRule == Rule!RuleSpec

(***************************************************************************)
(* docs/backtesting.md:90: a file is replayed without a snapshot, the book *)
(* being built from the first event on, and only events behind a gap in    *)
(* the ids are skipped.  So the strategy is asked once the first event is  *)
(* replayed.                                                               *)
(***************************************************************************)
FileReachesStrategy ==
    source = "file" /\ walk.made > 0 /\ market = << >> => asked > 0
=============================================================================
