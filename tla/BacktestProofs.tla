--------------------------- MODULE BacktestProofs ---------------------------
(***************************************************************************)
(* Proofs about the backtester, for every source, walk, strategy and       *)
(* configuration.                                                          *)
(***************************************************************************)
EXTENDS Backtest, DecisionProofs

-----------------------------------------------------------------------------
(* A book that has both sides is quoted with prices of its levels. *)
LEMMA QuotePriced ==
    ASSUME NEW b, HasQuote(b)
    PROVE  Priced(QuoteOf(b))
<1>1. ASSUME NEW S, S # {}, S \in {Shown(b, "bid"), Shown(b, "ask")}
      PROVE  Max({l.price : l \in S}) \in Nat /\ Min({l.price : l \in S}) \in Nat
  <2>1. S \subseteq Level
    BY <1>1 DEF Shown, Top, Present
  <2>2. IsFiniteSet(S) /\ \A l \in S : l.price \in Nat
    BY <2>1, TopOfBookAssumption, FS_Subset
  <2> QED BY <1>1, <2>2, BestPrices
<1>2. Shown(b, "bid") # {} /\ Shown(b, "ask") # {}
  BY DEF HasQuote
<1> QED BY <1>1, <1>2 DEF QuoteOf, Priced

(* apply_levels yields a book. *)
LEMMA ApplyLevelsType ==
    ASSUME NEW e \in DepthUpdate, NEW b \in Book
    PROVE  ApplyLevels(b, e) \in Book
<1>1. \A l \in DOMAIN e.levels : e.levels[l] \in Qty
  BY DEF DepthUpdate
<1> QED BY <1>1 DEF ApplyLevels, Book

-----------------------------------------------------------------------------
(***************************************************************************)
(* The inductive invariant.  DecisionInv is what the strategy and the risk *)
(* checker keep; the event drawn, if there is one, is of the replay, and   *)
(* nothing is buffered before the replay.                                  *)
(***************************************************************************)
Traded == {sig \in Signal : sig.qty > 0}

DecisionInv == StrategyInv /\ RiskInv(Uuid) /\ trades \in Seq(Traded)

BookInv ==
    /\ state \in {"Buffering", "Live"} /\ lastUpdateId \in Nat /\ book \in Book
    /\ phase \in {"start", "replay", "done"}
    /\ phase = "start" => buf = << >> /\ market = << >>
    /\ market = << >> \/ \E e \in DepthUpdate : market = <<e>>

WalkInv ==
    /\ source \in Sources
    /\ walk.mid \in Int /\ {walk.last, walk.made} \subseteq Nat
    /\ walk.bids \subseteq Int /\ walk.asks \subseteq Int
    /\ \A b \in walk.bids, a \in walk.asks : b < a

(***************************************************************************)
(* The synthetic source: the book holds the levels quoted last or, while   *)
(* an event waits, will hold them when the event, which is chained to the  *)
(* book, is applied.                                                       *)
(***************************************************************************)
Tracks(b) == {l \in Level : b[l] > 0} = At("bid", walk.bids) \cup At("ask", walk.asks)

TrackInv ==
    source = "synthetic" /\ phase # "start" =>
        /\ Live
        /\ IF market = << >>
           THEN lastUpdateId = walk.last /\ Tracks(book)
           ELSE /\ Chained(Head(market)) /\ Head(market).u = walk.last
                /\ Tracks(ApplyLevels(book, Head(market)))

BacktestInv == DecisionInv /\ BookInv /\ WalkInv /\ TrackInv

(* The walk starts with bids below the base price and asks above it. *)
LEMMA BacktestInitInv ==
    ASSUME BacktestInit
    PROVE  BacktestInv
<1> USE DEF BacktestInit
<1>1. DecisionInv
  BY StrategiesInitInv, RiskInitInv DEF DecisionInv
<1>2. BookInv
  BY QtyAssumption DEF BookInv, OrderbookInit, EmptyBook, Book
<1>3. WalkInv
  <2>1. BasePrice \in Nat /\ Gap \in Nat \ {0} /\ SnapLevels \in Nat
    BY BacktestAssumption
  <2>2. \A i \in 1 .. SnapLevels : i * Gap \in Nat /\ i * Gap > 0
    BY <2>1
  <2>3. \A i \in 1 .. SnapLevels : /\ BasePrice - i * Gap \in Int /\ BasePrice - i * Gap < BasePrice
                                   /\ BasePrice + i * Gap \in Int /\ BasePrice < BasePrice + i * Gap
    BY <2>1, <2>2
  <2>4. walk.bids \subseteq Int /\ \A b \in walk.bids : b < BasePrice
    BY <2>3
  <2>5. walk.asks \subseteq Int /\ \A a \in walk.asks : BasePrice < a
    BY <2>3
  <2>6. \A b \in walk.bids, a \in walk.asks : b < a
    BY <2>1, <2>4, <2>5
  <2>7. walk.mid \in Int /\ walk.last \in Nat /\ walk.made \in Nat
    BY <2>1
  <2> QED BY <2>4, <2>5, <2>6, <2>7 DEF WalkInv
<1>4. TrackInv
  BY DEF TrackInv
<1> QED BY <1>1, <1>2, <1>3, <1>4 DEF BacktestInv

-----------------------------------------------------------------------------
(***************************************************************************)
(* The generator: the event it draws turns a book that holds the levels    *)
(* quoted before into one that holds those quoted now.                     *)
(***************************************************************************)
LEMMA DrawTracks ==
    ASSUME WalkInv, NEW step \in Int, NEW skip \in Nat, NEW vol \in Volumes,
           market = << >>, Draw(step, skip, vol)
    PROVE  /\ walk'.mid \in Int /\ {walk'.last, walk'.made} \subseteq Nat
           /\ walk'.bids \subseteq Int /\ walk'.asks \subseteq Int
           /\ \A b \in walk'.bids, a \in walk'.asks : b < a
           /\ \E e \in DepthUpdate :
                /\ market' = <<e>>
                /\ e.pu = walk.last + skip /\ e.u = walk'.last
                /\ Tracks(book) =>
                     {l \in Level : ApplyLevels(book, e)[l] > 0}
                         = At("bid", walk'.bids) \cup At("ask", walk'.asks)
<1>0. Gap \in Nat \ {0} /\ Qty \subseteq Nat /\ walk.mid \in Int /\ walk.last \in Nat
      /\ walk.made \in Nat /\ 0 \in Qty
  BY BacktestAssumption, QtyAssumption DEF WalkInv
<1>1. PICK mid \in Int, pu \in Nat : mid = walk.mid + step /\ pu = walk.last + skip
  <2>1. walk.mid + step \in Int /\ walk.last + skip \in Nat
    BY <1>0
  <2> QED BY <2>1
<1>2. PICK bids, asks : bids = {mid - Gap, mid - 2 * Gap} /\ asks = {mid + Gap, mid + 2 * Gap}
  OBVIOUS
<1>3. bids \subseteq Int /\ asks \subseteq Int /\ \A b \in bids, a \in asks : b < a
  BY <1>0, <1>2
<1>4. vol["bid"] \in Qty \ {0} /\ vol["ask"] \in Qty \ {0}
  BY BacktestAssumption
<1>5. PICK new : new = At("bid", bids) \cup At("ask", asks)
  OBVIOUS
<1>6. PICK gone : gone = Deleted(bids, asks)
  OBVIOUS
<1>7. PICK levels : levels = [l \in gone \cup new |-> IF l \in new THEN vol[l.side] ELSE 0]
  OBVIOUS
<1>8. PICK e : e = [type |-> "DepthUpdate", pu |-> pu, U |-> pu + 1, u |-> pu + 1, levels |-> levels]
  OBVIOUS
<1>9. Deleted(bids, asks) \cup At("bid", bids) \cup At("ask", asks) = gone \cup new
  BY <1>5, <1>6
<1>10. /\ walk' = [mid |-> mid, last |-> pu + 1, made |-> walk.made + 1, bids |-> bids, asks |-> asks]
       /\ market' = Append(market, e)
  BY <1>1, <1>2, <1>5, <1>7, <1>8, <1>9 DEF Draw, Send
<1>11. new \subseteq Level /\ gone \subseteq Level
  BY <1>5, <1>6 DEF At, Deleted
<1>12. \A l \in new : vol[l.side] \in Qty /\ vol[l.side] > 0
  <2>1. \A l \in new : l.side = "bid" \/ l.side = "ask"
    BY <1>5 DEF At
  <2>2. vol["bid"] > 0 /\ vol["ask"] > 0
    <3>1. \A x \in Qty \ {0} : x > 0
      BY <1>0
    <3> QED BY <1>4, <3>1
  <2> QED BY <1>4, <2>1, <2>2
<1>13. levels \in [gone \cup new -> Qty]
  BY <1>0, <1>7, <1>12
<1>14. e \in DepthUpdate
  <2>1. levels \in UNION {[T -> Qty] : T \in SUBSET Level}
    BY <1>11, <1>13
  <2> QED BY <1>8, <2>1 DEF DepthUpdate
<1>15. e.levels = levels /\ e.pu = pu /\ e.u = pu + 1
  BY <1>8
<1>16. ASSUME Tracks(book)
       PROVE  {l \in Level : ApplyLevels(book, e)[l] > 0} = new
  <2>1. ASSUME NEW l \in Level
        PROVE  ApplyLevels(book, e)[l] = IF l \in gone \cup new
                                         THEN IF l \in new THEN vol[l.side] ELSE 0
                                         ELSE book[l]
    BY <1>7, <1>13, <1>15 DEF ApplyLevels
  <2>2. ASSUME NEW l \in Level, l \notin gone, l \notin new
        PROVE  ~(book[l] > 0)
    <3>1. book[l] > 0 => l \in At("bid", walk.bids) \cup At("ask", walk.asks)
      BY <1>16 DEF Tracks
    <3>2. l \in At("bid", walk.bids) => l \in At("bid", bids)
      BY <1>6, <2>2 DEF Deleted, At
    <3>3. l \in At("ask", walk.asks) => l \in At("ask", asks)
      BY <1>6, <2>2 DEF Deleted, At
    <3> QED BY <1>5, <2>2, <3>1, <3>2, <3>3
  <2>3. ASSUME NEW l \in Level
        PROVE  ApplyLevels(book, e)[l] > 0 <=> l \in new
    <3>1. CASE l \in new
      BY <1>12, <2>1, <3>1
    <3>2. CASE l \notin new /\ l \in gone
      BY <2>1, <3>2
    <3>3. CASE l \notin new /\ l \notin gone
      BY <2>1, <2>2, <3>3
    <3> QED BY <3>1, <3>2, <3>3
  <2> QED BY <1>11, <2>3
<1>17. /\ walk'.mid = mid /\ walk'.last = pu + 1 /\ walk'.made = walk.made + 1
       /\ walk'.bids = bids /\ walk'.asks = asks
  BY <1>10
<1>18. market' = <<e>>
  BY <1>10
<1>19. walk'.last \in Nat /\ walk'.made \in Nat /\ walk'.mid \in Int
  BY <1>0, <1>1, <1>17, SMTT(30)
<1> QED BY <1>1, <1>3, <1>5, <1>14, <1>15, <1>16, <1>17, <1>18, <1>19

(* NextEvent draws an event that is chained to a synthetic book. *)
LEMMA NextEventInv ==
    ASSUME BacktestInv, NextEvent
    PROVE  BacktestInv'
<1>1. PICK step \in Steps[source], vol \in Volumes :
        \E skip \in IF source = "file" THEN {0, 1} ELSE {0} : Draw(step, skip, vol)
  BY DEF NextEvent
<1>2. PICK skip \in IF source = "file" THEN {0, 1} ELSE {0} : Draw(step, skip, vol)
  BY <1>1
<1>3. step \in Int /\ skip \in Nat /\ (source = "synthetic" => skip = 0)
  BY BacktestAssumption DEF BacktestInv, WalkInv
<1>4. /\ phase = "replay" /\ market = << >> /\ source' = source
      /\ UNCHANGED <<bookVars, strategyVars, now, riskVars, replayVars>>
  BY DEF NextEvent
<1>5. WalkInv /\ BookInv /\ TrackInv /\ DecisionInv
  BY DEF BacktestInv
<1>6. PICK e \in DepthUpdate :
        /\ market' = <<e>>
        /\ e.pu = walk.last + skip /\ e.u = walk'.last
        /\ Tracks(book) =>
             {l \in Level : ApplyLevels(book, e)[l] > 0}
                 = At("bid", walk'.bids) \cup At("ask", walk'.asks)
  BY <1>2, <1>3, <1>4, <1>5, DrawTracks
<1>7. WalkInv'
  BY <1>2, <1>3, <1>4, <1>5, DrawTracks DEF WalkInv
<1>8. BookInv'
  BY <1>4, <1>5, <1>6 DEF BookInv, bookVars, replayVars
<1>9. TrackInv'
  <2>1. market' # << >> /\ Head(market') = e
    BY <1>6
  <2>2. ASSUME source = "synthetic"
        PROVE  Live /\ e.pu = lastUpdateId /\ Tracks(book)
    <3>1. Live /\ lastUpdateId = walk.last /\ Tracks(book)
      BY <1>4, <1>5, <2>2 DEF TrackInv
    <3>2. walk.last \in Nat
      BY <1>5 DEF WalkInv
    <3> QED BY <1>3, <1>6, <2>2, <3>1, <3>2
  <2>3. book' = book /\ state' = state /\ lastUpdateId' = lastUpdateId /\ phase' = phase
    BY <1>4 DEF bookVars, replayVars
  <2> QED BY <1>4, <1>6, <2>1, <2>2, <2>3 DEF TrackInv, Tracks, Live, Chained, At, ApplyLevels
<1>10. DecisionInv'
  <2>1. StrategyInv'
    BY <1>4, <1>5, StrategyUnchanged DEF DecisionInv
  <2>2. RiskInv(Uuid)'
    BY <1>4, <1>5, RiskUnchanged DEF DecisionInv
  <2> QED BY <1>4, <1>5, <2>1, <2>2 DEF DecisionInv, replayVars
<1> QED BY <1>7, <1>8, <1>9, <1>10 DEF BacktestInv

-----------------------------------------------------------------------------
(* The snapshot of the synthetic source has the levels quoted first. *)
LEMMA StartInv ==
    ASSUME BacktestInv, Start
    PROVE  BacktestInv'
<1>1. /\ phase = "start" /\ phase' = "replay" /\ buf = << >> /\ market = << >>
      /\ UNCHANGED <<market, strategyVars, now, riskVars, source, walk, trades>>
  BY DEF Start, BacktestInv, BookInv, loadVars
<1>2. BookInv /\ WalkInv /\ DecisionInv
  BY DEF BacktestInv
<1>3. DecisionInv'
  BY <1>1, <1>2, StrategyUnchanged, RiskUnchanged DEF DecisionInv
<1>4. WalkInv'
  BY <1>1, <1>2 DEF WalkInv
<1>5. CASE source = "file" /\ UNCHANGED <<resync_needed, bookVars>>
  <2>1. BookInv'
    BY <1>1, <1>2, <1>5 DEF BookInv, bookVars
  <2>2. TrackInv'
    BY <1>1, <1>5 DEF TrackInv
  <2> QED BY <1>3, <1>4, <2>1, <2>2 DEF BacktestInv
<1>6. ASSUME NEW qty \in Qty \ {0}, HandleSnapshot(SyntheticSnapshot(qty))
      PROVE  BookInv' /\ TrackInv'
  <2>1. PICK new : new = At("bid", walk.bids) \cup At("ask", walk.asks)
    OBVIOUS
  <2>2. PICK b : b = [l \in Level |-> IF l \in new THEN qty ELSE 0]
    OBVIOUS
  <2>3. SyntheticSnapshot(qty).id = walk.last /\ SyntheticSnapshot(qty).book = b
    BY <2>1, <2>2 DEF SyntheticSnapshot
  <2>4. Valid(buf, walk.last) = {}
    BY <1>1 DEF Valid
  <2>5. GoLive(walk.last, b)
    BY <1>6, <2>3, <2>4 DEF HandleSnapshot
  <2>6. b \in Book /\ qty > 0
    BY <2>2, QtyAssumption DEF Book
  <2>7. walk.last \in Nat
    BY <1>2 DEF WalkInv
  <2>8. BookInv'
    BY <1>1, <1>2, <2>5, <2>6, <2>7 DEF BookInv, GoLive
  <2>9. {l \in Level : b[l] > 0} = new
    <3>1. new \subseteq Level
      BY <2>1 DEF At
    <3>2. \A l \in Level : b[l] > 0 <=> l \in new
      <4>1. \A l \in Level : b[l] = IF l \in new THEN qty ELSE 0
        BY <2>2
      <4>2. ~(0 > 0)
        OBVIOUS
      <4> QED BY <2>6, <4>1, <4>2
    <3> QED BY <3>1, <3>2
  <2>10. TrackInv'
    <3>1. market' = << >> /\ walk' = walk /\ state' = "Live" /\ lastUpdateId' = walk.last /\ book' = b
      BY <1>1, <2>5 DEF GoLive
    <3> QED BY <2>1, <2>9, <3>1 DEF TrackInv, Tracks, At, Live
  <2> QED BY <2>8, <2>10
<1> QED BY <1>3, <1>4, <1>5, <1>6 DEF Start, BacktestInv

(* The strategy is shown a priced quote and its signal is checked. *)
LEMMA OnSnapshotInv ==
    ASSUME DecisionInv, NEW q, Priced(q), OnSnapshot(q)
    PROVE  DecisionInv'
<1>1. StrategyInv /\ RiskInv(Uuid) /\ trades \in Seq(Traded)
  BY DEF DecisionInv
<1>2. StrategyInv'
  BY <1>1, AskedInv DEF OnSnapshot
<1>3. CASE SignalOf(q) = NoSignal
  <2>1. UNCHANGED <<now, riskVars, trades>>
    BY <1>3 DEF OnSnapshot
  <2> QED BY <1>1, <1>2, <2>1, RiskUnchanged DEF DecisionInv
<1>4. CASE SignalOf(q) # NoSignal
  <2>1. PICK sig \in Traded : sig = SignalOf(q)
    BY <1>1, <1>4, SignalType DEF Traded
  <2>2. PICK mid, balance : mid = q.bid /\ balance = FreeBalance * Unit
    OBVIOUS
  <2>3. \/ RejectLimits(sig, mid, balance, FALSE) /\ UNCHANGED trades
        \/ RejectRate(sig, mid, balance, FALSE) /\ UNCHANGED trades
        \/ \E id \in Uuid :
             \/ RejectDuplicate(sig, mid, balance, FALSE, id) /\ UNCHANGED trades
             \/ Approve(sig, mid, balance, FALSE, id) /\ trades' = Append(trades, sig)
    BY <1>4, <2>1, <2>2 DEF OnSnapshot, Trades
  <2>4. RiskInv(Uuid)'
    <3>1. CASE \E id \in Uuid : Approve(sig, mid, balance, FALSE, id)
      BY <1>1, <3>1, ApproveInv
    <3>2. CASE \E id \in Uuid : RejectDuplicate(sig, mid, balance, FALSE, id)
      BY <1>1, <3>2, RejectInv
    <3>3. CASE RejectLimits(sig, mid, balance, FALSE) \/ RejectRate(sig, mid, balance, FALSE)
      BY <1>1, <3>3, RejectInv
    <3> QED BY <2>3, <3>1, <3>2, <3>3
  <2>5. trades' \in Seq(Traded)
    <3>1. trades' = trades \/ trades' = Append(trades, sig)
      BY <2>3, Zenon
    <3>2. Append(trades, sig) \in Seq(Traded)
      BY <1>1
    <3> QED BY <1>1, <3>1, <3>2
  <2> QED BY <1>2, <2>4, <2>5 DEF DecisionInv
<1> QED BY <1>3, <1>4

(* An event applied: the book holds the levels it was drawn for. *)
LEMMA ReplayAppliedInv ==
    ASSUME BacktestInv, ReplayApplied
    PROVE  BacktestInv'
<1>1. WalkInv /\ BookInv /\ TrackInv /\ DecisionInv
  BY DEF BacktestInv
<1>2. market # << >> /\ market' = Tail(market) /\ UNCHANGED <<loadVars, phase>>
  BY DEF ReplayApplied, Receive, Waiting
<1>3. PICK e \in DepthUpdate : market = <<e>>
  BY <1>1, <1>2 DEF BookInv
<1>4. Head(market) = e /\ market' = << >> /\ phase # "start"
  BY <1>1, <1>2, <1>3 DEF BookInv
<1>5. state' = "Live" /\ buf' = << >> /\ lastUpdateId' = e.u /\ book' = ApplyLevels(book, e)
  BY <1>4 DEF ReplayApplied, ApplyUpdate, GoLive
<1>6. BookInv'
  <2>1. e.u \in Nat
    BY DEF DepthUpdate
  <2>2. ApplyLevels(book, e) \in Book
    BY <1>1, ApplyLevelsType DEF BookInv
  <2> QED BY <1>1, <1>2, <1>4, <1>5, <2>1, <2>2 DEF BookInv
<1>7. WalkInv'
  BY <1>1, <1>2 DEF WalkInv, loadVars
<1>8. TrackInv'
  <2>1. source' = source /\ walk' = walk /\ phase' = phase
    BY <1>2 DEF loadVars
  <2>2. source = "synthetic" => e.u = walk.last /\ Tracks(ApplyLevels(book, e))
    BY <1>1, <1>3, <1>4 DEF TrackInv
  <2> QED BY <1>4, <1>5, <2>1, <2>2 DEF TrackInv, Tracks, At, Live
<1>9. DecisionInv'
  <2>1. CASE HasQuote(book')
    <3>1. PICK q : q = QuoteOf(book') /\ OnSnapshot(q)
      BY <2>1 DEF ReplayApplied
    <3>2. Priced(q)
      BY <2>1, <3>1, QuotePriced
    <3> QED BY <1>1, <3>1, <3>2, OnSnapshotInv
  <2>2. CASE ~HasQuote(book')
    <3>1. UNCHANGED <<strategyVars, now, riskVars, trades>>
      BY <2>2 DEF ReplayApplied
    <3> QED BY <1>1, <3>1, StrategyUnchanged, RiskUnchanged DEF DecisionInv
  <2> QED BY <2>1, <2>2
<1> QED BY <1>6, <1>7, <1>8, <1>9 DEF BacktestInv

(* A synthetic event is chained, so none is skipped; one of a file may be. *)
LEMMA ReplaySkippedInv ==
    ASSUME BacktestInv, ReplaySkipped
    PROVE  BacktestInv'
<1>1. WalkInv /\ BookInv /\ TrackInv /\ DecisionInv
  BY DEF BacktestInv
<1>2. /\ market # << >> /\ market' = Tail(market)
      /\ UNCHANGED <<strategyVars, now, riskVars, loadVars, replayVars>>
  BY DEF ReplaySkipped, Receive, Waiting
<1>3. PICK e \in DepthUpdate : market = <<e>>
  BY <1>1, <1>2 DEF BookInv
<1>4. Head(market) = e /\ market' = << >> /\ phase # "start" /\ phase' = phase
  BY <1>1, <1>2, <1>3 DEF BookInv, replayVars
<1>5. BufferUpdate(e) \/ SkipStale(e) \/ DetectGap(e)
  BY <1>4 DEF ReplaySkipped
<1>6. BookInv'
  <2>1. CASE BufferUpdate(e) \/ SkipStale(e)
    BY <1>1, <1>4, <2>1 DEF BookInv, BufferUpdate, SkipStale, bookVars
  <2>2. CASE DetectGap(e)
    BY <1>1, <1>4, <2>2, QtyAssumption DEF BookInv, DetectGap, Reset, EmptyBook, Book
  <2> QED BY <1>5, <2>1, <2>2
<1>7. WalkInv'
  BY <1>1, <1>2 DEF WalkInv, loadVars
<1>8. source # "synthetic"
  BY <1>1, <1>3, <1>4, <1>5 DEF TrackInv, BufferUpdate, SkipStale, DetectGap, Stale
<1>9. TrackInv'
  BY <1>2, <1>8 DEF TrackInv, loadVars
<1>10. DecisionInv'
  BY <1>1, <1>2, StrategyUnchanged, RiskUnchanged DEF DecisionInv, replayVars
<1> QED BY <1>6, <1>7, <1>9, <1>10 DEF BacktestInv

(* The invariant is inductive. *)
LEMMA BacktestStep ==
    ASSUME BacktestInv, [BacktestNext]_backtestVars
    PROVE  BacktestInv'
<1>1. WalkInv /\ BookInv /\ TrackInv /\ DecisionInv
  BY DEF BacktestInv
<1>2. ASSUME UNCHANGED <<market, bookVars, strategyVars, loadVars, trades>>,
             RiskInv(Uuid)',
             phase' = phase \/ (phase # "start" /\ phase' = "done")
      PROVE  BacktestInv'
  <2>1. BookInv'
    BY <1>1, <1>2 DEF BookInv, bookVars
  <2>2. WalkInv'
    BY <1>1, <1>2 DEF WalkInv, loadVars
  <2>3. TrackInv'
    BY <1>1, <1>2 DEF TrackInv, Tracks, At, Live, Chained, ApplyLevels, bookVars, loadVars
  <2>4. DecisionInv'
    BY <1>1, <1>2, StrategyUnchanged DEF DecisionInv
  <2> QED BY <2>1, <2>2, <2>3, <2>4 DEF BacktestInv
<1>3. CASE Finish
  BY <1>1, <1>2, <1>3, RiskUnchanged DEF Finish, DecisionInv
<1>4. CASE WallClock
  BY <1>1, <1>2, <1>4, ClockTickInv DEF WallClock, DecisionInv, replayVars
<1>5. CASE UNCHANGED backtestVars
  BY <1>1, <1>2, <1>5, RiskUnchanged DEF backtestVars, DecisionInv, replayVars
<1> QED BY <1>3, <1>4, <1>5, StartInv, NextEventInv, ReplayAppliedInv, ReplaySkippedInv
        DEF BacktestNext

-----------------------------------------------------------------------------
(* Every behaviour of the backtester satisfies the invariant. *)
THEOREM BacktestCorrect == BacktestSpec => []BacktestInv
<1>1. BacktestInit => BacktestInv
  BY BacktestInitInv
<1>2. BacktestInv /\ [BacktestNext]_backtestVars => BacktestInv'
  BY BacktestStep
<1> QED BY <1>1, <1>2, PTL DEF BacktestSpec

(* The type invariant holds for every configuration of the backtester. *)
THEOREM BacktestTypeCorrect == BacktestSpec => []BacktestTypeOK
<1>1. BacktestInv => BacktestTypeOK
  <2>1. trades \in Seq(Traded) => trades \in Seq(Signal)
    BY DEF Traded
  <2> QED BY <2>1, RiskInvImplies DEF BacktestInv, DecisionInv, BookInv, StrategyInv, BacktestTypeOK
<1> QED BY <1>1, BacktestCorrect, PTL

(***************************************************************************)
(* However fast the replay asks for orders, no second of the clock sees    *)
(* more than max_orders_per_sec of them approved.                          *)
(***************************************************************************)
THEOREM BacktestRateLimited == BacktestSpec => []RateLimited
<1>1. BacktestInv => RateLimited
  BY RiskInvImplies DEF BacktestInv, DecisionInv
<1> QED BY <1>1, BacktestCorrect, PTL

(***************************************************************************)
(* Whatever ids the generator draws, none is given to two orders while it  *)
(* is remembered.                                                          *)
(***************************************************************************)
THEOREM BacktestIdsDistinct == BacktestSpec => []NoDuplicateInWindow
<1>1. BacktestInv => NoDuplicateInWindow
  BY RiskInvImplies DEF BacktestInv, DecisionInv
<1> QED BY <1>1, BacktestCorrect, PTL

(***************************************************************************)
(* The synthetic book is the one the walk quotes, and never crossed, for   *)
(* every walk, gap, depth and volume.                                      *)
(***************************************************************************)
THEOREM BookAlwaysTracksWalk == BacktestSpec => []BookTracksWalk
<1>1. ASSUME BacktestInv
      PROVE  BookTracksWalk
  <2> SUFFICES ASSUME source = "synthetic", phase # "start", market = << >>
               PROVE  /\ Tracks(book)
                      /\ \A b \in Present(book, "bid"), a \in Present(book, "ask") :
                           b.price < a.price
    BY DEF BookTracksWalk, Tracks
  <2>1. Tracks(book)
    BY <1>1 DEF BacktestInv, TrackInv
  <2>2. \A b \in Present(book, "bid") : b.price \in walk.bids
    BY <2>1 DEF Tracks, Present, At
  <2>3. \A a \in Present(book, "ask") : a.price \in walk.asks
    BY <2>1 DEF Tracks, Present, At
  <2> QED BY <1>1, <2>1, <2>2, <2>3 DEF BacktestInv, WalkInv
<1> QED BY <1>1, BacktestCorrect, PTL
-----------------------------------------------------------------------------
(***************************************************************************)
(* The ring buffer of the momentum strategy is a sliding window.           *)
(***************************************************************************)
WindowOf(r) ==
    [i \in 1 .. r.filled |-> r.prices[(r.head + PriceBuf - r.filled + i - 1) % PriceBuf]]

(* The remainder of a number that is at most once too large. *)
LEMMA Wraps ==
    ASSUME NEW n \in Nat \ {0}, NEW x \in 0 .. 2 * n - 1
    PROVE  x % n = IF x < n THEN x ELSE x - n
<1>1. CASE x < n
  BY <1>1
<1>2. CASE n <= x
  BY <1>2
<1> QED BY <1>1, <1>2

(* Where the sample is that is i-th in the window, counted without a remainder. *)
Slot(head, filled, i) ==
    IF head - filled + i - 1 < 0 THEN head - filled + i - 1 + PriceBuf ELSE head - filled + i - 1

(* The window of a ring, by slots. *)
LEMMA WindowFacts ==
    ASSUME NEW r \in Ring
    PROVE  /\ PriceBuf \in Nat \ {0} /\ r.prices \in [0 .. PriceBuf - 1 -> Nat]
           /\ r.head \in 0 .. PriceBuf - 1 /\ r.filled \in 0 .. PriceBuf
           /\ \A i \in 1 .. r.filled : /\ Slot(r.head, r.filled, i) \in 0 .. PriceBuf - 1
                                       /\ WindowOf(r)[i] = r.prices[Slot(r.head, r.filled, i)]
           /\ WindowOf(r) \in Seq(Nat) /\ Len(WindowOf(r)) = r.filled
<1>1. /\ PriceBuf \in Nat \ {0} /\ r.prices \in [0 .. PriceBuf - 1 -> Nat]
      /\ r.head \in 0 .. PriceBuf - 1 /\ r.filled \in 0 .. PriceBuf
  BY MomentumAssumption DEF Ring
<1>2. ASSUME NEW i \in 1 .. r.filled
      PROVE  /\ Slot(r.head, r.filled, i) \in 0 .. PriceBuf - 1
             /\ (r.head + PriceBuf - r.filled + i - 1) % PriceBuf = Slot(r.head, r.filled, i)
  <2>1. PICK n \in Nat \ {0}, h \in Nat, k \in Nat :
          n = PriceBuf /\ h = r.head /\ k = r.filled /\ h <= n - 1 /\ k <= n /\ i <= k /\ 1 <= i
    BY <1>1
  <2>2. PICK x \in Int : x = h + n - k + i - 1
    BY <2>1
  <2>3. x \in 0 .. 2 * n - 1
    BY <2>1, <2>2
  <2>4. x % n = IF x < n THEN x ELSE x - n
    BY <2>3, Wraps
  <2>5. Slot(h, k, i) = IF x < n THEN x ELSE x - n
    BY <2>1, <2>2 DEF Slot
  <2>6. Slot(h, k, i) \in 0 .. n - 1
    BY <2>3, <2>5
  <2> QED BY <2>1, <2>2, <2>4, <2>5, <2>6
<1>3. \A i \in 1 .. r.filled : r.prices[Slot(r.head, r.filled, i)] \in Nat
  BY <1>1, <1>2
<1>4. WindowOf(r) = [i \in 1 .. r.filled |-> r.prices[Slot(r.head, r.filled, i)]]
  BY <1>2 DEF WindowOf
<1>5. WindowOf(r) \in [1 .. r.filled -> Nat] /\ r.filled \in Nat
  BY <1>1, <1>3, <1>4
<1>6. WindowOf(r) \in Seq(Nat) /\ Len(WindowOf(r)) = r.filled
  BY <1>5
<1> QED BY <1>1, <1>2, <1>4, <1>6

(* What a push does to a ring, without a remainder. *)
LEMMA PushedFacts ==
    ASSUME NEW r \in Ring, NEW mid \in Nat
    PROVE  /\ Pushed(r, mid).filled = IF r.filled < PriceBuf THEN r.filled + 1 ELSE PriceBuf
           /\ Pushed(r, mid).head = IF r.head + 1 < PriceBuf THEN r.head + 1 ELSE 0
           /\ Pushed(r, mid).prices[r.head] = mid
           /\ \A j \in 0 .. PriceBuf - 1 : j # r.head => Pushed(r, mid).prices[j] = r.prices[j]
<1>1. PICK n \in Nat \ {0}, h \in Nat : n = PriceBuf /\ h = r.head /\ h <= n - 1
  BY WindowFacts
<1>2. h + 1 \in 0 .. 2 * n - 1
  BY <1>1
<1>3. (h + 1) % n = IF h + 1 < n THEN h + 1 ELSE (h + 1) - n
  BY <1>2, Wraps
<1>4. (h + 1) % n = IF h + 1 < n THEN h + 1 ELSE 0
  BY <1>1, <1>3
<1>5. r.prices \in [0 .. PriceBuf - 1 -> Nat] /\ r.head \in 0 .. PriceBuf - 1 /\ r.filled \in 0 .. PriceBuf
  BY WindowFacts
<1>6. Pushed(r, mid).filled = IF r.filled < PriceBuf THEN r.filled + 1 ELSE PriceBuf
  BY <1>1, <1>5 DEF Pushed
<1>7. Pushed(r, mid).head = (h + 1) % n
  BY <1>1 DEF Pushed
<1>8. Pushed(r, mid).prices = [r.prices EXCEPT ![r.head] = mid]
  BY DEF Pushed
<1> QED BY <1>1, <1>4, <1>5, <1>6, <1>7, <1>8

(* The latest sample is in the slot that the head has just left, ... *)
LEMMA LatestSlot ==
    ASSUME NEW n \in Nat, n = PriceBuf, NEW h \in Nat, h < n,
           NEW t \in Nat, t = (IF h + 1 < n THEN h + 1 ELSE 0), NEW m \in Nat
    PROVE  Slot(t, m, m) = h
<1>1. PICK x \in Int : x = t - m + m - 1 /\ x = t - 1
  OBVIOUS
<1>2. Slot(t, m, m) = IF x < 0 THEN x + n ELSE x
  BY <1>1 DEF Slot
<1> QED BY <1>1, <1>2

(* ... where none of those was that stay. *)
LEMMA OtherSlots ==
    ASSUME NEW n \in Nat, n = PriceBuf, NEW h \in Nat, h < n, NEW k \in Nat, k <= n
    PROVE  \A j \in 1 .. k : k < n \/ j # 1 => Slot(h, k, j) # h
<1> SUFFICES ASSUME NEW j \in 1 .. k, k < n \/ j # 1
             PROVE  Slot(h, k, j) # h
  OBVIOUS
<1>1. PICK y \in Int : y = h - k + j - 1
  OBVIOUS
<1>2. Slot(h, k, j) = IF y < 0 THEN y + n ELSE y
  BY <1>1 DEF Slot
<1>3. y < h /\ h # y + n
  BY <1>1
<1> QED BY <1>2, <1>3

(***************************************************************************)
(* A price pushed on the ring is appended to the window, which drops its   *)
(* oldest one when it is full.                                             *)
(***************************************************************************)
LEMMA WindowPushed ==
    ASSUME NEW r \in Ring, NEW mid \in Nat
    PROVE  WindowOf(Pushed(r, mid)) = Rule!Latest(Append(WindowOf(r), mid))
<1>1. PICK p \in Ring : p = Pushed(r, mid)
  BY PushedType
<1>2. PICK n \in Nat \ {0}, h \in Nat, k \in Nat :
        n = PriceBuf /\ h = r.head /\ k = r.filled /\ h <= n - 1 /\ k <= n
  <2>1. PriceBuf \in Nat \ {0} /\ r.head \in 0 .. PriceBuf - 1 /\ r.filled \in 0 .. PriceBuf
    BY WindowFacts, Zenon
  <2>2. PICK n \in Nat \ {0} : n = PriceBuf
    BY <2>1
  <2>3. PICK h \in Nat : h = r.head /\ h <= n - 1
    BY <2>1, <2>2
  <2>4. PICK k \in Nat : k = r.filled /\ k <= n
    BY <2>1, <2>2
  <2> QED BY <2>2, <2>3, <2>4
<1>3. PICK t \in Nat, m \in Nat :
        /\ t = p.head /\ m = p.filled
        /\ m = (IF k < n THEN k + 1 ELSE n) /\ t = (IF h + 1 < n THEN h + 1 ELSE 0)
  <2>1. p.head \in Nat /\ p.filled \in Nat
    BY WindowFacts
  <2> QED BY <1>1, <1>2, <2>1, PushedFacts
<1>4. /\ Slot(t, m, m) = h
      /\ \A i \in 1 .. m - 1, j \in 1 .. k :
           j = (IF k < n THEN i ELSE i + 1) => Slot(t, m, i) = Slot(h, k, j) /\ Slot(h, k, j) # h
  <2>1. n \in Nat /\ h < n
    BY <1>2
  <2>2. Slot(t, m, m) = h
    BY <1>2, <1>3, <2>1, LatestSlot
  <2>3. \A i \in 1 .. m - 1, j \in 1 .. k :
          j = (IF k < n THEN i ELSE i + 1) => Slot(t, m, i) = Slot(h, k, j)
    <3> SUFFICES ASSUME NEW i \in 1 .. m - 1, NEW j \in 1 .. k, j = IF k < n THEN i ELSE i + 1
                 PROVE  Slot(t, m, i) = Slot(h, k, j)
      OBVIOUS
    <3>1. PICK x \in Int, y \in Int : x = t - m + i - 1 /\ y = h - k + j - 1
      OBVIOUS
    <3>2. /\ Slot(t, m, i) = IF x < 0 THEN x + n ELSE x
          /\ Slot(h, k, j) = IF y < 0 THEN y + n ELSE y
      BY <1>2, <3>1 DEF Slot
    <3>3. CASE k < n
      <4>1. x = y \/ (x < 0 /\ 0 <= y /\ y = x + n)
        BY <1>2, <1>3, <3>1, <3>3
      <4> QED BY <3>2, <4>1
    <3>4. CASE k = n
      <4>1. x = y \/ (x < 0 /\ 0 <= y /\ y = x + n)
        BY <1>2, <1>3, <3>1, <3>4
      <4> QED BY <3>2, <4>1
    <3> QED BY <1>2, <3>3, <3>4
  <2>4. \A j \in 1 .. k : k < n \/ j # 1 => Slot(h, k, j) # h
    BY <1>2, <2>1, OtherSlots
  <2> QED BY <1>2, <2>2, <2>3, <2>4
<1>5. PICK N : N = Nat
  OBVIOUS
<1>6. PICK w \in Seq(N) : w = WindowOf(r)
  BY <1>5, WindowFacts
<1>7. PICK a \in Seq(N) : /\ a = Append(w, mid) /\ DOMAIN a = 1 .. Len(w) + 1 /\ Len(a) = Len(w) + 1
                          /\ \A i \in 1 .. Len(w) : a[i] = w[i]
                          /\ a[Len(w) + 1] = mid
  <2>1. mid \in N
    BY <1>5
  <2>2. PICK a \in Seq(N) : a = Append(w, mid)
    BY <2>1, AppendFacts
  <2>3. /\ DOMAIN a = 1 .. Len(w) + 1 /\ Len(a) = Len(w) + 1
        /\ \A i \in 1 .. Len(w) : a[i] = w[i]
        /\ a[Len(w) + 1] = mid
    BY <2>1, <2>2, AppendFacts
  <2> QED BY <2>2, <2>3
<1>8. PICK v \in Seq(N) : v = WindowOf(p)
  BY <1>5, WindowFacts
<1>9. Len(w) = k /\ Len(v) = m /\ v = [i \in 1 .. m |-> v[i]]
  <2>1. Len(w) = k /\ Len(v) = m
    BY <1>6, <1>8, <1>2, <1>3, WindowFacts
  <2> QED BY <2>1, SeqIsFunction
<1>10. \A i \in 1 .. k : w[i] = r.prices[Slot(h, k, i)] /\ Slot(h, k, i) \in 0 .. n - 1
  BY <1>6, <1>2, WindowFacts
<1>11. \A i \in 1 .. m : v[i] = p.prices[Slot(t, m, i)] /\ Slot(t, m, i) \in 0 .. n - 1
  BY <1>8, <1>2, <1>3, WindowFacts
<1>12. p.prices[h] = mid /\ \A j \in 0 .. n - 1 : j # h => p.prices[j] = r.prices[j]
  <2>1. /\ Pushed(r, mid).prices[r.head] = mid
        /\ \A j \in 0 .. PriceBuf - 1 : j # r.head => Pushed(r, mid).prices[j] = r.prices[j]
    BY PushedFacts
  <2> QED BY <1>1, <1>2, <2>1
<1>13. m >= 1 /\ v[m] = mid
  <2>1. m >= 1 /\ m \in 1 .. m
    BY <1>2, <1>3
  <2> QED BY <1>11, <1>12, <1>4, <2>1
<1>14. ASSUME NEW i \in 1 .. m - 1, NEW j \in 1 .. k, Slot(t, m, i) = Slot(h, k, j), Slot(h, k, j) # h
       PROVE  v[i] = w[j]
  <2>1. i \in 1 .. m
    BY <1>3
  <2> QED BY <1>10, <1>11, <1>12, <1>14, <2>1
<1>15. CASE k < n
  <2>1. m = k + 1
    BY <1>3, <1>15
  <2>2. ASSUME NEW i \in 1 .. m
        PROVE  v[i] = a[i]
    <3>1. CASE i = m
      BY <1>7, <1>9, <1>13, <2>1, <3>1
    <3>2. CASE i # m
      <4>1. i \in 1 .. m - 1 /\ i \in 1 .. k
        BY <1>3, <2>1, <3>2
      <4>2. Slot(t, m, i) = Slot(h, k, i) /\ Slot(h, k, i) # h
        BY <1>4, <1>15, <4>1
      <4>3. v[i] = w[i] /\ a[i] = w[i]
        BY <1>7, <1>9, <1>14, <4>1, <4>2
      <4> QED BY <4>3
    <3> QED BY <3>1, <3>2
  <2>3. a = [i \in 1 .. m |-> a[i]]
    <3>1. Len(a) = m
      BY <1>7, <1>9, <2>1
    <3> QED BY <3>1, SeqIsFunction
  <2>4. v = a
    BY <1>9, <2>2, <2>3
  <2>5. Rule!Latest(a) = a
    <3>1. Len(a) <= PriceBuf
      BY <1>7, <1>2, <1>9, <1>15
    <3> QED BY <3>1 DEF Rule!Latest
  <2> QED BY <1>1, <1>6, <1>7, <1>8, <2>4, <2>5
<1>16. CASE k = n
  <2>1. m = n
    BY <1>3, <1>16
  <2>2. ASSUME NEW i \in 1 .. m
        PROVE  v[i] = a[i + 1]
    <3>1. CASE i = m
      BY <1>7, <1>9, <1>13, <1>16, <2>1, <3>1
    <3>2. CASE i # m
      <4>1. i \in 1 .. m - 1 /\ i + 1 \in 1 .. k
        BY <1>3, <1>16, <2>1, <3>2
      <4>2. Slot(t, m, i) = Slot(h, k, i + 1) /\ Slot(h, k, i + 1) # h
        BY <1>4, <1>16, <4>1
      <4>3. v[i] = w[i + 1] /\ a[i + 1] = w[i + 1]
        BY <1>7, <1>9, <1>14, <4>1, <4>2
      <4> QED BY <4>3
    <3> QED BY <3>1, <3>2
  <2>3. Rule!Latest(a) = SubSeq(a, 2, n + 1)
    <3>1. Len(a) = n + 1 /\ ~(n + 1 <= n) /\ ((n + 1) - n) + 1 = 2
      BY <1>7, <1>9, <1>16
    <3>2. Rule!Latest(a) = SubSeq(a, ((n + 1) - n) + 1, n + 1)
      BY <1>2, <3>1 DEF Rule!Latest
    <3> QED BY <3>1, <3>2
  <2>4. SubSeq(a, 2, n + 1) = [i \in 1 .. n |-> a[i + 1]]
    <3>1. SubSeq(a, 2, n + 1) = [i \in 1 .. ((n + 1) - 2) + 1 |-> a[(i + 2) - 1]]
      OBVIOUS
    <3>2. ((n + 1) - 2) + 1 = n /\ \A i \in 1 .. n : (i + 2) - 1 = i + 1
      OBVIOUS
    <3> QED BY <3>1, <3>2
  <2>5. v = [i \in 1 .. n |-> a[i + 1]]
    BY <1>9, <2>1, <2>2
  <2> QED BY <1>1, <1>6, <1>7, <1>8, <2>3, <2>4, <2>5
<1> QED BY <1>2, <1>15, <1>16

(* The lookback price is the sample that many places before the latest. *)
LEMMA PastIsSample ==
    ASSUME NEW r \in Ring, WarmedUp(r)
    PROVE  WindowOf(r)[r.filled - Lookback] = Past(r)
<1>1. PICK n \in Nat \ {0} : n = PriceBuf
  BY MomentumAssumption
<1>2. PICK h \in Nat : h = r.head /\ h < n
  <2>1. r.head \in 0 .. PriceBuf - 1
    BY WindowFacts
  <2> QED BY <1>1, <2>1
<1>3. PICK k \in Nat : k = r.filled /\ k <= n
  BY <1>1, WindowFacts
<1>4. PICK b \in Nat : b = Lookback /\ b < n /\ b < k
  <2>1. Lookback \in Nat /\ Lookback < n
    BY <1>1, MomentumAssumption DEF Lookback
  <2> QED BY <1>3, <2>1 DEF WarmedUp
<1>5. PICK x \in Int : x = h + n - 1 - b
  BY <1>1
<1>6. x % n = IF x < n THEN x ELSE x - n
  <2>1. x \in 0 .. 2 * n - 1
    BY <1>2, <1>4, <1>5
  <2> QED BY <2>1, Wraps
<1>7. PICK i \in 1 .. k : i = k - b
  BY <1>4
<1>8. Slot(h, k, i) = x % n
  <2>1. PICK y \in Int : y = h - k + i - 1 /\ y = h - 1 - b
    BY <1>7
  <2>2. Slot(h, k, i) = IF y < 0 THEN y + n ELSE y
    BY <1>1, <2>1 DEF Slot
  <2> QED BY <1>4, <1>5, <1>6, <2>1, <2>2
<1>9. Past(r) = r.prices[x % n]
  BY <1>1, <1>2, <1>4, <1>5 DEF Past
<1>10. WindowOf(r)[i] = r.prices[Slot(h, k, i)]
  BY <1>2, <1>3, WindowFacts
<1> QED BY <1>3, <1>4, <1>7, <1>8, <1>9, <1>10

(* The latest sample is the price pushed last. *)
LEMMA PushedIsLatest ==
    ASSUME NEW r \in Ring, NEW mid \in Nat
    PROVE  WindowOf(Pushed(r, mid))[Pushed(r, mid).filled] = mid
<1>1. PICK p \in Ring : p = Pushed(r, mid)
  BY PushedType
<1>2. PICK n \in Nat : n = PriceBuf /\ n > 0
  BY MomentumAssumption
<1>3. PICK h \in Nat : h = r.head /\ h < n
  BY <1>2, WindowFacts
<1>4. PICK t \in Nat : t = p.head /\ t = (IF h + 1 < n THEN h + 1 ELSE 0)
  BY <1>1, <1>2, <1>3, PushedFacts
<1>5. PICK m \in Nat : m = p.filled /\ m \in 1 .. m
  <2>1. r.filled \in Nat
    BY WindowFacts
  <2>2. p.filled \in Nat /\ p.filled >= 1
    BY <1>1, <1>2, <2>1, PushedFacts
  <2> QED BY <2>2
<1>6. Slot(t, m, m) = h
  BY <1>2, <1>3, <1>4, LatestSlot
<1>7. WindowOf(p)[m] = p.prices[Slot(t, m, m)]
  BY <1>4, <1>5, WindowFacts
<1>8. p.prices[h] = mid
  BY <1>1, <1>3, PushedFacts
<1> QED BY <1>1, <1>5, <1>6, <1>7, <1>8

-----------------------------------------------------------------------------
(* A price goes into a budget just when it is not above it. *)
LEMMA DivPositive ==
    ASSUME NEW p \in Nat \ {0}, NEW b \in Nat
    PROVE  /\ b \div p \in Nat
           /\ b \div p > 0 <=> p <= b
<1>1. b \div p \in Nat
  OBVIOUS
<1>2. p <= b => b \div p > 0
  OBVIOUS
<1>3. b < p => b \div p = 0
  OBVIOUS
<1> QED BY <1>1, <1>2, <1>3

(* The entry size is positive just when the rule finds the price within the budget. *)
LEMMA BudgetRule ==
    ASSUME NEW q, q.ask \in Nat
    PROVE  Rule!WithinBudget(q) <=> EntryQty(q.ask) > 0
<1>1. PICK p \in Nat, n \in Nat, b \in Nat : p = q.ask /\ n = OrderQty /\ b = Budget
  BY StrategyAssumption
<1>2. Rule!WithinBudget(q) <=> n > 0 /\ (p = 0 \/ p <= b)
  BY <1>1 DEF Rule!WithinBudget
<1>3. EntryQty(q.ask) = IF p > 0 /\ b \div p < n THEN b \div p ELSE n
  BY <1>1 DEF EntryQty
<1>4. CASE p = 0
  BY <1>2, <1>3, <1>4
<1>5. CASE p > 0
  <2>1. PICK d \in Nat : d = b \div p /\ (d > 0 <=> p <= b)
    BY <1>5, DivPositive
  <2> QED BY <1>2, <1>3, <1>5, <2>1
<1> QED BY <1>4, <1>5

(* The rule sees the price rise when the strategy does. *)
LEMMA RiseRule ==
    ASSUME ring \in Ring, NEW mid \in Nat, ring' = Pushed(ring, mid)
    PROVE  Rule!Risen <=> Rising(Pushed(ring, mid), mid)
<1>1. PICK p \in Ring : p = Pushed(ring, mid)
  BY PushedType
<1>2. PICK w : w = WindowOf(p) /\ w = Window'
  BY <1>1 DEF Window, WindowOf
<1>3. PICK k \in Nat : k = p.filled /\ Len(w) = k /\ w[k] = mid
  <2>1. p.filled \in Nat
    BY MomentumAssumption DEF Ring
  <2>2. Len(WindowOf(p)) = p.filled
    BY WindowFacts
  <2>3. w[p.filled] = mid
    BY <1>1, <1>2, PushedIsLatest
  <2> QED BY <1>2, <2>1, <2>2, <2>3
<1>4. Rule!Risen <=> /\ k > Lookback
                     /\ w[k - Lookback] > 0
                     /\ (mid - w[k - Lookback]) * 10000 >= MomentumBp * w[k - Lookback]
  BY <1>2, <1>3 DEF Rule!Risen
<1>5. Rising(p, mid) <=> /\ k > Lookback
                         /\ Past(p) > 0
                         /\ (mid - Past(p)) * 10000 >= MomentumBp * Past(p)
  BY <1>3 DEF Rising, WarmedUp
<1>6. k > Lookback => w[k - Lookback] = Past(p)
  BY <1>2, <1>3, PastIsSample DEF WarmedUp
<1> QED BY <1>1, <1>4, <1>5, <1>6

(***************************************************************************)
(* One tick of the momentum strategy is one of its rule.                   *)
(***************************************************************************)
LEMMA MomentumStep ==
    ASSUME StrategyInv, Momentum, Momentum', NEW q, Priced(q), quote' = q, MomentumAsked(q)
    PROVE  Rule!Shown
<1>1. /\ q.bid \in Nat /\ q.ask \in Nat /\ Mid(q) \in Nat
      /\ holding \in BOOLEAN /\ ring \in Ring /\ held_ticks \in Nat
      /\ cooldown_left \in 0 .. Cooldown /\ Cooldown \in Nat
  BY MomentumAssumption DEF Priced, Mid, StrategyInv, StrategiesTypeOK, PositionTypeOK, MomentumTypeOK
<1>2. ring' = Pushed(ring, Mid(q))
  BY DEF MomentumAsked
<1>3. Rule!Sees(q)
  BY <1>1, <1>2, WindowPushed DEF Rule!Sees, Window, WindowOf, Mid
<1>4. Rule!Risen <=> Rising(Pushed(ring, Mid(q)), Mid(q))
  BY <1>1, <1>2, RiseRule
<1>5. Rule!Leans(q) <=> BidHeavy(q)
  BY DEF Rule!Leans, BidHeavy
<1>6. Rule!WithinBudget(q) <=> EntryQty(q.ask) > 0
  BY <1>1, BudgetRule
<1>7. ~holding => (Rule!MayOpen(q) <=> MomentumEnters(q))
  <2>1. ~holding => (Cooldown - cooldown_left = Cooldown <=> cooldown_left = 0)
    BY <1>1
  <2>2. ~holding => (Rule!MayOpen(q) <=> /\ cooldown_left = 0
                                          /\ Rule!Risen /\ Rule!Leans(q) /\ Rule!WithinBudget(q))
    BY <2>1 DEF Rule!MayOpen
  <2> QED BY <1>4, <1>5, <1>6, <2>2 DEF MomentumEnters
<1>8. holding => (Rule!MustClose(q) <=> MomentumExits(q))
  BY DEF Rule!MustClose, MomentumExits, Gained, Lost
<1>9. CASE MomentumEnters(q) /\ Enter(q.ask) /\ held_ticks' = 0 /\ UNCHANGED cooldown_left
  <2>1. ~holding /\ Rule!MayOpen(q)
    BY <1>7, <1>9 DEF MomentumEnters
  <2>2. holding' = TRUE /\ entry_price' = q.ask
    BY <1>9 DEF Enter
  <2>3. Rule!Opens(q)
    BY <1>9, <2>1, <2>2 DEF Rule!Opens
  <2> QED BY <1>3, <2>3 DEF Rule!Shown
<1>10. CASE MomentumExits(q) /\ Exit /\ held_ticks' = held_ticks + 1 /\ cooldown_left' = Cooldown
  <2>1. holding /\ Rule!MustClose(q)
    BY <1>8, <1>10 DEF MomentumExits
  <2>2. holding' = FALSE /\ entry_price' = entry_price
    BY <1>10 DEF Exit
  <2>3. Cooldown - cooldown_left' = 0
    BY <1>1, <1>10
  <2>4. Rule!Closes(q)
    BY <2>1, <2>2, <2>3 DEF Rule!Closes
  <2> QED BY <1>3, <2>4 DEF Rule!Shown
<1>11. CASE /\ ~MomentumEnters(q) /\ ~MomentumExits(q)
            /\ held_ticks' = IF holding THEN held_ticks + 1 ELSE held_ticks
            /\ cooldown_left' = IF ~holding /\ cooldown_left > 0 THEN cooldown_left - 1
                                ELSE cooldown_left
            /\ UNCHANGED positionVars
  <2>1. holding' = holding /\ entry_price' = entry_price
    BY <1>11 DEF positionVars
  <2>2. CASE holding
    <3>1. ~Rule!MustClose(q) /\ held_ticks' = held_ticks + 1
      BY <1>8, <1>11, <2>2
    <3>2. Rule!Keeps(q)
      BY <2>1, <2>2, <3>1 DEF Rule!Keeps
    <3> QED BY <1>3, <3>2 DEF Rule!Shown
  <2>3. CASE ~holding
    <3>1. ~Rule!MayOpen(q)
      BY <1>7, <1>11, <2>3
    <3>2. Cooldown - cooldown_left' = IF Cooldown - cooldown_left < Cooldown
                                      THEN Cooldown - cooldown_left + 1 ELSE Cooldown - cooldown_left
      BY <1>1, <1>11, <2>3
    <3>3. Rule!StaysOut(q)
      BY <2>1, <2>3, <3>1, <3>2 DEF Rule!StaysOut
    <3> QED BY <1>3, <3>3 DEF Rule!Shown
  <2> QED BY <1>1, <2>2, <2>3
<1> QED BY <1>9, <1>10, <1>11 DEF MomentumAsked

(* A step that asks no strategy, or another one, leaves the rule alone. *)
LEMMA RuleUnmoved ==
    ASSUME UNCHANGED <<strategy, momentumVars>>,
           UNCHANGED <<positionVars, quote>> \/ ~Momentum
    PROVE  UNCHANGED Rule!ruleVars
<1>1. Momentum' = Momentum
  BY DEF Momentum
<1>2. Window' = Window /\ held_ticks' = held_ticks /\ cooldown_left' = cooldown_left
  BY DEF momentumVars, Window
<1>3. CASE Momentum
  <2>1. quote' = quote /\ holding' = holding /\ entry_price' = entry_price
    BY <1>3 DEF positionVars
  <2> QED BY <1>1, <1>2, <2>1 DEF Rule!ruleVars
<1>4. CASE ~Momentum
  BY <1>1, <1>2, <1>4 DEF Rule!ruleVars
<1> QED BY <1>3, <1>4

(***************************************************************************)
(* Asked at every applied update, the momentum strategy does what its rule *)
(* says, for every size of the ring and every lookback.                    *)
(***************************************************************************)
THEOREM BacktestFollowsRule == BacktestSpec => FollowsRule
<1>1. BacktestInit => Rule!RuleInit
  <2> SUFFICES ASSUME BacktestInit PROVE Rule!RuleInit
    OBVIOUS
  <2>1. ring.filled = 0 /\ holding = FALSE /\ cooldown_left = 0
    BY DEF BacktestInit, StrategiesInit, PositionInit, MomentumInit
  <2>2. Window = << >>
    BY <2>1 DEF Window
  <2>3. Cooldown - 0 = Cooldown
    BY MomentumAssumption
  <2> QED BY <2>1, <2>2, <2>3 DEF Rule!RuleInit
<1>2. BacktestInv /\ [BacktestNext]_backtestVars => [Rule!Shown]_Rule!ruleVars
  <2> SUFFICES ASSUME BacktestInv, [BacktestNext]_backtestVars, ~UNCHANGED Rule!ruleVars
               PROVE  Rule!Shown
    BY Zenon
  <2>1. ~UNCHANGED <<strategyVars, quote>>
    BY RuleUnmoved DEF strategyVars
  <2>2. PICK q : Priced(q) /\ Asked(q) /\ quote' = q
    <3>1. ReplayApplied
      BY <2>1 DEF BacktestNext, Start, NextEvent, ReplaySkipped, Finish, WallClock,
         backtestVars, replayVars
    <3>2. HasQuote(book') /\ \E q \in {QuoteOf(book')} : OnSnapshot(q)
      BY <2>1, <3>1 DEF ReplayApplied
    <3> QED BY <3>2, QuotePriced DEF OnSnapshot
  <2>3. Momentum /\ MomentumAsked(q) /\ strategy' = strategy
    <3>1. ~(strategy = "pingpong" /\ PingPongAsked(q) /\ UNCHANGED momentumVars)
      BY <2>2, RuleUnmoved DEF Asked, Momentum
    <3>2. ~(strategy = "noop" /\ UNCHANGED <<positionVars, momentumVars>>)
      BY <2>2, RuleUnmoved DEF Asked, Momentum
    <3> QED BY <2>2, <3>1, <3>2 DEF Asked, Momentum
  <2>4. Momentum'
    BY <2>3 DEF Momentum
  <2>5. StrategyInv
    BY DEF BacktestInv, DecisionInv
  <2> QED BY <2>2, <2>3, <2>4, <2>5, MomentumStep
<1> QED BY <1>1, <1>2, BacktestCorrect, PTL DEF BacktestSpec, FollowsRule, Rule!RuleSpec

-----------------------------------------------------------------------------
(* P grows by the same amount from each unit after a to the next, up to b. *)
Grows(P, a, b, x) ==
    /\ \E N \in Nat : b <= N /\ P \in [0 .. N -> Int]
    /\ \A i \in a + 1 .. b : P[i] = P[i - 1] + x

(* What grows by x in each of some steps grows by that many times x. *)
LEMMA SteadyGrowth ==
    ASSUME NEW a \in Nat, NEW b \in Nat, a <= b, NEW x \in Int, NEW P, Grows(P, a, b, x)
    PROVE  P[b] = P[a] + x * (b - a)
<1> PICK N \in Nat : b <= N /\ P \in [0 .. N -> Int]
  BY DEF Grows
<1>1. PICK m \in Nat : m = b - a /\ b = a + m
  OBVIOUS
<1> DEFINE T == {k \in 0 .. m : P[a + k] = P[a] + x * k}
<1>2. 0 \in T
  <2>1. x * 0 = 0 /\ P[a] \in Int
    OBVIOUS
  <2> QED BY <2>1
<1>3. ASSUME NEW k \in 0 .. m, k \in T, k < m
      PROVE  k + 1 \in T
  <2>1. a + (k + 1) \in a + 1 .. b /\ (a + (k + 1)) - 1 = a + k /\ k + 1 \in 0 .. m
    BY <1>1, <1>3
  <2>2. P[a + (k + 1)] = P[a + k] + x
    BY <2>1 DEF Grows
  <2>3. x * (k + 1) = x * k + x /\ x * k \in Int
    OBVIOUS
  <2> QED BY <1>3, <2>1, <2>2, <2>3
<1>4. m \in T
  <2> HIDE DEF T
  <2>1. 0 .. m \subseteq T
    BY <1>2, <1>3, UpTo
  <2> QED BY <2>1
<1> QED BY <1>1, <1>4

(***************************************************************************)
(* The lots of w hold the units lo + 1 .. hi of what was bought, oldest    *)
(* first, each at the price that D has for its units; c counts the units   *)
(* up to the end of each lot.                                              *)
(***************************************************************************)
Counts(c, w, lo, hi, D) ==
    /\ c \in [0 .. Len(w) -> Nat]
    /\ c[0] = lo /\ c[Len(w)] = hi
    /\ \A j \in 1 .. Len(w) :
         /\ c[j] = c[j - 1] + w[j].qty
         /\ \A i \in c[j - 1] + 1 .. c[j] : D[i] = w[j].price

Holds(w, lo, hi, D) == w \in Seq(Lot) /\ \E c : Counts(c, w, lo, hi, D)

(* No lots hold no units. *)
LEMMA HoldsNothing ==
    ASSUME NEW lo \in Nat, NEW D
    PROVE  Holds(<< >>, lo, lo, D)
<1> DEFINE c == [j \in 0 .. 0 |-> lo]
<1>1. c \in [0 .. Len(<< >>) -> Nat] /\ c[0] = lo /\ c[Len(<< >>)] = lo
  OBVIOUS
<1>2. \A j \in 1 .. Len(<< >>) : FALSE
  OBVIOUS
<1>3. << >> \in Seq(Lot)
  OBVIOUS
<1> HIDE DEF c
<1> QED BY <1>1, <1>2, <1>3 DEF Holds, Counts

(* One more lot holds the next units. *)
LEMMA HoldsAppend ==
    ASSUME NEW w, NEW lo \in Nat, NEW hi \in Nat, NEW D, Holds(w, lo, hi, D),
           NEW lot \in Lot, \A i \in hi + 1 .. hi + lot.qty : D[i] = lot.price
    PROVE  Holds(Append(w, lot), lo, hi + lot.qty, D)
<1>1. PICK c : Counts(c, w, lo, hi, D)
  BY DEF Holds
<1>2. PICK n \in Nat, v \in Seq(Lot) :
        /\ n = Len(w) /\ v = Append(w, lot) /\ Len(v) = n + 1
        /\ \A k \in 1 .. n : v[k] = w[k]
        /\ v[n + 1] = lot
  <2>1. w \in Seq(Lot)
    BY DEF Holds
  <2>2. /\ Append(w, lot) \in Seq(Lot) /\ Len(w) \in Nat /\ Len(Append(w, lot)) = Len(w) + 1
        /\ \A k \in 1 .. Len(w) : Append(w, lot)[k] = w[k]
        /\ Append(w, lot)[Len(w) + 1] = lot
    BY <2>1, AppendFacts
  <2> QED BY <2>2, Zenon
<1> DEFINE d == [j \in 0 .. n + 1 |-> IF j = n + 1 THEN hi + lot.qty ELSE c[j]]
<1>3. lot.qty \in Nat
  BY DEF Lot
<1>4. /\ c \in [0 .. n -> Nat] /\ c[0] = lo /\ c[n] = hi
      /\ \A j \in 1 .. n : /\ c[j] = c[j - 1] + w[j].qty
                           /\ \A i \in c[j - 1] + 1 .. c[j] : D[i] = w[j].price
  BY <1>1, <1>2 DEF Counts
<1>5. d \in [0 .. n + 1 -> Nat] /\ d[n + 1] = hi + lot.qty /\ \A j \in 0 .. n : d[j] = c[j]
  BY <1>3, <1>4
<1> HIDE DEF d
<1>6. ASSUME NEW j \in 1 .. n + 1
      PROVE  d[j] = d[j - 1] + v[j].qty /\ \A i \in d[j - 1] + 1 .. d[j] : D[i] = v[j].price
  <2>1. CASE j = n + 1
    <3>1. d[j - 1] = hi /\ d[j] = hi + lot.qty /\ v[j] = lot
      BY <1>2, <1>4, <1>5, <2>1
    <3> QED BY <3>1
  <2>2. CASE j # n + 1
    <3>1. j \in 1 .. n /\ j \in 0 .. n /\ j - 1 \in 0 .. n
      BY <2>2
    <3>2. d[j] = c[j] /\ d[j - 1] = c[j - 1] /\ v[j] = w[j]
      BY <1>2, <1>5, <3>1
    <3>3. c[j] = c[j - 1] + w[j].qty /\ \A i \in c[j - 1] + 1 .. c[j] : D[i] = w[j].price
      BY <1>4, <3>1
    <3> QED BY <3>2, <3>3
  <2> QED BY <2>1, <2>2
<1>7. d[0] = lo
  BY <1>4, <1>5
<1>8. Counts(d, v, lo, hi + lot.qty, D)
  BY <1>2, <1>5, <1>6, <1>7 DEF Counts
<1> QED BY <1>2, <1>8 DEF Holds

(* The count of units never falls from lot to lot. *)
LEMMA CountsBounded ==
    ASSUME NEW w \in Seq(Lot), NEW c, NEW lo \in Nat, NEW hi \in Nat, NEW D,
           Counts(c, w, lo, hi, D)
    PROVE  \A j \in 0 .. Len(w) : lo <= c[j] /\ c[j] <= hi
<1>1. PICK n \in Nat : n = Len(w)
  OBVIOUS
<1>2. /\ c \in [0 .. n -> Nat] /\ c[0] = lo /\ c[n] = hi
      /\ \A j \in 1 .. n : c[j - 1] <= c[j]
  <2>1. \A j \in 1 .. n : w[j].qty \in Nat
    <3>1. \A j \in 1 .. n : w[j] \in Lot
      BY <1>1
    <3> QED BY <3>1 DEF Lot
  <2>2. \A j \in 1 .. n : c[j] = c[j - 1] + w[j].qty /\ c[j - 1] \in Nat
    BY <1>1 DEF Counts
  <2>3. ASSUME NEW j \in 1 .. n
        PROVE  c[j - 1] <= c[j]
    <3>1. PICK a \in Nat, q \in Nat : a = c[j - 1] /\ q = w[j].qty /\ c[j] = a + q
      BY <2>1, <2>2
    <3> QED BY <3>1
  <2> QED BY <1>1, <2>3 DEF Counts
<1> DEFINE T == {k \in 0 .. n : lo <= c[k]}
           U == {k \in 0 .. n : c[n - k] <= hi}
<1>3. 0 .. n \subseteq T
  <2>1. 0 \in T
    BY <1>2
  <2>2. ASSUME NEW k \in 0 .. n, k \in T, k < n
        PROVE  k + 1 \in T
    <3>1. k + 1 \in 1 .. n /\ k + 1 \in 0 .. n /\ (k + 1) - 1 = k
      BY <2>2
    <3>2. c[k] <= c[k + 1] /\ c[k] \in Nat /\ c[k + 1] \in Nat
      BY <1>2, <3>1
    <3> QED BY <2>2, <3>1, <3>2
  <2> HIDE DEF T
  <2> QED BY <2>1, <2>2, UpTo
<1>4. 0 .. n \subseteq U
  <2>1. 0 \in U
    BY <1>2
  <2>2. ASSUME NEW k \in 0 .. n, k \in U, k < n
        PROVE  k + 1 \in U
    <3>1. n - k \in 1 .. n /\ k + 1 \in 0 .. n /\ (n - k) - 1 = n - (k + 1)
      BY <2>2
    <3>2. c[n - (k + 1)] <= c[n - k] /\ c[n - k] \in Nat /\ c[n - (k + 1)] \in Nat
      <4>1. n - (k + 1) \in 0 .. n /\ n - k \in 0 .. n
        BY <3>1
      <4> QED BY <1>2, <3>1, <4>1
    <3> QED BY <2>2, <3>1, <3>2
  <2> HIDE DEF U
  <2> QED BY <2>1, <2>2, UpTo
<1>5. ASSUME NEW j \in 0 .. n
      PROVE  lo <= c[j] /\ c[j] <= hi
  <2>1. n - j \in 0 .. n /\ n - (n - j) = j
    OBVIOUS
  <2>2. j \in T /\ n - j \in U
    BY <1>3, <1>4, <2>1
  <2> QED BY <2>1, <2>2
<1> QED BY <1>1, <1>5

(***************************************************************************)
(* on_sell sells the oldest units: its profit is that of the units lo + 1  *)
(* .. to, with P the profit up to each unit, and it leaves the units after *)
(* them.                                                                   *)
(***************************************************************************)
SoldUpTo(acc, P, qty, lo, at, D) ==
    \E m \in 0 .. qty :
        /\ acc.remaining = qty - m
        /\ lo + m <= at
        /\ acc.pnl = P[lo + m] - P[lo]
        /\ Holds(acc.queue, lo + m, at, D)
        /\ acc.remaining > 0 => acc.queue = << >> /\ lo + m = at

(* P is the profit up to each unit: from lo on it grows by what a sale at this price earns. *)
Earns(P, lo, to, price, D) ==
    /\ \E N \in Nat : to <= N /\ P \in [0 .. N -> Int]
    /\ \A i \in lo + 1 .. to : P[i] = P[i - 1] + (price - D[i])

(* D has one price for these units. *)
Costs(D, lo, to, price) == \A i \in lo + 1 .. to : D[i] = price

(* The unit that a sell ends at, of hi. *)
SoldAfter(lo, qty, hi) == IF lo + qty <= hi THEN lo + qty ELSE hi

(* One iteration of it, at a lot that ends with the unit "to". *)
LEMMA SoldUpToStep ==
    ASSUME NEW price \in Nat, NEW qty \in Nat, NEW lo \in Nat, NEW at \in Nat, NEW D,
           NEW to \in Nat, NEW P, Earns(P, lo, to, price, D),
           NEW acc \in Matching, NEW lot \in Lot,
           SoldUpTo(acc, P, qty, lo, at, D),
           NEW up \in Nat, up = at + lot.qty, Costs(D, at, up, lot.price),
           SoldAfter(lo, qty, up) <= to
    PROVE  SoldUpTo(MatchLot(price, acc, lot), P, qty, lo, up, D)
<1> PICK N \in Nat : to <= N /\ P \in [0 .. N -> Int]
  BY DEF Earns
<1>1. PICK m \in 0 .. qty :
        /\ acc.remaining = qty - m
        /\ lo + m <= at
        /\ acc.pnl = P[lo + m] - P[lo]
        /\ Holds(acc.queue, lo + m, at, D)
        /\ acc.remaining > 0 => acc.queue = << >> /\ lo + m = at
  BY DEF SoldUpTo
<1>2. PICK q \in Nat, v \in Nat : q = lot.qty /\ v = lot.price /\ q > 0
  BY DEF Lot
<1>3. PICK k \in Nat : k = (IF qty - m <= q THEN qty - m ELSE q) /\ k <= q /\ m + k \in 0 .. qty
  <2>1. PICK d \in Nat : d = qty - m /\ m \in Nat /\ m + d = qty
    OBVIOUS
  <2>2. PICK k \in Nat : k = IF d <= q THEN d ELSE q
    BY <1>2
  <2>3. k <= q /\ k <= d
    BY <1>2, <2>2
  <2>4. m + k \in 0 .. qty
    BY <2>1, <2>3
  <2> QED BY <2>1, <2>2, <2>3, <2>4
<1>4. PICK new : new = MatchLot(price, acc, lot)
  OBVIOUS
<1>5. /\ new.remaining = qty - (m + k)
      /\ new.pnl = acc.pnl + (price - v) * k
      /\ new.queue = IF k = q THEN acc.queue ELSE Append(acc.queue, [lot EXCEPT !.qty = q - k])
  <2>1. new.remaining = acc.remaining - k
    BY <1>1, <1>2, <1>3, <1>4 DEF MatchLot
  <2>2. new.remaining = qty - (m + k)
    BY <1>1, <1>3, <2>1
  <2> QED BY <1>1, <1>2, <1>3, <1>4, <2>2 DEF MatchLot
<1>6. CASE qty - m = 0
  <2>1. k = 0 /\ k # q /\ lo + m = lo + qty
    BY <1>2, <1>3, <1>6
  <2>2. new.pnl = acc.pnl
    <3>1. (price - v) * 0 = 0 /\ acc.pnl \in Int
      BY DEF Matching
    <3> QED BY <1>5, <2>1, <3>1
  <2>3. [lot EXCEPT !.qty = q - k] = lot
    BY <1>2, <2>1 DEF Lot
  <2>4. Holds(new.queue, lo + m, at + q, D)
    <3>1. PICK e \in Nat : e = lo + m
      OBVIOUS
    <3>2. Holds(Append(acc.queue, lot), e, at + lot.qty, D)
      BY <1>1, <3>1, HoldsAppend DEF Costs
    <3>3. new.queue = Append(acc.queue, lot)
      BY <1>5, <2>1, <2>3
    <3> QED BY <1>2, <3>1, <3>2, <3>3
  <2>5. new.remaining = qty - m /\ lo + m <= at + q /\ ~(new.remaining > 0)
    <3>1. new.remaining = qty - m
      BY <1>5, <2>1
    <3>2. lo + m <= at + q
      BY <1>1
    <3>3. ~(new.remaining > 0)
      BY <1>6, <3>1
    <3> QED BY <3>1, <3>2, <3>3
  <2>6. new.pnl = P[lo + m] - P[lo] /\ at + q = up /\ lo + m <= up
    BY <1>1, <1>2, <2>2, <2>5
  <2> QED BY <1>4, <2>4, <2>5, <2>6, Zenon DEF SoldUpTo
<1>7. CASE qty - m > 0
  <2>1. acc.queue = << >> /\ lo + m = at
    BY <1>1, <1>7
  <2>2. PICK e \in at .. to : e = at + k /\ lo + (m + k) = e
    <3>1. (lo + qty <= at + q => lo + qty <= to) /\ (at + q <= lo + qty => at + q <= to)
      <4>1. up = at + q
        BY <1>2
      <4>2. lo + qty <= up => lo + qty <= to
        BY DEF SoldAfter
      <4>3. up <= lo + qty => up <= to
        BY DEF SoldAfter
      <4> QED BY <4>1, <4>2, <4>3
    <3>2. at + k <= to
      <4>1. CASE qty - m <= q
        <5>1. k = qty - m /\ at + k = lo + qty /\ lo + qty <= at + q
          BY <1>3, <2>1, <4>1
        <5> QED BY <3>1, <5>1
      <4>2. CASE ~(qty - m <= q)
        <5>1. k = q /\ at + q <= lo + qty
          BY <1>3, <2>1, <4>2
        <5> QED BY <3>1, <5>1
      <4> QED BY <4>1, <4>2
    <3>3. at + k \in at .. to
      BY <3>2
    <3>4. m \in Nat /\ lo + (m + k) = (lo + m) + k
      OBVIOUS
    <3> QED BY <2>1, <3>3, <3>4
  <2>3. PICK x \in Int : x = price - v
    BY <1>2
  <2>4. new.pnl = P[lo + (m + k)] - P[lo]
    <3>1. \A i \in at + 1 .. e : P[i] = P[i - 1] + x
      <4> TAKE i \in at + 1 .. e
      <4>1. i \in Int /\ at < i /\ i <= at + k /\ i <= to
        BY <2>2
      <4>2. i \in at + 1 .. at + q
        <5>1. k <= q
          BY <1>3
        <5> QED BY <4>1, <5>1
      <4>3. i \in lo + 1 .. to
        <5>1. lo <= at
          BY <2>1
        <5> QED BY <4>1, <5>1
      <4>4. P[i] = P[i - 1] + (price - D[i])
        BY <4>3 DEF Earns
      <4>5. D[i] = v
        BY <1>2, <4>2 DEF Costs
      <4> QED BY <2>3, <4>4, <4>5
    <3>2. at \in 0 .. N /\ lo \in 0 .. N /\ e \in 0 .. N /\ e \in Nat /\ at <= e /\ e <= N
      BY <2>1, <2>2
    <3>3. P[e] = P[at] + x * (e - at)
      <4>1. Grows(P, at, e, x)
        BY <3>1, <3>2, Zenon DEF Grows
      <4> QED BY <3>2, <4>1, SteadyGrowth
    <3>4. PICK y \in Int : y = x * k
      OBVIOUS
    <3>5. P[e] = P[at] + y
      <4>1. e - at = k
        BY <2>2
      <4> QED BY <3>3, <3>4, <4>1
    <3>6. acc.pnl = P[at] - P[lo]
      <4>1. P[lo + m] = P[at]
        BY <2>1
      <4> QED BY <1>1, <4>1
    <3>7. new.pnl = acc.pnl + y
      BY <1>5, <2>3, <3>4
    <3>8. P[lo + (m + k)] = P[e]
      BY <2>2
    <3>9. P[e] \in Int /\ P[at] \in Int /\ P[lo] \in Int
      BY <3>2
    <3> QED BY <3>5, <3>6, <3>7, <3>8, <3>9
  <2>5. Holds(new.queue, lo + (m + k), at + q, D)
    <3>1. CASE k = q
      <4>1. PICK end \in Nat : end = at + q
        OBVIOUS
      <4>2. Holds(<< >>, end, end, D)
        BY HoldsNothing
      <4>3. new.queue = << >> /\ lo + (m + k) = end
        BY <1>5, <2>1, <2>2, <3>1, <4>1
      <4> QED BY <4>1, <4>2, <4>3, ZenonT(30)
    <3>2. CASE k # q
      <4>1. PICK rest \in Lot : rest = [lot EXCEPT !.qty = q - k]
        <5>1. q - k \in Nat \ {0}
          <6>1. k <= q /\ k # q
            BY <1>3, <3>2
          <6> QED BY <6>1
        <5>2. [lot EXCEPT !.qty = q - k] \in Lot
          BY <5>1 DEF Lot
        <5> QED BY <5>2
      <4>2. rest.qty = q - k /\ rest.price = v /\ (at + k) + rest.qty = at + q
        <5>1. rest.qty = q - k /\ rest.price = v
          BY <1>2, <4>1 DEF Lot
        <5>2. (at + k) + (q - k) = at + q
          OBVIOUS
        <5> QED BY <5>1, <5>2
      <4>3. \A i \in (at + k) + 1 .. (at + k) + rest.qty : D[i] = rest.price
        <5>1. \A i \in (at + k) + 1 .. at + q : i \in at + 1 .. at + q
          OBVIOUS
        <5> QED BY <1>2, <4>2, <5>1 DEF Costs
      <4>4. Holds(<< >>, at + k, at + k, D)
        BY HoldsNothing
      <4>5. Holds(Append(<< >>, rest), at + k, (at + k) + rest.qty, D)
        <5>1. PICK end \in Nat : end = at + k
          OBVIOUS
        <5> QED BY <4>3, <4>4, <5>1, HoldsAppend
      <4> QED BY <1>5, <2>1, <2>2, <3>2, <4>1, <4>2, <4>5
    <3> QED BY <3>1, <3>2
  <2>6. new.remaining > 0 => new.queue = << >> /\ lo + (m + k) = at + q
    <3>1. ASSUME new.remaining > 0
          PROVE  k = q
      <4>1. m + k < qty
        BY <1>3, <1>5, <3>1
      <4> QED BY <1>3, <4>1
    <3>2. k = q => new.queue = << >> /\ lo + (m + k) = at + q
      BY <1>5, <2>1, <2>2
    <3> QED BY <3>1, <3>2
  <2>7. lo + (m + k) <= at + q
    <3>1. k <= q
      BY <1>3
    <3> QED BY <2>2, <3>1
  <2>8. m + k \in 0 .. qty /\ new.remaining = qty - (m + k) /\ at + q = up
    BY <1>2, <1>3, <1>5
  <2> QED BY <1>4, <2>4, <2>5, <2>6, <2>7, <2>8, ZenonT(30) DEF SoldUpTo
<1>8. qty - m \in Nat
  OBVIOUS
<1> QED BY <1>6, <1>7, <1>8

(* The whole loop: the profit and what is left, for the unit it ends at. *)
LEMMA SellOldest ==
    ASSUME NEW w, NEW price \in Nat, NEW qty \in Nat, NEW lo \in Nat, NEW hi \in Nat, NEW D,
           Holds(w, lo, hi, D),
           NEW to \in Nat, to = SoldAfter(lo, qty, hi), NEW P, Earns(P, lo, to, price, D)
    PROVE  /\ MatchSell(w, price, qty).pnl = P[to] - P[lo]
           /\ Holds(MatchSell(w, price, qty).queue, to, hi, D)
<1> PICK N \in Nat : to <= N /\ P \in [0 .. N -> Int]
  BY DEF Earns
<1>0. to = IF lo + qty <= hi THEN lo + qty ELSE hi
  BY DEF SoldAfter
<1>1. PICK c : Counts(c, w, lo, hi, D)
  BY DEF Holds
<1>2. w \in Seq(Lot)
  BY DEF Holds
<1> PICK n \in Nat : n = Len(w)
  BY <1>2
<1>3. PICK p \in [0 .. n -> Matching] :
        /\ p[0] = Unmatched(qty)
        /\ \A k \in 1 .. n : p[k] = MatchLot(price, p[k - 1], w[k])
        /\ MatchSell(w, price, qty) = p[n]
  <2>1. PICK p \in [0 .. Len(w) -> Matching] :
          /\ p[0] = Unmatched(qty)
          /\ \A k \in 1 .. Len(w) : p[k] = MatchLot(price, p[k - 1], w[k])
          /\ MatchSell(w, price, qty) = p[Len(w)]
    BY <1>2, MatchSellPath, ZenonT(30)
  <2>2. p \in [0 .. n -> Matching] /\ MatchSell(w, price, qty) = p[n]
    BY <2>1, Zenon
  <2>3. \A k \in 1 .. n : p[k] = MatchLot(price, p[k - 1], w[k])
    BY <2>1, Zenon
  <2> QED BY <2>1, <2>2, <2>3, Zenon
<1>4. /\ c \in [0 .. n -> Nat] /\ c[0] = lo /\ c[n] = hi
      /\ \A j \in 1 .. n : /\ c[j] = c[j - 1] + w[j].qty
                           /\ \A i \in c[j - 1] + 1 .. c[j] : D[i] = w[j].price
  BY <1>1 DEF Counts
<1>5. \A j \in 0 .. n : lo <= c[j] /\ c[j] <= hi
  BY <1>1, <1>2, CountsBounded
<1>6. \A k \in 1 .. n : w[k] \in Lot
  BY <1>1, <1>2
<1>7. lo <= to /\ to <= hi /\ to <= lo + qty
  <2>1. lo <= hi
    BY <1>4, <1>5
  <2> QED BY <1>0, <2>1
<1> DEFINE T == {k \in 0 .. n : SoldUpTo(p[k], P, qty, lo, c[k], D)}
<1>8. 0 \in T
  <2>1. /\ p[0].remaining = qty - 0 /\ p[0].pnl = 0 /\ p[0].queue = << >>
        /\ lo + 0 = lo /\ 0 \in 0 .. qty /\ P[lo] \in Int /\ c[0] = lo
    BY <1>3, <1>4, <1>7 DEF Unmatched
  <2>2. Holds(<< >>, lo, lo, D)
    BY HoldsNothing
  <2>3. p[0].pnl = P[lo + 0] - P[lo]
    BY <2>1
  <2>4. /\ p[0].remaining = qty - 0 /\ lo + 0 <= c[0]
        /\ Holds(p[0].queue, lo + 0, c[0], D)
        /\ p[0].remaining > 0 => p[0].queue = << >> /\ lo + 0 = c[0]
    BY <2>1, <2>2
  <2>5. 0 \in 0 .. qty
    OBVIOUS
  <2>6. SoldUpTo(p[0], P, qty, lo, c[0], D)
    BY <2>3, <2>4, <2>5, Zenon DEF SoldUpTo
  <2> QED BY <2>6
<1>9. ASSUME NEW k \in 0 .. n, k \in T, k < n
       PROVE  k + 1 \in T
  <2>1. k + 1 \in 1 .. n /\ k + 1 \in 0 .. n /\ (k + 1) - 1 = k
    BY <1>9
  <2>2. PICK acc \in Matching, lot \in Lot, at \in Nat, up \in Nat :
          acc = p[k] /\ lot = w[k + 1] /\ at = c[k] /\ up = c[k + 1]
    BY <1>3, <1>4, <1>6, <2>1
  <2>3. up = at + lot.qty /\ Costs(D, at, up, lot.price)
    BY <1>4, <2>1, <2>2 DEF Costs
  <2>4. p[k + 1] = MatchLot(price, acc, lot)
    BY <1>3, <2>1, <2>2
  <2>5. SoldUpTo(acc, P, qty, lo, at, D)
    BY <1>9, <2>2
  <2>6. up <= hi
    BY <1>5, <2>1, <2>2
  <2>7. SoldAfter(lo, qty, up) <= to
    BY <1>0, <2>6 DEF SoldAfter
  <2>8. SoldUpTo(MatchLot(price, acc, lot), P, qty, lo, up, D)
    BY <2>3, <2>5, <2>7, SoldUpToStep
  <2> QED BY <2>1, <2>2, <2>3, <2>4, <2>8
<1>10. SoldUpTo(p[n], P, qty, lo, hi, D)
  <2> HIDE DEF T
  <2>1. 0 .. n \subseteq T
    BY <1>8, <1>9, UpTo
  <2>2. n \in T
    <3>1. n \in 0 .. n
      OBVIOUS
    <3> QED BY <2>1, <3>1, Zenon
  <2>3. SoldUpTo(p[n], P, qty, lo, c[n], D)
    BY <2>2 DEF T
  <2> QED BY <1>4, <2>3
<1>11. PICK m \in 0 .. qty :
         /\ p[n].remaining = qty - m
         /\ lo + m <= hi
         /\ p[n].pnl = P[lo + m] - P[lo]
         /\ Holds(p[n].queue, lo + m, hi, D)
         /\ p[n].remaining > 0 => p[n].queue = << >> /\ lo + m = hi
  BY <1>10 DEF SoldUpTo
<1>12. lo + m = to
  <2>1. CASE m = qty
    BY <1>0, <1>11, <2>1
  <2>2. CASE m # qty
    <3>1. lo + m = hi /\ m < qty
      BY <1>11, <2>2
    <3> QED BY <1>0, <3>1
  <2> QED BY <2>1, <2>2
<1> QED BY <1>3, <1>11, <1>12

-----------------------------------------------------------------------------
(* The quantities bought and sold, after some of the trades. *)
Turned == [bought : Nat, sold : Nat]

(* What one more trade makes of the quantities bought and sold. *)
Turn(t, trade) ==
    IF trade.side = "Buy"
    THEN [t EXCEPT !.bought = @ + trade.qty]
    ELSE [t EXCEPT !.sold = Min({@ + trade.qty, t.bought})]

(* The smaller of two numbers. *)
LEMMA MinOfTwo ==
    ASSUME NEW a \in Nat, NEW b \in Nat
    PROVE  Min({a, b}) = IF a <= b THEN a ELSE b
<1>1. Min({a, b}) \in {a, b} /\ \A y \in {a, b} : Min({a, b}) <= y
  BY MinNat
<1> QED BY <1>1

(* They are natural numbers. *)
LEMMA TurnType ==
    ASSUME NEW t \in Turned, NEW trade \in Traded
    PROVE  Turn(t, trade) \in Turned
<1>1. t.bought \in Nat /\ t.sold \in Nat /\ trade.qty \in Nat
  BY DEF Turned, Traded, Signal
<1>2. Min({t.sold + trade.qty, t.bought}) \in Nat
  BY <1>1, MinOfTwo
<1> QED BY <1>1, <1>2 DEF Turn, Turned

(* The recursion of Turnover has a solution, which is what it is. *)
LEMMA TurnoverPath ==
    ASSUME NEW s \in Seq(Traded)
    PROVE  /\ Turnover(s) \in [0 .. Len(s) -> Turned]
           /\ Turnover(s)[0] = [bought |-> 0, sold |-> 0]
           /\ \A k \in 1 .. Len(s) : Turnover(s)[k] = Turn(Turnover(s)[k - 1], s[k])
<1> DEFINE n == Len(s)
           none == [bought |-> 0, sold |-> 0]
           step == [z \in Turned \X (1 .. n) |-> Turn(z[1], s[z[2]])]
           Eq(t) == t = [k \in 0 .. n |-> IF k = 0 THEN none ELSE Turn(t[k - 1], s[k])]
<1>1. n \in Nat /\ none \in Turned
  BY DEF Turned
<1>2. ASSUME NEW a \in Turned, NEW k \in 1 .. n
      PROVE  step[<<a, k>>] = Turn(a, s[k])
  OBVIOUS
<1>3. step \in FoldSteps(n, Turned)
  <2>1. ASSUME NEW z \in Turned \X (1 .. n)
        PROVE  Turn(z[1], s[z[2]]) \in Turned
    <3>1. z[1] \in Turned /\ s[z[2]] \in Traded
      OBVIOUS
    <3> QED BY <3>1, TurnType
  <2> QED BY <2>1 DEF FoldSteps
<1>4. PICK p : PathOf(p, n, Turned, none, step)
  <2> HIDE DEF step, n, none
  <2>1. PICK g : FoldOf(g, n, Turned, none, step)
    BY <1>1, <1>3, FoldExists
  <2>2. Computes(g, n, Turned, none, step)
    <3>1. {} \in SUBSET (1 .. n)
      OBVIOUS
    <3> QED BY <2>1, <3>1 DEF FoldOf, Computes
  <2> QED BY <1>1, <1>3, <2>2, FoldPath
<1>5. Eq(p)
  <2>1. ASSUME NEW k \in 1 .. n
        PROVE  p[k] = Turn(p[k - 1], s[k])
    <3>1. k - 1 \in 0 .. n
      OBVIOUS
    <3> HIDE DEF step, n, none
    <3> QED BY <1>2, <1>4, <3>1 DEF PathOf
  <2>2. p \in [0 .. n -> Turned] /\ p[0] = none
    BY <1>4 DEF PathOf
  <2>3. \A k \in 0 .. n : k # 0 => k \in 1 .. n
    OBVIOUS
  <2> HIDE DEF step, n, none
  <2> QED BY <2>1, <2>2, <2>3
<1>6. Turnover(s) = CHOOSE t : Eq(t)
  BY DEF Turnover, Turn
<1> DEFINE t == Turnover(s)
<1>7. Eq(t)
  <2> HIDE DEF step, n, none
  <2> QED BY <1>5, <1>6
<1> HIDE DEF t
<1> DEFINE U == {k \in 0 .. n : t[k] = p[k]}
<1>8. 0 .. n \subseteq U
  <2>1. 0 \in U
    BY <1>1, <1>5, <1>7
  <2>2. ASSUME NEW k \in 0 .. n, k \in U, k < n
        PROVE  k + 1 \in U
    <3>1. k + 1 \in 0 .. n /\ k + 1 # 0 /\ (k + 1) - 1 = k
      BY <1>1, <2>2
    <3> HIDE DEF n, none
    <3> QED BY <1>5, <1>7, <2>2, <3>1
  <2> HIDE DEF U
  <2> QED BY <1>1, <2>1, <2>2, UpTo
<1>9. p \in [0 .. n -> Turned] /\ p[0] = none
  BY <1>4 DEF PathOf
<1>10. t \in [0 .. n -> Turned] /\ t[0] = none
  <2> HIDE DEF n, none, step
  <2>1. \A k \in 0 .. n : t[k] = p[k]
    BY <1>8
  <2>2. DOMAIN t = 0 .. n
    BY <1>7
  <2>3. t = [k \in 0 .. n |-> t[k]]
    BY <1>7
  <2>4. 0 \in 0 .. n
    BY <1>1
  <2> QED BY <1>9, <2>1, <2>3, <2>4
<1>11. \A k \in 1 .. n : t[k] = Turn(t[k - 1], s[k])
  <2>1. \A k \in 1 .. n : k \in 0 .. n /\ k # 0
    OBVIOUS
  <2> HIDE DEF n, none, step
  <2> QED BY <1>7, <2>1
<1> QED BY <1>10, <1>11 DEF t

(* The second pass before, between and after the trades. *)
Tally == [queue : Seq(Lot), pnl : Int]

NoTally == [queue |-> << >>, pnl |-> 0]

(* One more trade leaves the second pass a queue of lots and a profit. *)
LEMMA OnTradeType ==
    ASSUME NEW acc \in Tally, NEW trade \in Traded
    PROVE  OnTrade(acc, trade) \in Tally
<1>1. PICK price \in Nat, qty \in Nat : price = trade.price /\ qty = trade.qty /\ qty > 0
  BY DEF Traded, Signal
<1>2. acc.queue \in Seq(Lot) /\ acc.pnl \in Int
  BY DEF Tally
<1>3. CASE trade.side = "Buy"
  <2>1. PICK lot \in Lot : lot = [price |-> trade.price, qty |-> trade.qty]
    <3>1. [price |-> trade.price, qty |-> trade.qty] \in Lot
      BY <1>1 DEF Lot
    <3> QED BY <3>1
  <2>2. Append(acc.queue, lot) \in Seq(Lot)
    BY <1>2
  <2>3. OnTrade(acc, trade) = [acc EXCEPT !.queue = Append(acc.queue, lot)]
    BY <1>3, <2>1 DEF OnTrade
  <2> QED BY <2>2, <2>3 DEF Tally
<1>4. CASE trade.side # "Buy"
  <2>1. PICK m \in Matching : m = MatchSell(acc.queue, price, qty)
    <3>1. PICK p \in [0 .. Len(acc.queue) -> Matching] :
            MatchSell(acc.queue, price, qty) = p[Len(acc.queue)]
      BY <1>2, MatchSellPath
    <3>2. Len(acc.queue) \in 0 .. Len(acc.queue)
      BY <1>2
    <3> QED BY <3>1, <3>2
  <2>2. m.queue \in Seq(Lot) /\ m.pnl \in Int
    BY DEF Matching
  <2>3. OnTrade(acc, trade) = [queue |-> m.queue, pnl |-> acc.pnl + m.pnl]
    BY <1>1, <1>4, <2>1 DEF OnTrade
  <2> QED BY <1>2, <2>2, <2>3 DEF Tally
<1> QED BY <1>3, <1>4

(* The pass runs over the trades in order: its path of intermediate results. *)
LEMMA PnlPath ==
    ASSUME NEW s \in Seq(Traded)
    PROVE  \E p \in [0 .. Len(s) -> Tally] :
             /\ p[0] = NoTally
             /\ \A k \in 1 .. Len(s) : p[k] = OnTrade(p[k - 1], s[k])
             /\ Pnl(s) = p[Len(s)].pnl
<1> DEFINE n == Len(s)
           step == [z \in Tally \X (1 .. n) |-> OnTrade(z[1], s[z[2]])]
           Eq(it) == it = [t \in SUBSET (1 .. n) |->
                             IF t = {} THEN NoTally
                             ELSE OnTrade(it[t \ {Max(t)}], s[Max(t)])]
           iter == CHOOSE it : Eq(it)
<1>1. n \in Nat /\ NoTally \in Tally /\ DOMAIN s = 1 .. n
  BY DEF NoTally, Tally
<1>2. ASSUME NEW a \in Tally, NEW k \in 1 .. n
      PROVE  step[<<a, k>>] = OnTrade(a, s[k])
  OBVIOUS
<1>3. step \in FoldSteps(n, Tally)
  <2>1. ASSUME NEW z \in Tally \X (1 .. n)
        PROVE  OnTrade(z[1], s[z[2]]) \in Tally
    <3>1. z[1] \in Tally /\ s[z[2]] \in Traded
      OBVIOUS
    <3> QED BY <3>1, OnTradeType
  <2> QED BY <2>1 DEF FoldSteps
<1>4. Pnl(s) = iter[1 .. n].pnl
  BY <1>1 DEF Pnl, FoldLeft, MapThenFoldSet, NoTally
<1>5. Eq(iter)
  <2> HIDE DEF step, n
  <2>1. PICK g : FoldOf(g, n, Tally, NoTally, step)
    BY <1>1, <1>3, FoldExists
  <2>2. ASSUME NEW t \in SUBSET (1 .. n), t # {}
        PROVE  g[t] = OnTrade(g[t \ {Max(t)}], s[Max(t)])
    <3>1. t \subseteq 0 .. n
      BY <1>1
    <3>2. Max(t) \in t
      BY <1>1, <2>2, <3>1, MaxNat
    <3>3. Max(t) \in 1 .. n /\ t \ {Max(t)} \in SUBSET (1 .. n)
      BY <3>2
    <3> QED BY <1>2, <2>1, <2>2, <3>3 DEF FoldOf
  <2>3. Eq(g)
    BY <2>1, <2>2 DEF FoldOf
  <2> QED BY <2>3
<1> HIDE DEF iter
<1>6. iter[{}] = NoTally
  BY <1>5
<1>7. ASSUME NEW t \in SUBSET (1 .. n), t # {}, iter[t \ {Max(t)}] \in Tally
      PROVE  iter[t] = step[<<iter[t \ {Max(t)}], Max(t)>>]
  <2>1. iter[t] = OnTrade(iter[t \ {Max(t)}], s[Max(t)])
    BY <1>5, <1>7
  <2>2. t \subseteq 0 .. n
    BY <1>1
  <2>3. Max(t) \in t
    BY <1>1, <1>7, <2>2, MaxNat
  <2> HIDE DEF step, n
  <2>4. Max(t) \in 1 .. n
    BY <2>3
  <2> QED BY <1>2, <1>7, <2>1, <2>4
<1>8. PICK p : PathOf(p, n, Tally, NoTally, step) /\ iter[1 .. n] = p[n]
  <2> HIDE DEF step, n
  <2>1. Computes(iter, n, Tally, NoTally, step)
    BY <1>6, <1>7 DEF Computes
  <2> QED BY <1>1, <1>3, <2>1, FoldPath
<1>9. ASSUME NEW k \in 1 .. n
      PROVE  p[k] = OnTrade(p[k - 1], s[k])
  <2>1. k - 1 \in 0 .. n
    OBVIOUS
  <2> HIDE DEF step, n
  <2> QED BY <1>2, <1>8, <2>1 DEF PathOf
<1> HIDE DEF step
<1> QED BY <1>4, <1>8, <1>9 DEF PathOf

-----------------------------------------------------------------------------
(* A running total. *)
Climbs(total, n) ==
    total \in [0 .. n -> Nat] /\ \A k \in 1 .. n : total[k - 1] <= total[k]

(* A function that no step lowers is ordered. *)
LEMMA Ascending ==
    ASSUME NEW n \in Nat, NEW total, Climbs(total, n)
    PROVE  \A k \in 0 .. n : \A j \in 0 .. k : total[j] <= total[k]
<1> USE DEF Climbs
<1> DEFINE T == {k \in 0 .. n : \A j \in 0 .. k : total[j] <= total[k]}
<1>1. 0 \in T
  BY DEF T
<1>2. ASSUME NEW k \in 0 .. n, k \in T, k < n
      PROVE  k + 1 \in T
  <2>1. k + 1 \in 1 .. n /\ k + 1 \in 0 .. n /\ (k + 1) - 1 = k
    BY <1>2
  <2>2. total[k] <= total[k + 1]
    BY <2>1
  <2>3. ASSUME NEW j \in 0 .. k + 1
        PROVE  total[j] <= total[k + 1]
    <3>1. CASE j = k + 1
      BY <2>1, <3>1
    <3>2. CASE j # k + 1
      <4>1. j \in 0 .. k /\ j \in 0 .. n
        BY <2>1, <3>2
      <4>2. total[j] <= total[k]
        BY <1>2, <4>1
      <4> QED BY <2>1, <2>2, <4>1, <4>2
    <3> QED BY <3>1, <3>2
  <2> QED BY <2>1, <2>3
<1>3. 0 .. n \subseteq T
  <2> HIDE DEF T
  <2> QED BY <1>1, <1>2, UpTo
<1> QED BY <1>3

(* The price of a unit is that of the one trade that reaches it. *)
LEMMA UnitPriceIs ==
    ASSUME NEW s \in Seq(Traded), NEW n \in Nat, n = Len(s),
           NEW total, Climbs(total, n),
           NEW k \in 1 .. n, NEW i \in total[k - 1] + 1 .. total[k]
    PROVE  UnitPrice(s, total, i) = s[k].price
<1>0. total \in [0 .. n -> Nat]
  BY DEF Climbs
<1>1. i \in Int /\ total[k - 1] < i /\ i <= total[k]
  <2>1. k - 1 \in 0 .. n
    OBVIOUS
  <2>2. PICK a \in Nat, b \in Nat : a = total[k - 1] /\ b = total[k]
    BY <1>0, <2>1
  <2>3. i \in a + 1 .. b
    BY <2>2
  <2> QED BY <2>2, <2>3
<1>2. ASSUME NEW j \in 1 .. n, total[j - 1] < i, i <= total[j]
      PROVE  j = k
  <2>1. \A a \in 0 .. n : \A b \in 0 .. a : total[b] <= total[a]
    BY Ascending
  <2>2. \A a \in 0 .. n : total[a] \in Nat
    BY <1>0
  <2>3. ASSUME j < k
        PROVE  FALSE
    <3>1. k - 1 \in 0 .. n /\ j \in 0 .. k - 1 /\ j \in 0 .. n
      BY <2>3
    <3>2. total[j] <= total[k - 1] /\ total[j] \in Nat /\ total[k - 1] \in Nat
      BY <2>1, <2>2, <3>1
    <3> QED BY <1>1, <1>2, <3>2
  <2>4. ASSUME k < j
        PROVE  FALSE
    <3>1. j - 1 \in 0 .. n /\ k \in 0 .. j - 1 /\ k \in 0 .. n
      BY <2>4
    <3>2. total[k] <= total[j - 1] /\ total[k] \in Nat /\ total[j - 1] \in Nat
      BY <2>1, <2>2, <3>1
    <3> QED BY <1>1, <1>2, <3>2
  <2> QED BY <2>3, <2>4
<1>3. (CHOOSE j \in 1 .. Len(s) : total[j - 1] < i /\ i <= total[j]) = k
  BY <1>1, <1>2
<1> QED BY <1>3 DEF UnitPrice

(* All the units of a trade have its price. *)
LEMMA UnitPrices ==
    ASSUME NEW s \in Seq(Traded), NEW total, Climbs(total, Len(s))
    PROVE  \A k \in 1 .. Len(s) :
             \A i \in total[k - 1] + 1 .. total[k] : UnitPrice(s, total, i) = s[k].price
<1>1. PICK n \in Nat : n = Len(s)
  OBVIOUS
<1>2. Climbs(total, n)
  BY <1>1
<1>3. \A k \in 1 .. n :
        \A i \in total[k - 1] + 1 .. total[k] : UnitPrice(s, total, i) = s[k].price
  BY <1>1, <1>2, UnitPriceIs
<1> QED BY <1>1, <1>3

(* Every unit up to the last total has a price. *)
LEMMA UnitPriceType ==
    ASSUME NEW s \in Seq(Traded), NEW n \in Nat, n = Len(s),
           NEW total, Climbs(total, n), total[0] = 0,
           NEW i \in 1 .. total[n]
    PROVE  UnitPrice(s, total, i) \in Nat
<1>0. total \in [0 .. n -> Nat]
  BY DEF Climbs
<1> DEFINE T == {k \in 0 .. n : i <= total[k]}
<1>1. n \in T /\ T \subseteq Nat /\ 0 \notin T
  <2>1. i \in Nat /\ total[n] \in Nat /\ i <= total[n] /\ ~(i <= 0)
    BY <1>0
  <2> QED BY <2>1
<1>2. PICK k \in T : \A y \in T : k <= y
  <2> HIDE DEF T
  <2> QED BY <1>1, LeastNat
<1>3. k \in 1 .. n /\ k - 1 \in 0 .. n /\ ~(k <= k - 1)
  BY <1>1
<1>4. k - 1 \notin T
  BY <1>2, <1>3
<1>5. i \in total[k - 1] + 1 .. total[k]
  <2>1. total[k - 1] \in Nat /\ total[k] \in Nat /\ i \in Nat
    BY <1>0, <1>3
  <2>2. ~(i <= total[k - 1]) /\ i <= total[k]
    BY <1>3, <1>4
  <2> QED BY <2>1, <2>2
<1>6. UnitPrice(s, total, i) = s[k].price
  BY <1>3, <1>5, UnitPriceIs
<1>7. s[k] \in Traded
  BY <1>3
<1> QED BY <1>6, <1>7 DEF Traded, Signal

(* Sells never outrun buys, and neither count falls. *)
LEMMA TurnRises ==
    ASSUME NEW a \in Nat, NEW b \in Nat, NEW q \in Nat, NEW c \in Nat, NEW d \in Nat, NEW buy,
           a <= b,
           buy => d = b + q /\ c = a,
           ~buy => d = b /\ c = IF a + q <= b THEN a + q ELSE b
    PROVE  c <= d /\ b <= d /\ a <= c
<1>1. CASE buy
  BY <1>1
<1>2. CASE ~buy
  BY <1>2
<1> QED BY <1>1, <1>2

(***************************************************************************)
(* The profit of the second pass is that of the units paired in order.     *)
(***************************************************************************)
LEMMA PnlIsPaired ==
    ASSUME NEW s \in Seq(Traded)
    PROVE  Pnl(s) = PairedPnl(s)
<1>1. PICK n \in Nat : n = Len(s)
  OBVIOUS
<1>2. PICK t \in [0 .. n -> Turned] :
        /\ t = Turnover(s)
        /\ t[0] = [bought |-> 0, sold |-> 0]
        /\ \A k \in 1 .. n : t[k] = Turn(t[k - 1], s[k])
  BY <1>1, TurnoverPath
<1>3. PICK purchased \in [0 .. n -> Nat], sold \in [0 .. n -> Nat] :
        /\ purchased = [k \in 0 .. n |-> t[k].bought]
        /\ sold = [k \in 0 .. n |-> t[k].sold]
  <2>1. \A k \in 0 .. n : t[k].bought \in Nat /\ t[k].sold \in Nat
    BY DEF Turned
  <2> QED BY <2>1
<1>4. \A k \in 1 .. n : s[k] \in Traded
  BY <1>1
<1>5. ASSUME NEW k \in 1 .. n
      PROVE  /\ s[k].side = "Buy" =>
                  purchased[k] = purchased[k - 1] + s[k].qty /\ sold[k] = sold[k - 1]
             /\ s[k].side # "Buy" =>
                  /\ purchased[k] = purchased[k - 1]
                  /\ sold[k] = IF sold[k - 1] + s[k].qty <= purchased[k - 1]
                               THEN sold[k - 1] + s[k].qty ELSE purchased[k - 1]
  <2>1. k \in 0 .. n /\ k - 1 \in 0 .. n
    OBVIOUS
  <2>2. PICK u \in Turned, trade \in Traded : u = t[k - 1] /\ trade = s[k]
    BY <1>4, <2>1
  <2>3. PICK a \in Nat, b \in Nat, q \in Nat : a = u.sold /\ b = u.bought /\ q = trade.qty
    BY DEF Turned, Traded, Signal
  <2>4. b = purchased[k - 1] /\ a = sold[k - 1]
    BY <1>3, <2>1, <2>2, <2>3
  <2>5. Turn(u, trade).bought = purchased[k] /\ Turn(u, trade).sold = sold[k]
    BY <1>2, <1>3, <2>1, <2>2
  <2>6. PICK least \in Nat : least = Min({a + q, b}) /\ least = (IF a + q <= b THEN a + q ELSE b)
    <3>1. PICK c \in Nat : c = a + q
      OBVIOUS
    <3>2. Min({c, b}) = IF c <= b THEN c ELSE b
      BY MinOfTwo
    <3> QED BY <3>1, <3>2
  <2>7. CASE trade.side = "Buy"
    <3>1. Turn(u, trade).bought = u.bought + trade.qty /\ Turn(u, trade).sold = u.sold
      BY <2>7 DEF Turn, Turned
    <3> QED BY <2>2, <2>3, <2>4, <2>5, <2>7, <3>1
  <2>8. CASE trade.side # "Buy"
    <3>1. Turn(u, trade) = [u EXCEPT !.sold = least]
      BY <2>3, <2>6, <2>8 DEF Turn
    <3>2. Turn(u, trade).bought = u.bought /\ Turn(u, trade).sold = least
      BY <3>1 DEF Turned
    <3>3. purchased[k] = b /\ sold[k] = least
      BY <2>3, <2>5, <3>2
    <3> QED BY <2>2, <2>3, <2>4, <2>6, <2>8, <3>3
  <2> QED BY <2>7, <2>8
<1>6. purchased[0] = 0 /\ sold[0] = 0
  BY <1>2, <1>3
<1>7. \A k \in 0 .. n : sold[k] <= purchased[k]
  <2> DEFINE T == {k \in 0 .. n : sold[k] <= purchased[k]}
  <2>1. 0 \in T
    BY <1>6
  <2>2. ASSUME NEW k \in 0 .. n, k \in T, k < n
        PROVE  k + 1 \in T
    <3>1. k + 1 \in 1 .. n /\ k + 1 \in 0 .. n /\ (k + 1) - 1 = k
      BY <2>2
    <3>2. s[k + 1].qty \in Nat /\ sold[k] \in Nat /\ purchased[k] \in Nat
      BY <1>4, <3>1 DEF Traded, Signal
    <3>3. sold[k + 1] <= purchased[k + 1]
      <4>1. CASE s[k + 1].side = "Buy"
        <5>1. purchased[k + 1] = purchased[k] + s[k + 1].qty /\ sold[k + 1] = sold[k]
          BY <1>5, <3>1, <4>1
        <5>2. sold[k] <= purchased[k]
          BY <2>2
        <5>3. PICK a \in Nat, b \in Nat, q \in Nat :
                a = sold[k] /\ b = purchased[k] /\ q = s[k + 1].qty
          BY <3>2
        <5>4. a <= b + q
          BY <5>2, <5>3, SMTT(30)
        <5> QED BY <5>1, <5>3, <5>4, ZenonT(30)
      <4>2. CASE s[k + 1].side # "Buy"
        <5>1. /\ purchased[k + 1] = purchased[k]
              /\ sold[k + 1] = IF sold[k] + s[k + 1].qty <= purchased[k]
                               THEN sold[k] + s[k + 1].qty ELSE purchased[k]
          BY <1>5, <3>1, <4>2
        <5> QED BY <3>2, <5>1
      <4> QED BY <4>1, <4>2
    <3> QED BY <3>1, <3>3
  <2>3. 0 .. n \subseteq T
    <3> HIDE DEF T
    <3> QED BY <2>1, <2>2, UpTo
  <2> QED BY <2>3
<1>8. ASSUME NEW k \in 1 .. n
      PROVE  purchased[k - 1] <= purchased[k] /\ sold[k - 1] <= sold[k]
  <2>1. k \in 0 .. n /\ k - 1 \in 0 .. n
    OBVIOUS
  <2>2. PICK q \in Nat, b \in Nat, a \in Nat, c \in Nat, d \in Nat :
          /\ q = s[k].qty /\ a = sold[k - 1] /\ b = purchased[k - 1]
          /\ c = sold[k] /\ d = purchased[k]
    <3>1. s[k].qty \in Nat
      BY <1>4 DEF Traded, Signal
    <3> QED BY <2>1, <3>1
  <2>3. a <= b
    BY <1>7, <2>1, <2>2
  <2>4. PICK buy \in BOOLEAN : buy = (s[k].side = "Buy")
    OBVIOUS
  <2>5. /\ buy => d = b + q /\ c = a
        /\ ~buy => d = b /\ c = IF a + q <= b THEN a + q ELSE b
    BY <1>5, <2>2, <2>4
  <2>6. b <= d /\ a <= c
    BY <2>3, <2>5, TurnRises
  <2> QED BY <2>2, <2>6, Zenon
<1>9. Climbs(purchased, n) /\ Climbs(sold, n)
  BY <1>8 DEF Climbs
<1>10. PICK N \in Nat : N = sold[n]
  OBVIOUS
<1>11. \A k \in 0 .. n : sold[k] <= N
  <2>2. \A k \in 0 .. n : \A j \in 0 .. k : sold[j] <= sold[k]
    BY <1>9, Ascending
  <2>3. n \in 0 .. n /\ \A j \in 0 .. n : j \in 0 .. n
    OBVIOUS
  <2> QED BY <1>10, <2>2, <2>3
<1> DEFINE E(i) == UnitPrice(s, sold, i)
           D(i) == UnitPrice(s, purchased, i)
           dear == [i \in 1 .. purchased[n] |-> D(i)]
<1>12. ASSUME NEW i \in 1 .. N
       PROVE  E(i) \in Nat /\ D(i) \in Nat /\ i \in 1 .. purchased[n]
  <2>1. i \in 1 .. sold[n] /\ i \in 1 .. purchased[n]
    <3>1. n \in 0 .. n /\ sold[n] \in Nat /\ purchased[n] \in Nat
      OBVIOUS
    <3>2. sold[n] <= purchased[n]
      BY <1>7, <3>1
    <3> QED BY <1>10, <3>1, <3>2
  <2>2. E(i) \in Nat
    BY <1>1, <1>6, <1>9, <2>1, UnitPriceType
  <2>3. D(i) \in Nat
    BY <1>1, <1>6, <1>9, <2>1, UnitPriceType
  <2> QED BY <2>1, <2>2, <2>3
<1>13. ASSUME NEW k \in 1 .. n
       PROVE  /\ \A i \in sold[k - 1] + 1 .. sold[k] : E(i) = s[k].price
              /\ \A i \in purchased[k - 1] + 1 .. purchased[k] : D(i) = s[k].price
  <2>1. \A j \in 1 .. Len(s) :
          \A i \in sold[j - 1] + 1 .. sold[j] : UnitPrice(s, sold, i) = s[j].price
    <3>1. Climbs(sold, Len(s))
      BY <1>1, <1>9
    <3> QED BY <3>1, UnitPrices, Zenon
  <2>2. \A j \in 1 .. Len(s) :
          \A i \in purchased[j - 1] + 1 .. purchased[j] : UnitPrice(s, purchased, i) = s[j].price
    <3>1. Climbs(purchased, Len(s))
      BY <1>1, <1>9
    <3> QED BY <3>1, UnitPrices, Zenon
  <2>3. k \in 1 .. Len(s)
    BY <1>1
  <2> QED BY <2>1, <2>2, <2>3, Zenon
<1> HIDE DEF E, D
<1>14. PICK f \in Seq(Int) : f = [i \in 1 .. N |-> E(i) - D(i)] /\ Len(f) = N
  <2>1. [i \in 1 .. N |-> E(i) - D(i)] \in [1 .. N -> Int]
    BY <1>12
  <2> QED BY <2>1, SeqOfInt
<1>15. PICK P \in [0 .. N -> Int] :
         /\ P[0] = 0
         /\ \A i \in 1 .. N : P[i] = P[i - 1] + f[i]
         /\ Total(f) = P[N]
  BY <1>14, TotalPath
<1>16. PairedPnl(s) = P[N]
  BY <1>1, <1>2, <1>3, <1>10, <1>14, <1>15 DEF PairedPnl, E, D
<1>17. PICK p \in [0 .. n -> Tally] :
         /\ p[0] = NoTally
         /\ \A k \in 1 .. n : p[k] = OnTrade(p[k - 1], s[k])
         /\ Pnl(s) = p[n].pnl
  BY <1>1, PnlPath
<1> DEFINE T == {k \in 0 .. n : /\ p[k].pnl = P[sold[k]]
                                /\ Holds(p[k].queue, sold[k], purchased[k], dear)}
<1>18. 0 \in T
  <2>1. p[0].queue = << >> /\ p[0].pnl = 0
    BY <1>17 DEF NoTally
  <2>2. Holds(<< >>, 0, 0, dear)
    BY HoldsNothing
  <2> HIDE DEF dear
  <2> QED BY <1>6, <1>15, <2>1, <2>2
<1>19. ASSUME NEW k \in 0 .. n, k \in T, k < n
       PROVE  k + 1 \in T
  <2>1. k + 1 \in 1 .. n /\ k + 1 \in 0 .. n /\ (k + 1) - 1 = k
    BY <1>19
  <2>2. PICK acc \in Tally, trade \in Traded, lo \in Nat, hi \in Nat, to \in Nat, up \in Nat :
          /\ acc = p[k] /\ trade = s[k + 1]
          /\ lo = sold[k] /\ hi = purchased[k] /\ to = sold[k + 1] /\ up = purchased[k + 1]
    BY <1>4, <2>1
  <2>3. acc.pnl = P[lo] /\ Holds(acc.queue, lo, hi, dear)
    BY <1>19, <2>2
  <2>4. PICK price \in Nat, qty \in Nat : price = trade.price /\ qty = trade.qty /\ qty > 0
    BY DEF Traded, Signal
  <2>5. p[k + 1] = OnTrade(acc, trade)
    BY <1>17, <2>1, <2>2
  <2>6. to <= N /\ lo <= N
    BY <1>11, <2>1, <2>2
  <2>7. /\ trade.side = "Buy" => up = hi + qty /\ to = lo
        /\ trade.side # "Buy" =>
             up = hi /\ to = IF lo + qty <= hi THEN lo + qty ELSE hi
    BY <1>5, <2>1, <2>2, <2>4
  <2>8. /\ \A i \in lo + 1 .. to : E(i) = price
        /\ \A i \in hi + 1 .. up : D(i) = price
    BY <1>13, <2>1, <2>2, <2>4
  <2>9. up <= purchased[n]
    <3>2. \A a \in 0 .. n : \A b \in 0 .. a : purchased[b] <= purchased[a]
      BY <1>9, Ascending
    <3> QED BY <2>1, <2>2, <3>2
  <2>10. purchased[n] \in Nat
    OBVIOUS
  <2>11. CASE trade.side = "Buy"
    <3>1. PICK lot \in Lot : lot = [price |-> trade.price, qty |-> trade.qty]
      <4>1. [price |-> trade.price, qty |-> trade.qty] \in Lot
        BY <2>4 DEF Lot
      <4> QED BY <4>1
    <3>2. lot.price = price /\ lot.qty = qty
      BY <2>4, <3>1
    <3>3. \A i \in hi + 1 .. hi + lot.qty : dear[i] = lot.price
      <4> TAKE i \in hi + 1 .. hi + lot.qty
      <4>1. i \in 1 .. purchased[n] /\ i \in hi + 1 .. up
        BY <2>7, <2>9, <2>10, <2>11, <3>2
      <4> QED BY <2>8, <3>2, <4>1
    <3> HIDE DEF dear
    <3>4. Holds(Append(acc.queue, lot), lo, hi + lot.qty, dear)
      BY <2>3, <3>3, HoldsAppend
    <3>5. OnTrade(acc, trade).queue = Append(acc.queue, lot) /\ OnTrade(acc, trade).pnl = acc.pnl
      BY <2>11, <3>1 DEF OnTrade, Tally
    <3> QED BY <2>1, <2>2, <2>3, <2>5, <2>7, <2>11, <3>2, <3>4, <3>5
  <2>12. CASE trade.side # "Buy"
    <3>1. Earns(P, lo, to, price, dear)
      <4> SUFFICES \A i \in lo + 1 .. to : P[i] = P[i - 1] + (price - dear[i])
        BY <2>6 DEF Earns
      <4> TAKE i \in lo + 1 .. to
      <4>1. i \in 1 .. N /\ E(i) = price
        BY <2>6, <2>8
      <4>2. dear[i] = D(i) /\ D(i) \in Nat
        BY <1>12, <4>1
      <4>3. f[i] = E(i) - D(i)
        BY <1>14, <4>1
      <4> HIDE DEF dear
      <4> QED BY <1>15, <4>1, <4>2, <4>3
    <3> HIDE DEF dear
    <3>2. PICK m : m = MatchSell(acc.queue, price, qty)
      OBVIOUS
    <3>3. m.pnl = P[to] - P[lo] /\ Holds(m.queue, to, hi, dear)
      <4>1. to = SoldAfter(lo, qty, hi)
        BY <2>7, <2>12 DEF SoldAfter
      <4>2. Holds(acc.queue, lo, hi, dear)
        BY <2>3
      <4>3. PICK w : w = acc.queue
        OBVIOUS
      <4>4. Holds(w, lo, hi, dear)
        BY <4>2, <4>3
      <4>5. PICK M, R : M = dear /\ R = P
        OBVIOUS
      <4>6. Holds(w, lo, hi, M) /\ Earns(R, lo, to, price, M)
        BY <3>1, <4>4, <4>5
      <4>7. /\ MatchSell(w, price, qty).pnl = R[to] - R[lo]
            /\ Holds(MatchSell(w, price, qty).queue, to, hi, M)
        BY <4>1, <4>6, SellOldest
      <4> QED BY <3>2, <4>3, <4>5, <4>7, ZenonT(30)
    <3>4. OnTrade(acc, trade) = [queue |-> m.queue, pnl |-> acc.pnl + m.pnl]
      BY <2>4, <2>12, <3>2 DEF OnTrade
    <3>5. P[to] \in Int /\ P[lo] \in Int
      BY <2>6
    <3>6. acc.pnl + m.pnl = P[to]
      <4>1. PICK x \in Int, y \in Int : x = P[lo] /\ y = P[to]
        BY <3>5
      <4>2. acc.pnl = x /\ m.pnl = y - x
        BY <2>3, <3>3, <4>1, Zenon
      <4>3. x + (y - x) = y
        BY SMTT(30)
      <4>4. acc.pnl + m.pnl = x + (y - x)
        BY <4>2, ZenonT(30)
      <4> QED BY <4>1, <4>3, <4>4, ZenonT(30)
    <3>7. p[k + 1].pnl = P[to] /\ p[k + 1].queue = m.queue /\ up = hi
      BY <2>5, <2>7, <2>12, <3>4, <3>6
    <3> QED BY <2>1, <2>2, <3>3, <3>7
  <2> QED BY <2>11, <2>12
<1>20. n \in T
  <2> HIDE DEF T
  <2>1. 0 .. n \subseteq T
    BY <1>18, <1>19, UpTo
  <2> QED BY <2>1
<1> QED BY <1>10, <1>16, <1>17, <1>20

-----------------------------------------------------------------------------
(***************************************************************************)
(* The report, once the replay is done.  Nothing changes it or the trades  *)
(* after that.                                                             *)
(***************************************************************************)
Report(s) ==
    [total |-> Len(s), buys |-> Count(s, "Buy"), sells |-> Count(s, "Sell"), pnl |-> Pnl(s)]

ReportInv == phase = "done" => market = << >> /\ result = <<Report(trades)>>

(* Finish writes it, and every other action needs a phase before "done" or an event. *)
LEMMA ReportStep ==
    ASSUME ReportInv, [BacktestNext]_backtestVars
    PROVE  ReportInv'
<1>1. CASE Finish
  <2>1. market' = << >> /\ trades' = trades /\ result' = <<Report(trades)>>
    BY <1>1 DEF Finish, Report
  <2> QED BY <2>1 DEF ReportInv, Report
<1>2. CASE Start
  BY <1>2 DEF Start, ReportInv
<1>3. CASE NextEvent
  BY <1>3 DEF NextEvent, ReportInv, replayVars
<1>4. CASE ReplayApplied
  BY <1>4 DEF ReplayApplied, Receive, Waiting, ReportInv
<1>5. CASE ReplaySkipped
  BY <1>5 DEF ReplaySkipped, Receive, Waiting, ReportInv, replayVars
<1>6. CASE WallClock
  BY <1>6 DEF WallClock, ReportInv, replayVars
<1>7. CASE UNCHANGED backtestVars
  BY <1>7 DEF backtestVars, replayVars, ReportInv, Report
<1> QED BY <1>1, <1>2, <1>3, <1>4, <1>5, <1>6, <1>7 DEF BacktestNext

(* Every trade is a buy or a sell. *)
LEMMA CountsAdd ==
    ASSUME NEW s \in Seq(Traded)
    PROVE  Count(s, "Buy") + Count(s, "Sell") = Len(s)
<1>1. PICK n \in Nat : n = Len(s) /\ DOMAIN s = 1 .. n
  OBVIOUS
<1>2. PICK B, S : /\ B = {k \in 1 .. n : s[k].side = "Buy"}
                  /\ S = {k \in 1 .. n : s[k].side = "Sell"}
  OBVIOUS
<1>3. \A k \in 1 .. n : s[k].side \in {"Buy", "Sell"}
  <2>1. \A k \in 1 .. n : s[k] \in Traded
    BY <1>1
  <2> QED BY <2>1 DEF Traded, Signal
<1>4. B \cup S = 1 .. n /\ B \cap S = {}
  BY <1>2, <1>3
<1>5. IsFiniteSet(1 .. n) /\ Cardinality(1 .. n) = n
  BY FS_Interval
<1>6. IsFiniteSet(B) /\ IsFiniteSet(S)
  BY <1>4, <1>5, FS_Subset
<1>7. Cardinality(B \cup S) = Cardinality(B) + Cardinality(S) - Cardinality(B \cap S)
  BY <1>6, FS_Union
<1>8. Cardinality(B) \in Nat /\ Cardinality(S) \in Nat /\ Cardinality({}) = 0
  BY <1>6, FS_CardinalityType, FS_EmptySet
<1>9. Cardinality(B) + Cardinality(S) = n
  <2>1. PICK b \in Nat, c \in Nat, both \in Nat :
          b = Cardinality(B) /\ c = Cardinality(S) /\ both = n
    BY <1>8
  <2>2. Cardinality(B \cup S) = n /\ Cardinality(B \cap S) = 0
    BY <1>4, <1>5, <1>8, Zenon
  <2>3. n = b + (c - 0)
    BY <1>7, <2>1, <2>2, Zenon
  <2>4. b + c = both
    BY <2>1, <2>3
  <2> QED BY <2>1, <2>4, Zenon
<1>10. Count(s, "Buy") = Cardinality(B) /\ Count(s, "Sell") = Cardinality(S)
  BY <1>1, <1>2 DEF Count
<1> QED BY <1>1, <1>9, <1>10

(***************************************************************************)
(* The reported profit is that of the units sold, each paired with the     *)
(* unit bought in the same place of the order, for every sequence of       *)
(* trades and all their quantities; and the counts add up.                 *)
(***************************************************************************)
THEOREM BacktestReportPairsTrades == BacktestSpec => []ReportPairsTrades
<1>1. BacktestInit => ReportInv
  BY DEF BacktestInit, ReportInv
<1>2. ReportInv /\ [BacktestNext]_backtestVars => ReportInv'
  BY ReportStep
<1>3. BacktestInv /\ ReportInv => ReportPairsTrades
  <2> SUFFICES ASSUME BacktestInv, ReportInv, phase = "done"
               PROVE  /\ result[1].pnl = PairedPnl(trades)
                      /\ result[1].buys + result[1].sells = result[1].total
    BY DEF ReportPairsTrades
  <2>1. trades \in Seq(Traded)
    BY DEF BacktestInv, DecisionInv
  <2>2. result[1] = Report(trades)
    BY DEF ReportInv
  <2>3. Pnl(trades) = PairedPnl(trades)
    BY <2>1, PnlIsPaired
  <2>4. Count(trades, "Buy") + Count(trades, "Sell") = Len(trades)
    BY <2>1, CountsAdd
  <2> QED BY <2>2, <2>3, <2>4 DEF Report
<1> QED BY <1>1, <1>2, <1>3, BacktestCorrect, PTL DEF BacktestSpec
=============================================================================
