---------------------------- MODULE SystemProofs ----------------------------
(***************************************************************************)
(* Theorems about System.  Its steps are steps of MarketData and, at the   *)
(* same time, steps of live trading whose quotes come from the book: so    *)
(* what is proved of the two halves holds of the whole, and what remains   *)
(* is where they meet, in the book thread.                                 *)
(***************************************************************************)
EXTENDS System, MarketDataProofs, TradingProofs

-----------------------------------------------------------------------------
(* A book that has both sides is quoted with prices of its levels. *)
LEMMA QuotePriced ==
    ASSUME NEW b, HasQuote(b)
    PROVE  Priced(QuoteOf(b))
<1>1. ASSUME NEW S, S # {}, S \in {Shown(b, "bid"), Shown(b, "ask")}
      PROVE  Max({l.price : l \in S}) \in Nat /\ Min({l.price : l \in S}) \in Nat
  <2>1. S \subseteq Level
    BY <1>1 DEF Shown, Top, Present
  <2>2. IsFiniteSet(S) /\ \A l \in S : l.price \in Nat
    BY <2>1, TopOfBookAssumption, FS_Subset
  <2> QED BY <1>1, <2>2, BestPrices
<1>2. Shown(b, "bid") # {} /\ Shown(b, "ask") # {}
  BY DEF HasQuote
<1> QED BY <1>1, <1>2 DEF QuoteOf, Priced

(***************************************************************************)
(* The system implements its market-data half: a book thread that is       *)
(* blocked on an order, and what trading does, are nothing to the book.    *)
(***************************************************************************)
THEOREM SystemImplementsMarketData == SystemSpec => Spec
<1>1. SystemInit => Init
  BY DEF SystemInit
<1>2. [SystemNext]_systemVars => [Next]_vars
  BY DEF SystemNext, systemVars, BookLoop, BookApplies, BookIgnores, BookThread, BookUpdate, Next
<1> QED BY <1>1, <1>2, PTL DEF SystemSpec, Spec

(* The system implements live trading, with the quotes of its own book. *)
THEOREM SystemImplementsTrading == SystemSpec => AnyBookSpec
<1>1. SystemInit => TradingInit
  BY DEF SystemInit
<1>2. [SystemNext]_systemVars => [TradingStep]_tradingVars
  <2>1. BookApplies => TradingStep
    BY QuotePriced DEF BookApplies, TradingStep
  <2> QED BY <2>1 DEF SystemNext, systemVars, BookLoop, BookIgnores, TradingTask, TradingStep
<1> QED BY <1>1, <1>2, PTL DEF SystemSpec, AnyBookSpec

(***************************************************************************)
(* What MarketData and Trading promise, for main() as a whole: a Live book *)
(* is the exchange's and a lost one on its way to be recovered; the ledger *)
(* balances, fills and orders keep to their bounds, every approved order   *)
(* is filled once, and the position is the one the strategy believes in.   *)
(***************************************************************************)
THEOREM SystemKeepsItsPromises ==
    SystemSpec => []/\ LiveBookFaithful /\ DashLiveMeansLive
                    /\ Undisturbed => RecoveryPending
                    /\ LedgerBalances /\ FifoOrder /\ RateLimited
                    /\ LateFillsBounded /\ PositionFollowsStrategy /\ Pipeline!FilledOnce
<1>1. TradingInv => LedgerBalances /\ FifoOrder /\ RateLimited /\ LateFillsBounded
  BY TradingInvImplies
<1> QED BY <1>1, LiveBookIsFaithful, DashLiveIsLive, RecoveryIsPending, SystemImplementsMarketData,
           AnyBookCorrect, AnyBookFollows, AnyBookFillsOnce, SystemImplementsTrading, PTL

(* The system implements both abstractions, the replica and the pipeline. *)
THEOREM SystemImplementsBoth == SystemSpec => ImplementsReplica /\ ImplementsPipeline
BY MarketDataImplementsReplica, SystemImplementsMarketData,
   AnyBookImplementsPipeline, SystemImplementsTrading, PTL

-----------------------------------------------------------------------------
(* A strategy asks for the best bid or the best ask that it was shown. *)
LEMMA SignalPrice ==
    ASSUME StrategyInv, NEW q, SignalOf(q) # NoSignal
    PROVE  SignalOf(q).price \in {q.bid, q.ask}
<1>1. strategy \in Known
  BY DEF StrategyInv, StrategiesTypeOK
<1>2. CASE strategy = "pingpong"
  <2>1. SignalOf(q) = PingPongSignal(q)
    BY <1>2 DEF SignalOf
  <2>2. CASE PingPongEnters(q)
    BY <2>1, <2>2 DEF PingPongSignal, PingPongEnters, PingPongExits, Buy
  <2>3. CASE PingPongExits(q)
    BY <2>1, <2>3 DEF PingPongSignal, PingPongEnters, PingPongExits, Sell
  <2> QED BY <2>1, <2>2, <2>3 DEF PingPongSignal
<1>3. CASE strategy = "momentum"
  <2>1. SignalOf(q) = MomentumSignal(q)
    BY <1>3 DEF SignalOf
  <2>2. CASE MomentumEnters(q)
    BY <2>1, <2>2 DEF MomentumSignal, MomentumEnters, MomentumExits, Buy
  <2>3. CASE MomentumExits(q)
    BY <2>1, <2>3 DEF MomentumSignal, MomentumEnters, MomentumExits, Sell
  <2> QED BY <2>1, <2>2, <2>3 DEF MomentumSignal
<1>4. CASE strategy = "noop"
  BY <1>4 DEF SignalOf
<1> QED BY <1>1, <1>2, <1>3, <1>4 DEF Known

(* An update of the book is the only step that approves an order. *)
LEMMA OrderIsOfUpdate ==
    ASSUME TradingInv, [SystemNext]_systemVars, outbox = << >>, outbox' # << >>
    PROVE  /\ BookApplies /\ HasQuote(book')
           /\ outbox'[1].signal.price \in {QuoteOf(book').bid, QuoteOf(book').ask}
<1>1. BookApplies
  BY DEF SystemNext, systemVars, tradingVars, BookLoop, BookIgnores, TradingTask, SendOrder,
         Executor, TakeOrder, FillOrder, MirrorCash, Tick, SwitchStep
<1>2. HasQuote(book')
  BY <1>1 DEF BookApplies, tradingVars
<1>3. PICK q : q = QuoteOf(book') /\ OnOrderbook(q)
  BY <1>1, <1>2 DEF BookApplies
<1>4. RiskInv(Nat) /\ StrategyInv /\ Priced(q)
  BY <1>2, <1>3, QuotePriced DEF TradingInv
<1>5. PICK o \in StandingOrder : ApprovesOn(o, q)
  BY <1>3, <1>4, OnOrderbookCases DEF HoldsOn, RejectsOn
<1>6. outbox' = <<o>> /\ o.signal = SignalOf(q) /\ o.signal \in Signal
  BY <1>5 DEF ApprovesOn, StandingOrder, ValidatedOrder
<1>7. SignalOf(q) # NoSignal
  BY <1>6 DEF Signal, NoSignal
<1>8. o.signal.price \in {q.bid, q.ask}
  BY <1>4, <1>6, <1>7, SignalPrice
<1> QED BY <1>1, <1>2, <1>3, <1>6, <1>8

(***************************************************************************)
(* Every order is priced from a book that the exchange had, at an id later *)
(* than any the strategy was shown before: for every exchange, capacity of *)
(* the two channels, strategy and limit.                                   *)
(***************************************************************************)
THEOREM OrdersAreFromTrueBook == SystemSpec => OrdersFromTrueBook
<1>1. FeedInv /\ FeedInv' /\ TradingInv /\ [SystemNext]_systemVars => OrderFromTrueBook
  <2> SUFFICES ASSUME FeedInv, FeedInv', TradingInv, [SystemNext]_systemVars,
                      outbox = << >>, outbox' # << >>
               PROVE  /\ fed.id < fed'.id /\ fed'.book = hist[fed'.id]
                      /\ outbox'[1].signal.price \in {QuoteOf(hist[fed'.id]).bid, QuoteOf(hist[fed'.id]).ask}
    BY DEF OrderFromTrueBook
  <2>1. /\ BookApplies /\ HasQuote(book')
        /\ outbox'[1].signal.price \in {QuoteOf(book').bid, QuoteOf(book').ask}
    BY OrderIsOfUpdate
  <2>2. BookUpdate /\ ApplyUpdate(Head(market)) /\ Applied
    BY <2>1 DEF BookApplies, BookUpdate
  <2>3. PICK n \in fed.id + 1 .. exId : fed' = [id |-> n, book |-> hist[n]] /\ book' = hist[n]
    BY <2>2, AppliedIsNews
  <2>4. fed.id \in Nat /\ exId \in Nat
    BY DEF FeedInv, TypeOK, ExchangeTypeOK, OrderbookSnapshot
  <2>5. fed.id < n
    BY <2>4
  <2> QED BY <2>1, <2>3, <2>5
<1> QED BY <1>1, FeedCorrect, SystemImplementsMarketData, AnyBookCorrect, SystemImplementsTrading,
           PTL DEF SystemSpec, OrdersFromTrueBook
=============================================================================
