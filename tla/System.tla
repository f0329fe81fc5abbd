------------------------------- MODULE System -------------------------------
(***************************************************************************)
(* The whole of main() (src/src/main.rs): ingestion and watchdog, the      *)
(* market channel, the book thread with order book, strategy and risk      *)
(* checker, the order channel, the executor and the kill switch.           *)
(* MarketData and Trading meet in the book thread: an update that the book *)
(* applies is what the strategy is asked about, and while the thread is    *)
(* blocked on the order channel it takes no event from the market channel. *)
(***************************************************************************)
EXTENDS MarketData, Trading, TopOfBook

systemVars == <<vars, tradingVars>>

SystemInit == Init /\ TradingInit

(* The book has applied an update: quote, strategy, check, send. *)
BookApplies ==
    /\ outbox = << >>
    /\ Receive("DepthUpdate")
    /\ ApplyUpdate(Head(market))
    /\ Applied
    /\ IF HasQuote(book') THEN \E q \in {QuoteOf(book')} : OnOrderbook(q)
       ELSE UNCHANGED tradingVars
    /\ UNCHANGED <<exchangeVars, ingestVars>>

(* Any other event: the strategy learns nothing of it. *)
BookIgnores ==
    /\ outbox = << >>
    /\ BookThread /\ UNCHANGED fed
    /\ UNCHANGED tradingVars

BookLoop == BookApplies \/ BookIgnores

TradingTask == SendOrder \/ Executor \/ Tick \/ SwitchStep

SystemNext ==
    \/ BookLoop
    \/ ExchangeStep /\ UNCHANGED <<market, resync_needed, bookVars, ingestVars, fed, dash, tradingVars>>
    \/ Ingest /\ UNCHANGED tradingVars
    \/ TradingTask /\ UNCHANGED vars

SystemSpec == SystemInit /\ [][SystemNext]_systemVars

(***************************************************************************)
(* Fairness, as in MarketData, and of the blocked send and the executor:   *)
(* both wait on a channel in a thread or worker of their own.              *)
(***************************************************************************)
Ingests(A) == A /\ Others /\ UNCHANGED tradingVars

SystemFairness ==
    /\ WF_systemVars(BookLoop)
    /\ WF_systemVars(SendOrder /\ UNCHANGED vars)
    /\ WF_systemVars(Executor /\ UNCHANGED vars)
    /\ WF_systemVars(Ingests(ConnectOk \/ SendReconnect \/ ReconnectWaitEnds))
    /\ WF_systemVars(Ingests(WatchdogSends))
    /\ \A c \in Conn :
         /\ WF_systemVars(Ingests(InitialWakes(c) \/ InitialFetched(c) \/ InitialSends(c)))
         /\ WF_systemVars(Ingests(PollerTakesFlag(c) \/ PollerFetched(c) \/ PollerSends(c)))

FairSystemSpec == SystemSpec /\ SystemFairness

-----------------------------------------------------------------------------
(***************************************************************************)
(* An order is priced from the exchange's own book, at an id newer than    *)
(* any that the strategy was shown before: neither gaps, replays, late     *)
(* snapshots and reconnects on the one side nor a blocked send on the      *)
(* other make the strategy trade on a book that never was, or twice on     *)
(* the same one.                                                           *)
(***************************************************************************)
OrderFromTrueBook ==
    outbox = << >> /\ outbox' # << >> =>
        /\ fed.id < fed'.id /\ fed'.book = hist[fed'.id]
        /\ LET q == QuoteOf(hist[fed'.id]) IN outbox'[1].signal.price \in {q.bid, q.ask}

OrdersFromTrueBook == [][OrderFromTrueBook]_systemVars

(***************************************************************************)
(* Back-pressure dissolves: when the order channel is full the book thread *)
(* stops, the market channel fills up and the readers block, but again and *)
(* again both channels are empty, no order is on its way and the book is   *)
(* live.                                                                   *)
(***************************************************************************)
Drains == []<>(market = << >> /\ InFlight = << >> /\ Live)
=============================================================================
