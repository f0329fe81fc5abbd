----------------------------- MODULE MarketData -----------------------------
(***************************************************************************)
(* The market-data half of main() (src/src/main.rs): ingestion and         *)
(* watchdog on one side of the market channel, the book thread on the      *)
(* other, the resync flag going back.  fed is what the book thread last    *)
(* handed to the strategy and stored in the dashboard's snapshot slot;     *)
(* dash holds the two dashboard flags the thread keeps.                    *)
(***************************************************************************)
EXTENDS Orderbook, Ingestion

VARIABLES
    fed,               \* the last OrderbookSnapshot given to the strategy
    dash               \* connected and is_live of the dashboard state

vars == <<market, resync_needed, bookVars, exchangeVars, ingestVars, fed, dash>>

NoFeed == [id |-> 0, book |-> EmptyBook]

Init ==
    /\ OrderbookInit
    /\ ExchangeInit
    /\ IngestionInit
    /\ fed = NoFeed
    /\ dash = [connected |-> FALSE, is_live |-> FALSE]

(***************************************************************************)
(* The book thread: one iteration of its loop per event.  An update that   *)
(* handle_update reports as applied is shown to the dashboard and given to *)
(* the strategy; any other marks the dashboard not live.                   *)
(***************************************************************************)
Applied ==
    /\ dash' = [connected |-> TRUE, is_live |-> TRUE]
    /\ fed' = [id |-> lastUpdateId', book |-> book']

NotApplied ==
    /\ dash' = [connected |-> TRUE, is_live |-> FALSE]
    /\ UNCHANGED fed

BookUpdate ==
    /\ Receive("DepthUpdate")
    /\ LET e == Head(market) IN
         \/ BufferUpdate(e) /\ NotApplied
         \/ SkipStale(e) /\ NotApplied
         \/ ApplyUpdate(e) /\ Applied
         \/ DetectGap(e) /\ NotApplied
    /\ UNCHANGED <<exchangeVars, ingestVars>>

BookSnapshot ==
    /\ Receive("DepthSnapshot")
    /\ HandleSnapshot(Head(market))
    /\ UNCHANGED <<exchangeVars, ingestVars, fed, dash>>

BookTrade ==
    /\ Receive("Trade")
    /\ UNCHANGED <<resync_needed, bookVars, exchangeVars, ingestVars, fed, dash>>

(* Mutant: the dashboard is told of the lost connection but not that the book was reset. *)
BookReconnectStaysLive ==
    /\ Receive("Reconnect")
    /\ Reset
    /\ dash' = [dash EXCEPT !.connected = FALSE]
    /\ UNCHANGED <<resync_needed, exchangeVars, ingestVars, fed>>

BookReconnect ==
    /\ Receive("Reconnect")
    /\ Reset
    /\ dash' = [connected |-> FALSE, is_live |-> FALSE]
    /\ UNCHANGED <<resync_needed, exchangeVars, ingestVars, fed>>

BookThread == BookUpdate \/ BookSnapshot \/ BookTrade \/ BookReconnect

Ingest ==
    /\ Reader \/ (\E c \in Conn : Tasks(c)) \/ Watchdog
    /\ UNCHANGED <<bookVars, fed, dash>>

Next ==
    \/ ExchangeStep /\ UNCHANGED <<market, resync_needed, bookVars, ingestVars, fed, dash>>
    \/ Ingest
    \/ BookThread

Spec == Init /\ [][Next]_vars

(***************************************************************************)
(* Fairness.  The book thread is an OS thread that loops on the channel;   *)
(* the reader and the tasks are scheduled by tokio, whose sleeps end, and  *)
(* a REST call or a connect returns sooner or later.  Nothing is assumed   *)
(* of the exchange, of the socket's end or of the watchdog's timeout.      *)
(***************************************************************************)
Others == UNCHANGED <<bookVars, fed, dash>>

Fairness ==
    /\ WF_vars(BookThread)
    /\ WF_vars((ConnectOk \/ SendReconnect \/ ReconnectWaitEnds) /\ Others)
    /\ WF_vars(WatchdogSends /\ Others)
    /\ \A c \in Conn :
         /\ WF_vars((InitialWakes(c) \/ InitialFetched(c) \/ InitialSends(c)) /\ Others)
         /\ WF_vars((PollerTakesFlag(c) \/ PollerFetched(c) \/ PollerSends(c)) /\ Others)

FairSpec == Spec /\ Fairness

-----------------------------------------------------------------------------
TypeOK ==
    /\ OrderbookTypeOK
    /\ ExchangeTypeOK
    /\ IngestionTypeOK
    /\ fed \in OrderbookSnapshot
    /\ dash \in [connected : BOOLEAN, is_live : BOOLEAN]

(***************************************************************************)
(* A book that claims to be Live is the exchange's book at the id it       *)
(* claims: whatever was lost, delayed, reordered between stream and REST,  *)
(* or replayed from the buffer, handle_update and handle_snapshot never    *)
(* leave a Live book with a level wrong, missing or left over.             *)
(***************************************************************************)
LiveBookFaithful ==
    Live => lastUpdateId <= exId /\ book = hist[lastUpdateId]

(***************************************************************************)
(* Everything on its way to the book tells the truth about the exchange,   *)
(* and the depth events come in the order of their ids, each one later     *)
(* than what the strategy was given: the two facts about the channel, the  *)
(* buffer and the tasks that LiveBookFaithful rests on.                    *)
(***************************************************************************)
ChannelFaithful ==
    \A i \in DOMAIN market :
        /\ market[i].type = "DepthUpdate" => FaithfulUpdate(market[i], exId, hist)
        /\ market[i].type = "DepthSnapshot" => FaithfulSnapshot(market[i], exId, hist)

BufferFaithful == \A i \in DOMAIN buf : FaithfulUpdate(buf[i], exId, hist)

TasksFaithful ==
    \A c \in Conn :
        /\ initial[c].pc = "send" => FaithfulSnapshot(initial[c].snap, exId, hist)
        /\ poller[c].pc = "send" => FaithfulSnapshot(poller[c].snap, exId, hist)

ChannelOrdered ==
    /\ fed.id <= streamed
    /\ \A i \in DOMAIN market : market[i].type = "DepthUpdate" =>
         /\ fed.id <= market[i].pu
         /\ market[i].u <= streamed
         /\ \A j \in DOMAIN market :
              j > i /\ market[j].type = "DepthUpdate" => market[i].u <= market[j].pu

(* The inductive invariant. *)
FeedInv ==
    /\ TypeOK /\ LiveBookFaithful
    /\ ChannelFaithful /\ BufferFaithful /\ TasksFaithful
    /\ ChannelOrdered

(***************************************************************************)
(* The dashboard says is_live only while the book is Live: every way out   *)
(* of Live in the book thread clears the flag.                             *)
(***************************************************************************)
DashLiveMeansLive == dash.is_live => Live

(***************************************************************************)
(* A book that is not Live has its recovery under way: the reader will     *)
(* connect again, the resync flag is up, some task still has a snapshot to *)
(* fetch or to send, or a snapshot is in the channel.  This is what keeps  *)
(* the book from buffering for ever.                                       *)
(***************************************************************************)
RecoveryPending ==
    \/ Live
    \/ reader # "read"
    \/ resync_needed
    \/ \E c \in Conn : \/ initial[c].pc \in {"sleep", "fetch", "send"}
                       \/ poller[c].pc \in {"fetch", "send"}
    \/ \E i \in DOMAIN market : market[i].type = "DepthSnapshot"

(***************************************************************************)
(* docs/getting-started.md:67: when a gap in the update ids is detected,   *)
(* a snapshot is fetched again and the book resynchronises, without any    *)
(* help.  Once the resync flag is raised, the book is Live again later.    *)
(***************************************************************************)
GapResyncs == resync_needed ~> Live

(***************************************************************************)
(* The market-data half implements the abstract replica: the strategy is   *)
(* only ever given true books of the exchange, and never an older one      *)
(* after a newer one, whatever happens on the wire.                        *)
(***************************************************************************)
Replica == INSTANCE BookReplica

ImplementsReplica == Replica!ReplicaSpec
=============================================================================
