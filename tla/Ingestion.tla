----------------------------- MODULE Ingestion -----------------------------
(***************************************************************************)
(* run_ingestion (src/src/ingestion.rs) and the watchdog thread            *)
(* (src/src/watchdog.rs): everything that sends to the market channel.     *)
(*                                                                         *)
(* Connection c is the c-th successful connect_async.  Each one spawns an  *)
(* initial-snapshot task and a resync poller; neither is stopped when the  *)
(* connection ends, so the tasks of all connections so far run             *)
(* concurrently.  Time is abstract: a sleep ends at any moment, and the    *)
(* watchdog's timeout may elapse whenever nothing touches it.              *)
(***************************************************************************)
EXTENDS Channels, Exchange

CONSTANTS
    MaxConn,           \* bound on the connections of a behaviour
    Bound              \* bound on the faults, and on the trades, by kind

Kind == {"connectFail", "loss", "initFail", "pollFail", "watchdog", "trade"}

ASSUME IngestionAssumption ==
    /\ MaxConn \in Nat \ {0}
    /\ Bound \in [Kind -> Nat]

Conn == 1 .. MaxConn

VARIABLES
    reader,            \* where the connect-and-read loop is
    conn,              \* connections made so far
    initial,           \* the initial-snapshot task of each connection
    poller,            \* the resync poller of each connection
    silent,            \* last_seen_ms is older than the watchdog's timeout
    watchdog,          \* where the watchdog thread is
    budget             \* what is left of Bound

ingestVars == <<reader, conn, initial, poller, silent, watchdog, budget>>

NoSnap == [type |-> "none"]

Task(pcs) ==
    [pc : pcs, snap : {NoSnap}] \cup [pc : {"send"}, snap : DepthSnapshot]

InitialTask == Task({"none", "sleep", "fetch", "done"})

PollerTask == Task({"none", "poll", "fetch"})

At(p) == [pc |-> p, snap |-> NoSnap]

Holding(s) == [pc |-> "send", snap |-> s]

IngestionTypeOK ==
    /\ market \in Seq(MarketEvent)
    /\ Len(market) <= MarketCap
    /\ resync_needed \in BOOLEAN
    /\ reader \in {"connect", "read", "notify", "wait"}
    /\ conn \in 0 .. MaxConn
    /\ initial \in [Conn -> InitialTask]
    /\ poller \in [Conn -> PollerTask]
    /\ silent \in BOOLEAN
    /\ watchdog \in {"sleep", "send"}
    /\ budget \in [Kind -> Nat]

IngestionInit ==
    /\ market = << >>
    /\ resync_needed = FALSE
    /\ reader = "connect"
    /\ conn = 0
    /\ initial = [c \in Conn |-> At("none")]
    /\ poller = [c \in Conn |-> At("none")]
    /\ silent = FALSE
    /\ watchdog = "sleep"
    /\ budget = Bound

Spend(k) ==
    /\ budget[k] > 0
    /\ budget' = [budget EXCEPT ![k] = @ - 1]

-----------------------------------------------------------------------------
(***************************************************************************)
(* The outer loop: connect, read until the socket ends, announce the       *)
(* reconnect, wait, connect again.  Events published while no socket was   *)
(* open are lost, so a new stream starts anywhere after the old one.       *)
(***************************************************************************)
ConnectOk ==
    /\ reader = "connect"
    /\ conn < MaxConn
    /\ conn' = conn + 1
    /\ reader' = "read"
    /\ streamed' \in streamed .. exId
    /\ initial' = [initial EXCEPT ![conn + 1] = At("sleep")]
    /\ poller' = [poller EXCEPT ![conn + 1] = At("poll")]
    /\ UNCHANGED <<market, resync_needed, exId, hist, silent, watchdog, budget>>

ConnectFail ==
    /\ reader = "connect"
    /\ Spend("connectFail")
    /\ reader' = "notify"
    /\ UNCHANGED <<market, resync_needed, exchangeVars, conn, initial, poller, silent, watchdog>>

(* The next depth event of the stream: touch the watchdog, send it on. *)
ReadDepthUpdate ==
    /\ reader = "read"
    /\ \E u \in streamed + 1 .. exId :
         /\ \E U \in streamed + 1 .. u : Send(DepthEvent(streamed, U, u))
         /\ streamed' = u
    /\ silent' = FALSE
    /\ UNCHANGED <<resync_needed, exId, hist, reader, conn, initial, poller, watchdog, budget>>

ReadTrade ==
    /\ reader = "read"
    /\ Spend("trade")
    /\ Send(Trade)
    /\ silent' = FALSE
    /\ UNCHANGED <<resync_needed, exchangeVars, reader, conn, initial, poller, watchdog>>

(* A depth message that does not parse is logged and dropped. *)
ReadUnrecognized ==
    /\ reader = "read"
    /\ Spend("loss")
    /\ streamed' \in streamed + 1 .. exId
    /\ UNCHANGED <<market, resync_needed, exId, hist, reader, conn, initial, poller, silent, watchdog>>

(* Close frame, socket error or end of stream. *)
SocketEnds ==
    /\ reader = "read"
    /\ conn < MaxConn
    /\ reader' = "notify"
    /\ UNCHANGED <<market, resync_needed, exchangeVars, conn, initial, poller, silent, watchdog, budget>>

SendReconnect ==
    /\ reader = "notify"
    /\ Send(Reconnect)
    /\ reader' = "wait"
    /\ UNCHANGED <<resync_needed, exchangeVars, conn, initial, poller, silent, watchdog, budget>>

ReconnectWaitEnds ==
    /\ reader = "wait"
    /\ reader' = "connect"
    /\ UNCHANGED <<market, resync_needed, exchangeVars, conn, initial, poller, silent, watchdog, budget>>

Reader ==
    \/ ConnectOk \/ ConnectFail \/ ReadDepthUpdate \/ ReadTrade
    \/ ReadUnrecognized \/ SocketEnds \/ SendReconnect \/ ReconnectWaitEnds

-----------------------------------------------------------------------------
(***************************************************************************)
(* The initial-snapshot task: sleep, clear the resync flag, fetch, send.   *)
(* A failed fetch is only logged.                                          *)
(***************************************************************************)
InitialWakes(c) ==
    /\ initial[c].pc = "sleep"
    /\ resync_needed' = FALSE
    /\ initial' = [initial EXCEPT ![c] = At("fetch")]
    /\ UNCHANGED <<market, exchangeVars, reader, conn, poller, silent, watchdog, budget>>

InitialFetched(c) ==
    /\ initial[c].pc = "fetch"
    /\ \E s \in RestAnswers : initial' = [initial EXCEPT ![c] = Holding(s)]
    /\ UNCHANGED <<market, resync_needed, exchangeVars, reader, conn, poller, silent, watchdog, budget>>

InitialFetchFails(c) ==
    /\ initial[c].pc = "fetch"
    /\ Spend("initFail")
    /\ initial' = [initial EXCEPT ![c] = At("done")]
    /\ UNCHANGED <<market, resync_needed, exchangeVars, reader, conn, poller, silent, watchdog>>

InitialSends(c) ==
    /\ initial[c].pc = "send"
    /\ Send(initial[c].snap)
    /\ initial' = [initial EXCEPT ![c] = At("done")]
    /\ UNCHANGED <<resync_needed, exchangeVars, reader, conn, poller, silent, watchdog, budget>>

(***************************************************************************)
(* The resync poller: take the flag (compare_exchange), fetch, send; a     *)
(* failed fetch raises the flag again.                                     *)
(***************************************************************************)
PollerTakesFlag(c) ==
    /\ poller[c].pc = "poll"
    /\ resync_needed
    /\ resync_needed' = FALSE
    /\ poller' = [poller EXCEPT ![c] = At("fetch")]
    /\ UNCHANGED <<market, exchangeVars, reader, conn, initial, silent, watchdog, budget>>

PollerFetched(c) ==
    /\ poller[c].pc = "fetch"
    /\ \E s \in RestAnswers : poller' = [poller EXCEPT ![c] = Holding(s)]
    /\ UNCHANGED <<market, resync_needed, exchangeVars, reader, conn, initial, silent, watchdog, budget>>

(* Mutant: a failed resync fetch that does not raise the flag again. *)
PollerFetchGivesUp(c) ==
    /\ poller[c].pc = "fetch"
    /\ Spend("pollFail")
    /\ poller' = [poller EXCEPT ![c] = At("poll")]
    /\ UNCHANGED <<market, resync_needed, exchangeVars, reader, conn, initial, silent, watchdog>>

PollerFetchFails(c) ==
    /\ poller[c].pc = "fetch"
    /\ Spend("pollFail")
    /\ resync_needed' = TRUE
    /\ poller' = [poller EXCEPT ![c] = At("poll")]
    /\ UNCHANGED <<market, exchangeVars, reader, conn, initial, silent, watchdog>>

PollerSends(c) ==
    /\ poller[c].pc = "send"
    /\ Send(poller[c].snap)
    /\ poller' = [poller EXCEPT ![c] = At("poll")]
    /\ UNCHANGED <<resync_needed, exchangeVars, reader, conn, initial, silent, watchdog, budget>>

Tasks(c) ==
    \/ InitialWakes(c) \/ InitialFetched(c) \/ InitialFetchFails(c) \/ InitialSends(c)
    \/ PollerTakesFlag(c) \/ PollerFetched(c) \/ PollerFetchFails(c) \/ PollerSends(c)

-----------------------------------------------------------------------------
(***************************************************************************)
(* The watchdog thread reads last_seen_ms, then sends: a touch between the *)
(* two does not take the Reconnect back.                                   *)
(***************************************************************************)
TimeoutElapses ==
    /\ ~silent
    /\ budget["watchdog"] > 0
    /\ silent' = TRUE
    /\ UNCHANGED <<market, resync_needed, exchangeVars, reader, conn, initial, poller, watchdog, budget>>

WatchdogExpires ==
    /\ watchdog = "sleep"
    /\ silent
    /\ Spend("watchdog")
    /\ watchdog' = "send"
    /\ UNCHANGED <<market, resync_needed, exchangeVars, reader, conn, initial, poller, silent>>

WatchdogSends ==
    /\ watchdog = "send"
    /\ Send(Reconnect)
    /\ watchdog' = "sleep"
    /\ UNCHANGED <<resync_needed, exchangeVars, reader, conn, initial, poller, silent, budget>>

Watchdog == TimeoutElapses \/ WatchdogExpires \/ WatchdogSends
=============================================================================
