-------------------------- MODULE MarketDataProofs --------------------------
(***************************************************************************)
(* Theorems about MarketData, for every set of levels and quantities,      *)
(* every channel capacity, every number of connections and of faults.      *)
(*                                                                         *)
(* First come the operators of Orderbook, for every history of the         *)
(* exchange, every buffer and every snapshot; the replay lemma is an       *)
(* induction over the positions of the buffer by least counterexample.     *)
(***************************************************************************)
EXTENDS MarketData, FoldLemmas

-----------------------------------------------------------------------------
(* The ids of a faithful event are natural numbers in order. *)
LEMMA UpdateIds ==
    ASSUME NEW e \in DepthUpdate, FaithfulUpdate(e, exId, hist)
    PROVE  /\ e.pu \in Nat /\ e.U \in Nat /\ e.u \in Nat
           /\ e.pu < e.U /\ e.U <= e.u /\ e.u <= exId
<1>1. e.pu \in Nat /\ e.U \in Nat /\ e.u \in Nat
  BY DEF DepthUpdate
<1>2. e.pu < e.U /\ e.U <= e.u /\ e.u <= exId
  BY DEF FaithfulUpdate
<1> QED BY <1>1, <1>2

(* apply_levels yields a book. *)
LEMMA ApplyType ==
    ASSUME NEW e \in DepthUpdate, NEW b \in Book
    PROVE  ApplyLevels(b, e) \in Book
<1>1. \A l \in DOMAIN e.levels : e.levels[l] \in Qty
  BY DEF DepthUpdate
<1> QED BY <1>1 DEF ApplyLevels, Book

(***************************************************************************)
(* An event brings every book from pu to u to the book at u: this is why   *)
(* handle_update may apply a chained event and a spanning one, and why     *)
(* handle_snapshot may apply the first valid one in the middle of its      *)
(* range.                                                                  *)
(***************************************************************************)
LEMMA ApplyFaithful ==
    ASSUME ExchangeTypeOK,
           NEW e \in DepthUpdate, FaithfulUpdate(e, exId, hist),
           NEW i \in e.pu .. e.u
    PROVE  ApplyLevels(hist[i], e) = hist[e.u]
<1>1. e.u \in 0 .. exId /\ hist[e.u] \in Book
  BY DEF ExchangeTypeOK, FaithfulUpdate, DepthUpdate
<1>2. hist[e.u] = [l \in Level |-> hist[e.u][l]]
  BY <1>1 DEF Book
<1>3. \A l \in Level : (IF l \in DOMAIN e.levels THEN e.levels[l] ELSE hist[i][l]) = hist[e.u][l]
  BY DEF FaithfulUpdate
<1> QED BY <1>2, <1>3 DEF ApplyLevels

-----------------------------------------------------------------------------
(* The replay starts and stops at positions of the buffer. *)
LEMMA ReplayRange ==
    ASSUME NEW b \in Seq(DepthUpdate), NEW s \in Nat, Valid(b, s) # {}
    PROVE  LET i == Min(Valid(b, s)) IN
           /\ i \in 1 .. Len(b)
           /\ b[i].U <= s + 1 /\ b[i].u >= s + 1
           /\ LastChained(b, i) \in ChainedUpTo(b, i)
           /\ LastChained(b, i) \in i .. Len(b)
<1> DEFINE i == Min(Valid(b, s))
<1>1. Valid(b, s) \subseteq Nat
  BY DEF Valid
<1>2. i \in Valid(b, s)
  BY <1>1, MinNat
<1>3. i \in 1 .. Len(b) /\ b[i].U <= s + 1 /\ b[i].u >= s + 1
  BY <1>2 DEF Valid
<1>4. i \in ChainedUpTo(b, i)
  BY <1>3 DEF ChainedUpTo
<1>5. ChainedUpTo(b, i) \subseteq 0 .. Len(b)
  BY <1>3 DEF ChainedUpTo
<1>6. LastChained(b, i) \in ChainedUpTo(b, i)
  <2> HIDE DEF i
  <2> QED BY <1>4, <1>5, MaxNat DEF LastChained
<1> QED BY <1>3, <1>6 DEF ChainedUpTo

(* The last event that carries a level, where there is one. *)
LEMMA LastCarrier ==
    ASSUME NEW b \in Seq(DepthUpdate), NEW i \in 1 .. Len(b), NEW j \in i .. Len(b),
           NEW l \in Level, Carriers(b, i, j, l) # {}
    PROVE  LET k == Max(Carriers(b, i, j, l)) IN
           /\ k \in i .. j
           /\ l \in DOMAIN b[k].levels
           /\ \A m \in (k + 1) .. j : l \notin DOMAIN b[m].levels
<1>1. Carriers(b, i, j, l) \subseteq 0 .. Len(b)
  BY DEF Carriers
<1>2. /\ Max(Carriers(b, i, j, l)) \in Carriers(b, i, j, l)
      /\ \A m \in Carriers(b, i, j, l) : Max(Carriers(b, i, j, l)) >= m
  BY <1>1, MaxNat
<1> DEFINE k == Max(Carriers(b, i, j, l))
<1>3. k \in i .. j /\ l \in DOMAIN b[k].levels
  BY <1>2 DEF Carriers
<1>4. ASSUME NEW m \in (k + 1) .. j, l \in DOMAIN b[m].levels
      PROVE  FALSE
  <2>1. m \in i .. j /\ k < m
    BY <1>3, <1>4
  <2>2. m \in Carriers(b, i, j, l)
    BY <2>1, <1>4 DEF Carriers
  <2> QED BY <2>1, <2>2, <1>2, <1>3
<1> QED BY <1>3, <1>4

(* The replay yields a book. *)
LEMMA ReplayType ==
    ASSUME NEW b \in Seq(DepthUpdate), NEW i \in 1 .. Len(b), NEW j \in i .. Len(b),
           NEW start \in Book
    PROVE  Replay(start, b, i, j) \in Book
<1>1. ASSUME NEW l \in Level, Carriers(b, i, j, l) # {}
      PROVE  b[Max(Carriers(b, i, j, l))].levels[l] \in Qty
  <2> DEFINE k == Max(Carriers(b, i, j, l))
  <2>1. k \in i .. j /\ l \in DOMAIN b[k].levels
    BY <1>1, LastCarrier
  <2>2. b[k] \in DepthUpdate
    BY <2>1
  <2> QED BY <2>1, <2>2 DEF DepthUpdate
<1>2. \A l \in Level : start[l] \in Qty
  BY DEF Book
<1> QED BY <1>1, <1>2 DEF Replay, Book

(***************************************************************************)
(* Along a chained stretch of the buffer, a level that no event carries    *)
(* keeps its quantity.                                                     *)
(***************************************************************************)
LEMMA ChainUntouched ==
    ASSUME ExchangeTypeOK,
           NEW b \in Seq(DepthUpdate),
           \A m \in 1 .. Len(b) : FaithfulUpdate(b[m], exId, hist),
           NEW i \in 1 .. Len(b), NEW j \in ChainedUpTo(b, i), NEW k \in i .. j,
           NEW l \in Level,
           \A m \in (k + 1) .. j : l \notin DOMAIN b[m].levels
    PROVE  hist[b[j].u][l] = hist[b[k].u][l]
<1>1. j \in i .. Len(b) /\ \A m \in (i + 1) .. j : b[m].pu = b[m - 1].u
  BY DEF ChainedUpTo
<1> DEFINE Bad == {m \in k .. j : hist[b[m].u][l] # hist[b[k].u][l]}
<1>2. ASSUME Bad # {}
      PROVE  FALSE
  <2>1. Bad \subseteq Nat
    BY <1>1
  <2>2. PICK m \in Bad : \A y \in Bad : m <= y
    <3> HIDE DEF Bad
    <3> QED BY <1>2, <2>1, LeastNat
  <2>3. m \in (k + 1) .. j /\ m \in (i + 1) .. j /\ m \in 1 .. Len(b)
    BY <1>1
  <2>4. hist[b[m - 1].u][l] = hist[b[k].u][l]
    <3>1. m - 1 \in k .. j /\ ~(m <= m - 1)
      BY <2>3, <1>1
    <3>2. m - 1 \notin Bad
      BY <2>2, <3>1
    <3> QED BY <3>1, <3>2
  <2>5. b[m].pu = b[m - 1].u
    BY <1>1, <2>3
  <2>6. hist[b[m].pu][l] = hist[b[m].u][l]
    <3>1. b[m] \in DepthUpdate /\ FaithfulUpdate(b[m], exId, hist)
      BY <2>3
    <3>2. b[m].pu \in b[m].pu .. b[m].u
      <4>1. b[m].pu \in Nat /\ b[m].U \in Nat /\ b[m].u \in Nat /\ b[m].pu < b[m].U /\ b[m].U <= b[m].u
        BY <3>1, UpdateIds
      <4> QED BY <4>1
    <3>3. l \in Level \ DOMAIN b[m].levels
      BY <2>3
    <3> QED BY <3>1, <3>2, <3>3 DEF FaithfulUpdate
  <2> QED BY <2>4, <2>5, <2>6
<1>3. j \in k .. j
  BY <1>1
<1> QED BY <1>2, <1>3

(***************************************************************************)
(* The replay of handle_snapshot is exact: loading the snapshot s and      *)
(* applying the chained events from a first valid one on yields the        *)
(* exchange's book at the id of the last event applied.                    *)
(***************************************************************************)
LEMMA ReplayFaithful ==
    ASSUME ExchangeTypeOK,
           NEW b \in Seq(DepthUpdate),
           \A m \in 1 .. Len(b) : FaithfulUpdate(b[m], exId, hist),
           NEW s \in 0 .. exId,
           NEW i \in 1 .. Len(b), b[i].U <= s + 1, b[i].u >= s + 1,
           NEW j \in ChainedUpTo(b, i)
    PROVE  Replay(hist[s], b, i, j) = hist[b[j].u]
<1>1. j \in i .. Len(b) /\ j \in 1 .. Len(b)
  BY DEF ChainedUpTo
<1>2. b[i] \in DepthUpdate /\ b[j] \in DepthUpdate /\ FaithfulUpdate(b[i], exId, hist) /\ FaithfulUpdate(b[j], exId, hist)
  BY <1>1
<1>3. s \in b[i].pu .. b[i].u
  <2>1. /\ b[i].pu \in Nat /\ b[i].U \in Nat /\ b[i].u \in Nat
        /\ b[i].pu < b[i].U
    BY <1>2, UpdateIds
  <2>2. s \in Nat
    BY DEF ExchangeTypeOK
  <2> QED BY <2>1, <2>2
<1>4. hist[b[j].u] \in Book
  <2>1. b[j].u \in Nat
    BY <1>2, UpdateIds
  <2>2. b[j].u <= exId
    BY <1>2 DEF FaithfulUpdate
  <2>3. b[j].u \in 0 .. exId
    BY <2>1, <2>2 DEF ExchangeTypeOK
  <2> QED BY <2>3 DEF ExchangeTypeOK
<1>5. ASSUME NEW l \in Level, Carriers(b, i, j, l) = {}
      PROVE  hist[s][l] = hist[b[j].u][l]
  <2>1. \A m \in i .. j : l \notin DOMAIN b[m].levels
    BY <1>5 DEF Carriers
  <2>2. hist[s][l] = hist[b[i].u][l]
    BY <1>1, <1>2, <1>3, <2>1 DEF FaithfulUpdate
  <2>3. i \in i .. j /\ \A m \in (i + 1) .. j : l \notin DOMAIN b[m].levels
    BY <1>1, <2>1
  <2>4. hist[b[j].u][l] = hist[b[i].u][l]
    BY <2>3, ChainUntouched
  <2> QED BY <2>2, <2>4
<1>6. ASSUME NEW l \in Level, Carriers(b, i, j, l) # {}
      PROVE  b[Max(Carriers(b, i, j, l))].levels[l] = hist[b[j].u][l]
  <2>1. PICK k \in i .. j : /\ k = Max(Carriers(b, i, j, l))
                            /\ l \in DOMAIN b[k].levels
                            /\ \A m \in (k + 1) .. j : l \notin DOMAIN b[m].levels
    BY <1>1, <1>6, LastCarrier
  <2>2. b[k].levels[l] = hist[b[k].u][l]
    <3>1. k \in 1 .. Len(b)
      BY <1>1, <2>1
    <3> QED BY <2>1, <3>1 DEF FaithfulUpdate
  <2>3. hist[b[j].u][l] = hist[b[k].u][l]
    BY <2>1, ChainUntouched
  <2> QED BY <2>1, <2>2, <2>3
<1> QED BY <1>4, <1>5, <1>6 DEF Replay, Book

-----------------------------------------------------------------------------

(* What a Send of a market event does to the channel. *)
LEMMA SendFacts ==
    ASSUME market \in Seq(MarketEvent), NEW e \in MarketEvent, Send(e)
    PROVE  /\ market' \in Seq(MarketEvent)
           /\ Len(market') <= MarketCap
           /\ Len(market') = Len(market) + 1
           /\ \A i \in DOMAIN market : market'[i] = market[i]
           /\ market'[Len(market) + 1] = e
           /\ DOMAIN market' = 1 .. Len(market) + 1
           /\ DOMAIN market = 1 .. Len(market)
<1>1. market' = Append(market, e) /\ Len(market) < MarketCap /\ Len(market) \in Nat
  BY DEF Send, Room
<1> QED BY <1>1, MarketCapAssumption

(* What a Receive does to the channel. *)
LEMMA ReceiveFacts ==
    ASSUME market \in Seq(MarketEvent), Len(market) <= MarketCap, NEW t, Receive(t)
    PROVE  /\ market' \in Seq(MarketEvent)
           /\ Len(market') <= MarketCap
           /\ Head(market) \in MarketEvent
           /\ Head(market) = market[1]
           /\ Head(market).type = t
           /\ 1 \in DOMAIN market
           /\ \A i \in DOMAIN market' : i + 1 \in DOMAIN market /\ market'[i] = market[i + 1]
           /\ DOMAIN market' \subseteq Nat \ {0}
<1>1. market # << >> /\ market' = Tail(market) /\ Head(market).type = t
  BY DEF Receive, Waiting
<1>2. Len(market) \in Nat /\ Len(market) > 0 /\ Len(market') = Len(market) - 1
  BY <1>1
<1>3. market' \in Seq(MarketEvent) /\ Head(market) \in MarketEvent /\ Head(market) = market[1]
  BY <1>1
<1>4. \A i \in DOMAIN market' : i + 1 \in DOMAIN market /\ market'[i] = market[i + 1]
  BY <1>1, <1>2
<1> QED BY <1>1, <1>2, <1>3, <1>4, MarketCapAssumption

(* The type of an event tells its record. *)
LEMMA EventTypes ==
    ASSUME NEW e \in MarketEvent
    PROVE  /\ e.type = "DepthUpdate" => e \in DepthUpdate
           /\ e.type = "DepthSnapshot" => e \in DepthSnapshot
BY DEF MarketEvent, DepthUpdate, DepthSnapshot, Trade, Reconnect

(* handle_snapshot leaves a Live book at a position the buffer or the snapshot gives. *)
LEMMA HandleSnapshotType ==
    ASSUME OrderbookTypeOK, NEW s \in DepthSnapshot, HandleSnapshot(s)
    PROVE  OrderbookTypeOK'
<1>1. s.id \in Nat /\ s.book \in Book
  BY DEF DepthSnapshot
<1>2. CASE Valid(buf, s.id) = {}
  BY <1>1, <1>2 DEF HandleSnapshot, GoLive, OrderbookTypeOK, Live
<1>3. CASE Valid(buf, s.id) # {}
  <2>1. buf \in Seq(DepthUpdate)
    BY DEF OrderbookTypeOK
  <2>2. PICK i, j : /\ i = Min(Valid(buf, s.id)) /\ j = LastChained(buf, i)
                    /\ i \in 1 .. Len(buf) /\ j \in i .. Len(buf)
    BY <1>1, <1>3, <2>1, ReplayRange
  <2>3. Replay(s.book, buf, i, j) \in Book
    BY <1>1, <2>1, <2>2, ReplayType
  <2>4. buf[j].u \in Nat
    <3>1. buf[j] \in DepthUpdate
      BY <2>1, <2>2
    <3> QED BY <3>1 DEF DepthUpdate
  <2>5. GoLive(buf[j].u, Replay(s.book, buf, i, j))
    BY <1>3, <2>2 DEF HandleSnapshot
  <2> QED BY <2>3, <2>4, <2>5 DEF GoLive, OrderbookTypeOK, Live
<1> QED BY <1>2, <1>3

(* The exchange's events have their type. *)
LEMMA DepthEventType ==
    ASSUME ExchangeTypeOK, NEW u \in streamed + 1 .. exId, NEW U \in streamed + 1 .. u
    PROVE  DepthEvent(streamed, U, u) \in DepthUpdate
<1>1. u \in 0 .. exId /\ u \in Nat /\ U \in Nat /\ streamed \in Nat
  BY DEF ExchangeTypeOK
<1>2. hist[u] \in [Level -> Qty]
  BY <1>1 DEF ExchangeTypeOK, Book
<1>3. Touched(streamed, u) \in SUBSET Level
  BY DEF Touched
<1>4. [l \in Touched(streamed, u) |-> hist[u][l]] \in [Touched(streamed, u) -> Qty]
  BY <1>2, <1>3
<1> QED BY <1>1, <1>3, <1>4 DEF DepthEvent, DepthUpdate

(* A REST answer is a snapshot, and a faithful one. *)
LEMMA RestAnswerType ==
    ASSUME ExchangeTypeOK, NEW s \in RestAnswers
    PROVE  s \in DepthSnapshot /\ FaithfulSnapshot(s, exId, hist)
<1>1. PICK i \in 0 .. exId : s = SnapshotAt(i)
  BY DEF RestAnswers
<1>2. hist[i] \in Book /\ i \in Nat /\ i <= exId
  BY DEF ExchangeTypeOK
<1> QED BY <1>1, <1>2 DEF SnapshotAt, DepthSnapshot, FaithfulSnapshot

-----------------------------------------------------------------------------
(* The book thread keeps the types. *)
LEMMA BookThreadType ==
    ASSUME TypeOK, BookThread
    PROVE  TypeOK'
<1> USE DEF TypeOK
<1>0. /\ market \in Seq(MarketEvent) /\ Len(market) <= MarketCap
      /\ resync_needed \in BOOLEAN
  BY DEF IngestionTypeOK
<1>1. ASSUME UNCHANGED exchangeVars
      PROVE  ExchangeTypeOK'
  BY <1>1 DEF ExchangeTypeOK, exchangeVars
<1>2. ASSUME UNCHANGED ingestVars, market' \in Seq(MarketEvent), Len(market') <= MarketCap,
             resync_needed' \in BOOLEAN
      PROVE  IngestionTypeOK'
  BY <1>2 DEF IngestionTypeOK, ingestVars
<1>3. CASE BookUpdate
  <2> DEFINE e == Head(market)
  <2>1. /\ market' \in Seq(MarketEvent) /\ Len(market') <= MarketCap
        /\ e \in DepthUpdate
    BY <1>0, <1>3, ReceiveFacts, EventTypes DEF BookUpdate
  <2>2. UNCHANGED exchangeVars /\ UNCHANGED ingestVars
    BY <1>3 DEF BookUpdate
  <2> HIDE DEF e
  <2>3. CASE BufferUpdate(e) /\ NotApplied
    <3>1. OrderbookTypeOK'
      BY <2>1, <2>3 DEF BufferUpdate, OrderbookTypeOK, Live
    <3> QED BY <1>0, <1>1, <1>2, <2>1, <2>2, <2>3, <3>1 DEF BufferUpdate, NotApplied
  <2>4. CASE SkipStale(e) /\ NotApplied
    <3>1. OrderbookTypeOK'
      BY <2>4 DEF SkipStale, OrderbookTypeOK, Live, bookVars
    <3> QED BY <1>0, <1>1, <1>2, <2>1, <2>2, <2>4, <3>1 DEF SkipStale, NotApplied
  <2>5. CASE ApplyUpdate(e) /\ Applied
    <3>1. ApplyLevels(book, e) \in Book /\ e.u \in Nat
      BY <2>1, ApplyType DEF OrderbookTypeOK, DepthUpdate
    <3>2. OrderbookTypeOK'
      BY <2>5, <3>1 DEF ApplyUpdate, GoLive, OrderbookTypeOK, Live
    <3>3. fed' \in OrderbookSnapshot /\ dash' \in [connected : BOOLEAN, is_live : BOOLEAN]
      BY <2>5, <3>2 DEF Applied, OrderbookTypeOK, OrderbookSnapshot
    <3> QED BY <1>0, <1>1, <1>2, <2>1, <2>2, <2>5, <3>2, <3>3 DEF ApplyUpdate
  <2>6. CASE DetectGap(e) /\ NotApplied
    <3>1. OrderbookTypeOK'
      BY <2>6, QtyAssumption DEF DetectGap, Reset, OrderbookTypeOK, Live, EmptyBook, Book
    <3> QED BY <1>0, <1>1, <1>2, <2>1, <2>2, <2>6, <3>1 DEF DetectGap, NotApplied
  <2> QED BY <1>3, <2>3, <2>4, <2>5, <2>6 DEF BookUpdate, e
<1>4. CASE BookSnapshot
  <2>1. /\ market' \in Seq(MarketEvent) /\ Len(market') <= MarketCap
        /\ Head(market) \in DepthSnapshot
    BY <1>0, <1>4, ReceiveFacts, EventTypes DEF BookSnapshot
  <2>2. OrderbookTypeOK'
    BY <1>4, <2>1, HandleSnapshotType DEF BookSnapshot
  <2> QED BY <1>0, <1>1, <1>2, <1>4, <2>1, <2>2 DEF BookSnapshot, HandleSnapshot
<1>5. CASE BookTrade
  <2>1. market' \in Seq(MarketEvent) /\ Len(market') <= MarketCap
    BY <1>0, <1>5, ReceiveFacts DEF BookTrade
  <2>2. OrderbookTypeOK'
    BY <1>5 DEF BookTrade, OrderbookTypeOK, Live, bookVars
  <2> QED BY <1>0, <1>1, <1>2, <1>5, <2>1, <2>2 DEF BookTrade
<1>6. CASE BookReconnect
  <2>1. market' \in Seq(MarketEvent) /\ Len(market') <= MarketCap
    BY <1>0, <1>6, ReceiveFacts DEF BookReconnect
  <2>2. OrderbookTypeOK'
    BY <1>6, QtyAssumption DEF BookReconnect, Reset, OrderbookTypeOK, Live, EmptyBook, Book
  <2> QED BY <1>0, <1>1, <1>2, <1>6, <2>1, <2>2 DEF BookReconnect
<1> QED BY <1>3, <1>4, <1>5, <1>6 DEF BookThread

(* The exchange keeps the types. *)
LEMMA ExchangeStepType ==
    ASSUME ExchangeTypeOK, ExchangeStep
    PROVE  ExchangeTypeOK'
<1>1. PICK l \in Level, q \in Qty :
         hist' = [i \in 0 .. exId + 1 |->
                    IF i <= exId THEN hist[i] ELSE [hist[exId] EXCEPT ![l] = q]]
  BY DEF ExchangeStep
<1>2. [hist[exId] EXCEPT ![l] = q] \in Book
  BY DEF ExchangeTypeOK, Book
<1>3. \A i \in 0 .. exId + 1 : i <= exId => hist[i] \in Book
  BY DEF ExchangeTypeOK
<1>4. exId' = exId + 1 /\ streamed' = streamed /\ exId \in Nat
  BY DEF ExchangeStep, ExchangeTypeOK
<1>5. hist' \in [0 .. exId + 1 -> Book]
  BY <1>1, <1>2, <1>3, <1>4
<1> QED BY <1>4, <1>5 DEF ExchangeTypeOK

(* The task records have their types. *)
LEMMA TaskTypes ==
    /\ \A p \in {"none", "sleep", "fetch", "done"} : At(p) \in InitialTask
    /\ \A p \in {"none", "poll", "fetch"} : At(p) \in PollerTask
    /\ \A s \in DepthSnapshot : Holding(s) \in InitialTask /\ Holding(s) \in PollerTask
    /\ \A t \in InitialTask \cup PollerTask : t.pc = "send" => t.snap \in DepthSnapshot
BY DEF At, Holding, InitialTask, PollerTask, Task

(* The connect-and-read loop keeps the types. *)
LEMMA ReaderType ==
    ASSUME IngestionTypeOK, ExchangeTypeOK, Reader
    PROVE  IngestionTypeOK' /\ ExchangeTypeOK'
<1> USE DEF IngestionTypeOK
<1>0. /\ market \in Seq(MarketEvent)
      /\ Trade \in MarketEvent /\ Reconnect \in MarketEvent /\ DepthUpdate \subseteq MarketEvent
  BY DEF MarketEvent
<1>a. ASSUME NEW k \in Kind, Spend(k)
      PROVE  budget' \in [Kind -> Nat]
  BY <1>a DEF Spend
<1>b. ASSUME UNCHANGED exchangeVars
      PROVE  ExchangeTypeOK'
  BY <1>b DEF ExchangeTypeOK, exchangeVars
<1>c. ASSUME streamed' \in streamed .. exId, UNCHANGED <<exId, hist>>
      PROVE  ExchangeTypeOK'
  BY <1>c DEF ExchangeTypeOK
<1>1. CASE ConnectOk
  <2>1. conn + 1 \in Conn /\ conn' \in 0 .. MaxConn
    BY <1>1, IngestionAssumption DEF ConnectOk, Conn
  <2>2. initial' \in [Conn -> InitialTask] /\ poller' \in [Conn -> PollerTask]
    BY <1>1, <2>1, TaskTypes DEF ConnectOk
  <2> QED BY <1>1, <1>c, <2>1, <2>2 DEF ConnectOk
<1>2. CASE ConnectFail
  BY <1>2, <1>a, <1>b DEF ConnectFail, Kind
<1>3. CASE ReadDepthUpdate
  <2>0. PICK u \in streamed + 1 .. exId :
           /\ \E U \in streamed + 1 .. u : Send(DepthEvent(streamed, U, u))
           /\ streamed' = u
    BY <1>3 DEF ReadDepthUpdate
  <2>1. PICK U \in streamed + 1 .. u : Send(DepthEvent(streamed, U, u))
    BY <2>0
  <2>2. DepthEvent(streamed, U, u) \in MarketEvent
    BY <1>0, DepthEventType
  <2>3. market' \in Seq(MarketEvent) /\ Len(market') <= MarketCap
    BY <1>0, <2>1, <2>2, SendFacts
  <2>4. streamed' \in streamed .. exId
    BY <2>0 DEF ExchangeTypeOK
  <2> QED BY <1>3, <1>c, <2>3, <2>4 DEF ReadDepthUpdate
<1>4. CASE ReadTrade
  <2>1. market' \in Seq(MarketEvent) /\ Len(market') <= MarketCap
    BY <1>0, <1>4, SendFacts DEF ReadTrade
  <2> QED BY <1>4, <1>a, <1>b, <2>1 DEF ReadTrade, Kind
<1>5. CASE ReadUnrecognized
  <2>1. streamed' \in streamed .. exId
    BY <1>5 DEF ReadUnrecognized, ExchangeTypeOK
  <2> QED BY <1>5, <1>a, <1>c, <2>1 DEF ReadUnrecognized, Kind
<1>6. CASE SocketEnds
  BY <1>6, <1>b DEF SocketEnds
<1>7. CASE SendReconnect
  <2>1. market' \in Seq(MarketEvent) /\ Len(market') <= MarketCap
    BY <1>0, <1>7, SendFacts DEF SendReconnect
  <2> QED BY <1>7, <1>b, <2>1 DEF SendReconnect
<1>8. CASE ReconnectWaitEnds
  BY <1>8, <1>b DEF ReconnectWaitEnds
<1> QED BY <1>1, <1>2, <1>3, <1>4, <1>5, <1>6, <1>7, <1>8 DEF Reader

(* The snapshot tasks keep the types. *)
LEMMA TasksType ==
    ASSUME IngestionTypeOK, ExchangeTypeOK, NEW c \in Conn, Tasks(c)
    PROVE  IngestionTypeOK' /\ ExchangeTypeOK'
<1> USE DEF IngestionTypeOK
<1>0. market \in Seq(MarketEvent) /\ DepthSnapshot \subseteq MarketEvent
  BY DEF MarketEvent
<1>a. ASSUME NEW k \in Kind, Spend(k)
      PROVE  budget' \in [Kind -> Nat]
  BY <1>a DEF Spend
<1>b. ASSUME UNCHANGED exchangeVars
      PROVE  ExchangeTypeOK'
  BY <1>b DEF ExchangeTypeOK, exchangeVars
<1>c. ASSUME NEW p \in {"sleep", "fetch", "done"}, initial' = [initial EXCEPT ![c] = At(p)]
      PROVE  initial' \in [Conn -> InitialTask]
  BY <1>c, TaskTypes
<1>d. ASSUME NEW p \in {"poll", "fetch"}, poller' = [poller EXCEPT ![c] = At(p)]
      PROVE  poller' \in [Conn -> PollerTask]
  BY <1>d, TaskTypes
<1>1. CASE InitialWakes(c)
  BY <1>1, <1>b, <1>c DEF InitialWakes
<1>2. CASE InitialFetched(c)
  <2>1. initial' \in [Conn -> InitialTask]
    BY <1>2, RestAnswerType, TaskTypes DEF InitialFetched
  <2> QED BY <1>2, <1>b, <2>1 DEF InitialFetched
<1>3. CASE InitialFetchFails(c)
  BY <1>3, <1>a, <1>b, <1>c DEF InitialFetchFails, Kind
<1>4. CASE InitialSends(c)
  <2>1. initial[c].snap \in MarketEvent
    BY <1>0, <1>4, TaskTypes DEF InitialSends
  <2>2. market' \in Seq(MarketEvent) /\ Len(market') <= MarketCap
    BY <1>0, <1>4, <2>1, SendFacts DEF InitialSends
  <2> QED BY <1>4, <1>b, <1>c, <2>2 DEF InitialSends
<1>5. CASE PollerTakesFlag(c)
  BY <1>5, <1>b, <1>d DEF PollerTakesFlag
<1>6. CASE PollerFetched(c)
  <2>1. poller' \in [Conn -> PollerTask]
    BY <1>6, RestAnswerType, TaskTypes DEF PollerFetched
  <2> QED BY <1>6, <1>b, <2>1 DEF PollerFetched
<1>7. CASE PollerFetchFails(c)
  BY <1>7, <1>a, <1>b, <1>d DEF PollerFetchFails, Kind
<1>8. CASE PollerSends(c)
  <2>1. poller[c].snap \in MarketEvent
    BY <1>0, <1>8, TaskTypes DEF PollerSends
  <2>2. market' \in Seq(MarketEvent) /\ Len(market') <= MarketCap
    BY <1>0, <1>8, <2>1, SendFacts DEF PollerSends
  <2> QED BY <1>8, <1>b, <1>d, <2>2 DEF PollerSends
<1> QED BY <1>1, <1>2, <1>3, <1>4, <1>5, <1>6, <1>7, <1>8 DEF Tasks

(* The watchdog keeps the types. *)
LEMMA WatchdogType ==
    ASSUME IngestionTypeOK, ExchangeTypeOK, Watchdog
    PROVE  IngestionTypeOK' /\ ExchangeTypeOK'
<1> USE DEF IngestionTypeOK
<1>0. market \in Seq(MarketEvent) /\ Reconnect \in MarketEvent
  BY DEF MarketEvent
<1>b. ASSUME UNCHANGED exchangeVars
      PROVE  ExchangeTypeOK'
  BY <1>b DEF ExchangeTypeOK, exchangeVars
<1>1. CASE TimeoutElapses
  BY <1>1, <1>b DEF TimeoutElapses
<1>2. CASE WatchdogExpires
  BY <1>2, <1>b DEF WatchdogExpires, Spend, Kind
<1>3. CASE WatchdogSends
  <2>1. market' \in Seq(MarketEvent) /\ Len(market') <= MarketCap
    BY <1>0, <1>3, SendFacts DEF WatchdogSends
  <2> QED BY <1>3, <1>b, <2>1 DEF WatchdogSends
<1> QED BY <1>1, <1>2, <1>3 DEF Watchdog

(***************************************************************************)
(* Type correctness: no step of any thread or task takes a variable out of *)
(* its type, and no send overfills the market channel.                     *)
(***************************************************************************)
THEOREM TypeCorrect == Spec => []TypeOK
<1>1. Init => TypeOK
  <2> SUFFICES ASSUME Init PROVE TypeOK
    OBVIOUS
  <2>1. EmptyBook \in Book
    BY QtyAssumption DEF EmptyBook, Book
  <2>2. OrderbookTypeOK
    BY <2>1 DEF Init, OrderbookInit, OrderbookTypeOK, Live
  <2>3. ExchangeTypeOK
    BY DEF Init, ExchangeInit, ExchangeTypeOK
  <2>4. IngestionTypeOK
    <3>1. initial \in [Conn -> InitialTask] /\ poller \in [Conn -> PollerTask]
      BY TaskTypes DEF Init, IngestionInit
    <3>2. budget \in [Kind -> Nat] /\ conn \in 0 .. MaxConn
      BY IngestionAssumption DEF Init, IngestionInit
    <3>3. market \in Seq(MarketEvent) /\ Len(market) <= MarketCap
      BY MarketCapAssumption DEF Init, IngestionInit
    <3> QED BY <3>1, <3>2, <3>3 DEF Init, IngestionInit, IngestionTypeOK
  <2>5. fed \in OrderbookSnapshot /\ dash \in [connected : BOOLEAN, is_live : BOOLEAN]
    BY <2>1 DEF Init, NoFeed, OrderbookSnapshot
  <2> QED BY <2>2, <2>3, <2>4, <2>5 DEF TypeOK
<1>2. TypeOK /\ [Next]_vars => TypeOK'
  <2> SUFFICES ASSUME TypeOK, [Next]_vars PROVE TypeOK'
    OBVIOUS
  <2> USE DEF TypeOK
  <2>0. ASSUME UNCHANGED bookVars PROVE OrderbookTypeOK'
    BY <2>0 DEF bookVars, OrderbookTypeOK, Live
  <2>1. CASE ExchangeStep /\ UNCHANGED <<market, resync_needed, bookVars, ingestVars, fed, dash>>
    <3>1. IngestionTypeOK'
      BY <2>1 DEF IngestionTypeOK, ingestVars
    <3> QED BY <2>0, <2>1, <3>1, ExchangeStepType
  <2>2. CASE Ingest
    <3>1. IngestionTypeOK' /\ ExchangeTypeOK'
      BY <2>2, ReaderType, TasksType, WatchdogType DEF Ingest
    <3> QED BY <2>0, <2>2, <3>1 DEF Ingest
  <2>3. CASE BookThread
    BY <2>3, BookThreadType
  <2>4. CASE UNCHANGED vars
    BY <2>4 DEF vars, bookVars, exchangeVars, ingestVars, OrderbookTypeOK, Live,
                ExchangeTypeOK, IngestionTypeOK
  <2> QED BY <2>1, <2>2, <2>3, <2>4 DEF Next
<1> QED BY <1>1, <1>2, PTL DEF Spec

-----------------------------------------------------------------------------
(* A change of the exchange's book leaves the past as it was. *)
LEMMA HistoryKept ==
    ASSUME ExchangeTypeOK, ExchangeStep
    PROVE  exId' = exId + 1 /\ \A i \in 0 .. exId : hist'[i] = hist[i]
<1>1. PICK l \in Level, q \in Qty :
         hist' = [i \in 0 .. exId + 1 |->
                    IF i <= exId THEN hist[i] ELSE [hist[exId] EXCEPT ![l] = q]]
  BY DEF ExchangeStep
<1>2. exId \in Nat
  BY DEF ExchangeTypeOK
<1> QED BY <1>1, <1>2 DEF ExchangeStep

(* So what was faithful to it stays so. *)
LEMMA FaithfulKept ==
    ASSUME ExchangeTypeOK, ExchangeStep
    PROVE  /\ \A e \in DepthUpdate :
                FaithfulUpdate(e, exId, hist) => FaithfulUpdate(e, exId', hist')
           /\ \A s \in DepthSnapshot :
                FaithfulSnapshot(s, exId, hist) => FaithfulSnapshot(s, exId', hist')
<1>0. exId' = exId + 1 /\ exId \in Nat /\ \A i \in 0 .. exId : hist'[i] = hist[i]
  BY HistoryKept DEF ExchangeTypeOK
<1>1. ASSUME NEW e \in DepthUpdate, FaithfulUpdate(e, exId, hist)
      PROVE  FaithfulUpdate(e, exId', hist')
  <2>1. /\ e.pu \in Nat /\ e.U \in Nat /\ e.u \in Nat
        /\ e.pu < e.U /\ e.U <= e.u /\ e.u <= exId
    BY <1>1, UpdateIds
  <2>2. \A i \in e.pu .. e.u : hist'[i] = hist[i]
    BY <1>0, <2>1
  <2>3. hist'[e.u] = hist[e.u]
    BY <1>0, <2>1
  <2>4. e.u <= exId'
    BY <1>0, <2>1
  <2> QED BY <1>1, <2>1, <2>2, <2>3, <2>4 DEF FaithfulUpdate
<1>2. ASSUME NEW s \in DepthSnapshot, FaithfulSnapshot(s, exId, hist)
      PROVE  FaithfulSnapshot(s, exId', hist')
  <2>1. s.id \in Nat /\ s.id <= exId
    BY <1>2 DEF DepthSnapshot, FaithfulSnapshot
  <2>2. s.id <= exId' /\ hist'[s.id] = hist[s.id]
    BY <1>0, <2>1
  <2> QED BY <1>2, <2>2 DEF FaithfulSnapshot
<1> QED BY <1>1, <1>2

(* The events of the stream are faithful. *)
LEMMA DepthEventFaithful ==
    ASSUME ExchangeTypeOK, NEW u \in streamed + 1 .. exId, NEW U \in streamed + 1 .. u
    PROVE  FaithfulUpdate(DepthEvent(streamed, U, u), exId, hist)
<1> DEFINE e == DepthEvent(streamed, U, u)
<1>1. e.pu = streamed /\ e.U = U /\ e.u = u
      /\ e.levels = [l \in Touched(streamed, u) |-> hist[u][l]]
  BY DEF DepthEvent
<1>2. streamed \in Nat /\ exId \in Nat
  BY DEF ExchangeTypeOK
<1>3. e.pu < e.U /\ e.U <= e.u /\ e.u <= exId
  BY <1>1, <1>2
<1>4. \A l \in DOMAIN e.levels : e.levels[l] = hist[e.u][l]
  BY <1>1
<1>5. \A l \in Level \ DOMAIN e.levels : \A i \in e.pu .. e.u : hist[i][l] = hist[e.u][l]
  BY <1>1 DEF Touched
<1> HIDE DEF e
<1>6. FaithfulUpdate(e, exId, hist)
  BY <1>3, <1>4, <1>5 DEF FaithfulUpdate
<1> QED BY <1>6 DEF e

(* Putting a faithful event at the end of the channel keeps the channel faithful. *)
LEMMA SendFaithful ==
    ASSUME market \in Seq(MarketEvent), ChannelFaithful, UNCHANGED <<exId, hist>>,
           NEW e \in MarketEvent, Send(e),
           e.type = "DepthUpdate" => FaithfulUpdate(e, exId, hist),
           e.type = "DepthSnapshot" => FaithfulSnapshot(e, exId, hist)
    PROVE  ChannelFaithful'
<1>1. ASSUME NEW i \in DOMAIN market'
      PROVE  /\ market'[i].type = "DepthUpdate" => FaithfulUpdate(market'[i], exId', hist')
             /\ market'[i].type = "DepthSnapshot" => FaithfulSnapshot(market'[i], exId', hist')
  <2>0. i \in DOMAIN market \/ i = Len(market) + 1
    BY SendFacts
  <2>1. CASE i \in DOMAIN market
    BY <2>1, SendFacts DEF ChannelFaithful
  <2>2. CASE i = Len(market) + 1
    BY <2>2, SendFacts
  <2> QED BY <2>0, <2>1, <2>2
<1> QED BY <1>1 DEF ChannelFaithful

(* Taking the head of the channel keeps it faithful. *)
LEMMA ReceiveFaithful ==
    ASSUME market \in Seq(MarketEvent), Len(market) <= MarketCap,
           ChannelFaithful, UNCHANGED <<exId, hist>>, NEW t, Receive(t)
    PROVE  ChannelFaithful'
<1>1. \A i \in DOMAIN market' : i + 1 \in DOMAIN market /\ market'[i] = market[i + 1]
  BY ReceiveFacts
<1> QED BY <1>1 DEF ChannelFaithful

-----------------------------------------------------------------------------
(* Putting an event at the end of the channel keeps the channel ordered,   *)
(* provided that a depth event continues the stream.                       *)
LEMMA SendOrdered ==
    ASSUME TypeOK, ChannelOrdered, UNCHANGED fed, streamed' >= streamed, streamed' \in Nat,
           NEW e \in MarketEvent, Send(e),
           e.type = "DepthUpdate" => e.pu = streamed /\ e.u = streamed'
    PROVE  ChannelOrdered'
<1>0. /\ market \in Seq(MarketEvent) /\ streamed \in Nat /\ fed.id \in Nat
  BY DEF TypeOK, IngestionTypeOK, ExchangeTypeOK, OrderbookSnapshot
<1>1. /\ \A i \in DOMAIN market : market'[i] = market[i]
      /\ market'[Len(market) + 1] = e
      /\ DOMAIN market' = 1 .. Len(market) + 1
      /\ DOMAIN market = 1 .. Len(market)
      /\ Len(market) \in Nat
  BY <1>0, SendFacts
<1>2. \A i \in DOMAIN market : market[i].type = "DepthUpdate" =>
         market[i].u \in Nat /\ market[i].pu \in Nat
  BY <1>0, EventTypes DEF DepthUpdate
<1>3. fed.id <= streamed /\ fed'.id <= streamed'
  BY <1>0 DEF ChannelOrdered
<1>4. ASSUME NEW i \in DOMAIN market', market'[i].type = "DepthUpdate"
      PROVE  /\ fed'.id <= market'[i].pu
             /\ market'[i].u <= streamed'
  <2>1. CASE i \in DOMAIN market
    BY <1>0, <1>1, <1>2, <1>4, <2>1 DEF ChannelOrdered
  <2>2. CASE i = Len(market) + 1
    BY <1>0, <1>1, <1>3, <1>4, <2>2
  <2> QED BY <1>1, <2>1, <2>2
<1>5. ASSUME NEW i \in DOMAIN market', market'[i].type = "DepthUpdate",
             NEW j \in DOMAIN market', j > i, market'[j].type = "DepthUpdate"
      PROVE  market'[i].u <= market'[j].pu
  <2>1. i \in DOMAIN market
    BY <1>1, <1>5
  <2>2. CASE j \in DOMAIN market
    BY <1>1, <1>5, <2>1, <2>2 DEF ChannelOrdered
  <2>3. CASE j = Len(market) + 1
    BY <1>1, <1>5, <2>1, <2>3 DEF ChannelOrdered
  <2> QED BY <1>1, <2>2, <2>3
<1> QED BY <1>3, <1>4, <1>5 DEF ChannelOrdered

(* Taking the head of the channel keeps it ordered, when the strategy is   *)
(* given nothing, or the book at the head's u.                             *)
LEMMA ReceiveOrdered ==
    ASSUME TypeOK, ChannelOrdered, UNCHANGED streamed, NEW t, Receive(t),
           \/ UNCHANGED fed
           \/ t = "DepthUpdate" /\ fed'.id = Head(market).u
    PROVE  ChannelOrdered'
<1>0. market \in Seq(MarketEvent) /\ Len(market) <= MarketCap
  BY DEF TypeOK, IngestionTypeOK
<1>1. /\ \A i \in DOMAIN market' : i + 1 \in DOMAIN market /\ market'[i] = market[i + 1]
      /\ Head(market) = market[1] /\ Head(market).type = t /\ 1 \in DOMAIN market
      /\ DOMAIN market' \subseteq Nat \ {0}
  BY <1>0, ReceiveFacts
<1>2. fed'.id <= streamed'
  BY <1>1 DEF ChannelOrdered
<1>3. ASSUME NEW i \in DOMAIN market', market'[i].type = "DepthUpdate"
      PROVE  /\ fed'.id <= market'[i].pu
             /\ market'[i].u <= streamed'
             /\ \A j \in DOMAIN market' :
                  j > i /\ market'[j].type = "DepthUpdate" => market'[i].u <= market'[j].pu
  <2>1. i + 1 \in DOMAIN market /\ market'[i] = market[i + 1] /\ i \in Nat /\ i + 1 > 1
    BY <1>1
  <2>2. fed'.id <= market'[i].pu
    BY <1>1, <1>3, <2>1 DEF ChannelOrdered
  <2>3. market'[i].u <= streamed'
    BY <1>3, <2>1 DEF ChannelOrdered
  <2>4. ASSUME NEW j \in DOMAIN market', j > i, market'[j].type = "DepthUpdate"
        PROVE  market'[i].u <= market'[j].pu
    <3>1. j + 1 \in DOMAIN market /\ market'[j] = market[j + 1] /\ j + 1 > i + 1
      BY <1>1, <2>1, <2>4
    <3> QED BY <1>3, <2>1, <2>4, <3>1 DEF ChannelOrdered
  <2> QED BY <2>2, <2>3, <2>4
<1> QED BY <1>2, <1>3 DEF ChannelOrdered

(***************************************************************************)
(* handle_snapshot leaves a book that is the exchange's at its id, from    *)
(* any faithful snapshot and any buffer of faithful events, whatever gaps  *)
(* the buffer has.                                                         *)
(***************************************************************************)
LEMMA HandleSnapshotFaithful ==
    ASSUME OrderbookTypeOK, ExchangeTypeOK, BufferFaithful, UNCHANGED <<exId, hist>>,
           NEW s \in DepthSnapshot, FaithfulSnapshot(s, exId, hist), HandleSnapshot(s)
    PROVE  LiveBookFaithful'
<1>1. s.id \in Nat /\ s.id \in 0 .. exId /\ s.book = hist[s.id]
  BY DEF DepthSnapshot, FaithfulSnapshot, ExchangeTypeOK
<1>2. CASE Valid(buf, s.id) = {}
  BY <1>1, <1>2 DEF HandleSnapshot, GoLive, LiveBookFaithful
<1>3. CASE Valid(buf, s.id) # {}
  <2>1. buf \in Seq(DepthUpdate) /\ \A m \in 1 .. Len(buf) : FaithfulUpdate(buf[m], exId, hist)
    BY DEF OrderbookTypeOK, BufferFaithful
  <2>2. PICK i, j : /\ i = Min(Valid(buf, s.id)) /\ j = LastChained(buf, i)
                    /\ i \in 1 .. Len(buf) /\ j \in i .. Len(buf)
                    /\ buf[i].U <= s.id + 1 /\ buf[i].u >= s.id + 1
                    /\ j \in ChainedUpTo(buf, i)
    BY <1>1, <1>3, <2>1, ReplayRange
  <2>3. Replay(hist[s.id], buf, i, j) = hist[buf[j].u]
    BY <1>1, <2>1, <2>2, ReplayFaithful
  <2>4. buf[j].u <= exId
    <3>1. buf[j] \in DepthUpdate /\ FaithfulUpdate(buf[j], exId, hist)
      BY <2>1, <2>2
    <3> QED BY <3>1, UpdateIds
  <2>5. GoLive(buf[j].u, Replay(s.book, buf, i, j))
    BY <1>3, <2>2 DEF HandleSnapshot
  <2> QED BY <1>1, <2>3, <2>4, <2>5 DEF GoLive, LiveBookFaithful
<1> QED BY <1>2, <1>3

(***************************************************************************)
(* handle_update keeps a Live book faithful when it applies an event.      *)
(***************************************************************************)
LEMMA ApplyUpdateFaithful ==
    ASSUME OrderbookTypeOK, ExchangeTypeOK, LiveBookFaithful, UNCHANGED <<exId, hist>>,
           NEW e \in DepthUpdate, FaithfulUpdate(e, exId, hist), ApplyUpdate(e)
    PROVE  LiveBookFaithful' /\ lastUpdateId' = e.u
<1>1. /\ e.pu \in Nat /\ e.U \in Nat /\ e.u \in Nat
      /\ e.pu < e.U /\ e.U <= e.u /\ e.u <= exId
  BY UpdateIds
<1>2. lastUpdateId \in e.pu .. e.u /\ book = hist[lastUpdateId]
  BY <1>1 DEF ApplyUpdate, Chained, Spanning, OrderbookTypeOK, LiveBookFaithful
<1>3. ApplyLevels(book, e) = hist[e.u]
  BY <1>2, ApplyFaithful
<1> QED BY <1>1, <1>3 DEF ApplyUpdate, GoLive, LiveBookFaithful

-----------------------------------------------------------------------------
(* The book thread keeps the inductive invariant, its types apart. *)
LEMMA BookThreadFeed ==
    ASSUME FeedInv, BookThread
    PROVE  LiveBookFaithful' /\ ChannelFaithful' /\ BufferFaithful' /\ TasksFaithful' /\ ChannelOrdered'
<1>0. /\ TypeOK /\ OrderbookTypeOK /\ ExchangeTypeOK
      /\ market \in Seq(MarketEvent) /\ Len(market) <= MarketCap
      /\ LiveBookFaithful /\ ChannelFaithful /\ BufferFaithful /\ TasksFaithful /\ ChannelOrdered
  BY DEF FeedInv, TypeOK, IngestionTypeOK
<1>1. UNCHANGED <<exId, hist, streamed, initial, poller>>
  BY DEF BookThread, BookUpdate, BookSnapshot, BookTrade, BookReconnect, exchangeVars, ingestVars
<1>2. TasksFaithful'
  BY <1>0, <1>1 DEF TasksFaithful
<1>3. ASSUME buf' = << >> PROVE BufferFaithful'
  BY <1>3 DEF BufferFaithful
<1>4. CASE BookUpdate
  <2> DEFINE e == Head(market)
  <2>1. e \in DepthUpdate /\ FaithfulUpdate(e, exId, hist) /\ Receive("DepthUpdate")
    BY <1>0, <1>4, ReceiveFacts, EventTypes DEF BookUpdate, ChannelFaithful
  <2>2. ChannelFaithful'
    BY <1>0, <1>1, <2>1, ReceiveFaithful
  <2> HIDE DEF e
  <2>3. CASE BufferUpdate(e) /\ NotApplied
    <3>1. BufferFaithful'
      <4>1. buf' = Append(buf, e) /\ buf \in Seq(DepthUpdate)
        BY <1>0, <2>3 DEF BufferUpdate, OrderbookTypeOK
      <4>2. \A i \in DOMAIN buf' : (i \in DOMAIN buf /\ buf'[i] = buf[i]) \/ buf'[i] = e
        BY <4>1, <2>1
      <4> QED BY <1>0, <1>1, <2>1, <4>2 DEF BufferFaithful
    <3>2. ChannelOrdered'
      BY <1>0, <1>1, <2>1, <2>3, ReceiveOrdered DEF NotApplied
    <3>3. LiveBookFaithful'
      BY <2>3 DEF BufferUpdate, LiveBookFaithful, Live
    <3> QED BY <1>2, <2>2, <3>1, <3>2, <3>3
  <2>4. CASE SkipStale(e) /\ NotApplied
    <3>1. ChannelOrdered'
      BY <1>0, <1>1, <2>1, <2>4, ReceiveOrdered DEF NotApplied
    <3>2. BufferFaithful' /\ LiveBookFaithful'
      BY <1>0, <1>1, <2>4 DEF SkipStale, bookVars, BufferFaithful, LiveBookFaithful, Live
    <3> QED BY <1>2, <2>2, <3>1, <3>2
  <2>5. CASE ApplyUpdate(e) /\ Applied
    <3>1. LiveBookFaithful' /\ lastUpdateId' = e.u
      BY <1>0, <1>1, <2>1, <2>5, ApplyUpdateFaithful
    <3>2. ChannelOrdered'
      BY <1>0, <1>1, <2>1, <2>5, <3>1, ReceiveOrdered DEF Applied, e
    <3>3. BufferFaithful'
      BY <1>3, <2>5 DEF ApplyUpdate, GoLive
    <3> QED BY <1>2, <2>2, <3>1, <3>2, <3>3
  <2>6. CASE DetectGap(e) /\ NotApplied
    <3>1. ChannelOrdered'
      BY <1>0, <1>1, <2>1, <2>6, ReceiveOrdered DEF NotApplied
    <3>2. BufferFaithful' /\ LiveBookFaithful'
      BY <1>3, <2>6 DEF DetectGap, Reset, LiveBookFaithful, Live
    <3> QED BY <1>2, <2>2, <3>1, <3>2
  <2> QED BY <1>4, <2>3, <2>4, <2>5, <2>6 DEF BookUpdate, e
<1>5. CASE BookSnapshot
  <2>1. /\ Head(market) \in DepthSnapshot /\ FaithfulSnapshot(Head(market), exId, hist)
        /\ Receive("DepthSnapshot")
    BY <1>0, <1>5, ReceiveFacts, EventTypes DEF BookSnapshot, ChannelFaithful
  <2>2. LiveBookFaithful'
    BY <1>0, <1>1, <1>5, <2>1, HandleSnapshotFaithful DEF BookSnapshot
  <2>3. BufferFaithful'
    BY <1>3, <1>5 DEF BookSnapshot, HandleSnapshot, GoLive
  <2>4. ChannelFaithful' /\ ChannelOrdered'
    BY <1>0, <1>1, <1>5, <2>1, ReceiveFaithful, ReceiveOrdered DEF BookSnapshot
  <2> QED BY <1>2, <2>2, <2>3, <2>4
<1>6. CASE BookTrade
  <2>1. ChannelFaithful' /\ ChannelOrdered'
    BY <1>0, <1>1, <1>6, ReceiveFaithful, ReceiveOrdered DEF BookTrade
  <2>2. BufferFaithful' /\ LiveBookFaithful'
    BY <1>0, <1>1, <1>6 DEF BookTrade, bookVars, BufferFaithful, LiveBookFaithful, Live
  <2> QED BY <1>2, <2>1, <2>2
<1>7. CASE BookReconnect
  <2>1. ChannelFaithful' /\ ChannelOrdered'
    BY <1>0, <1>1, <1>7, ReceiveFaithful, ReceiveOrdered DEF BookReconnect
  <2>2. BufferFaithful' /\ LiveBookFaithful'
    BY <1>3, <1>7 DEF BookReconnect, Reset, LiveBookFaithful, Live
  <2> QED BY <1>2, <2>1, <2>2
<1> QED BY <1>4, <1>5, <1>6, <1>7 DEF BookThread

(* A change of the exchange's book keeps it. *)
LEMMA ExchangeStepFeed ==
    ASSUME FeedInv, ExchangeStep, UNCHANGED <<market, bookVars, ingestVars, fed>>
    PROVE  LiveBookFaithful' /\ ChannelFaithful' /\ BufferFaithful' /\ TasksFaithful' /\ ChannelOrdered'
<1>0. /\ OrderbookTypeOK /\ ExchangeTypeOK /\ IngestionTypeOK
      /\ LiveBookFaithful /\ ChannelFaithful /\ BufferFaithful /\ TasksFaithful /\ ChannelOrdered
  BY DEF FeedInv, TypeOK
<1>1. UNCHANGED <<market, buf, state, lastUpdateId, book, initial, poller, fed, streamed>>
  BY DEF bookVars, ingestVars, ExchangeStep
<1>2. /\ \A e \in DepthUpdate : FaithfulUpdate(e, exId, hist) => FaithfulUpdate(e, exId', hist')
      /\ \A s \in DepthSnapshot : FaithfulSnapshot(s, exId, hist) => FaithfulSnapshot(s, exId', hist')
  BY <1>0, FaithfulKept
<1>3. LiveBookFaithful'
  BY <1>0, <1>1, HistoryKept DEF LiveBookFaithful, Live, OrderbookTypeOK, ExchangeTypeOK
<1>4. ChannelFaithful'
  <2>1. \A i \in DOMAIN market : market[i] \in MarketEvent
    BY <1>0 DEF IngestionTypeOK
  <2> QED BY <1>0, <1>1, <1>2, <2>1, EventTypes DEF ChannelFaithful
<1>5. BufferFaithful'
  <2>1. \A i \in DOMAIN buf : buf[i] \in DepthUpdate
    BY <1>0 DEF OrderbookTypeOK
  <2> QED BY <1>0, <1>1, <1>2, <2>1 DEF BufferFaithful
<1>6. TasksFaithful'
  <2>1. \A c \in Conn : /\ initial[c].pc = "send" => initial[c].snap \in DepthSnapshot
                        /\ poller[c].pc = "send" => poller[c].snap \in DepthSnapshot
    BY <1>0, TaskTypes DEF IngestionTypeOK
  <2> QED BY <1>0, <1>1, <1>2, <2>1 DEF TasksFaithful
<1>7. ChannelOrdered'
  BY <1>0, <1>1 DEF ChannelOrdered
<1> QED BY <1>3, <1>4, <1>5, <1>6, <1>7

(* The channel part of the invariant through a step that sends nothing. *)
LEMMA NoSendFeed ==
    ASSUME FeedInv, UNCHANGED <<market, exId, hist, fed>>, streamed' >= streamed, streamed' \in Nat
    PROVE  ChannelFaithful' /\ ChannelOrdered'
<1>0. /\ market \in Seq(MarketEvent) /\ streamed \in Nat /\ fed.id \in Nat
      /\ ChannelFaithful /\ ChannelOrdered
  BY DEF FeedInv, TypeOK, IngestionTypeOK, ExchangeTypeOK, OrderbookSnapshot
<1>1. \A i \in DOMAIN market : market[i].type = "DepthUpdate" => market[i].u \in Nat
  BY <1>0, EventTypes DEF DepthUpdate
<1>2. ChannelFaithful'
  BY <1>0 DEF ChannelFaithful
<1>3. \A i \in DOMAIN market : market[i].type = "DepthUpdate" => market[i].u <= streamed'
  BY <1>0, <1>1 DEF ChannelOrdered
<1>4. fed.id <= streamed'
  BY <1>0 DEF ChannelOrdered
<1>5. ChannelOrdered'
  BY <1>0, <1>3, <1>4 DEF ChannelOrdered
<1> QED BY <1>2, <1>5

(* And through a step that sends anything but a depth event. *)
LEMMA SendFeed ==
    ASSUME FeedInv, UNCHANGED <<exchangeVars, fed>>,
           NEW e \in MarketEvent, Send(e), e.type # "DepthUpdate",
           e.type = "DepthSnapshot" => FaithfulSnapshot(e, exId, hist)
    PROVE  ChannelFaithful' /\ ChannelOrdered'
<1>0. /\ TypeOK /\ market \in Seq(MarketEvent) /\ streamed \in Nat
      /\ ChannelFaithful /\ ChannelOrdered
  BY DEF FeedInv, TypeOK, IngestionTypeOK, ExchangeTypeOK
<1>1. UNCHANGED <<exId, hist, streamed>>
  BY DEF exchangeVars
<1>2. ChannelFaithful'
  BY <1>0, <1>1, SendFaithful
<1>3. ChannelOrdered'
  BY <1>0, <1>1, SendOrdered
<1> QED BY <1>2, <1>3

(* The connect-and-read loop keeps the invariant of the channel. *)
LEMMA ReaderFeed ==
    ASSUME FeedInv, Reader, UNCHANGED fed
    PROVE  ChannelFaithful' /\ ChannelOrdered' /\ TasksFaithful' /\ UNCHANGED <<exId, hist>>
<1>0. /\ TypeOK /\ market \in Seq(MarketEvent) /\ ExchangeTypeOK /\ streamed \in Nat /\ exId \in Nat
      /\ conn \in 0 .. MaxConn
      /\ initial \in [Conn -> InitialTask] /\ poller \in [Conn -> PollerTask]
      /\ ChannelFaithful /\ ChannelOrdered /\ TasksFaithful
  BY DEF FeedInv, TypeOK, IngestionTypeOK, ExchangeTypeOK
<1>a. ASSUME UNCHANGED <<exId, hist, initial, poller>> PROVE TasksFaithful'
  BY <1>0, <1>a DEF TasksFaithful
<1>b. /\ Trade \in MarketEvent /\ Trade.type = "Trade"
      /\ Reconnect \in MarketEvent /\ Reconnect.type = "Reconnect"
      /\ DepthUpdate \subseteq MarketEvent
  BY DEF MarketEvent, Trade, Reconnect
<1>1. CASE ConnectOk
  <2>1. /\ UNCHANGED <<market, exId, hist>> /\ streamed' >= streamed /\ streamed' \in Nat
    BY <1>0, <1>1 DEF ConnectOk
  <2>2. \A c \in Conn : /\ initial'[c].pc = "send" => initial'[c] = initial[c]
                        /\ poller'[c].pc = "send" => poller'[c] = poller[c]
    BY <1>0, <1>1 DEF ConnectOk, At
  <2>3. TasksFaithful'
    BY <1>0, <2>1, <2>2 DEF TasksFaithful
  <2> QED BY <2>1, <2>3, NoSendFeed
<1>2. CASE ConnectFail
  BY <1>0, <1>2, <1>a, NoSendFeed DEF ConnectFail, exchangeVars
<1>3. CASE ReadDepthUpdate
  <2>0. PICK u \in streamed + 1 .. exId :
           /\ \E U \in streamed + 1 .. u : Send(DepthEvent(streamed, U, u))
           /\ streamed' = u
    BY <1>3 DEF ReadDepthUpdate
  <2>1. PICK U \in streamed + 1 .. u : Send(DepthEvent(streamed, U, u))
    BY <2>0
  <2>2. UNCHANGED <<exId, hist, initial, poller>>
    BY <1>3 DEF ReadDepthUpdate
  <2> DEFINE e == DepthEvent(streamed, U, u)
  <2>3. e.type = "DepthUpdate" /\ e.pu = streamed /\ e.u = streamed'
    BY <2>0 DEF DepthEvent
  <2>4. e \in MarketEvent /\ FaithfulUpdate(e, exId, hist) /\ Send(e)
    BY <1>0, <1>b, <2>1, DepthEventType, DepthEventFaithful
  <2>5. streamed' >= streamed /\ streamed' \in Nat
    BY <1>0, <2>0
  <2> HIDE DEF e
  <2>6. ChannelFaithful'
    BY <1>0, <2>2, <2>3, <2>4, SendFaithful
  <2>7. ChannelOrdered'
    BY <1>0, <2>3, <2>4, <2>5, SendOrdered
  <2> QED BY <1>a, <2>2, <2>6, <2>7
<1>4. CASE ReadTrade
  BY <1>4, <1>a, <1>b, SendFeed DEF ReadTrade, exchangeVars
<1>5. CASE ReadUnrecognized
  <2>1. /\ UNCHANGED <<market, exId, hist, initial, poller>>
        /\ streamed' >= streamed /\ streamed' \in Nat
    BY <1>0, <1>5 DEF ReadUnrecognized
  <2> QED BY <1>a, <2>1, NoSendFeed
<1>6. CASE SocketEnds
  BY <1>0, <1>6, <1>a, NoSendFeed DEF SocketEnds, exchangeVars
<1>7. CASE SendReconnect
  BY <1>7, <1>a, <1>b, SendFeed DEF SendReconnect, exchangeVars
<1>8. CASE ReconnectWaitEnds
  BY <1>0, <1>8, <1>a, NoSendFeed DEF ReconnectWaitEnds, exchangeVars
<1> QED BY <1>1, <1>2, <1>3, <1>4, <1>5, <1>6, <1>7, <1>8 DEF Reader

(* The snapshot tasks keep it. *)
LEMMA TasksFeed ==
    ASSUME FeedInv, NEW c \in Conn, Tasks(c), UNCHANGED fed
    PROVE  ChannelFaithful' /\ ChannelOrdered' /\ TasksFaithful' /\ UNCHANGED <<exId, hist>>
<1>0. /\ ExchangeTypeOK /\ streamed \in Nat
      /\ initial \in [Conn -> InitialTask] /\ poller \in [Conn -> PollerTask]
      /\ TasksFaithful
  BY DEF FeedInv, TypeOK, IngestionTypeOK, ExchangeTypeOK
<1>1. UNCHANGED <<exId, hist, streamed, exchangeVars>>
  BY DEF Tasks, InitialWakes, InitialFetched, InitialFetchFails, InitialSends,
         PollerTakesFlag, PollerFetched, PollerFetchFails, PollerSends, exchangeVars
<1>a. ASSUME UNCHANGED market PROVE ChannelFaithful' /\ ChannelOrdered'
  BY <1>0, <1>1, <1>a, NoSendFeed
<1>b. ASSUME NEW s \in DepthSnapshot, FaithfulSnapshot(s, exId, hist), Send(s)
      PROVE  ChannelFaithful' /\ ChannelOrdered'
  <2>1. s \in MarketEvent /\ s.type = "DepthSnapshot"
    BY DEF MarketEvent, DepthSnapshot
  <2> QED BY <1>1, <1>b, <2>1, SendFeed
<1>c. ASSUME NEW p \in {"sleep", "fetch", "done"},
             initial' = [initial EXCEPT ![c] = At(p)], UNCHANGED poller
      PROVE  TasksFaithful'
  <2>1. \A d \in Conn : initial'[d].pc = "send" => initial'[d] = initial[d]
    BY <1>0, <1>c DEF At
  <2> QED BY <1>0, <1>1, <1>c, <2>1 DEF TasksFaithful
<1>d. ASSUME NEW p \in {"poll", "fetch"},
             poller' = [poller EXCEPT ![c] = At(p)], UNCHANGED initial
      PROVE  TasksFaithful'
  <2>1. \A d \in Conn : poller'[d].pc = "send" => poller'[d] = poller[d]
    BY <1>0, <1>d DEF At
  <2> QED BY <1>0, <1>1, <1>d, <2>1 DEF TasksFaithful
<1>2. CASE InitialWakes(c)
  BY <1>1, <1>2, <1>a, <1>c DEF InitialWakes
<1>3. CASE InitialFetched(c)
  <2>1. PICK s \in RestAnswers : initial' = [initial EXCEPT ![c] = Holding(s)]
    BY <1>3 DEF InitialFetched
  <2>2. FaithfulSnapshot(s, exId, hist)
    BY <1>0, RestAnswerType
  <2>3. \A d \in Conn : initial'[d] = initial[d] \/ initial'[d].snap = s
    BY <1>0, <2>1 DEF Holding
  <2>4. UNCHANGED <<poller, market>>
    BY <1>3 DEF InitialFetched
  <2>5. TasksFaithful'
    BY <1>0, <1>1, <2>2, <2>3, <2>4 DEF TasksFaithful
  <2> QED BY <1>1, <1>a, <2>4, <2>5
<1>4. CASE InitialFetchFails(c)
  BY <1>1, <1>4, <1>a, <1>c DEF InitialFetchFails
<1>5. CASE InitialSends(c)
  <2>1. initial[c].snap \in DepthSnapshot /\ FaithfulSnapshot(initial[c].snap, exId, hist)
    BY <1>0, <1>5, TaskTypes DEF InitialSends, TasksFaithful
  <2> QED BY <1>1, <1>5, <1>b, <1>c, <2>1 DEF InitialSends
<1>6. CASE PollerTakesFlag(c)
  BY <1>1, <1>6, <1>a, <1>d DEF PollerTakesFlag
<1>7. CASE PollerFetched(c)
  <2>1. PICK s \in RestAnswers : poller' = [poller EXCEPT ![c] = Holding(s)]
    BY <1>7 DEF PollerFetched
  <2>2. FaithfulSnapshot(s, exId, hist)
    BY <1>0, RestAnswerType
  <2>3. \A d \in Conn : poller'[d] = poller[d] \/ poller'[d].snap = s
    BY <1>0, <2>1 DEF Holding
  <2>4. UNCHANGED <<initial, market>>
    BY <1>7 DEF PollerFetched
  <2>5. TasksFaithful'
    BY <1>0, <1>1, <2>2, <2>3, <2>4 DEF TasksFaithful
  <2> QED BY <1>1, <1>a, <2>4, <2>5
<1>8. CASE PollerFetchFails(c)
  BY <1>1, <1>8, <1>a, <1>d DEF PollerFetchFails
<1>9. CASE PollerSends(c)
  <2>1. poller[c].snap \in DepthSnapshot /\ FaithfulSnapshot(poller[c].snap, exId, hist)
    BY <1>0, <1>9, TaskTypes DEF PollerSends, TasksFaithful
  <2> QED BY <1>1, <1>9, <1>b, <1>d, <2>1 DEF PollerSends
<1> QED BY <1>2, <1>3, <1>4, <1>5, <1>6, <1>7, <1>8, <1>9 DEF Tasks

(* The watchdog keeps it. *)
LEMMA WatchdogFeed ==
    ASSUME FeedInv, Watchdog, UNCHANGED fed
    PROVE  ChannelFaithful' /\ ChannelOrdered' /\ TasksFaithful' /\ UNCHANGED <<exId, hist>>
<1>0. streamed \in Nat /\ TasksFaithful /\ Reconnect \in MarketEvent /\ Reconnect.type = "Reconnect"
  BY DEF FeedInv, TypeOK, ExchangeTypeOK, MarketEvent, Reconnect
<1>1. UNCHANGED <<exchangeVars, exId, hist, streamed, initial, poller>>
  BY DEF Watchdog, TimeoutElapses, WatchdogExpires, WatchdogSends, exchangeVars
<1>2. TasksFaithful'
  BY <1>0, <1>1 DEF TasksFaithful
<1>3. CASE TimeoutElapses \/ WatchdogExpires
  <2>1. UNCHANGED market
    BY <1>3 DEF TimeoutElapses, WatchdogExpires
  <2> QED BY <1>0, <1>1, <1>2, <2>1, NoSendFeed
<1>4. CASE WatchdogSends
  BY <1>0, <1>1, <1>2, <1>4, SendFeed DEF WatchdogSends
<1> QED BY <1>3, <1>4 DEF Watchdog

-----------------------------------------------------------------------------
(***************************************************************************)
(* The inductive invariant: what is in the channel, in the buffer and in   *)
(* the hands of the tasks is faithful to the exchange and in order, and    *)
(* so is a Live book.                                                      *)
(***************************************************************************)
THEOREM FeedCorrect == Spec => []FeedInv
<1>1. Init /\ TypeOK => FeedInv
  <2> SUFFICES ASSUME Init, TypeOK PROVE FeedInv
    OBVIOUS
  <2>1. market = << >> /\ buf = << >> /\ ~Live /\ fed.id = 0 /\ streamed = 0
    BY DEF Init, IngestionInit, OrderbookInit, ExchangeInit, Live, NoFeed
  <2>2. \A c \in Conn : initial[c].pc = "none" /\ poller[c].pc = "none"
    BY DEF Init, IngestionInit, At
  <2> QED BY <2>1, <2>2 DEF FeedInv, LiveBookFaithful, ChannelFaithful, BufferFaithful,
                            TasksFaithful, ChannelOrdered
<1>2. FeedInv /\ TypeOK' /\ [Next]_vars => FeedInv'
  <2> SUFFICES ASSUME FeedInv, TypeOK', [Next]_vars PROVE FeedInv'
    OBVIOUS
  <2>1. CASE ExchangeStep /\ UNCHANGED <<market, resync_needed, bookVars, ingestVars, fed, dash>>
    BY <2>1, ExchangeStepFeed DEF FeedInv
  <2>2. CASE Ingest
    <3>1. ChannelFaithful' /\ ChannelOrdered' /\ TasksFaithful' /\ UNCHANGED <<exId, hist>>
      BY <2>2, ReaderFeed, TasksFeed, WatchdogFeed DEF Ingest
    <3>2. BufferFaithful' /\ LiveBookFaithful'
      BY <2>2, <3>1 DEF Ingest, bookVars, FeedInv, BufferFaithful, LiveBookFaithful, Live
    <3> QED BY <3>1, <3>2 DEF FeedInv
  <2>3. CASE BookThread
    BY <2>3, BookThreadFeed DEF FeedInv
  <2>4. CASE UNCHANGED vars
    <3>1. UNCHANGED <<market, buf, state, lastUpdateId, book, exId, hist, streamed,
                      initial, poller, fed>>
      BY <2>4 DEF vars, bookVars, exchangeVars, ingestVars
    <3> QED BY <3>1 DEF FeedInv, LiveBookFaithful, Live, ChannelFaithful, BufferFaithful,
                        TasksFaithful, ChannelOrdered
  <2> QED BY <2>1, <2>2, <2>3, <2>4 DEF Next
<1> QED BY <1>1, <1>2, TypeCorrect, PTL DEF Spec

(***************************************************************************)
(* A Live book is the exchange's book at the id it claims, in every        *)
(* behaviour: the chain of ids, the stale and the spanning case, the scan  *)
(* for the first valid event and the replay that stops at a gap are        *)
(* together enough, whatever is lost, late or out of order.                *)
(***************************************************************************)
THEOREM LiveBookIsFaithful == Spec => []LiveBookFaithful
<1>1. FeedInv => LiveBookFaithful
  BY DEF FeedInv
<1> QED BY <1>1, FeedCorrect, PTL

(* An update that is applied feeds the strategy a later book of the exchange. *)
LEMMA AppliedIsNews ==
    ASSUME FeedInv, FeedInv', BookUpdate, ApplyUpdate(Head(market)), Applied
    PROVE  \E n \in fed.id + 1 .. exId : /\ fed' = [id |-> n, book |-> hist[n]]
                                         /\ book' = hist[n] /\ UNCHANGED <<exId, hist>>
<1> DEFINE e == Head(market)
<1>0. UNCHANGED <<exId, hist>>
  BY DEF BookUpdate, exchangeVars
<1>1. /\ market \in Seq(MarketEvent) /\ Len(market) <= MarketCap
      /\ ChannelFaithful /\ ChannelOrdered /\ fed.id \in Nat /\ exId \in Nat
  BY DEF FeedInv, TypeOK, IngestionTypeOK, ExchangeTypeOK, OrderbookSnapshot
<1>2. /\ e \in DepthUpdate /\ FaithfulUpdate(e, exId, hist) /\ fed.id <= e.pu
  BY <1>1, ReceiveFacts, EventTypes DEF BookUpdate, ChannelFaithful, ChannelOrdered
<1>3. /\ e.pu \in Nat /\ e.U \in Nat /\ e.u \in Nat
      /\ e.pu < e.U /\ e.U <= e.u /\ e.u <= exId
  BY <1>2, UpdateIds
<1>4. lastUpdateId' = e.u /\ Live'
  BY DEF ApplyUpdate, GoLive, Live
<1>5. fed' = [id |-> e.u, book |-> hist[e.u]] /\ book' = hist[e.u]
  BY <1>0, <1>4 DEF Applied, FeedInv, LiveBookFaithful
<1>6. e.u \in fed.id + 1 .. exId
  BY <1>1, <1>2, <1>3
<1> HIDE DEF e
<1> QED BY <1>0, <1>5, <1>6

(***************************************************************************)
(* The market-data half implements BookReplica: the strategy sees only     *)
(* true books of the exchange, at ids that increase.                       *)
(***************************************************************************)
THEOREM MarketDataImplementsReplica == Spec => ImplementsReplica
<1>1. Init => Replica!ReplicaInit
  BY DEF Init, ExchangeInit, NoFeed, Replica!ReplicaInit, EmptyBook, Replica!EmptyBook, Book, Replica!Book
<1>2. FeedInv /\ FeedInv' /\ [Next]_vars => [Replica!Change \/ Replica!Feed]_Replica!replicaVars
  <2> SUFFICES ASSUME FeedInv, FeedInv', [Next]_vars
               PROVE  Replica!Change \/ Replica!Feed \/ UNCHANGED <<exId, hist, fed>>
    BY DEF Replica!replicaVars
  <2>1. CASE ExchangeStep /\ UNCHANGED <<market, resync_needed, bookVars, ingestVars, fed, dash>>
    <3>1. exId' = exId + 1 /\ hist' \in [0 .. exId + 1 -> Book]
          /\ \A i \in 0 .. exId : hist'[i] = hist[i]
      BY <2>1, HistoryKept DEF FeedInv, TypeOK, ExchangeTypeOK
    <3> QED BY <2>1, <3>1 DEF Replica!Change, Book, Replica!Book
  <2>2. CASE Ingest
    BY <2>2, ReaderFeed, TasksFeed, WatchdogFeed DEF Ingest
  <2>3. CASE BookThread
    <3>0. UNCHANGED <<exId, hist>>
      BY <2>3 DEF BookThread, BookUpdate, BookSnapshot, BookTrade, BookReconnect, exchangeVars
    <3>1. CASE BookUpdate /\ ApplyUpdate(Head(market)) /\ Applied
      BY <3>1, AppliedIsNews DEF Replica!Feed
    <3>2. CASE UNCHANGED fed
      BY <3>0, <3>2
    <3> QED BY <2>3, <3>1, <3>2
         DEF BookThread, BookUpdate, BookSnapshot, BookTrade, BookReconnect, NotApplied
  <2>4. CASE UNCHANGED vars
    BY <2>4 DEF vars, exchangeVars
  <2> QED BY <2>1, <2>2, <2>3, <2>4 DEF Next
<1> QED BY <1>1, <1>2, FeedCorrect, PTL DEF Spec, ImplementsReplica, Replica!ReplicaSpec

-----------------------------------------------------------------------------
(***************************************************************************)
(* The dashboard never calls a book live that is being rebuilt: each of    *)
(* the ways in which the book thread leaves Live clears the flag in the    *)
(* same iteration.                                                         *)
(***************************************************************************)
THEOREM DashLiveIsLive == Spec => []DashLiveMeansLive
<1>1. Init => DashLiveMeansLive
  BY DEF Init, DashLiveMeansLive
<1>2. DashLiveMeansLive /\ [Next]_vars => DashLiveMeansLive'
  <2> SUFFICES ASSUME DashLiveMeansLive, [Next]_vars PROVE DashLiveMeansLive'
    OBVIOUS
  <2>1. ASSUME UNCHANGED <<bookVars, dash>> PROVE DashLiveMeansLive'
    BY <2>1 DEF DashLiveMeansLive, Live, bookVars
  <2>2. CASE BookUpdate
    <3>1. CASE NotApplied
      BY <3>1 DEF NotApplied, DashLiveMeansLive
    <3>2. CASE ApplyUpdate(Head(market))
      BY <3>2 DEF ApplyUpdate, GoLive, Live, DashLiveMeansLive
    <3> QED BY <2>2, <3>1, <3>2 DEF BookUpdate
  <2>3. CASE BookSnapshot
    BY <2>3 DEF BookSnapshot, HandleSnapshot, GoLive, Live, DashLiveMeansLive
  <2>4. CASE BookTrade
    BY <2>1, <2>4 DEF BookTrade
  <2>5. CASE BookReconnect
    BY <2>5 DEF BookReconnect, DashLiveMeansLive
  <2>6. CASE \/ Ingest
             \/ ExchangeStep /\ UNCHANGED <<market, resync_needed, bookVars, ingestVars, fed, dash>>
    BY <2>1, <2>6 DEF Ingest
  <2>7. CASE UNCHANGED vars
    BY <2>1, <2>7 DEF vars
  <2> QED BY <2>2, <2>3, <2>4, <2>5, <2>6, <2>7 DEF Next, BookThread
<1> QED BY <1>1, <1>2, PTL DEF Spec

-----------------------------------------------------------------------------
(***************************************************************************)
(* Recovery.  A Reconnect of the watchdog resets the book without a new    *)
(* connection, and a failed initial fetch is not repeated: each leaves a   *)
(* book that nobody repairs.  These are the only two ways.  Without them   *)
(* there is always a snapshot to come, or one in the channel that no       *)
(* Reconnect follows, or a Live book with no Reconnect on its way to it.   *)
(***************************************************************************)
Undisturbed ==
    /\ budget["watchdog"] = Bound["watchdog"]
    /\ budget["initFail"] = Bound["initFail"]

ReconnectFrom(i) == \E j \in DOMAIN market : j >= i /\ market[j].type = "Reconnect"

SnapshotToCome ==
    \/ reader # "read"
    \/ resync_needed
    \/ \E c \in Conn : \/ initial[c].pc \in {"sleep", "fetch", "send"}
                       \/ poller[c].pc \in {"fetch", "send"}

SnapshotOnItsWay ==
    \E i \in DOMAIN market : market[i].type = "DepthSnapshot" /\ ~ReconnectFrom(i)

StaysLive == Live /\ ~ReconnectFrom(1)

RecoveryInv ==
    /\ \A k \in Kind : budget[k] <= Bound[k]
    /\ budget["watchdog"] = Bound["watchdog"] => watchdog = "sleep"
    /\ Undisturbed => SnapshotToCome \/ SnapshotOnItsWay \/ StaysLive

(* A send behind a snapshot leaves it on its way, unless it sends a Reconnect. *)
LEMMA SendRecovery ==
    ASSUME market \in Seq(MarketEvent), NEW e \in MarketEvent, Send(e), e.type # "Reconnect"
    PROVE  /\ SnapshotOnItsWay => SnapshotOnItsWay'
           /\ ~ReconnectFrom(1) => ~ReconnectFrom(1)'
           /\ e.type = "DepthSnapshot" => SnapshotOnItsWay'
<1>0. PICK n \in Nat \ {0} : n = Len(market) + 1
  <2>1. Len(market) + 1 \in Nat \ {0}
    OBVIOUS
  <2> QED BY <2>1
<1>1. /\ \A j \in DOMAIN market : market'[j] = market[j]
      /\ market'[n] = e /\ DOMAIN market' = 1 .. n /\ DOMAIN market = 1 .. n - 1
  BY <1>0, SendFacts
<1>2. ASSUME NEW i \in Nat, ~ReconnectFrom(i) PROVE ~ReconnectFrom(i)'
  BY <1>1, <1>2 DEF ReconnectFrom
<1>3. e.type = "DepthSnapshot" => SnapshotOnItsWay'
  BY <1>1 DEF SnapshotOnItsWay, ReconnectFrom
<1>4. SnapshotOnItsWay => SnapshotOnItsWay'
  BY <1>1 DEF SnapshotOnItsWay, ReconnectFrom
<1> QED BY <1>2, <1>3, <1>4

(* A receive leaves it on its way, or is the receive of that snapshot. *)
LEMMA ReceiveRecovery ==
    ASSUME market \in Seq(MarketEvent), Len(market) <= MarketCap, NEW t, Receive(t)
    PROVE  /\ ~ReconnectFrom(1) => ~ReconnectFrom(1)' /\ t # "Reconnect"
           /\ SnapshotOnItsWay => \/ SnapshotOnItsWay'
                                  \/ t = "DepthSnapshot" /\ ~ReconnectFrom(1)'
<1>1. /\ Head(market) = market[1] /\ Head(market).type = t /\ 1 \in DOMAIN market
      /\ \A j \in DOMAIN market' : j + 1 \in DOMAIN market /\ market'[j] = market[j + 1]
      /\ DOMAIN market' \subseteq Nat \ {0}
  BY ReceiveFacts
<1>2. ASSUME NEW i \in Nat, ~ReconnectFrom(i + 1) PROVE ~ReconnectFrom(i)'
  BY <1>1, <1>2 DEF ReconnectFrom
<1>3. ~ReconnectFrom(1) => ~ReconnectFrom(2)
  BY <1>1 DEF ReconnectFrom
<1>4. ASSUME SnapshotOnItsWay
      PROVE  SnapshotOnItsWay' \/ (t = "DepthSnapshot" /\ ~ReconnectFrom(1)')
  <2>1. PICK i \in DOMAIN market : market[i].type = "DepthSnapshot" /\ ~ReconnectFrom(i)
    BY <1>4 DEF SnapshotOnItsWay
  <2>2. CASE i = 1
    BY <1>1, <1>2, <1>3, <2>1, <2>2
  <2>3. CASE i # 1
    <3>1. i - 1 \in DOMAIN market' /\ i - 1 \in Nat
      BY <1>1, <2>3 DEF Receive
    <3>2. market'[i - 1] = market[i] /\ ~ReconnectFrom(i - 1)'
      BY <1>1, <1>2, <2>1, <3>1
    <3> QED BY <2>1, <3>1, <3>2 DEF SnapshotOnItsWay, ReconnectFrom
  <2> QED BY <2>2, <2>3
<1> QED BY <1>1, <1>2, <1>3, <1>4 DEF ReconnectFrom

(* The faults that are left never grow in number. *)
LEMMA SpendFacts ==
    ASSUME budget \in [Kind -> Nat], \A k \in Kind : budget[k] <= Bound[k],
           NEW f \in Kind, Spend(f)
    PROVE  /\ \A k \in Kind : budget'[k] <= Bound[k]
           /\ budget'[f] # Bound[f]
           /\ \A k \in Kind \ {f} : budget'[k] = budget[k]
<1>1. /\ budget[f] > 0 /\ budget[f] \in Nat
      /\ \A k \in Kind : budget'[k] = IF k = f THEN budget[f] - 1 ELSE budget[k]
  BY DEF Spend
<1>2. \A k \in Kind : budget[k] \in Nat /\ Bound[k] \in Nat
  BY IngestionAssumption
<1>3. budget'[f] = budget[f] - 1 /\ budget[f] <= Bound[f] /\ Bound[f] \in Nat
  BY <1>1, <1>2
<1>4. budget'[f] <= Bound[f] /\ budget'[f] # Bound[f]
  BY <1>1, <1>3
<1> QED BY <1>1, <1>4

(* The book thread keeps the recovery going. *)
LEMMA BookThreadRecovery ==
    ASSUME TypeOK, RecoveryInv, BookThread
    PROVE  RecoveryInv'
<1>0. market \in Seq(MarketEvent) /\ Len(market) <= MarketCap
  BY DEF TypeOK, IngestionTypeOK
<1>1. UNCHANGED ingestVars
  BY DEF BookThread, BookUpdate, BookSnapshot, BookTrade, BookReconnect
<1>2. resync_needed' = resync_needed \/ resync_needed' = TRUE
  BY DEF BookThread, BookUpdate, BookSnapshot, BookTrade, BookReconnect,
         BufferUpdate, SkipStale, ApplyUpdate, DetectGap, HandleSnapshot
<1>3. SnapshotToCome => SnapshotToCome'
  BY <1>1, <1>2 DEF SnapshotToCome, ingestVars
<1>4. Undisturbed' => Undisturbed
  BY <1>1 DEF Undisturbed, ingestVars
<1>5. ASSUME SnapshotOnItsWay \/ StaysLive PROVE SnapshotToCome' \/ SnapshotOnItsWay' \/ StaysLive'
  <2>1. CASE BookUpdate
    <3>1. \/ Live /\ resync_needed' = TRUE
          \/ Live' = Live
      BY <2>1 DEF BookUpdate, BufferUpdate, SkipStale, ApplyUpdate, DetectGap, GoLive, Live, bookVars
    <3>2. SnapshotOnItsWay' \/ (Live /\ ~ReconnectFrom(1)')
      <4>1. Receive("DepthUpdate")
        BY <2>1 DEF BookUpdate
      <4> QED BY <1>0, <1>5, <4>1, ReceiveRecovery DEF StaysLive
    <3> QED BY <3>1, <3>2 DEF SnapshotToCome, StaysLive
  <2>2. CASE BookSnapshot
    <3>1. Live'
      BY <2>2 DEF BookSnapshot, HandleSnapshot, GoLive, Live
    <3> QED BY <1>0, <1>5, <2>2, <3>1, ReceiveRecovery DEF BookSnapshot, StaysLive
  <2>3. CASE BookTrade
    <3>1. Live' = Live
      BY <2>3 DEF BookTrade, bookVars, Live
    <3> QED BY <1>0, <1>5, <2>3, <3>1, ReceiveRecovery DEF BookTrade, StaysLive
  <2>4. CASE BookReconnect
    BY <1>0, <1>5, <2>4, ReceiveRecovery DEF BookReconnect, StaysLive
  <2> QED BY <2>1, <2>2, <2>3, <2>4 DEF BookThread
<1> QED BY <1>1, <1>3, <1>4, <1>5 DEF RecoveryInv, ingestVars

(* So does the connect-and-read loop. *)
LEMMA ReaderRecovery ==
    ASSUME TypeOK, RecoveryInv, Reader, UNCHANGED bookVars
    PROVE  RecoveryInv'
<1>0. /\ market \in Seq(MarketEvent) /\ budget \in [Kind -> Nat] /\ Live' = Live
      /\ initial \in [Conn -> InitialTask] /\ poller \in [Conn -> PollerTask]
      /\ ExchangeTypeOK /\ conn \in 0 .. MaxConn
      /\ {"connectFail", "loss", "trade", "watchdog", "initFail"} \subseteq Kind
  BY DEF TypeOK, IngestionTypeOK, bookVars, Live, Kind
<1>1. UNCHANGED <<watchdog, resync_needed>>
  BY DEF Reader, ConnectOk, ConnectFail, ReadDepthUpdate, ReadTrade, ReadUnrecognized,
         SocketEnds, SendReconnect, ReconnectWaitEnds
<1>2. /\ \A k \in Kind : budget'[k] <= Bound[k]
      /\ budget'["watchdog"] = budget["watchdog"] /\ budget'["initFail"] = budget["initFail"]
  <2>1. ASSUME NEW f \in {"connectFail", "loss", "trade"}, Spend(f)
        PROVE  /\ \A k \in Kind : budget'[k] <= Bound[k]
               /\ budget'["watchdog"] = budget["watchdog"]
               /\ budget'["initFail"] = budget["initFail"]
    BY <1>0, <2>1, SpendFacts DEF RecoveryInv
  <2> QED BY <2>1 DEF Reader, ConnectOk, ConnectFail, ReadDepthUpdate, ReadTrade,
                      ReadUnrecognized, SocketEnds, SendReconnect, ReconnectWaitEnds, RecoveryInv
<1>3. ASSUME reader = "read", reader' = "read", UNCHANGED <<initial, poller>>,
             \/ UNCHANGED market
             \/ \E e \in MarketEvent : Send(e) /\ e.type # "Reconnect"
      PROVE  SnapshotToCome \/ SnapshotOnItsWay \/ StaysLive
               => SnapshotToCome' \/ SnapshotOnItsWay' \/ StaysLive'
  <2>1. SnapshotToCome => SnapshotToCome'
    BY <1>1, <1>3 DEF SnapshotToCome
  <2>2. /\ SnapshotOnItsWay => SnapshotOnItsWay'
        /\ ~ReconnectFrom(1) => ~ReconnectFrom(1)'
    BY <1>0, <1>3, SendRecovery DEF SnapshotOnItsWay, ReconnectFrom
  <2> QED BY <1>0, <2>1, <2>2 DEF StaysLive
<1>4. CASE ConnectOk
  <2>1. conn + 1 \in Conn
    BY <1>0, <1>4, IngestionAssumption DEF ConnectOk, Conn
  <2>2. initial'[conn + 1].pc = "sleep"
    BY <1>0, <1>4, <2>1 DEF ConnectOk, At
  <2> QED BY <1>1, <1>2, <2>1, <2>2 DEF RecoveryInv, Undisturbed, SnapshotToCome
<1>5. CASE ConnectFail \/ SocketEnds \/ SendReconnect \/ ReconnectWaitEnds
  <2>1. reader' # "read"
    BY <1>5 DEF ConnectFail, SocketEnds, SendReconnect, ReconnectWaitEnds
  <2> QED BY <1>1, <1>2, <2>1 DEF RecoveryInv, Undisturbed, SnapshotToCome
<1>6. CASE ReadDepthUpdate
  <2>1. \E e \in MarketEvent : Send(e) /\ e.type # "Reconnect"
    <3>0. PICK u \in streamed + 1 .. exId :
             \E U \in streamed + 1 .. u : Send(DepthEvent(streamed, U, u))
      BY <1>6 DEF ReadDepthUpdate
    <3>1. PICK U \in streamed + 1 .. u : Send(DepthEvent(streamed, U, u))
      BY <3>0
    <3>2. DepthEvent(streamed, U, u) \in MarketEvent
      BY <1>0, DepthEventType DEF MarketEvent
    <3>3. DepthEvent(streamed, U, u).type = "DepthUpdate"
      BY DEF DepthEvent
    <3> QED BY <3>1, <3>2, <3>3
  <2>2. reader = "read" /\ UNCHANGED <<reader, initial, poller>>
    BY <1>6 DEF ReadDepthUpdate
  <2> QED BY <1>1, <1>2, <1>3, <2>1, <2>2 DEF RecoveryInv, Undisturbed
<1>7. CASE ReadTrade \/ ReadUnrecognized
  <2>1. \/ UNCHANGED market
        \/ \E e \in MarketEvent : Send(e) /\ e.type # "Reconnect"
    <3>1. Trade \in MarketEvent /\ Trade.type = "Trade"
      BY DEF MarketEvent, Trade
    <3> QED BY <1>7, <3>1 DEF ReadTrade, ReadUnrecognized
  <2>2. reader = "read" /\ UNCHANGED <<reader, initial, poller>>
    BY <1>7 DEF ReadTrade, ReadUnrecognized
  <2> QED BY <1>1, <1>2, <1>3, <2>1, <2>2 DEF RecoveryInv, Undisturbed
<1> QED BY <1>4, <1>5, <1>6, <1>7 DEF Reader

(* And so do the snapshot tasks. *)
LEMMA TasksRecovery ==
    ASSUME TypeOK, RecoveryInv, NEW c \in Conn, Tasks(c), UNCHANGED bookVars
    PROVE  RecoveryInv'
<1>0. /\ market \in Seq(MarketEvent) /\ budget \in [Kind -> Nat]
      /\ initial \in [Conn -> InitialTask] /\ poller \in [Conn -> PollerTask]
      /\ {"initFail", "pollFail", "watchdog"} \subseteq Kind
  BY DEF TypeOK, IngestionTypeOK, Kind
<1>1. UNCHANGED watchdog
  BY DEF Tasks, InitialWakes, InitialFetched, InitialFetchFails, InitialSends,
         PollerTakesFlag, PollerFetched, PollerFetchFails, PollerSends
<1>2. CASE InitialFetchFails(c)
  <2>1. /\ \A k \in Kind : budget'[k] <= Bound[k]
        /\ budget'["initFail"] # Bound["initFail"]
        /\ budget'["watchdog"] = budget["watchdog"]
    BY <1>0, <1>2, SpendFacts DEF InitialFetchFails, RecoveryInv
  <2> QED BY <1>1, <2>1 DEF RecoveryInv, Undisturbed
<1>3. CASE ~InitialFetchFails(c)
  <2>1. /\ \A k \in Kind : budget'[k] <= Bound[k]
        /\ budget'["watchdog"] = budget["watchdog"] /\ budget'["initFail"] = budget["initFail"]
    <3>1. CASE PollerFetchFails(c)
      BY <1>0, <3>1, SpendFacts DEF PollerFetchFails, RecoveryInv
    <3>2. CASE ~PollerFetchFails(c)
      BY <1>3, <3>2 DEF Tasks, InitialWakes, InitialFetched, InitialSends,
                        PollerTakesFlag, PollerFetched, PollerSends, RecoveryInv
    <3> QED BY <3>1, <3>2
  <2>2. SnapshotToCome' \/ SnapshotOnItsWay'
    <3>1. CASE InitialWakes(c) \/ InitialFetched(c)
      <4>1. initial'[c].pc \in {"fetch", "send"}
        BY <1>0, <3>1 DEF InitialWakes, InitialFetched, At, Holding
      <4> QED BY <4>1 DEF SnapshotToCome
    <3>2. CASE PollerTakesFlag(c) \/ PollerFetched(c)
      <4>1. poller'[c].pc \in {"fetch", "send"}
        BY <1>0, <3>2 DEF PollerTakesFlag, PollerFetched, At, Holding
      <4> QED BY <4>1 DEF SnapshotToCome
    <3>3. CASE PollerFetchFails(c)
      BY <3>3 DEF PollerFetchFails, SnapshotToCome
    <3>4. CASE InitialSends(c) \/ PollerSends(c)
      <4>1. PICK s \in DepthSnapshot : Send(s)
        BY <1>0, <3>4, TaskTypes DEF InitialSends, PollerSends
      <4>2. s \in MarketEvent /\ s.type = "DepthSnapshot"
        BY DEF MarketEvent, DepthSnapshot
      <4> QED BY <1>0, <4>1, <4>2, SendRecovery
    <3> QED BY <1>3, <3>1, <3>2, <3>3, <3>4 DEF Tasks
  <2> QED BY <1>1, <2>1, <2>2 DEF RecoveryInv
<1> QED BY <1>2, <1>3

(***************************************************************************)
(* A book that is not Live has its recovery under way, in every behaviour  *)
(* in which the watchdog has not fired and no initial fetch has failed:    *)
(* the resync flag, the pollers, the initial tasks of old and new          *)
(* connections and the order of the channel never lose it between them,    *)
(* whatever gaps, reconnects and failed resync fetches occur.              *)
(***************************************************************************)
THEOREM RecoveryIsPending == Spec => [](Undisturbed => RecoveryPending)
<1>1. Init /\ TypeOK => RecoveryInv
  <2> SUFFICES ASSUME Init, TypeOK PROVE RecoveryInv
    OBVIOUS
  <2>1. reader # "read" /\ watchdog = "sleep" /\ budget = Bound
    BY DEF Init, IngestionInit
  <2> QED BY <2>1, IngestionAssumption DEF RecoveryInv, SnapshotToCome
<1>2. TypeOK /\ RecoveryInv /\ [Next]_vars => RecoveryInv'
  <2> SUFFICES ASSUME TypeOK, RecoveryInv, [Next]_vars PROVE RecoveryInv'
    OBVIOUS
  <2>1. ASSUME UNCHANGED <<market, resync_needed, bookVars, ingestVars>> PROVE RecoveryInv'
    BY <2>1 DEF RecoveryInv, Undisturbed, SnapshotToCome, SnapshotOnItsWay, StaysLive,
                ReconnectFrom, Live, bookVars, ingestVars
  <2>2. CASE BookThread
    BY <2>2, BookThreadRecovery
  <2>3. CASE Ingest /\ Reader
    BY <2>3, ReaderRecovery DEF Ingest
  <2>4. CASE Ingest /\ \E c \in Conn : Tasks(c)
    BY <2>4, TasksRecovery DEF Ingest
  <2>5. CASE Ingest /\ Watchdog
    <3>1. CASE TimeoutElapses
      BY <2>5, <3>1 DEF Ingest, TimeoutElapses, RecoveryInv, Undisturbed, SnapshotToCome,
           SnapshotOnItsWay, StaysLive, ReconnectFrom, Live, bookVars
    <3>2. CASE WatchdogExpires
      <4>1. "watchdog" \in Kind /\ budget \in [Kind -> Nat]
        BY DEF TypeOK, IngestionTypeOK, Kind
      <4>2. (\A k \in Kind : budget'[k] <= Bound[k]) /\ budget'["watchdog"] # Bound["watchdog"]
        BY <3>2, <4>1, SpendFacts DEF WatchdogExpires, RecoveryInv
      <4> QED BY <4>2 DEF RecoveryInv, Undisturbed
    <3>3. CASE WatchdogSends
      <4>1. budget["watchdog"] # Bound["watchdog"] /\ UNCHANGED budget
        BY <3>3 DEF WatchdogSends, RecoveryInv
      <4> QED BY <4>1 DEF RecoveryInv, Undisturbed
    <3> QED BY <2>5, <3>1, <3>2, <3>3 DEF Watchdog
  <2>6. CASE \/ ExchangeStep /\ UNCHANGED <<market, resync_needed, bookVars, ingestVars, fed, dash>>
             \/ UNCHANGED vars
    BY <2>1, <2>6 DEF vars
  <2> QED BY <2>2, <2>3, <2>4, <2>5, <2>6 DEF Next, Ingest
<1>3. RecoveryInv => (Undisturbed => RecoveryPending)
  BY DEF RecoveryInv, SnapshotToCome, SnapshotOnItsWay, StaysLive, RecoveryPending
<1> QED BY <1>1, <1>2, <1>3, TypeCorrect, PTL DEF Spec
=============================================================================
