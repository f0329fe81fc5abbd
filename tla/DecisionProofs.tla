--------------------------- MODULE DecisionProofs ---------------------------
(***************************************************************************)
(* Proofs about what the book thread decides with: the strategies and the  *)
(* risk checker's memory (the timestamps of the last second and the ids    *)
(* that may not be drawn again).  The lemmas speak of actions, so that     *)
(* live trading and the backtester can both use them.                      *)
(***************************************************************************)
EXTENDS RiskChecker, Strategies, FoldLemmas, FiniteSetTheorems

-----------------------------------------------------------------------------
(* What a strategy reads of a quote to price an order. *)
Priced(q) == q.bid \in Nat /\ q.ask \in Nat

(* The quantity of a buy is a natural number. *)
LEMMA EntryQtyNat ==
    ASSUME NEW price \in Nat
    PROVE  EntryQty(price) \in Nat
<1>1. OrderQty \in Nat /\ Budget \in Nat
  BY StrategyAssumption
<1>2. price > 0 => Budget \div price \in Nat
  BY <1>1
<1> QED BY <1>1, <1>2 DEF EntryQty

(* A strategy that holds has a quantity to sell. *)
StrategyInv == StrategiesTypeOK /\ (holding => entry_qty > 0)

(* A strategy starts flat. *)
LEMMA StrategiesInitInv ==
    ASSUME StrategiesInit
    PROVE  StrategyInv
<1> USE MomentumAssumption DEF StrategiesInit, PositionInit, MomentumInit
<1>1. strategy \in Known
  BY DEF Known
<1>2. PositionTypeOK
  <2>1. holding \in BOOLEAN
    BY Zenon
  <2>2. entry_price \in Nat /\ entry_qty \in Nat
    OBVIOUS
  <2> QED BY <2>1, <2>2 DEF PositionTypeOK
<1>3. MomentumTypeOK
  BY DEF MomentumTypeOK, Ring
<1> QED BY <1>1, <1>2, <1>3 DEF StrategyInv, StrategiesTypeOK

(* The ring buffer takes a price and is still one. *)
LEMMA PushedType ==
    ASSUME NEW r \in Ring, NEW mid \in Nat
    PROVE  Pushed(r, mid) \in Ring
<1>1. PriceBuf \in Nat \ {0}
  BY MomentumAssumption
<1>2. /\ r.prices \in [0 .. PriceBuf - 1 -> Nat] /\ r.head \in 0 .. PriceBuf - 1
      /\ r.filled \in 0 .. PriceBuf
  BY DEF Ring
<1>3. (r.head + 1) % PriceBuf \in 0 .. PriceBuf - 1
  BY <1>1, <1>2
<1>4. (IF r.filled < PriceBuf THEN r.filled + 1 ELSE r.filled) \in 0 .. PriceBuf
  BY <1>1, <1>2
<1>5. [r.prices EXCEPT ![r.head] = mid] \in [0 .. PriceBuf - 1 -> Nat]
  BY <1>2
<1> QED BY <1>3, <1>4, <1>5 DEF Pushed, Ring

(* A strategy that is asked stays well-formed, whatever it decides. *)
LEMMA AskedInv ==
    ASSUME StrategyInv, NEW q, Priced(q), Asked(q)
    PROVE  StrategyInv'
<1>1. /\ strategy' = strategy /\ strategy \in Known
      /\ holding \in BOOLEAN /\ entry_price \in Nat /\ entry_qty \in Nat
      /\ ring \in Ring /\ held_ticks \in Nat /\ cooldown_left \in 0 .. Cooldown
      /\ Cooldown \in Nat
  BY MomentumAssumption DEF StrategyInv, StrategiesTypeOK, PositionTypeOK, MomentumTypeOK, Asked
<1>2. ASSUME NEW price \in Nat, Enter(price), EntryQty(price) > 0
      PROVE  PositionTypeOK' /\ (holding' => entry_qty' > 0)
  BY <1>2, EntryQtyNat DEF Enter, PositionTypeOK
<1>3. ASSUME Exit \/ UNCHANGED positionVars
      PROVE  PositionTypeOK' /\ (holding' => entry_qty' > 0)
  <2>1. entry_price' = entry_price /\ entry_qty' = entry_qty
    BY <1>3 DEF Exit, positionVars
  <2>2. holding' = FALSE \/ holding' = holding
    <3>1. CASE Exit
      BY <3>1, Zenon DEF Exit
    <3>2. CASE UNCHANGED positionVars
      BY <3>2 DEF positionVars
    <3> QED BY <1>3, <3>1, <3>2
  <2>3. holding' \in BOOLEAN /\ (holding' => holding)
    <3>1. holding \in BOOLEAN
      BY <1>1
    <3>2. CASE holding' = FALSE
      BY <3>2, Zenon
    <3>3. CASE holding' = holding
      BY <3>1, <3>3, Zenon
    <3> QED BY <2>2, <3>2, <3>3, Zenon
  <2>4. holding => entry_qty > 0
    BY DEF StrategyInv
  <2>5. holding' => entry_qty' > 0
    BY <2>1, <2>3, <2>4, Zenon
  <2> QED BY <1>1, <2>1, <2>3, <2>5 DEF PositionTypeOK
<1>4. CASE PingPongAsked(q) /\ UNCHANGED momentumVars
  <2>1. PositionTypeOK' /\ (holding' => entry_qty' > 0)
    BY <1>2, <1>3, <1>4 DEF PingPongAsked, PingPongEnters, Priced
  <2>2. MomentumTypeOK'
    BY <1>1, <1>4 DEF momentumVars, MomentumTypeOK
  <2> QED BY <1>1, <2>1, <2>2 DEF StrategyInv, StrategiesTypeOK
<1>5. CASE MomentumAsked(q)
  <2>1. PositionTypeOK' /\ (holding' => entry_qty' > 0)
    BY <1>2, <1>3, <1>5 DEF MomentumAsked, MomentumEnters, Priced
  <2>2. ring' \in Ring
    <3>1. Mid(q) \in Nat
      BY DEF Mid, Priced
    <3> QED BY <1>1, <1>5, <3>1, PushedType DEF MomentumAsked
  <2>3. held_ticks' \in Nat /\ cooldown_left' \in 0 .. Cooldown
    BY <1>1, <1>5 DEF MomentumAsked
  <2> QED BY <1>1, <2>1, <2>2, <2>3 DEF StrategyInv, StrategiesTypeOK, MomentumTypeOK
<1>6. CASE UNCHANGED <<positionVars, momentumVars>>
  <2>1. PositionTypeOK' /\ (holding' => entry_qty' > 0)
    BY <1>3, <1>6
  <2> QED BY <1>1, <1>6, <2>1 DEF momentumVars, StrategyInv, StrategiesTypeOK, MomentumTypeOK
<1> QED BY <1>4, <1>5, <1>6 DEF Asked

(* A strategy that is not asked changes nothing. *)
LEMMA StrategyUnchanged ==
    ASSUME StrategyInv, UNCHANGED strategyVars
    PROVE  StrategyInv'
BY DEF StrategyInv, StrategiesTypeOK, PositionTypeOK, MomentumTypeOK,
    strategyVars, positionVars, momentumVars

(* A signal is well-formed, and asks for or offers at least one step. *)
LEMMA SignalType ==
    ASSUME StrategyInv, NEW q, Priced(q), SignalOf(q) # NoSignal
    PROVE  SignalOf(q) \in Signal /\ SignalOf(q).qty > 0
<1>1. strategy \in Known /\ holding \in BOOLEAN /\ entry_qty \in Nat /\ (holding => entry_qty > 0)
  BY DEF StrategyInv, StrategiesTypeOK, PositionTypeOK
<1>2. EntryQty(q.bid) \in Nat /\ EntryQty(q.ask) \in Nat
  BY EntryQtyNat DEF Priced
<1>3. ASSUME NEW price \in Nat, NEW qty \in Nat, qty > 0
      PROVE  /\ Buy(price, qty) \in Signal /\ Buy(price, qty).qty > 0
             /\ Sell(price, qty) \in Signal /\ Sell(price, qty).qty > 0
  BY <1>3 DEF Buy, Sell, Signal
<1>4. CASE strategy = "pingpong"
  <2>1. SignalOf(q) = PingPongSignal(q)
    BY <1>4 DEF SignalOf
  <2>2. CASE PingPongEnters(q)
    <3>1. PingPongSignal(q) = Buy(q.bid, EntryQty(q.bid))
      BY <2>2 DEF PingPongSignal, PingPongEnters, PingPongExits
    <3> QED BY <1>2, <1>3, <2>1, <2>2, <3>1 DEF PingPongEnters, Priced
  <2>3. CASE PingPongExits(q)
    <3>1. PICK price \in Nat : PingPongSignal(q) = Sell(price, entry_qty)
      BY <2>3 DEF PingPongSignal, PingPongEnters, PingPongExits, Priced
    <3> QED BY <1>1, <1>3, <2>1, <2>3, <3>1 DEF PingPongExits
  <2>4. CASE ~PingPongEnters(q) /\ ~PingPongExits(q)
    BY <2>1, <2>4 DEF PingPongSignal
  <2> QED BY <2>2, <2>3, <2>4
<1>5. CASE strategy = "momentum"
  <2>1. SignalOf(q) = MomentumSignal(q)
    BY <1>5 DEF SignalOf
  <2>2. CASE MomentumEnters(q)
    <3>1. MomentumSignal(q) = Buy(q.ask, EntryQty(q.ask))
      BY <2>2 DEF MomentumSignal, MomentumEnters, MomentumExits
    <3> QED BY <1>2, <1>3, <2>1, <2>2, <3>1 DEF MomentumEnters, Priced
  <2>3. CASE MomentumExits(q)
    <3>1. MomentumSignal(q) = Sell(q.bid, entry_qty)
      BY <2>3 DEF MomentumSignal, MomentumEnters, MomentumExits
    <3> QED BY <1>1, <1>3, <2>1, <2>3, <3>1 DEF MomentumExits, Priced
  <2>4. CASE ~MomentumEnters(q) /\ ~MomentumExits(q)
    BY <2>1, <2>4 DEF MomentumSignal
  <2> QED BY <2>2, <2>3, <2>4
<1>6. CASE strategy = "noop"
  BY <1>6 DEF SignalOf
<1> QED BY <1>1, <1>4, <1>5, <1>6 DEF Known

-----------------------------------------------------------------------------
(***************************************************************************)
(* retain() runs over the timestamps in order: its path of intermediate    *)
(* results.                                                                *)
(***************************************************************************)
LEMMA RetainPath ==
    ASSUME order_timestamps \in Seq(Nat)
    PROVE  \E p \in [0 .. Len(order_timestamps) -> Seq(Nat)] :
             /\ p[0] = << >>
             /\ \A k \in 1 .. Len(order_timestamps) :
                  p[k] = Retain(p[k - 1], order_timestamps[k])
             /\ Recent = p[Len(order_timestamps)]
<1> DEFINE n == Len(order_timestamps)
           X == Seq(Nat)
           step == [z \in X \X (1 .. n) |-> Retain(z[1], order_timestamps[z[2]])]
           Eq(it) == it = [s \in SUBSET (1 .. n) |->
                             IF s = {} THEN << >>
                             ELSE Retain(it[s \ {Max(s)}], order_timestamps[Max(s)])]
           iter == CHOOSE it : Eq(it)
<1>1. n \in Nat /\ << >> \in X /\ DOMAIN order_timestamps = 1 .. n
  OBVIOUS
<1>2. ASSUME NEW a \in X, NEW k \in 1 .. n
      PROVE  step[<<a, k>>] = Retain(a, order_timestamps[k]) /\ step[<<a, k>>] \in X
  BY DEF Retain
<1>3. step \in FoldSteps(n, X)
  <2>1. \A z \in X \X (1 .. n) : step[z] \in X
    BY DEF Retain
  <2> QED BY <2>1 DEF FoldSteps
<1>4. Recent = iter[1 .. n]
  BY <1>1 DEF Recent, FoldLeft, MapThenFoldSet
<1>5. Eq(iter)
  <2> HIDE DEF step, X, n
  <2>1. PICK g : FoldOf(g, n, X, << >>, step)
    BY <1>1, <1>3, FoldExists
  <2>2. ASSUME NEW s \in SUBSET (1 .. n), s # {}
        PROVE  g[s] = Retain(g[s \ {Max(s)}], order_timestamps[Max(s)])
    <3>1. s \subseteq 0 .. n
      BY <1>1
    <3>2. Max(s) \in s
      BY <1>1, <2>2, <3>1, MaxNat
    <3>3. Max(s) \in 1 .. n /\ s \ {Max(s)} \in SUBSET (1 .. n)
      BY <3>2
    <3> QED BY <1>2, <2>1, <2>2, <3>3 DEF FoldOf
  <2>3. Eq(g)
    BY <2>1, <2>2 DEF FoldOf
  <2> QED BY <2>3
<1> HIDE DEF iter
<1>6. iter[{}] = << >>
  BY <1>5
<1>7. ASSUME NEW s \in SUBSET (1 .. n), s # {}, iter[s \ {Max(s)}] \in X
      PROVE  iter[s] = step[<<iter[s \ {Max(s)}], Max(s)>>]
  <2>1. iter[s] = Retain(iter[s \ {Max(s)}], order_timestamps[Max(s)])
    BY <1>5, <1>7
  <2>2. s \subseteq 0 .. n
    BY <1>1
  <2>3. Max(s) \in s
    BY <1>1, <1>7, <2>2, MaxNat
  <2> HIDE DEF step, X, n
  <2>4. Max(s) \in 1 .. n
    BY <2>3
  <2> QED BY <1>2, <1>7, <2>1, <2>4
<1>8. PICK p : PathOf(p, n, X, << >>, step) /\ iter[1 .. n] = p[n]
  <2> HIDE DEF step, X, n
  <2>1. Computes(iter, n, X, << >>, step)
    BY <1>6, <1>7 DEF Computes
  <2> QED BY <1>1, <1>3, <2>1, FoldPath
<1>9. ASSUME NEW k \in 1 .. n
      PROVE  p[k] = Retain(p[k - 1], order_timestamps[k])
  <2>1. k - 1 \in 0 .. n
    OBVIOUS
  <2> HIDE DEF step, X, n
  <2> QED BY <1>2, <1>8, <2>1 DEF PathOf
<1> HIDE DEF step
<1> QED BY <1>4, <1>8, <1>9 DEF PathOf

Sorted(ts) == \A i, j \in DOMAIN ts : i <= j => ts[i] <= ts[j]

(* r is what is left of the first k timestamps when the first d are out. *)
Suffix(r, ts, k, d) ==
    /\ Len(r) = k - d
    /\ \A j \in 1 .. k - d : r[j] = ts[d + j]
    /\ \A j \in 1 .. d : now - ts[j] >= Second
    /\ \A j \in d + 1 .. k : now - ts[j] < Second

(* One step of retain(): a timestamp is kept, or all before it went too. *)
LEMMA RetainStep ==
    ASSUME now \in Nat, Second \in Nat, NEW ts \in Seq(Nat), Sorted(ts),
           NEW k \in Nat, k < Len(ts), NEW r \in Seq(Nat),
           NEW d \in 0 .. k, Suffix(r, ts, k, d)
    PROVE  \E e \in 0 .. k + 1 : Suffix(Retain(r, ts[k + 1]), ts, k + 1, e)
<1>1. /\ k + 1 \in 1 .. Len(ts) /\ d \in Nat /\ Len(ts) \in Nat /\ DOMAIN ts = 1 .. Len(ts)
      /\ \A j \in 1 .. Len(ts) : ts[j] \in Nat
  OBVIOUS
<1>2. CASE now - ts[k + 1] < Second
  <2>1. Retain(r, ts[k + 1]) = Append(r, ts[k + 1])
    BY <1>2 DEF Retain
  <2>2. Len(Append(r, ts[k + 1])) = k + 1 - d
    BY <1>1 DEF Suffix
  <2>3. ASSUME NEW j \in 1 .. k + 1 - d
        PROVE  Append(r, ts[k + 1])[j] = ts[d + j]
    <3>1. CASE j = k + 1 - d
      BY <1>1, <3>1 DEF Suffix
    <3>2. CASE j # k + 1 - d
      BY <1>1, <3>2 DEF Suffix
    <3> QED BY <3>1, <3>2
  <2>4. ASSUME NEW j \in d + 1 .. k + 1
        PROVE  now - ts[j] < Second
    <3>1. j = k + 1 \/ j \in d + 1 .. k
      BY <1>1
    <3> QED BY <1>2, <3>1 DEF Suffix
  <2>5. \A j \in 1 .. d : now - ts[j] >= Second
    BY DEF Suffix
  <2>6. Suffix(Append(r, ts[k + 1]), ts, k + 1, d)
    <3>1. PICK a : a = Append(r, ts[k + 1])
      OBVIOUS
    <3>2. Len(a) = k + 1 - d /\ \A j \in 1 .. k + 1 - d : a[j] = ts[d + j]
      BY <2>2, <2>3, <3>1
    <3>3. Suffix(a, ts, k + 1, d)
      BY <2>4, <2>5, <3>2 DEF Suffix
    <3> QED BY <3>1, <3>3
  <2> QED BY <2>1, <2>6
<1>3. CASE ~(now - ts[k + 1] < Second)
  <2>1. Retain(r, ts[k + 1]) = r
    BY <1>3 DEF Retain
  <2>2. now - ts[k + 1] >= Second
    BY <1>1, <1>3
  <2>3. ASSUME NEW j \in 1 .. k
        PROVE  now - ts[j] >= Second
    <3>1. j \in 1 .. Len(ts) /\ j <= k + 1
      BY <1>1
    <3>2. ts[j] <= ts[k + 1]
      BY <1>1, <3>1 DEF Sorted
    <3> QED BY <1>1, <2>2, <3>1, <3>2, SMTT(30)
  <2>4. d = k
    <3>1. ASSUME d < k PROVE FALSE
      <4>1. k \in d + 1 .. k /\ k \in 1 .. k /\ k \in 1 .. Len(ts)
        BY <1>1, <3>1
      <4> QED BY <1>1, <2>3, <4>1 DEF Suffix
    <3> QED BY <3>1
  <2>5. \A j \in 1 .. k + 1 : now - ts[j] >= Second
    BY <1>1, <2>2, <2>3
  <2>6. Suffix(r, ts, k + 1, k + 1)
    BY <1>1, <2>4, <2>5 DEF Suffix
  <2> QED BY <2>1, <2>6
<1> QED BY <1>2, <1>3

(* retain() drops the first d timestamps of a sorted sequence and no other. *)
LEMMA RecentIsSuffix ==
    ASSUME order_timestamps \in Seq(Nat), now \in Nat, Second \in Nat, Sorted(order_timestamps)
    PROVE  /\ Recent \in Seq(Nat)
           /\ \E d \in 0 .. Len(order_timestamps) :
                Suffix(Recent, order_timestamps, Len(order_timestamps), d)
<1>1. PICK n \in Nat : n = Len(order_timestamps)
  OBVIOUS
<1>2. PICK p \in [0 .. n -> Seq(Nat)] :
        /\ p[0] = << >>
        /\ \A k \in 1 .. n : p[k] = Retain(p[k - 1], order_timestamps[k])
        /\ Recent = p[n]
  BY <1>1, RetainPath
<1>3. PICK ts \in Seq(Nat) : ts = order_timestamps
  OBVIOUS
<1> DEFINE T == {k \in 0 .. n : \E d \in 0 .. k : Suffix(p[k], ts, k, d)}
<1>4. 0 \in T
  <2>1. Suffix(p[0], ts, 0, 0)
    BY <1>2 DEF Suffix
  <2> QED BY <2>1
<1>5. ASSUME NEW k \in 0 .. n, k \in T, k < n
      PROVE  k + 1 \in T
  <2>1. PICK d \in 0 .. k : Suffix(p[k], ts, k, d)
    BY <1>5
  <2>2. k + 1 \in 1 .. n /\ k + 1 \in 0 .. n /\ (k + 1) - 1 = k /\ p[k] \in Seq(Nat)
    BY <1>2, <1>5
  <2>3. p[k + 1] = Retain(p[k], ts[k + 1])
    BY <1>2, <1>3, <2>2
  <2>4. k \in Nat /\ k < Len(ts)
    BY <1>1, <1>3, <1>5
  <2>5. \E e \in 0 .. k + 1 : Suffix(Retain(p[k], ts[k + 1]), ts, k + 1, e)
    BY <1>3, <2>1, <2>2, <2>4, RetainStep
  <2> QED BY <2>2, <2>3, <2>5
<1>6. n \in T
  <2> HIDE DEF T
  <2>1. 0 .. n \subseteq T
    BY <1>4, <1>5, UpTo
  <2> QED BY <2>1
<1> QED BY <1>1, <1>2, <1>3, <1>6

-----------------------------------------------------------------------------
(***************************************************************************)
(* What the checker remembers of its history, Ids being what an order id   *)
(* can be.  RateInv: the timestamps are those of the latest approved       *)
(* orders, any older order is out of the window, and MaxOrdersPerSec       *)
(* orders on a second has passed.  IdInv: the queue has the ids of the     *)
(* latest orders, and is shorter than MaxSeen only when those are all.     *)
(***************************************************************************)
ApprovedBefore == Len(approved) - Len(order_timestamps)

RateInv ==
    /\ \A i, j \in DOMAIN approved : i <= j => approved[i].at <= approved[j].at
    /\ \A i \in DOMAIN approved : approved[i].at <= now
    /\ ApprovedBefore \in Nat
    /\ \A k \in 1 .. Len(order_timestamps) :
         order_timestamps[k] = approved[ApprovedBefore + k].at
    /\ \A i \in 1 .. ApprovedBefore : now - approved[i].at >= Second
    /\ \A i \in DOMAIN approved :
         i + MaxOrdersPerSec \in DOMAIN approved
             => approved[i + MaxOrdersPerSec].at - approved[i].at >= Second

IdInv ==
    /\ Len(seen_order_queue) <= Len(approved)
    /\ Len(seen_order_queue) < MaxSeen => Len(seen_order_queue) = Len(approved)
    /\ \A k \in 1 .. Len(seen_order_queue) :
         seen_order_queue[k] = approved[Len(approved) - Len(seen_order_queue) + k].id
    /\ NoDuplicateInWindow

RiskInv(Ids) ==
    /\ RiskTypeOK
    /\ approved \in Seq([id : Ids, at : Nat])
    /\ seen_order_queue \in Seq(Ids)
    /\ RateInv
    /\ IdInv

(* The timestamps are sorted, as the approvals are. *)
LEMMA TimestampsSorted ==
    ASSUME NEW Ids, RiskInv(Ids)
    PROVE  Sorted(order_timestamps)
<1>1. ASSUME NEW i \in DOMAIN order_timestamps, NEW j \in DOMAIN order_timestamps, i <= j
      PROVE  order_timestamps[i] <= order_timestamps[j]
  <2>1. i \in 1 .. Len(order_timestamps) /\ j \in 1 .. Len(order_timestamps)
    BY DEF RiskInv, RiskTypeOK
  <2>2. ApprovedBefore + i \in DOMAIN approved /\ ApprovedBefore + j \in DOMAIN approved
    <3>1. DOMAIN approved = 1 .. Len(approved) /\ Len(approved) \in Nat
      BY DEF RiskInv
    <3>2. Len(order_timestamps) \in Nat
      BY DEF RiskInv, RiskTypeOK
    <3>3. ApprovedBefore \in Nat
      BY DEF RiskInv, RateInv
    <3> QED BY <2>1, <3>1, <3>2, <3>3 DEF ApprovedBefore
  <2>3. ApprovedBefore + i <= ApprovedBefore + j
    BY <1>1, <2>1 DEF RiskInv, RateInv
  <2> QED BY <2>1, <2>2, <2>3 DEF RiskInv, RateInv
<1> QED BY <1>1 DEF Sorted

(* The bounds of the sequences, spelled out for the provers. *)
LEMMA RiskBounds ==
    ASSUME NEW Ids, RiskInv(Ids)
    PROVE  /\ now \in Nat
           /\ Len(approved) \in Nat /\ DOMAIN approved = 1 .. Len(approved)
           /\ \A i \in 1 .. Len(approved) : approved[i].at \in Nat /\ approved[i].id \in Ids
           /\ order_timestamps \in Seq(Nat) /\ Len(order_timestamps) \in Nat
           /\ Len(order_timestamps) <= MaxOrdersPerSec
           /\ ApprovedBefore \in Nat
           /\ Len(approved) = ApprovedBefore + Len(order_timestamps)
           /\ Len(seen_order_queue) \in Nat
           /\ DOMAIN seen_order_queue = 1 .. Len(seen_order_queue)
<1>1. Len(approved) \in Nat /\ DOMAIN approved = 1 .. Len(approved)
  BY DEF RiskInv
<1>2. \A i \in 1 .. Len(approved) : approved[i] \in [id : Ids, at : Nat]
  <2>1. PICK S : S = [id : Ids, at : Nat]
    OBVIOUS
  <2>2. approved \in Seq(S)
    BY <2>1 DEF RiskInv
  <2>3. \A i \in 1 .. Len(approved) : approved[i] \in S
    BY <2>2
  <2> QED BY <2>1, <2>3
<1>3. Len(order_timestamps) \in Nat /\ order_timestamps \in Seq(Nat)
  BY DEF RiskInv, RiskTypeOK
<1> QED BY <1>1, <1>2, <1>3 DEF RiskInv, RiskTypeOK, RateInv, ApprovedBefore

(***************************************************************************)
(* Pruning keeps RateInv true of the pruned sequence: what it drops is out *)
(* of the window.                                                          *)
(***************************************************************************)
LEMMA RecentFacts ==
    ASSUME NEW Ids, RiskInv(Ids)
    PROVE  /\ Recent \in Seq(Nat) /\ Len(Recent) <= Len(order_timestamps)
           /\ Len(approved) - Len(Recent) \in Nat
           /\ \A k \in 1 .. Len(Recent) :
                Recent[k] = approved[Len(approved) - Len(Recent) + k].at
           /\ \A i \in 1 .. Len(approved) - Len(Recent) : now - approved[i].at >= Second
<1> USE RiskAssumption
<1>1. PICK d \in 0 .. Len(order_timestamps) :
        Suffix(Recent, order_timestamps, Len(order_timestamps), d)
  <2>1. order_timestamps \in Seq(Nat) /\ now \in Nat /\ Second \in Nat
    BY RiskBounds
  <2> QED BY <2>1, TimestampsSorted, RecentIsSuffix
<1>2. Recent \in Seq(Nat)
  <2>1. order_timestamps \in Seq(Nat) /\ now \in Nat /\ Second \in Nat
    BY RiskBounds
  <2> QED BY <2>1, TimestampsSorted, RecentIsSuffix
<1>3. Len(Recent) = Len(order_timestamps) - d /\ Len(order_timestamps) \in Nat
  BY <1>1, RiskBounds DEF Suffix
<1>4. Len(approved) - Len(Recent) = ApprovedBefore + d /\ ApprovedBefore \in Nat /\ d \in Nat
  <2>1. ApprovedBefore \in Nat /\ Len(approved) = ApprovedBefore + Len(order_timestamps)
    BY RiskBounds
  <2> QED BY <1>3, <2>1
<1>5. ASSUME NEW k \in 1 .. Len(Recent)
      PROVE  Recent[k] = approved[Len(approved) - Len(Recent) + k].at
  <2>1. k \in 1 .. Len(order_timestamps) - d /\ d + k \in 1 .. Len(order_timestamps)
    BY <1>3
  <2>2. Recent[k] = order_timestamps[d + k]
    BY <1>1, <2>1 DEF Suffix
  <2>3. order_timestamps[d + k] = approved[ApprovedBefore + (d + k)].at
    BY <2>1 DEF RiskInv, RateInv
  <2>4. ApprovedBefore + (d + k) = Len(approved) - Len(Recent) + k
    BY <1>4, <2>1, SMTT(30)
  <2> QED BY <2>2, <2>3, <2>4
<1>6. ASSUME NEW i \in 1 .. Len(approved) - Len(Recent)
      PROVE  now - approved[i].at >= Second
  <2>1. CASE i \in 1 .. ApprovedBefore
    BY <2>1 DEF RiskInv, RateInv
  <2>2. CASE i \notin 1 .. ApprovedBefore
    <3>1. PICK j \in 1 .. d : i = ApprovedBefore + j
      <4>1. i - ApprovedBefore \in 1 .. d /\ i = ApprovedBefore + (i - ApprovedBefore)
        BY <1>4, <2>2
      <4> QED BY <4>1
    <3>2. j \in 1 .. Len(order_timestamps)
      BY <1>3, <3>1
    <3>3. order_timestamps[j] = approved[i].at
      BY <3>1, <3>2 DEF RiskInv, RateInv
    <3> QED BY <1>1, <3>1, <3>3 DEF Suffix
  <2> QED BY <2>1, <2>2
<1> QED BY <1>2, <1>3, <1>4, <1>5, <1>6

-----------------------------------------------------------------------------
(* The memory of a fresh risk checker. *)
LEMMA RiskInitInv ==
    ASSUME RiskInit, NEW Ids
    PROVE  RiskInv(Ids)
BY RiskAssumption DEF RiskInit, RiskInv, RiskTypeOK, RateInv, IdInv, ApprovedBefore,
    NoDuplicateInWindow

(* A check that rejects before the rate limit changes nothing; so does a step elsewhere. *)
LEMMA RiskUnchanged ==
    ASSUME NEW Ids, RiskInv(Ids), UNCHANGED <<now, riskVars>>
    PROVE  RiskInv(Ids)'
BY DEF riskVars, RiskInv, RiskTypeOK, RateInv, IdInv, ApprovedBefore, NoDuplicateInWindow

(* The passing of time takes no order back into the window. *)
LEMMA ClockTickInv ==
    ASSUME NEW Ids, RiskInv(Ids), ClockTick
    PROVE  RiskInv(Ids)'
<1>1. now' = now + 1 /\ now \in Nat /\ UNCHANGED riskVars
  BY RiskBounds DEF ClockTick
<1>2. IdInv'
  BY <1>1 DEF riskVars, RiskInv, IdInv, NoDuplicateInWindow
<1>3. \A i \in DOMAIN approved : approved[i].at <= now + 1
  <2>1. \A i \in DOMAIN approved : approved[i].at \in Nat /\ approved[i].at <= now
    BY RiskBounds DEF RiskInv, RateInv
  <2> QED BY <1>1, <2>1
<1>4. \A i \in 1 .. ApprovedBefore : (now + 1) - approved[i].at >= Second
  <2>1. ASSUME NEW i \in 1 .. ApprovedBefore
        PROVE  (now + 1) - approved[i].at >= Second
    <3>1. i \in 1 .. Len(approved)
      BY RiskBounds
    <3>2. approved[i].at \in Nat /\ now - approved[i].at >= Second
      BY <3>1, RiskBounds DEF RiskInv, RateInv
    <3> QED BY <1>1, <3>2, RiskAssumption
  <2> QED BY <2>1
<1>5. RateInv'
  <2>1. ApprovedBefore' = ApprovedBefore /\ approved' = approved
        /\ order_timestamps' = order_timestamps
    BY <1>1 DEF riskVars, ApprovedBefore
  <2>2. RateInv
    BY DEF RiskInv
  <2>3. \A i \in DOMAIN approved' : approved'[i].at <= now'
    BY <1>1, <1>3, <2>1
  <2>4. \A i \in 1 .. ApprovedBefore' : now' - approved'[i].at >= Second
    <3>1. \A i \in 1 .. ApprovedBefore : now' - approved[i].at >= Second
      BY <1>1, <1>4
    <3> QED BY <2>1, <3>1
  <2> QED BY <2>1, <2>2, <2>3, <2>4 DEF RateInv
<1> QED BY <1>1, <1>2, <1>5 DEF riskVars, RiskInv, RiskTypeOK

(* Pruning alone: a rejection at the rate limit or for a duplicate id. *)
LEMMA PruneInv ==
    ASSUME NEW Ids, RiskInv(Ids), order_timestamps' = Recent,
           UNCHANGED <<now, seen_order_ids, seen_order_queue, approved>>
    PROVE  RiskInv(Ids)'
<1>1. IdInv'
  BY DEF RiskInv, IdInv, NoDuplicateInWindow
<1>2. Len(order_timestamps') <= MaxOrdersPerSec
  <2>1. Len(Recent) \in Nat
    BY RecentFacts
  <2> QED BY <2>1, RecentFacts, RiskBounds, RiskAssumption
<1>3. ApprovedBefore' = Len(approved) - Len(Recent)
  BY DEF ApprovedBefore
<1>4. RateInv'
  BY <1>3, RecentFacts DEF RiskInv, RateInv
<1> QED BY <1>1, <1>2, <1>4, RecentFacts DEF RiskInv, RiskTypeOK

(***************************************************************************)
(* An approval: its timestamp joins those still in the window, so the      *)
(* MaxOrdersPerSec-th order before it is out of the window.                *)
(***************************************************************************)
LEMMA ApproveRate ==
    ASSUME NEW Ids, RiskInv(Ids), NEW id \in Ids,
           Len(Recent) < MaxOrdersPerSec,
           order_timestamps' = Append(Recent, now),
           approved' = Append(approved, [id |-> id, at |-> now]),
           now' = now
    PROVE  RateInv' /\ order_timestamps' \in Seq(Nat) /\ Len(order_timestamps') <= MaxOrdersPerSec
<1> USE RiskAssumption
<1>1. PICK n \in Nat, r \in Nat :
        n = Len(approved) /\ r = Len(Recent) /\ r < MaxOrdersPerSec /\ n - r \in Nat
  <2>1. Len(approved) \in Nat /\ Len(Recent) \in Nat /\ Len(approved) - Len(Recent) \in Nat
    BY RiskBounds, RecentFacts
  <2> QED BY <2>1
<1>2. /\ Len(approved') = n + 1 /\ DOMAIN approved' = 1 .. n + 1
      /\ \A i \in 1 .. n : approved'[i] = approved[i]
      /\ approved'[n + 1].at = now
  <2>1. PICK S : S = [id : Ids, at : Nat]
    OBVIOUS
  <2>2. approved \in Seq(S) /\ n = Len(approved)
    BY <1>1, <2>1 DEF RiskInv
  <2>3. [id |-> id, at |-> now].at = now
    OBVIOUS
  <2>4. PICK a : a = [id |-> id, at |-> now] /\ a \in S
    BY <2>1, RiskBounds
  <2>5. approved' = Append(approved, a) /\ a.at = now
    BY <2>3, <2>4
  <2> QED BY <2>2, <2>5
<1>3. /\ Len(order_timestamps') = r + 1 /\ order_timestamps' \in Seq(Nat)
      /\ \A k \in 1 .. r : order_timestamps'[k] = Recent[k]
      /\ order_timestamps'[r + 1] = now
  <2>1. Recent \in Seq(Nat) /\ r = Len(Recent) /\ now \in Nat
    BY <1>1, RecentFacts, RiskBounds
  <2> QED BY <2>1
<1>4. ApprovedBefore' = n - r
  BY <1>1, <1>2, <1>3 DEF ApprovedBefore
<1>5. /\ now \in Nat
      /\ \A i \in 1 .. n : approved[i].at \in Nat /\ approved[i].at <= now
      /\ \A i, j \in 1 .. n : i <= j => approved[i].at <= approved[j].at
  BY <1>1, RiskBounds DEF RiskInv, RateInv
<1>6. \A i, j \in DOMAIN approved' : i <= j => approved'[i].at <= approved'[j].at
  <2>1. ASSUME NEW i \in 1 .. n + 1, NEW j \in 1 .. n + 1, i <= j
        PROVE  approved'[i].at <= approved'[j].at
    <3>1. CASE j \in 1 .. n
      <4>1. i \in 1 .. n
        BY <2>1, <3>1
      <4> QED BY <1>2, <1>5, <2>1, <3>1, <4>1
    <3>2. CASE j = n + 1
      <4>1. i = n + 1 \/ i \in 1 .. n
        OBVIOUS
      <4>2. approved'[j].at = now
        BY <1>2, <3>2
      <4>3. approved'[i].at <= now
        BY <1>2, <1>5, <4>1, SMTT(30)
      <4> QED BY <4>2, <4>3
    <3>3. j \in 1 .. n \/ j = n + 1
      OBVIOUS
    <3> QED BY <3>1, <3>2, <3>3, Zenon
  <2> QED BY <1>2, <2>1
<1>7. \A i \in DOMAIN approved' : approved'[i].at <= now'
  <2>1. ASSUME NEW i \in 1 .. n + 1
        PROVE  approved'[i].at <= now
    <3>1. i = n + 1 \/ i \in 1 .. n
      OBVIOUS
    <3> QED BY <1>2, <1>5, <3>1, SMTT(30)
  <2> QED BY <1>2, <2>1
<1>8. \A k \in 1 .. Len(order_timestamps') :
        order_timestamps'[k] = approved'[ApprovedBefore' + k].at
  <2>1. ASSUME NEW k \in 1 .. r + 1
        PROVE  order_timestamps'[k] = approved'[(n - r) + k].at
    <3>1. CASE k = r + 1
      <4>1. (n - r) + k = n + 1
        BY <1>1, <3>1
      <4> QED BY <1>2, <1>3, <3>1, <4>1
    <3>2. CASE k # r + 1
      <4>1. k \in 1 .. r /\ (n - r) + k \in 1 .. n
        BY <1>1, <3>2, SMTT(30)
      <4>2. Recent[k] = approved[(n - r) + k].at
        BY <1>1, <4>1, RecentFacts
      <4> QED BY <1>2, <1>3, <4>1, <4>2
    <3> QED BY <3>1, <3>2
  <2> QED BY <1>3, <1>4, <2>1
<1>9. ASSUME NEW i \in 1 .. n - r
      PROVE  approved'[i] = approved[i] /\ approved[i].at \in Nat /\ now - approved[i].at >= Second
  <2>1. i \in 1 .. n
    BY <1>1
  <2> QED BY <1>1, <1>2, <1>5, <2>1, RecentFacts
<1>10. \A i \in 1 .. ApprovedBefore' : now' - approved'[i].at >= Second
  BY <1>4, <1>9
<1>11. \A i \in DOMAIN approved' :
         i + MaxOrdersPerSec \in DOMAIN approved'
             => approved'[i + MaxOrdersPerSec].at - approved'[i].at >= Second
  <2>1. ASSUME NEW i \in 1 .. n + 1, i + MaxOrdersPerSec \in 1 .. n + 1
        PROVE  approved'[i + MaxOrdersPerSec].at - approved'[i].at >= Second
    <3>1. MaxOrdersPerSec \in Nat \ {0} /\ i \in 1 .. n
      BY <1>1, <2>1
    <3>2. CASE i + MaxOrdersPerSec \in 1 .. n
      <4>1. approved[i + MaxOrdersPerSec].at - approved[i].at >= Second
        BY <1>1, <3>1, <3>2, RiskBounds DEF RiskInv, RateInv
      <4> QED BY <1>2, <3>1, <3>2, <4>1
    <3>3. CASE i + MaxOrdersPerSec = n + 1
      <4>1. i \in 1 .. n - r
        BY <1>1, <3>1, <3>3
      <4>2. approved'[i + MaxOrdersPerSec].at = now
        BY <1>2, <3>3
      <4>3. now - approved'[i].at >= Second
        BY <1>9, <4>1
      <4> QED BY <4>2, <4>3
    <3>4. i + MaxOrdersPerSec \in 1 .. n \/ i + MaxOrdersPerSec = n + 1
      BY <2>1, <3>1
    <3> QED BY <3>2, <3>3, <3>4, Zenon
  <2> QED BY <1>2, <2>1
<1>12. ApprovedBefore' \in Nat
  BY <1>1, <1>4
<1>13. RateInv'
  BY <1>6, <1>7, <1>8, <1>10, <1>11, <1>12 DEF RateInv
<1> QED BY <1>1, <1>3, <1>13

(***************************************************************************)
(* ... and its id joins the queue, out of which the oldest id went if the  *)
(* queue was full.  The set loses that id and no other, for the ids in the *)
(* queue are distinct.                                                     *)
(***************************************************************************)
LEMMA ApproveIds ==
    ASSUME NEW Ids, RiskInv(Ids), NEW id \in Ids, NEW at \in Nat,
           id \notin seen_order_ids,
           seen_order_ids' = (seen_order_ids \ Evicted) \cup {id},
           seen_order_queue' = Append(Kept, id),
           approved' = Append(approved, [id |-> id, at |-> at])
    PROVE  /\ IdInv'
           /\ seen_order_queue' \in Seq(Ids) /\ Len(seen_order_queue') <= MaxSeen
           /\ seen_order_ids' = {seen_order_queue'[i] : i \in DOMAIN seen_order_queue'}
<1>0. MaxSeen \in Nat \ {0}
  BY RiskAssumption
<1>1. PICK q \in Seq(Ids) : q = seen_order_queue
  BY DEF RiskInv
<1>2. PICK m \in Nat, b \in Nat :
        /\ m = Len(q) /\ b + m = Len(approved) /\ m <= MaxSeen
        /\ m < MaxSeen => b = 0
  <2>1. PICK n \in Nat, m \in Nat : n = Len(approved) /\ m = Len(q)
    BY <1>1, RiskBounds
  <2>2. m <= n /\ m <= MaxSeen /\ (m < MaxSeen => m = n)
    BY <1>1, <2>1 DEF RiskInv, RiskTypeOK, IdInv
  <2>3. n - m \in Nat /\ (n - m) + m = n /\ (m = n => n - m = 0)
    BY <2>2
  <2> QED BY <2>1, <2>2, <2>3
<1>3. /\ \A k \in 1 .. m : q[k] = approved[b + k].id
      /\ \A i, j \in 1 .. b + m : i < j /\ j - i <= MaxSeen => approved[i].id # approved[j].id
      /\ seen_order_ids = {q[i] : i \in 1 .. m}
  <2>1. DOMAIN q = 1 .. m /\ DOMAIN approved = 1 .. b + m
    BY <1>1, <1>2, RiskBounds
  <2>2. Len(approved) - Len(q) = b
    BY <1>2
  <2>3. \A k \in 1 .. Len(q) : q[k] = approved[(Len(approved) - Len(q)) + k].id
    BY <1>1 DEF RiskInv, IdInv
  <2>4. \A k \in 1 .. m : q[k] = approved[b + k].id
    BY <1>2, <2>2, <2>3
  <2>5. seen_order_ids = {q[i] : i \in 1 .. m}
    BY <1>1, <2>1 DEF RiskInv, RiskTypeOK
  <2>6. \A i, j \in 1 .. b + m : i < j /\ j - i <= MaxSeen => approved[i].id # approved[j].id
    BY <2>1 DEF RiskInv, IdInv, NoDuplicateInWindow
  <2> QED BY <2>4, <2>5, <2>6
<1>4. /\ Len(approved') = (b + m) + 1 /\ DOMAIN approved' = 1 .. (b + m) + 1
      /\ \A i \in 1 .. b + m : approved'[i] = approved[i]
      /\ approved'[(b + m) + 1].id = id
  <2>1. PICK S : S = [id : Ids, at : Nat]
    OBVIOUS
  <2>2. approved \in Seq(S) /\ b + m = Len(approved)
    BY <1>2, <2>1 DEF RiskInv
  <2>3. PICK a : a = [id |-> id, at |-> at] /\ a \in S /\ a.id = id
    BY <2>1
  <2>4. approved' = Append(approved, a)
    BY <2>3
  <2> QED BY <2>2, <2>3, <2>4
<1>5. PICK e \in 0 .. 1, r \in Nat :
        e = (IF m >= MaxSeen THEN 1 ELSE 0) /\ m = e + r /\ r < MaxSeen
  <2>1. CASE m >= MaxSeen
    <3>1. m - 1 \in Nat /\ m = 1 + (m - 1) /\ m - 1 < MaxSeen
      BY <1>0, <1>2, <2>1
    <3> QED BY <2>1, <3>1
  <2>2. CASE ~(m >= MaxSeen)
    <3>1. m \in Nat /\ m = 0 + m /\ m < MaxSeen
      BY <1>0, <1>2, <2>2
    <3> QED BY <2>2, <3>1
  <2> QED BY <2>1, <2>2
<1>6. /\ Kept \in Seq(Ids) /\ Len(Kept) = r
      /\ \A k \in 1 .. r : Kept[k] = q[e + k]
      /\ Evicted = {q[k] : k \in 1 .. e}
  <2>1. CASE m >= MaxSeen
    <3>1. e = 1 /\ m = 1 + r /\ q # << >> /\ Kept = Tail(q) /\ Evicted = {Head(q)}
      BY <1>0, <1>1, <1>2, <1>5, <2>1 DEF Kept, Evicted
    <3>2. Head(q) = q[1] /\ 1 .. e = {1}
      BY <3>1
    <3>3. Tail(q) \in Seq(Ids) /\ Len(Tail(q)) = r /\ \A k \in 1 .. r : Tail(q)[k] = q[k + 1]
      <4>1. Tail(q) \in Seq(Ids) /\ Len(Tail(q)) = Len(q) - 1
        BY <3>1
      <4>2. \A k \in 1 .. Len(q) - 1 : Tail(q)[k] = q[k + 1]
        BY <3>1
      <4>3. Len(q) - 1 = r
        BY <1>2, <3>1
      <4> QED BY <4>1, <4>2, <4>3
    <3>4. \A k \in 1 .. r : k + 1 = 1 + k
      OBVIOUS
    <3> QED BY <3>1, <3>2, <3>3, <3>4
  <2>2. CASE ~(m >= MaxSeen)
    <3>1. e = 0 /\ Kept = q /\ Evicted = {} /\ 1 .. e = {} /\ r = m
      BY <1>0, <1>1, <1>2, <1>5, <2>2 DEF Kept, Evicted
    <3>2. \A k \in 1 .. r : 0 + k = k
      OBVIOUS
    <3> QED BY <1>2, <3>1, <3>2
  <2> QED BY <2>1, <2>2
<1>7. \A i, j \in 1 .. m : i < j => q[i] # q[j]
  <2>1. ASSUME NEW i \in 1 .. m, NEW j \in 1 .. m, i < j
        PROVE  q[i] # q[j]
    <3>1. /\ b + i \in 1 .. b + m /\ b + j \in 1 .. b + m /\ b + i < b + j
          /\ (b + j) - (b + i) <= MaxSeen
      BY <1>0, <1>2, <2>1
    <3> QED BY <1>3, <3>1
  <2> QED BY <2>1
<1>8. \A i \in 1 .. m : q[i] # id
  BY <1>3
<1>9. PICK w \in Seq(Ids) :
        /\ w = seen_order_queue' /\ Len(w) = r + 1 /\ DOMAIN w = 1 .. r + 1
        /\ \A k \in 1 .. r : w[k] = q[e + k]
        /\ w[r + 1] = id
  <2>1. PICK kept \in Seq(Ids) : kept = Kept
    BY <1>6
  <2>2. Len(kept) = r /\ \A k \in 1 .. r : kept[k] = q[e + k]
    BY <1>6, <2>1
  <2>3. Append(kept, id) \in Seq(Ids)
    OBVIOUS
  <2>4. PICK w \in Seq(Ids) : w = Append(kept, id)
    BY <2>3
  <2>5. Len(w) = r + 1 /\ DOMAIN w = 1 .. r + 1 /\ w[r + 1] = id
    BY <2>2, <2>4
  <2>6. \A k \in 1 .. r : w[k] = q[e + k]
    BY <2>2, <2>4
  <2> QED BY <2>1, <2>4, <2>5, <2>6
<1>10. seen_order_ids' = {w[i] : i \in DOMAIN w}
  <2>1. ASSUME NEW x, x \in seen_order_ids'
        PROVE  x \in {w[i] : i \in DOMAIN w}
    <3>1. CASE x = id
      <4>1. r + 1 \in DOMAIN w /\ x = w[r + 1]
        BY <1>9, <3>1
      <4> QED BY <4>1
    <3>2. CASE x # id
      <4>1. x \in seen_order_ids /\ x \notin Evicted
        BY <2>1, <3>2
      <4>2. PICK i \in 1 .. m : x = q[i]
        BY <1>3, <4>1
      <4>3. i \notin 1 .. e
        BY <1>6, <4>1, <4>2
      <4>4. PICK k \in 1 .. r : e + k = i
        <5>1. i - e \in 1 .. r /\ e + (i - e) = i
          BY <1>5, <4>3
        <5> QED BY <5>1
      <4>5. k \in DOMAIN w
        BY <1>9
      <4>6. w[k] = x
        BY <1>9, <4>2, <4>4
      <4> QED BY <4>5, <4>6
    <3> QED BY <3>1, <3>2
  <2>2. ASSUME NEW i \in DOMAIN w
        PROVE  w[i] \in seen_order_ids'
    <3>0. i \in 1 .. r + 1
      BY <1>9, <2>2
    <3>1. CASE i = r + 1
      BY <1>9, <3>1
    <3>2. CASE i # r + 1
      <4>1. i \in 1 .. r
        BY <3>0, <3>2
      <4>2. e + i \in 1 .. m
        BY <1>5, <4>1
      <4>3. w[i] = q[e + i]
        BY <1>9, <4>1
      <4>4. q[e + i] \in seen_order_ids
        BY <1>3, <4>2
      <4>5. q[e + i] \notin Evicted
        <5>1. \A k \in 1 .. e : k \in 1 .. m /\ k < e + i
          BY <1>5, <4>1
        <5> QED BY <1>6, <1>7, <4>2, <5>1
      <4> QED BY <4>3, <4>4, <4>5
    <3> QED BY <3>1, <3>2
  <2> QED BY <2>1, <2>2
<1>11. \A k \in 1 .. r + 1 : w[k] = approved'[(b + e) + k].id
  <2>1. ASSUME NEW k \in 1 .. r + 1
        PROVE  w[k] = approved'[(b + e) + k].id
    <3>1. CASE k = r + 1
      <4>1. (b + e) + k = (b + m) + 1
        BY <1>5, <3>1
      <4>2. w[k] = id
        BY <1>9, <3>1
      <4> QED BY <1>4, <4>1, <4>2
    <3>2. CASE k # r + 1
      <4>1. k \in 1 .. r
        BY <3>2
      <4>2. e + k \in 1 .. m /\ (b + e) + k = b + (e + k) /\ b + (e + k) \in 1 .. b + m
        BY <1>5, <4>1
      <4>3. approved'[(b + e) + k].id = q[e + k]
        BY <1>3, <1>4, <4>2
      <4> QED BY <1>9, <4>1, <4>3
    <3> QED BY <3>1, <3>2
  <2> QED BY <2>1
<1>12. \A i, j \in 1 .. (b + m) + 1 :
         i < j /\ j - i <= MaxSeen => approved'[i].id # approved'[j].id
  <2>1. ASSUME NEW i \in 1 .. (b + m) + 1, NEW j \in 1 .. (b + m) + 1, i < j, j - i <= MaxSeen
        PROVE  approved'[i].id # approved'[j].id
    <3>1. CASE j \in 1 .. b + m
      <4>1. i \in 1 .. b + m
        BY <2>1, <3>1
      <4> QED BY <1>3, <1>4, <2>1, <3>1, <4>1, SMTT(30)
    <3>2. CASE j = (b + m) + 1
      <4>1. i \in 1 .. b + m
        BY <2>1, <3>2
      <4>2. PICK k \in 1 .. m : b + k = i
        <5>1. b < i
          BY <1>0, <1>2, <2>1, <3>2, <4>1
        <5>2. i - b \in 1 .. m /\ b + (i - b) = i
          BY <4>1, <5>1
        <5> QED BY <5>2
      <4>3. approved[i].id = q[k]
        BY <1>3, <4>2
      <4>4. approved'[i].id # id
        BY <1>4, <1>8, <4>1, <4>3
      <4>5. approved'[j].id = id
        BY <1>4, <3>2
      <4> QED BY <4>4, <4>5
    <3>3. j \in 1 .. b + m \/ j = (b + m) + 1
      OBVIOUS
    <3> QED BY <3>1, <3>2, <3>3, Zenon
  <2> QED BY <2>1
<1>13. Len(approved') - Len(w) = b + e
  BY <1>4, <1>5, <1>9
<1>14. Len(w) <= Len(approved') /\ (Len(w) < MaxSeen => Len(w) = Len(approved')) /\ Len(w) <= MaxSeen
  BY <1>0, <1>2, <1>4, <1>5, <1>9
<1>15. NoDuplicateInWindow'
  BY <1>4, <1>12 DEF NoDuplicateInWindow
<1>16. \A k \in 1 .. Len(w) : w[k] = approved'[(Len(approved') - Len(w)) + k].id
  BY <1>9, <1>11, <1>13
<1>17. IdInv'
  BY <1>9, <1>14, <1>15, <1>16 DEF IdInv
<1> QED BY <1>9, <1>10, <1>14, <1>17

(***************************************************************************)
(* What every way out of check() leaves true, for any book, balance and    *)
(* state of the kill switch.                                               *)
(***************************************************************************)
LEMMA RejectInv ==
    ASSUME NEW Ids, RiskInv(Ids), NEW sig, NEW mid, NEW balance, NEW halted, NEW id,
           \/ RejectLimits(sig, mid, balance, halted)
           \/ RejectRate(sig, mid, balance, halted)
           \/ RejectDuplicate(sig, mid, balance, halted, id)
    PROVE  RiskInv(Ids)'
<1>1. CASE RejectLimits(sig, mid, balance, halted)
  BY <1>1, RiskUnchanged DEF RejectLimits
<1>2. CASE RejectRate(sig, mid, balance, halted)
  BY <1>2, PruneInv DEF RejectRate
<1>3. CASE RejectDuplicate(sig, mid, balance, halted, id)
  BY <1>3, PruneInv DEF RejectDuplicate
<1> QED BY <1>1, <1>2, <1>3

(* The same of an approval. *)
LEMMA ApproveInv ==
    ASSUME NEW Ids, RiskInv(Ids), NEW sig, NEW mid, NEW balance, NEW halted, NEW id \in Ids,
           Approve(sig, mid, balance, halted, id)
    PROVE  RiskInv(Ids)'
<1>1. now \in Nat /\ now' = now
  BY RiskBounds DEF Approve
<1>2. /\ RateInv' /\ order_timestamps' \in Seq(Nat)
      /\ Len(order_timestamps') <= MaxOrdersPerSec
  BY <1>1, ApproveRate DEF Approve
<1>3. /\ IdInv' /\ seen_order_queue' \in Seq(Ids) /\ Len(seen_order_queue') <= MaxSeen
      /\ seen_order_ids' = {seen_order_queue'[i] : i \in DOMAIN seen_order_queue'}
  BY <1>1, ApproveIds DEF Approve
<1>4. approved' \in Seq([id : Ids, at : Nat])
  BY <1>1 DEF Approve, RiskInv
<1> QED BY <1>1, <1>2, <1>3, <1>4 DEF RiskInv, RiskTypeOK

-----------------------------------------------------------------------------
(***************************************************************************)
(* RateInv bounds every window: the orders in it lie between the first of  *)
(* them and the MaxOrdersPerSec-th after it.                               *)
(***************************************************************************)
LEMMA RateInvLimits ==
    ASSUME NEW Ids, RiskInv(Ids)
    PROVE  RateLimited
<1> DEFINE In(t) == {i \in DOMAIN approved : approved[i].at \in t .. t + Second - 1}
<1>1. MaxOrdersPerSec \in Nat /\ Second \in Nat \ {0}
  BY RiskAssumption
<1>2. ASSUME NEW t \in 0 .. now
      PROVE  Cardinality(In(t)) <= MaxOrdersPerSec
  <2>1. t \in Nat
    BY RiskBounds
  <2>2. \A i \in In(t) : /\ i \in Nat /\ i \in DOMAIN approved /\ approved[i].at \in Nat
                         /\ t <= approved[i].at /\ approved[i].at < t + Second
    BY <1>1, <2>1, RiskBounds, SMTT(30)
  <2> HIDE DEF In
  <2>3. CASE In(t) = {}
    BY <1>1, <2>3, FS_EmptySet
  <2>4. CASE In(t) # {}
    <3>1. PICK m \in In(t) : \A i \in In(t) : m <= i
      BY <2>2, <2>4, LeastNat
    <3>2. ASSUME NEW i \in In(t), i >= m + MaxOrdersPerSec
          PROVE  FALSE
      <4>1. m + MaxOrdersPerSec \in DOMAIN approved
        BY <1>1, <2>2, <3>1, <3>2, RiskBounds, SMTT(30)
      <4>2. approved[m + MaxOrdersPerSec].at - approved[m].at >= Second
        BY <2>2, <3>1, <4>1 DEF RiskInv, RateInv
      <4>3. approved[m + MaxOrdersPerSec].at <= approved[i].at
        BY <2>2, <3>2, <4>1 DEF RiskInv, RateInv
      <4>4. approved[m + MaxOrdersPerSec].at \in Nat
        BY <4>1, RiskBounds
      <4> QED BY <1>1, <2>1, <2>2, <3>1, <3>2, <4>2, <4>3, <4>4
    <3>3. In(t) \subseteq m .. m + MaxOrdersPerSec - 1
      BY <1>1, <2>2, <3>1, <3>2
    <3>4. m \in Int /\ m + MaxOrdersPerSec - 1 \in Int
      BY <1>1, <2>2, <3>1
    <3>5. /\ IsFiniteSet(m .. m + MaxOrdersPerSec - 1)
          /\ Cardinality(m .. m + MaxOrdersPerSec - 1) = MaxOrdersPerSec
      <4>1. PICK b \in Int : b = m + MaxOrdersPerSec - 1
        BY <3>4
      <4>2. IsFiniteSet(m .. b) /\ Cardinality(m .. b) = IF m > b THEN 0 ELSE b - m + 1
        BY <3>4, FS_Interval
      <4>3. (m > b => MaxOrdersPerSec = 0) /\ (~(m > b) => b - m + 1 = MaxOrdersPerSec)
        BY <1>1, <3>4, <4>1
      <4> QED BY <4>1, <4>2, <4>3
    <3> QED BY <3>3, <3>5, FS_Subset, ZenonT(40)
  <2> QED BY <2>3, <2>4
<1> QED BY <1>2 DEF RateLimited

(* What the systems that have a risk checker take from here. *)
LEMMA RiskInvImplies ==
    ASSUME NEW Ids, RiskInv(Ids)
    PROVE  RiskTypeOK /\ RateLimited /\ NoDuplicateInWindow
BY RateInvLimits DEF RiskInv, IdInv
=============================================================================
