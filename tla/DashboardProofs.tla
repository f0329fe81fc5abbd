--------------------------- MODULE DashboardProofs --------------------------
(***************************************************************************)
(* Theorems about Dashboard, for every number of clients, events and fills *)
(* and every length of the lists.                                          *)
(***************************************************************************)
EXTENDS Dashboard, TLAPS

-----------------------------------------------------------------------------
(* The newest entry of a list of numbers is a number. *)
LEMMA LatestType ==
    ASSUME NEW q \in Seq(Nat)
    PROVE  Latest(q) \in Nat
<1>1. CASE q = << >>
  BY <1>1 DEF Latest
<1>2. CASE q # << >>
  BY <1>2 DEF Latest
<1> QED BY <1>1, <1>2

(* A push adds its entry at the end and never overfills the list. *)
LEMMA PushFacts ==
    ASSUME NEW q \in Seq(Nat), NEW x \in Nat, NEW cap \in Nat \ {0}, Len(q) <= cap
    PROVE  /\ Push(q, x, cap) \in Seq(Nat)
           /\ Len(Push(q, x, cap)) <= cap
           /\ Latest(Push(q, x, cap)) = x
<1>1. PICK r \in Seq(Nat) : r = (IF Len(q) >= cap THEN Tail(q) ELSE q)
  <2>1. CASE Len(q) >= cap
    <3>1. q # << >>
      BY <2>1
    <3>2. Tail(q) \in Seq(Nat)
      BY <3>1
    <3> QED BY <2>1, <3>2
  <2>2. CASE ~(Len(q) >= cap)
    BY <2>2
  <2> QED BY <2>1, <2>2
<1>2. Len(r) + 1 <= cap
  <2>1. CASE Len(q) >= cap
    <3>1. q # << >> /\ Len(q) = cap
      BY <2>1
    <3>2. Len(Tail(q)) = Len(q) - 1
      BY <3>1
    <3> QED BY <1>1, <2>1, <3>1, <3>2
  <2>2. CASE ~(Len(q) >= cap)
    BY <1>1, <2>2
  <2> QED BY <2>1, <2>2
<1>3. Push(q, x, cap) = Append(r, x)
  BY <1>1 DEF Push
<1>4. /\ Append(r, x) \in Seq(Nat) /\ Append(r, x) # << >>
      /\ Len(Append(r, x)) = Len(r) + 1 /\ Append(r, x)[Len(r) + 1] = x
  BY <1>1
<1> QED BY <1>2, <1>3, <1>4 DEF Latest

(* The next number keeps a list of consecutive numbers consecutive. *)
LEMMA PushConsecutive ==
    ASSUME NEW q \in Seq(Nat), NEW cap \in Nat \ {0}, Len(q) <= cap,
           ConsecutiveTo(q, Latest(q))
    PROVE  ConsecutiveTo(Push(q, Latest(q) + 1, cap), Latest(q) + 1)
<1> DEFINE x == Latest(q) + 1
<1>0. Latest(q) \in Nat /\ x \in Nat
  BY LatestType
<1>1. \A i \in 1 .. Len(q) : q[i] = x - Len(q) + i - 1
  BY <1>0 DEF ConsecutiveTo
<1> HIDE DEF x
<1>4. ASSUME NEW r \in Seq(Nat), \A i \in 1 .. Len(r) : r[i] = x - Len(r) + i
      PROVE  ConsecutiveTo(r, x)
  <2>1. DOMAIN r = 1 .. Len(r)
    OBVIOUS
  <2> QED BY <1>4, <2>1 DEF ConsecutiveTo
<1>2. CASE Len(q) >= cap
  <2>1. q # << >> /\ Len(q) > 0
    BY <1>2
  <2>2. /\ Tail(q) \in Seq(Nat) /\ Len(Tail(q)) = Len(q) - 1
        /\ \A i \in 1 .. Len(q) - 1 : Tail(q)[i] = q[i + 1]
    BY <2>1
  <2>3. \A i \in 1 .. Len(q) - 1 : Tail(q)[i] = x - Len(q) + i
    BY <1>0, <1>1, <2>2
  <2>4. /\ Append(Tail(q), x) \in Seq(Nat) /\ Len(Append(Tail(q), x)) = Len(q)
        /\ \A i \in 1 .. Len(q) - 1 : Append(Tail(q), x)[i] = Tail(q)[i]
        /\ Append(Tail(q), x)[Len(q)] = x
    BY <1>0, <2>1, <2>2
  <2>5. \A i \in 1 .. Len(q) : Append(Tail(q), x)[i] = x - Len(q) + i
    <3>1. \A i \in 1 .. Len(q) : i = Len(q) \/ i \in 1 .. Len(q) - 1
      BY <2>1
    <3>2. x = x - Len(q) + Len(q)
      BY <1>0, <2>1
    <3> QED BY <2>3, <2>4, <3>1, <3>2
  <2>6. Push(q, x, cap) = Append(Tail(q), x)
    BY <1>2 DEF Push
  <2> QED BY <1>4, <2>4, <2>5, <2>6 DEF x
<1>3. CASE ~(Len(q) >= cap)
  <2>1. /\ Append(q, x) \in Seq(Nat) /\ Len(Append(q, x)) = Len(q) + 1
        /\ \A i \in 1 .. Len(q) : Append(q, x)[i] = q[i]
        /\ Append(q, x)[Len(q) + 1] = x
    BY <1>0
  <2>2. \A i \in 1 .. Len(q) + 1 : Append(q, x)[i] = x - (Len(q) + 1) + i
    BY <1>0, <1>1, <2>1
  <2>3. Push(q, x, cap) = Append(q, x)
    BY <1>3 DEF Push
  <2> QED BY <1>4, <2>1, <2>2, <2>3 DEF x
<1> QED BY <1>2, <1>3

(* No entry of such a list is newer than its newest one. *)
LEMMA ConsecutiveBounded ==
    ASSUME NEW q \in Seq(Nat), NEW last \in Nat, ConsecutiveTo(q, last)
    PROVE  \A i \in DOMAIN q : q[i] <= last
BY DEF ConsecutiveTo

-----------------------------------------------------------------------------
(***************************************************************************)
(* The inductive invariant, thread by thread: what each of them holds      *)
(* between two of its steps, and how that stands to what the others have   *)
(* written since.                                                          *)
(***************************************************************************)
View == [pc : {"tick", "trades", "prices", "account", "counts", "push", "closed"},
         snapshot : Nat, trades : Seq(Nat), prices : Seq(Nat), account : Nat, counts : Nat]

BookTypes ==
    /\ event_count \in Nat /\ snapshot \in Nat /\ prices \in Nat /\ price_history \in Seq(Nat)
    /\ updater \in [pc : {"recv", "price", "store"}, price : Nat]

FillTypes ==
    /\ account \in Nat /\ counts \in Nat /\ recent_trades \in Seq(Nat)
    /\ filler \in {"take", "counted", "filled"}

SampleTypes ==
    /\ events_last_checkpoint \in Nat /\ events_last_sec \in Nat
    /\ published \in Nat /\ pnl_history \in Seq(Nat)
    /\ sampler \in [pc : {"tick", "swap", "store", "pnl"}, count : Nat, last : Nat]

(* The price that the book thread carries is the one the chart still lacks. *)
UpdaterInv ==
    /\ Len(price_history) <= PriceCap
    /\ ConsecutiveTo(price_history, Latest(price_history))
    /\ prices = Latest(price_history) + (IF updater.pc = "price" THEN 1 ELSE 0)
    /\ updater.pc = "price" => updater.price = prices
    /\ updater.price <= prices
    /\ snapshot <= Latest(price_history)

(* The fill that the executor carries is counted, then booked, then listed. *)
FillerInv ==
    /\ Len(recent_trades) <= TradeCap
    /\ ConsecutiveTo(recent_trades, Latest(recent_trades))
    /\ counts = account + (IF filler = "counted" THEN 1 ELSE 0)
    /\ account = Latest(recent_trades) + (IF filler = "filled" THEN 1 ELSE 0)

(* The checkpoint never passes the counter, nor the published sum the checkpoint. *)
SamplerInv ==
    /\ Len(pnl_history) <= PnlCap
    /\ events_last_checkpoint <= event_count /\ sampler.count <= event_count
    /\ sampler.pc = "swap" => events_last_checkpoint <= sampler.count
    /\ sampler.pc = "store" =>
         /\ published = sampler.last /\ events_last_checkpoint = sampler.count
         /\ sampler.last <= sampler.count
    /\ RatesAddUp

(* What a client has read so far is no newer than what it is still to read. *)
ViewInv(v) ==
    /\ v.pc \in {"trades", "prices"} => v.snapshot <= Latest(price_history)
    /\ v.pc \in {"account", "counts", "push"} => v.snapshot <= Latest(v.prices)
    /\ v.pc \in {"prices", "account"} => \A i \in DOMAIN v.trades : v.trades[i] <= account
    /\ v.pc \in {"counts", "push"} => \A i \in DOMAIN v.trades : v.trades[i] <= v.account
    /\ v.pc = "counts" => v.account <= account
    /\ v.pc = "push" => v.account <= v.counts

DashboardInv ==
    /\ BookTypes /\ FillTypes /\ SampleTypes /\ view \in [Client -> View]
    /\ UpdaterInv /\ FillerInv /\ SamplerInv
    /\ \A c \in Client : ViewInv(view[c])

(* What a client has read stays true while the chart and the account move on. *)
LEMMA ViewsKeep ==
    ASSUME DashboardInv, view' = view, price_history' \in Seq(Nat), account' \in Nat,
           Latest(price_history) <= Latest(price_history'), account <= account'
    PROVE  \A c \in Client : ViewInv(view[c])'
<1> SUFFICES ASSUME NEW c \in Client PROVE ViewInv(view[c])'
  OBVIOUS
<1>1. Latest(price_history) \in Nat /\ Latest(price_history') \in Nat /\ account \in Nat
  BY LatestType DEF DashboardInv, BookTypes, FillTypes
<1>2. view[c] \in View /\ view'[c] = view[c] /\ ViewInv(view[c])
  BY DEF DashboardInv
<1>3. view[c].snapshot \in Nat /\ view[c].account \in Nat
      /\ \A i \in DOMAIN view[c].trades : view[c].trades[i] \in Nat
  BY <1>2 DEF View
<1>4. view[c].pc \in {"trades", "prices"} => view[c].snapshot <= Latest(price_history')
  BY <1>1, <1>2, <1>3 DEF ViewInv
<1>5. view[c].pc \in {"prices", "account"} =>
        \A i \in DOMAIN view[c].trades : view[c].trades[i] <= account'
  BY <1>1, <1>2, <1>3 DEF ViewInv
<1>6. view[c].pc = "counts" => view[c].account <= account'
  BY <1>1, <1>2, <1>3 DEF ViewInv
<1> QED BY <1>2, <1>4, <1>5, <1>6 DEF ViewInv

(* The book thread keeps the invariant. *)
LEMMA UpdaterStep ==
    ASSUME DashboardInv, CountUpdate \/ PushPrice \/ StoreSnapshot
    PROVE  DashboardInv'
<1>0. /\ BookTypes /\ FillTypes /\ SampleTypes /\ view \in [Client -> View]
      /\ UpdaterInv /\ FillerInv /\ SamplerInv
  BY DEF DashboardInv
<1>1. Latest(price_history) \in Nat /\ updater.price \in Nat /\ PriceCap \in Nat \ {0}
  BY <1>0, LatestType, DashboardAssumption DEF BookTypes
<1>2. UNCHANGED <<fillSide, sampleSide, view>>
  BY DEF CountUpdate, PushPrice, StoreSnapshot
<1>3. FillTypes' /\ SampleTypes' /\ FillerInv' /\ (view \in [Client -> View])'
  BY <1>0, <1>2 DEF fillSide, sampleSide, FillTypes, SampleTypes, FillerInv
<1>4. BookTypes' /\ UpdaterInv' /\ Latest(price_history) <= Latest(price_history')
      /\ event_count <= event_count'
  <2>1. CASE CountUpdate
    BY <1>0, <1>1, <2>1 DEF CountUpdate, BookTypes, UpdaterInv
  <2>2. CASE PushPrice
    <3>1. updater.price = Latest(price_history) + 1 /\ prices = updater.price
      BY <1>0, <1>1, <2>2 DEF PushPrice, UpdaterInv
    <3>2. /\ price_history' \in Seq(Nat) /\ Len(price_history') <= PriceCap
          /\ Latest(price_history') = updater.price
      BY <1>0, <1>1, <2>2, PushFacts DEF PushPrice, BookTypes, UpdaterInv
    <3>3. ConsecutiveTo(price_history', Latest(price_history'))
      BY <1>0, <1>1, <2>2, <3>1, <3>2, PushConsecutive DEF PushPrice, BookTypes, UpdaterInv
    <3>4. updater' \in [pc : {"recv", "price", "store"}, price : Nat]
          /\ updater'.pc = "store" /\ updater'.price = updater.price
      BY <1>0, <2>2 DEF PushPrice, BookTypes
    <3>5. UNCHANGED <<event_count, snapshot, prices>>
      BY <2>2 DEF PushPrice
    <3> QED BY <1>0, <1>1, <3>1, <3>2, <3>3, <3>4, <3>5 DEF BookTypes, UpdaterInv
  <2>3. CASE StoreSnapshot
    BY <1>0, <1>1, <2>3 DEF StoreSnapshot, BookTypes, UpdaterInv
  <2> QED BY <2>1, <2>2, <2>3
<1>5. SamplerInv'
  BY <1>0, <1>2, <1>4 DEF sampleSide, SamplerInv, RatesAddUp, SampleTypes, BookTypes
<1>6. \A c \in Client : ViewInv(view[c])'
  BY <1>0, <1>2, <1>4, ViewsKeep DEF fillSide, FillTypes, BookTypes
<1> QED BY <1>3, <1>4, <1>5, <1>6 DEF DashboardInv

(* The executor keeps it. *)
LEMMA FillerStep ==
    ASSUME DashboardInv, CountFill \/ FillAccount \/ AddTrade
    PROVE  DashboardInv'
<1>0. /\ BookTypes /\ FillTypes /\ SampleTypes /\ view \in [Client -> View]
      /\ UpdaterInv /\ FillerInv /\ SamplerInv
  BY DEF DashboardInv
<1>1. Latest(recent_trades) \in Nat /\ TradeCap \in Nat \ {0} /\ Latest(price_history) \in Nat
  BY <1>0, LatestType, DashboardAssumption DEF FillTypes, BookTypes
<1>2. UNCHANGED <<bookSide, sampleSide, view>>
  BY DEF CountFill, FillAccount, AddTrade
<1>3. /\ BookTypes' /\ SampleTypes' /\ UpdaterInv' /\ SamplerInv'
      /\ (view \in [Client -> View])' /\ UNCHANGED price_history
  BY <1>0, <1>2
     DEF bookSide, sampleSide, BookTypes, SampleTypes, UpdaterInv, SamplerInv, RatesAddUp
<1>4. FillTypes' /\ FillerInv' /\ account <= account'
  <2>1. CASE CountFill
    BY <1>0, <1>1, <2>1 DEF CountFill, FillTypes, FillerInv
  <2>2. CASE FillAccount
    BY <1>0, <1>1, <2>2 DEF FillAccount, Locked, FillTypes, FillerInv
  <2>3. CASE AddTrade
    <3>1. account = Latest(recent_trades) + 1
      BY <1>0, <1>1, <2>3 DEF AddTrade, FillerInv
    <3>2. /\ recent_trades' \in Seq(Nat) /\ Len(recent_trades') <= TradeCap
          /\ Latest(recent_trades') = account
      BY <1>0, <1>1, <2>3, PushFacts DEF AddTrade, FillTypes, FillerInv
    <3>3. ConsecutiveTo(recent_trades', Latest(recent_trades'))
      BY <1>0, <1>1, <2>3, <3>1, <3>2, PushConsecutive DEF AddTrade, FillTypes, FillerInv
    <3>4. filler = "filled" /\ filler' = "take" /\ UNCHANGED <<account, counts>>
      BY <2>3 DEF AddTrade
    <3> QED BY <1>0, <3>2, <3>3, <3>4 DEF FillTypes, FillerInv
  <2> QED BY <2>1, <2>2, <2>3
<1>5. \A c \in Client : ViewInv(view[c])'
  BY <1>1, <1>2, <1>3, <1>4, ViewsKeep DEF FillTypes, BookTypes
<1> QED BY <1>3, <1>4, <1>5 DEF DashboardInv

(* The sampler keeps it. *)
LEMMA SamplerStep ==
    ASSUME DashboardInv, Sampler
    PROVE  DashboardInv'
<1>0. /\ BookTypes /\ FillTypes /\ SampleTypes /\ view \in [Client -> View]
      /\ UpdaterInv /\ FillerInv /\ SamplerInv
  BY DEF DashboardInv
<1>1. UNCHANGED <<bookSide, fillSide, view>>
  BY DEF Sampler, SampleCount, SwapCheckpoint, StoreRate, SamplePnl
<1>2. /\ BookTypes' /\ FillTypes' /\ UpdaterInv' /\ FillerInv'
      /\ (view \in [Client -> View])' /\ UNCHANGED <<price_history, account, event_count>>
  BY <1>0, <1>1 DEF bookSide, fillSide, BookTypes, FillTypes, UpdaterInv, FillerInv
<1>3. Latest(price_history) \in Nat /\ account \in Nat
  BY <1>0, LatestType DEF BookTypes, FillTypes
<1>4. \A c \in Client : ViewInv(view[c])'
  BY <1>1, <1>2, <1>3, ViewsKeep DEF FillTypes, BookTypes
<1>5. SampleTypes' /\ SamplerInv'
  <2>1. CASE SampleCount
    <3>1. /\ sampler' \in [pc : {"tick", "swap", "store", "pnl"}, count : Nat, last : Nat]
          /\ sampler.pc = "tick" /\ sampler'.pc = "swap" /\ sampler'.count = event_count
      BY <1>0, <2>1 DEF SampleCount, SampleTypes, BookTypes
    <3>2. UNCHANGED <<events_last_checkpoint, events_last_sec, pnl_history, published>>
      BY <2>1 DEF SampleCount
    <3> QED BY <1>0, <1>2, <3>1, <3>2 DEF SampleTypes, BookTypes, SamplerInv, RatesAddUp
  <2>2. CASE SwapCheckpoint
    BY <1>0, <1>2, <2>2 DEF SwapCheckpoint, SampleTypes, BookTypes, SamplerInv, RatesAddUp
  <2>3. CASE StoreRate
    <3>1. /\ sampler' \in [pc : {"tick", "swap", "store", "pnl"}, count : Nat, last : Nat]
          /\ sampler.pc = "store" /\ sampler'.pc = "pnl" /\ sampler'.count = sampler.count
      BY <1>0, <2>3 DEF StoreRate, SampleTypes
    <3>2. UNCHANGED <<events_last_checkpoint, pnl_history>>
      BY <2>3 DEF StoreRate
    <3>3. sampler.count \in Nat /\ sampler.last \in Nat /\ sampler.last <= sampler.count
      BY <1>0, <3>1 DEF SampleTypes, SamplerInv
    <3>4. events_last_sec' = sampler.count - sampler.last /\ published' = published + events_last_sec'
      BY <2>3, <3>3 DEF StoreRate
    <3>5. published = sampler.last /\ events_last_checkpoint = sampler.count
      BY <1>0, <3>1 DEF SamplerInv
    <3>6. published' = events_last_checkpoint' /\ events_last_sec' \in Nat /\ published' \in Nat
      BY <3>2, <3>3, <3>4, <3>5
    <3> QED BY <1>0, <1>2, <3>1, <3>2, <3>6 DEF SampleTypes, BookTypes, SamplerInv, RatesAddUp
  <2>4. CASE SamplePnl
    <3>1. PnlCap \in Nat \ {0} /\ account \in Nat
      BY <1>0, DashboardAssumption DEF FillTypes
    <3>2. pnl_history' \in Seq(Nat) /\ Len(pnl_history') <= PnlCap
      BY <1>0, <2>4, <3>1, PushFacts DEF SamplePnl, SampleTypes, SamplerInv
    <3> QED BY <1>0, <1>2, <2>4, <3>2
            DEF SamplePnl, Asleep, SampleTypes, BookTypes, SamplerInv, RatesAddUp
  <2> QED BY <2>1, <2>2, <2>3, <2>4 DEF Sampler
<1> QED BY <1>2, <1>4, <1>5 DEF DashboardInv

(* One read of a client: it keeps the invariant if what it reads fits its view. *)
LEMMA ReadKeeps ==
    ASSUME DashboardInv, NEW c \in Client, UNCHANGED <<bookSide, fillSide, sampleSide>>,
           NEW v \in View, ViewInv(v), view' = [view EXCEPT ![c] = v]
    PROVE  DashboardInv'
<1>1. /\ BookTypes' /\ FillTypes' /\ SampleTypes' /\ UpdaterInv' /\ FillerInv' /\ SamplerInv'
      /\ UNCHANGED <<price_history, account>>
  BY DEF DashboardInv, bookSide, fillSide, sampleSide, BookTypes, FillTypes, SampleTypes,
         UpdaterInv, FillerInv, SamplerInv, RatesAddUp
<1>2. view' \in [Client -> View] /\ \A d \in Client : view'[d] = IF d = c THEN v ELSE view[d]
  BY DEF DashboardInv
<1>3. ASSUME NEW d \in Client PROVE ViewInv(view[d])'
  <2>1. ViewInv(view'[d])
    BY <1>2 DEF DashboardInv
  <2> QED BY <1>1, <2>1 DEF ViewInv
<1> QED BY <1>1, <1>2, <1>3 DEF DashboardInv

(* The task of a client keeps it. *)
LEMMA ClientStep ==
    ASSUME DashboardInv, NEW c \in Client, ClientTask(c)
    PROVE  DashboardInv'
<1>0. /\ BookTypes /\ FillTypes /\ UpdaterInv /\ FillerInv
      /\ view \in [Client -> View] /\ view[c] \in View /\ ViewInv(view[c])
  BY DEF DashboardInv
<1> DEFINE w == view[c]
<1>1. /\ w.snapshot \in Nat /\ w.trades \in Seq(Nat) /\ w.prices \in Seq(Nat)
      /\ w.account \in Nat /\ w.counts \in Nat
  BY <1>0 DEF View
<1>2. /\ snapshot \in Nat /\ price_history \in Seq(Nat) /\ recent_trades \in Seq(Nat)
      /\ account \in Nat /\ counts \in Nat /\ snapshot <= Latest(price_history)
      /\ account <= counts
  BY <1>0 DEF BookTypes, FillTypes, UpdaterInv, FillerInv
<1>3. \A i \in DOMAIN recent_trades : recent_trades[i] <= account
  <2>1. Latest(recent_trades) \in Nat /\ Latest(recent_trades) <= account
    BY <1>0, <1>2, LatestType DEF FillerInv
  <2>2. \A i \in DOMAIN recent_trades : recent_trades[i] <= Latest(recent_trades)
    BY <1>0, <1>2, <2>1, ConsecutiveBounded DEF FillerInv
  <2> QED BY <1>2, <2>1, <2>2
<1>4. CASE ReadSnapshot(c)
  <2> DEFINE v == [w EXCEPT !.pc = "trades", !.snapshot = snapshot]
  <2>1. w.pc = "tick" /\ view' = [view EXCEPT ![c] = v]
        /\ UNCHANGED <<bookSide, fillSide, sampleSide>>
    BY <1>0, <1>4 DEF ReadSnapshot, Reads, View
  <2>2. v \in View /\ ViewInv(v)
    BY <1>0, <1>1, <1>2 DEF View, ViewInv
  <2> HIDE DEF v
  <2> QED BY <2>1, <2>2, ReadKeeps
<1>5. CASE ReadTrades(c)
  <2> DEFINE v == [w EXCEPT !.pc = "prices", !.trades = recent_trades]
  <2>1. w.pc = "trades" /\ view' = [view EXCEPT ![c] = v]
        /\ UNCHANGED <<bookSide, fillSide, sampleSide>>
    BY <1>0, <1>5 DEF ReadTrades, Reads, View
  <2>2. v \in View /\ ViewInv(v)
    BY <1>0, <1>1, <1>2, <1>3, <2>1 DEF View, ViewInv
  <2> HIDE DEF v
  <2> QED BY <2>1, <2>2, ReadKeeps
<1>6. CASE ReadPrices(c)
  <2> DEFINE v == [w EXCEPT !.pc = "account", !.prices = price_history]
  <2>1. w.pc = "prices" /\ view' = [view EXCEPT ![c] = v]
        /\ UNCHANGED <<bookSide, fillSide, sampleSide>>
    BY <1>0, <1>6 DEF ReadPrices, Reads, View
  <2>2. v \in View /\ ViewInv(v)
    BY <1>0, <1>1, <1>2, <2>1 DEF View, ViewInv
  <2> HIDE DEF v
  <2> QED BY <2>1, <2>2, ReadKeeps
<1>7. CASE ReadAccount(c)
  <2> DEFINE v == [w EXCEPT !.pc = "counts", !.account = account]
  <2>1. w.pc = "account" /\ view' = [view EXCEPT ![c] = v]
        /\ UNCHANGED <<bookSide, fillSide, sampleSide>>
    BY <1>0, <1>7 DEF ReadAccount, Reads, View
  <2>2. v \in View
    BY <1>0, <1>2 DEF View
  <2>3. /\ v.pc = "counts" /\ v.account = account
        /\ v.snapshot = w.snapshot /\ v.prices = w.prices /\ v.trades = w.trades
    BY <1>0 DEF View
  <2>4. ViewInv(v)
    BY <1>0, <1>2, <2>1, <2>3 DEF ViewInv
  <2> HIDE DEF v
  <2> QED BY <2>1, <2>2, <2>4, ReadKeeps
<1>8. CASE ReadCounts(c)
  <2> DEFINE v == [w EXCEPT !.pc = "push", !.counts = counts]
  <2>1. w.pc = "counts" /\ view' = [view EXCEPT ![c] = v]
        /\ UNCHANGED <<bookSide, fillSide, sampleSide>>
    BY <1>0, <1>8 DEF ReadCounts, Reads, View
  <2>2. v \in View
    BY <1>0, <1>2 DEF View
  <2>3. /\ v.pc = "push" /\ v.account = w.account /\ v.counts = counts
        /\ v.snapshot = w.snapshot /\ v.prices = w.prices /\ v.trades = w.trades
    BY <1>0 DEF View
  <2>4. ViewInv(v)
    BY <1>0, <1>1, <1>2, <2>1, <2>3 DEF ViewInv
  <2> HIDE DEF v
  <2> QED BY <2>1, <2>2, <2>4, ReadKeeps
<1>9. CASE PushState(c)
  <2>1. PICK pc \in {"tick", "closed"} : view' = [view EXCEPT ![c] = [NoView EXCEPT !.pc = pc]]
    BY <1>9 DEF PushState
  <2> DEFINE v == [NoView EXCEPT !.pc = pc]
  <2>0. NoView \in View /\ 0 \in Nat /\ << >> \in Seq(Nat)
    BY DEF NoView, View
  <2>2. v \in View /\ v.pc \in {"tick", "closed"}
    BY <2>0, pc \in {"tick", "closed"} DEF View
  <2>4. ViewInv(v)
    BY <2>2 DEF ViewInv
  <2>3. UNCHANGED <<bookSide, fillSide, sampleSide>>
    BY <1>9 DEF PushState
  <2> HIDE DEF v
  <2> QED BY <2>1, <2>2, <2>3, <2>4, ReadKeeps DEF v
<1> QED BY <1>4, <1>5, <1>6, <1>7, <1>8, <1>9 DEF ClientTask

-----------------------------------------------------------------------------
(***************************************************************************)
(* The invariant is inductive: every thread may run between any two steps  *)
(* of another.                                                             *)
(***************************************************************************)
THEOREM DashboardCorrect == DashboardSpec => []DashboardInv
<1>1. DashboardInit => DashboardInv
  <2> SUFFICES ASSUME DashboardInit PROVE DashboardInv
    OBVIOUS
  <2>1. BookTypes /\ FillTypes /\ SampleTypes /\ view \in [Client -> View]
    BY DEF DashboardInit, BookTypes, FillTypes, SampleTypes, Asleep, NoView, View
  <2>2. UpdaterInv /\ FillerInv /\ SamplerInv
    BY DashboardAssumption
       DEF DashboardInit, UpdaterInv, FillerInv, SamplerInv, ConsecutiveTo, Latest, Asleep, RatesAddUp
  <2>3. \A c \in Client : ViewInv(view[c])
    BY DEF DashboardInit, NoView, ViewInv
  <2> QED BY <2>1, <2>2, <2>3 DEF DashboardInv
<1>2. DashboardInv /\ [DashboardNext]_dashboardVars => DashboardInv'
  <2> SUFFICES ASSUME DashboardInv, [DashboardNext]_dashboardVars PROVE DashboardInv'
    OBVIOUS
  <2>1. CASE CountUpdate \/ PushPrice \/ StoreSnapshot
    BY <2>1, UpdaterStep
  <2>2. CASE CountFill \/ FillAccount \/ AddTrade
    BY <2>2, FillerStep
  <2>3. CASE Sampler
    BY <2>3, SamplerStep
  <2>4. CASE \E c \in Client : ClientTask(c)
    BY <2>4, ClientStep
  <2>5. CASE UNCHANGED dashboardVars
    BY <2>5 DEF dashboardVars, bookSide, fillSide, sampleSide, DashboardInv, BookTypes, FillTypes,
                SampleTypes, UpdaterInv, FillerInv, SamplerInv, RatesAddUp, ViewInv
  <2> QED BY <2>1, <2>2, <2>3, <2>4, <2>5 DEF DashboardNext
<1> QED BY <1>1, <1>2, PTL DEF DashboardSpec

(***************************************************************************)
(* Type correctness: the lists never grow past their length, and between   *)
(* the counters and the account there is never more than the one fill that *)
(* the executor is booking.                                                *)
(***************************************************************************)
THEOREM DashboardTypeCorrect == DashboardSpec => []DashboardTypeOK
<1>1. DashboardInv => DashboardTypeOK
  <2> SUFFICES ASSUME DashboardInv PROVE DashboardTypeOK
    OBVIOUS
  <2>1. \A c \in Client : view[c] \in View
    BY DEF DashboardInv
  <2>2. \A c \in Client :
          view[c].pc \in {"tick", "trades", "prices", "account", "counts", "push", "closed"}
    BY <2>1 DEF View
  <2>3. counts - account \in {0, 1}
    BY DEF DashboardInv, FillTypes, FillerInv
  <2> QED BY <2>2, <2>3 DEF DashboardInv, BookTypes, FillTypes, SampleTypes, UpdaterInv, FillerInv,
                            SamplerInv, DashboardTypeOK
<1> QED BY <1>1, DashboardCorrect, PTL

(***************************************************************************)
(* Whatever the executor does between the reads of to_dashboard_state, no  *)
(* client is shown a trade that its figures lack, or a fill not counted.   *)
(***************************************************************************)
THEOREM ShownTradesAreBooked == DashboardSpec => []ShownTradesBooked
<1>1. DashboardInv => ShownTradesBooked
  BY DEF DashboardInv, ShownTradesBooked, Shown, ViewInv
<1> QED BY <1>1, DashboardCorrect, PTL

(***************************************************************************)
(* Whatever the book thread does between the reads, the chart that a       *)
(* client is shown reaches the quote it is shown.                          *)
(***************************************************************************)
THEOREM ChartAlwaysReachesQuote == DashboardSpec => []ChartReachesQuote
<1>1. DashboardInv => ChartReachesQuote
  BY DEF DashboardInv, ChartReachesQuote, Shown, ViewInv
<1> QED BY <1>1, DashboardCorrect, PTL

(***************************************************************************)
(* The lists of the dashboard are windows without a hole on all trades and *)
(* on all prices, however many were pushed and dropped.                    *)
(***************************************************************************)
THEOREM ListsAlwaysKeepLatest == DashboardSpec => []ListsKeepLatest
<1>1. DashboardInv => ListsKeepLatest
  <2> SUFFICES ASSUME DashboardInv PROVE ListsKeepLatest
    OBVIOUS
  <2>1. filler = "take" => Latest(recent_trades) = account
    BY LatestType DEF DashboardInv, FillTypes, FillerInv
  <2> QED BY <2>1 DEF DashboardInv, UpdaterInv, FillerInv, ListsKeepLatest
<1> QED BY <1>1, DashboardCorrect, PTL

(***************************************************************************)
(* The rates of all seconds add up to the checkpoint: the sampler loses no *)
(* event and counts none twice.                                            *)
(***************************************************************************)
THEOREM RatesAlwaysAddUp == DashboardSpec => []RatesAddUp
<1>1. DashboardInv => RatesAddUp
  BY DEF DashboardInv, SamplerInv
<1> QED BY <1>1, DashboardCorrect, PTL
=============================================================================
