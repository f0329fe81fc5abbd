---------------------------- MODULE TradingProofs ----------------------------
(***************************************************************************)
(* Proofs about Trading: the account and its first-in, first-out matching, *)
(* the way of an order from the check to the fill, the balance and the     *)
(* position.  The lemmas about steps ask no more of a quote than that it   *)
(* has prices.                                                             *)
(***************************************************************************)
EXTENDS Trading, DecisionProofs

-----------------------------------------------------------------------------
(* A sum over a longer sequence. *)
LEMMA TotalAppend ==
    ASSUME NEW f \in Seq(Int), NEW x \in Int
    PROVE  Total(f) \in Int /\ Total(Append(f, x)) = Total(f) + x
<1>1. PICK n \in Nat, g \in Seq(Int) :
        /\ n = Len(f) /\ g = Append(f, x) /\ Len(g) = n + 1
        /\ \A k \in 1 .. n : g[k] = f[k]
        /\ g[n + 1] = x
  <2>1. PICK S : S = Int
    OBVIOUS
  <2>2. /\ Append(f, x) \in Seq(S) /\ Len(f) \in Nat /\ Len(Append(f, x)) = Len(f) + 1
        /\ \A k \in 1 .. Len(f) : Append(f, x)[k] = f[k]
        /\ Append(f, x)[Len(f) + 1] = x
    BY <2>1, AppendFacts
  <2> QED BY <2>1, <2>2, Zenon
<1>2. PICK p \in [0 .. n -> Int] :
        p[0] = 0 /\ (\A k \in 1 .. n : p[k] = p[k - 1] + f[k]) /\ Total(f) = p[n]
  BY <1>1, TotalPath
<1>3. PICK r \in [0 .. n + 1 -> Int] :
        p[0] = r[0] /\ (\A k \in 1 .. n + 1 : r[k] = r[k - 1] + g[k]) /\ Total(g) = r[n + 1]
  BY <1>1, <1>2, TotalPath, SMTT(30)
<1> DEFINE T == {k \in 0 .. n : r[k] = p[k]}
<1>4. 0 \in T
  BY <1>3
<1>5. ASSUME NEW k \in 0 .. n, k \in T, k < n
      PROVE  k + 1 \in T
  <2>1. k + 1 \in 1 .. n /\ k + 1 \in 1 .. n + 1 /\ k + 1 \in 0 .. n /\ (k + 1) - 1 = k
    BY <1>5
  <2>2. p[k + 1] = p[k] + f[k + 1] /\ r[k + 1] = r[k] + g[k + 1]
    BY <1>2, <1>3, <2>1
  <2> QED BY <1>1, <1>5, <2>1, <2>2
<1>6. r[n] = p[n] /\ p[n] \in Int
  <2> HIDE DEF T
  <2>1. 0 .. n \subseteq T
    BY <1>4, <1>5, UpTo
  <2>2. n \in T
    BY <2>1
  <2> QED BY <2>2 DEF T
<1>7. n + 1 \in 1 .. n + 1 /\ (n + 1) - 1 = n
  OBVIOUS
<1>8. r[n + 1] = r[n] + g[n + 1]
  BY <1>3, <1>7
<1>9. Total(g) = p[n] + x
  BY <1>1, <1>3, <1>6, <1>8
<1> QED BY <1>1, <1>2, <1>6, <1>9

(* A sum over no element. *)
LEMMA TotalEmpty == Total(<< >>) = 0
<1>1. << >> \in Seq(Int) /\ Len(<< >>) = 0
  OBVIOUS
<1> QED BY <1>1, TotalPath

Values(queue) == [i \in DOMAIN queue |-> queue[i].price * queue[i].qty]

(* The cost and the quantity of a queue with one more lot. *)
LEMMA OpenAppend ==
    ASSUME NEW w \in Seq(Lot), NEW lot \in Lot
    PROVE  /\ OpenNotional(w) \in Int
           /\ OpenNotional(Append(w, lot)) = OpenNotional(w) + lot.price * lot.qty
           /\ OpenQty(Append(w, lot)) = OpenQty(w) + lot.qty
<1>1. PICK n \in Nat, v \in Seq(Lot) :
        /\ n = Len(w) /\ v = Append(w, lot) /\ Len(v) = n + 1
        /\ DOMAIN w = 1 .. n /\ DOMAIN v = 1 .. n + 1
        /\ \A k \in 1 .. n : v[k] = w[k] /\ w[k] \in Lot
        /\ v[n + 1] = lot
  <2>1. /\ Append(w, lot) \in Seq(Lot) /\ Len(w) \in Nat /\ Len(Append(w, lot)) = Len(w) + 1
        /\ DOMAIN w = 1 .. Len(w) /\ DOMAIN Append(w, lot) = 1 .. Len(w) + 1
        /\ \A k \in 1 .. Len(w) : Append(w, lot)[k] = w[k] /\ w[k] \in Lot
        /\ Append(w, lot)[Len(w) + 1] = lot
    BY AppendFacts
  <2> QED BY <2>1, Zenon
<1>2. lot.price * lot.qty \in Int /\ lot.qty \in Int
  BY DEF Lot
<1>3. \A k \in 1 .. n : w[k].price * w[k].qty \in Int /\ w[k].qty \in Int
  BY <1>1 DEF Lot
<1>4. PICK f \in Seq(Int) : f = Values(w)
  <2>1. Values(w) \in [1 .. n -> Int]
    BY <1>1, <1>3 DEF Values
  <2> QED BY <2>1, SeqOfInt
<1>5. PICK g \in Seq(Int) : g = [i \in DOMAIN w |-> w[i].qty]
  <2>1. [i \in DOMAIN w |-> w[i].qty] \in [1 .. n -> Int]
    BY <1>1, <1>3
  <2> QED BY <2>1, SeqOfInt
<1>6. Values(v) = Append(f, lot.price * lot.qty)
  <2>1. PICK h : h = Append(f, lot.price * lot.qty)
    OBVIOUS
  <2>2. Len(f) = n /\ \A k \in 1 .. n : f[k] = w[k].price * w[k].qty
    BY <1>1, <1>4 DEF Values
  <2>3. /\ h \in Seq(Int) /\ Len(h) = n + 1 /\ h[n + 1] = lot.price * lot.qty
        /\ \A k \in 1 .. n : h[k] = f[k]
    BY <1>2, <2>1, <2>2
  <2>4. h = [i \in 1 .. n + 1 |-> h[i]]
    BY <2>3
  <2>5. \A k \in 1 .. n + 1 : h[k] = v[k].price * v[k].qty
    <3>1. ASSUME NEW k \in 1 .. n + 1
          PROVE  h[k] = v[k].price * v[k].qty
      <4>1. CASE k = n + 1
        BY <1>1, <2>3, <4>1
      <4>2. CASE k # n + 1
        <5>1. k \in 1 .. n
          BY <4>2
        <5> QED BY <1>1, <2>2, <2>3, <5>1
      <4> QED BY <4>1, <4>2
    <3> QED BY <3>1
  <2> QED BY <1>1, <2>1, <2>4, <2>5 DEF Values
<1>7. [i \in DOMAIN v |-> v[i].qty] = Append(g, lot.qty)
  <2>1. PICK h : h = Append(g, lot.qty)
    OBVIOUS
  <2>2. Len(g) = n /\ \A k \in 1 .. n : g[k] = w[k].qty
    BY <1>1, <1>5
  <2>3. h \in Seq(Int) /\ Len(h) = n + 1 /\ h[n + 1] = lot.qty /\ \A k \in 1 .. n : h[k] = g[k]
    BY <1>2, <2>1, <2>2
  <2>4. h = [i \in 1 .. n + 1 |-> h[i]]
    BY <2>3
  <2>5. \A k \in 1 .. n + 1 : h[k] = v[k].qty
    <3>1. ASSUME NEW k \in 1 .. n + 1
          PROVE  h[k] = v[k].qty
      <4>1. CASE k = n + 1
        BY <1>1, <2>3, <4>1
      <4>2. CASE k # n + 1
        <5>1. k \in 1 .. n
          BY <4>2
        <5> QED BY <1>1, <2>2, <2>3, <5>1
      <4> QED BY <4>1, <4>2
    <3> QED BY <3>1
  <2> QED BY <1>1, <2>1, <2>4, <2>5
<1>8. OpenNotional(w) = Total(f) /\ OpenNotional(v) = Total(Append(f, lot.price * lot.qty))
  BY <1>4, <1>6 DEF OpenNotional, Values
<1>9. OpenQty(w) = Total(g) /\ OpenQty(v) = Total(Append(g, lot.qty))
  BY <1>5, <1>7 DEF OpenQty
<1>10. /\ Total(f) \in Int
       /\ Total(Append(f, lot.price * lot.qty)) = Total(f) + lot.price * lot.qty
       /\ Total(Append(g, lot.qty)) = Total(g) + lot.qty
  <2>1. PICK x \in Int : x = lot.price * lot.qty
    BY <1>2
  <2>2. Total(f) \in Int /\ Total(Append(f, x)) = Total(f) + x
    BY TotalAppend
  <2>3. Total(Append(g, lot.qty)) = Total(g) + lot.qty
    BY <1>2, TotalAppend
  <2> QED BY <2>1, <2>2, <2>3
<1> QED BY <1>1, <1>8, <1>9, <1>10

(* Nothing open costs nothing, and one lot is all there is of it. *)
LEMMA OpenFew ==
    /\ OpenNotional(<< >>) = 0 /\ OpenQty(<< >>) = 0
    /\ \A lot \in Lot : OpenQty(<<lot>>) = lot.qty
<1>1. Values(<< >>) = << >> /\ [i \in DOMAIN << >> |-> << >>[i].qty] = << >>
  BY DEF Values
<1>2. OpenNotional(<< >>) = 0 /\ OpenQty(<< >>) = 0
  BY <1>1, TotalEmpty DEF OpenNotional, OpenQty, Values
<1>3. ASSUME NEW lot \in Lot
      PROVE  OpenQty(<<lot>>) = lot.qty
  <2>1. << >> \in Seq(Lot) /\ <<lot>> = Append(<< >>, lot)
    OBVIOUS
  <2>2. OpenQty(<<lot>>) = OpenQty(<< >>) + lot.qty
    BY <2>1, OpenAppend
  <2> QED BY <1>2, <2>2 DEF Lot
<1> QED BY <1>2, <1>3

-----------------------------------------------------------------------------
(***************************************************************************)
(* w is what is left of the first k lots of q when the first d are sold,   *)
(* and a part of the next one perhaps.                                     *)
(***************************************************************************)
Unsold(w, q, k, d) ==
    /\ Len(w) = k - d
    /\ \A j \in 2 .. k - d : w[j] = q[d + j]
    /\ d < k => w[1].price = q[d + 1].price /\ w[1].qty <= q[d + 1].qty

(* What remains to be sold after k lots is nothing, unless all are sold. *)
Matched(acc, q, k, qty) ==
    /\ acc.remaining <= qty
    /\ \E d \in 0 .. k : Unsold(acc.queue, q, k, d) /\ (d < k => acc.remaining = 0)

(* A lot more. *)
LEMMA MatchedStep ==
    ASSUME NEW price \in Nat, NEW qty \in Nat, NEW q \in Seq(Lot), NEW k \in Nat, k < Len(q),
           NEW acc \in Matching, Matched(acc, q, k, qty)
    PROVE  Matched(MatchLot(price, acc, q[k + 1]), q, k + 1, qty)
<1>1. PICK lot \in Lot : lot = q[k + 1]
  <2>1. k + 1 \in 1 .. Len(q)
    OBVIOUS
  <2> QED BY <2>1
<1>2. PICK w \in Seq(Lot), r \in Nat : w = acc.queue /\ r = acc.remaining /\ r <= qty
  BY DEF Matching, Matched
<1>3. PICK d \in 0 .. k : Unsold(w, q, k, d) /\ (d < k => r = 0)
  BY <1>2 DEF Matched
<1>4. lot.price \in Nat /\ lot.qty \in Nat /\ lot.qty > 0 /\ d \in Nat
  BY DEF Lot
<1>5. PICK m \in Nat : m = IF r <= lot.qty THEN r ELSE lot.qty
  BY <1>4
<1>6. m <= r /\ m <= lot.qty
  BY <1>4, <1>5
<1>7. PICK a : a = MatchLot(price, acc, lot)
  OBVIOUS
<1>8. /\ a.remaining = r - m
      /\ a.queue = IF m = lot.qty THEN w ELSE Append(w, [lot EXCEPT !.qty = lot.qty - m])
  BY <1>2, <1>5, <1>7 DEF MatchLot
<1>9. a.remaining <= qty
  BY <1>2, <1>6, <1>8
<1>10. CASE m = lot.qty
  <2>1. d = k /\ w = << >>
    <3>1. r # 0
      BY <1>4, <1>6, <1>10
    <3>2. d = k
      BY <1>3, <3>1
    <3> QED BY <1>3, <3>2 DEF Unsold
  <2>2. Unsold(w, q, k + 1, k + 1)
    BY <2>1 DEF Unsold
  <2>3. a.queue = w
    BY <1>8, <1>10
  <2>4. k + 1 \in 0 .. k + 1 /\ ~(k + 1 < k + 1)
    OBVIOUS
  <2> QED BY <1>1, <1>7, <1>9, <2>2, <2>3, <2>4 DEF Matched
<1>11. CASE m # lot.qty
  <2>1. m = r /\ a.remaining = 0
    BY <1>4, <1>5, <1>8, <1>11
  <2>2. PICK part \in Lot : part = [lot EXCEPT !.qty = lot.qty - m]
    <3>1. lot.qty - m \in Nat \ {0}
      BY <1>4, <1>6, <1>11
    <3>2. [lot EXCEPT !.qty = lot.qty - m] \in Lot
      BY <3>1 DEF Lot
    <3> QED BY <3>2
  <2>3. part.price = lot.price /\ part.qty <= lot.qty /\ (m = 0 => part = lot)
    <3>1. part.price = lot.price /\ part.qty = lot.qty - m
      BY <2>2 DEF Lot
    <3>2. m = 0 => part.qty = lot.qty
      BY <1>4, <3>1
    <3>3. part = [price |-> part.price, qty |-> part.qty] /\ lot = [price |-> lot.price, qty |-> lot.qty]
      BY DEF Lot
    <3>4. m = 0 => part = lot
      BY <3>1, <3>2, <3>3, Zenon
    <3> QED BY <1>4, <1>6, <3>1, <3>4
  <2>4. PICK v \in Seq(Lot) :
          /\ v = a.queue /\ Len(v) = Len(w) + 1 /\ Len(w) = k - d
          /\ \A j \in 1 .. Len(w) : v[j] = w[j]
          /\ v[Len(w) + 1] = part
    <3>1. a.queue = Append(w, part)
      BY <1>8, <1>11, <2>2
    <3>2. /\ Append(w, part) \in Seq(Lot) /\ Len(Append(w, part)) = Len(w) + 1
          /\ \A j \in 1 .. Len(w) : Append(w, part)[j] = w[j]
          /\ Append(w, part)[Len(w) + 1] = part
      BY AppendFacts
    <3>3. Len(w) = k - d
      BY <1>3 DEF Unsold
    <3> QED BY <3>1, <3>2, <3>3
  <2>5. Len(v) = (k + 1) - d
    BY <1>4, <2>4
  <2>6. ASSUME NEW j \in 2 .. (k + 1) - d
        PROVE  v[j] = q[d + j]
    <3>1. CASE j \in 2 .. k - d
      BY <1>3, <1>4, <2>4, <3>1 DEF Unsold
    <3>2. CASE j = (k + 1) - d
      <4>1. d < k
        BY <1>4, <3>2
      <4>2. v[j] = lot
        BY <1>3, <1>4, <2>1, <2>3, <2>4, <3>2, <4>1
      <4>3. d + j = k + 1
        BY <1>4, <3>2
      <4> QED BY <1>1, <4>2, <4>3
    <3>3. j \in 2 .. k - d \/ j = (k + 1) - d
      BY <1>4
    <3> QED BY <3>1, <3>2, <3>3
  <2>7. v[1].price = q[d + 1].price /\ v[1].qty <= q[d + 1].qty
    <3>1. CASE d < k
      <4>1. 1 \in 1 .. Len(w)
        BY <1>4, <2>4, <3>1
      <4> QED BY <1>3, <2>4, <3>1, <4>1 DEF Unsold
    <3>2. CASE d = k
      <4>1. v[1] = part
        BY <1>4, <2>4, <3>2
      <4> QED BY <1>1, <2>3, <3>2, <4>1
    <3> QED BY <3>1, <3>2
  <2>8. Unsold(v, q, k + 1, d)
    BY <2>5, <2>6, <2>7 DEF Unsold
  <2>9. d \in 0 .. k + 1
    OBVIOUS
  <2> QED BY <1>1, <1>7, <1>9, <2>1, <2>4, <2>8, <2>9 DEF Matched
<1> QED BY <1>10, <1>11

(* on_sell matches against the oldest lots first. *)
LEMMA SellIsFifo ==
    ASSUME NEW price \in Nat, NEW qty \in Nat, NEW q \in Seq(Lot)
    PROVE  /\ MatchSell(q, price, qty) \in Matching
           /\ Matched(MatchSell(q, price, qty), q, Len(q), qty)
<1>1. PICK n \in Nat : n = Len(q)
  OBVIOUS
<1>2. PICK p \in [0 .. n -> Matching] :
        /\ p[0] = Unmatched(qty)
        /\ \A k \in 1 .. n : p[k] = MatchLot(price, p[k - 1], q[k])
        /\ MatchSell(q, price, qty) = p[n]
  BY <1>1, MatchSellPath
<1> DEFINE T == {k \in 0 .. n : Matched(p[k], q, k, qty)}
<1>3. 0 \in T
  <2>1. Unsold(<< >>, q, 0, 0)
    BY DEF Unsold
  <2>2. Unmatched(qty).remaining = qty /\ Unmatched(qty).queue = << >>
    BY DEF Unmatched
  <2>3. Matched(Unmatched(qty), q, 0, qty)
    BY <2>1, <2>2 DEF Matched
  <2> QED BY <1>2, <2>3
<1>4. ASSUME NEW k \in 0 .. n, k \in T, k < n
      PROVE  k + 1 \in T
  <2>1. /\ k + 1 \in 1 .. n /\ k + 1 \in 0 .. n /\ (k + 1) - 1 = k
        /\ k \in Nat /\ k < Len(q) /\ p[k] \in Matching
    BY <1>1, <1>2, <1>4
  <2>2. Matched(MatchLot(price, p[k], q[k + 1]), q, k + 1, qty)
    BY <1>4, <2>1, MatchedStep
  <2> QED BY <1>2, <2>1, <2>2
<1>5. n \in T
  <2> HIDE DEF T
  <2>1. 0 .. n \subseteq T
    BY <1>3, <1>4, UpTo
  <2> QED BY <2>1
<1> QED BY <1>1, <1>2, <1>5

(***************************************************************************)
(* The money of a sale: what it takes out of the open position, at cost,   *)
(* is the price of the matched quantity less the profit.                   *)
(***************************************************************************)
LEMMA SellBalances ==
    ASSUME NEW price \in Nat, NEW qty \in Nat, NEW q \in Seq(Lot), NEW m, m = MatchSell(q, price, qty)
    PROVE  OpenNotional(m.queue) + price * (qty - m.remaining) = OpenNotional(q) + m.pnl
<1>1. PICK n \in Nat : n = Len(q) /\ DOMAIN q = 1 .. n /\ \A k \in 1 .. n : q[k] \in Lot
  OBVIOUS
<1>2. PICK p \in [0 .. n -> Matching] :
        /\ p[0] = Unmatched(qty)
        /\ \A k \in 1 .. n : p[k] = MatchLot(price, p[k - 1], q[k])
        /\ MatchSell(q, price, qty) = p[n]
  BY <1>1, MatchSellPath
<1>3. Values(q) \in Seq(Int) /\ Len(Values(q)) = n /\ \A k \in 1 .. n : Values(q)[k] = q[k].price * q[k].qty
  <2>1. Values(q) \in [1 .. n -> Int]
    BY <1>1 DEF Values, Lot
  <2>2. \A k \in 1 .. n : Values(q)[k] = q[k].price * q[k].qty
    BY <1>1 DEF Values
  <2> QED BY <2>1, <2>2, SeqOfInt
<1>4. PICK t \in [0 .. n -> Int] :
        /\ t[0] = 0
        /\ \A k \in 1 .. n : t[k] = t[k - 1] + q[k].price * q[k].qty
        /\ OpenNotional(q) = t[n]
  <2>1. OpenNotional(q) = Total(Values(q))
    BY DEF OpenNotional, Values
  <2> QED BY <1>3, <2>1, TotalPath
<1> DEFINE T == {k \in 0 .. n :
                   OpenNotional(p[k].queue) + price * (qty - p[k].remaining) = t[k] + p[k].pnl}
<1>5. 0 \in T
  BY <1>2, <1>4, OpenFew DEF Unmatched
<1>6. ASSUME NEW k \in 0 .. n, k \in T, k < n
      PROVE  k + 1 \in T
  <2>1. k + 1 \in 1 .. n /\ k + 1 \in 0 .. n /\ (k + 1) - 1 = k
    BY <1>6
  <2>2. PICK lot \in Lot : lot = q[k + 1]
    BY <1>1, <2>1
  <2>3. PICK lp \in Nat, lq \in Nat : lp = lot.price /\ lq = lot.qty
    BY DEF Lot
  <2>4. PICK acc \in Matching : acc = p[k]
    OBVIOUS
  <2>5. PICK r \in Nat, g \in Int, w \in Seq(Lot) :
          r = acc.remaining /\ g = acc.pnl /\ w = acc.queue
    BY DEF Matching
  <2>6. PICK c \in Nat : c = IF r <= lq THEN r ELSE lq
    OBVIOUS
  <2>7. PICK a : a = p[k + 1]
    OBVIOUS
  <2>8. a = MatchLot(price, acc, lot)
    BY <1>2, <2>1, <2>2, <2>4, <2>7
  <2>9. /\ a.remaining = r - c
        /\ a.pnl = g + (price - lp) * c
        /\ a.queue = IF c = lq THEN w ELSE Append(w, [lot EXCEPT !.qty = lq - c])
    BY <2>3, <2>5, <2>6, <2>8 DEF MatchLot
  <2>10. PICK x \in Int, y \in Int, v \in Int, u \in Int :
           x = OpenNotional(w) /\ y = OpenNotional(a.queue) /\ v = t[k] /\ u = t[k + 1]
    <3>1. OpenNotional(w) \in Int
      BY <2>2, OpenAppend
    <3>2. a.queue \in Seq(Lot)
      <4>1. p[k + 1] \in Matching
        BY <2>1
      <4> QED BY <2>7, <4>1 DEF Matching
    <3>3. OpenNotional(a.queue) \in Int
      BY <2>2, <3>2, OpenAppend
    <3>4. t[k] \in Int /\ t[k + 1] \in Int
      BY <2>1
    <3> QED BY <3>1, <3>3, <3>4
  <2>11. x + price * (qty - r) = v + g
    BY <1>6, <2>4, <2>5, <2>10
  <2>12. u = v + lp * lq
    BY <1>4, <2>1, <2>2, <2>3, <2>10
  <2>13. y = x + lp * (lq - c)
    <3>1. CASE c = lq
      BY <2>9, <2>10, <3>1
    <3>2. CASE c # lq
      <4>1. lq - c \in Nat \ {0}
        BY <2>6, <3>2
      <4>2. PICK part \in Lot : part = [lot EXCEPT !.qty = lq - c]
        BY <4>1 DEF Lot
      <4>3. part.price = lp /\ part.qty = lq - c
        BY <2>3, <4>2 DEF Lot
      <4>4. OpenNotional(Append(w, part)) = OpenNotional(w) + part.price * part.qty
        BY OpenAppend
      <4> QED BY <2>9, <2>10, <3>2, <4>2, <4>3, <4>4
    <3> QED BY <3>1, <3>2
  <2>14. y + price * (qty - (r - c)) = u + (g + (price - lp) * c)
    BY <2>11, <2>12, <2>13
  <2>15. OpenNotional(a.queue) + price * (qty - a.remaining) = t[k + 1] + a.pnl
    BY <2>9, <2>10, <2>14
  <2> QED BY <2>1, <2>7, <2>15
<1>7. n \in T
  <2> HIDE DEF T
  <2>1. 0 .. n \subseteq T
    BY <1>5, <1>6, UpTo
  <2> QED BY <2>1
<1> QED BY <1>2, <1>4, <1>7

-----------------------------------------------------------------------------
(***************************************************************************)
(* The account: its types, what is open as a suffix of what was bought,    *)
(* and books that balance.                                                 *)
(***************************************************************************)
FifoInv == \E d \in 0 .. Len(bought) : Unsold(buy_queue, bought, Len(bought), d)

AccountInv == AccountTypeOK /\ FifoInv /\ LedgerBalances

(* An account starts with its capital and no lot. *)
LEMMA AccountInitInv ==
    ASSUME AccountInit
    PROVE  AccountInv
<1>1. buy_queue = << >> /\ bought = << >> /\ cash = Capital * Cent /\ realized_pnl = 0
      /\ buy_notional = 0 /\ total_fees = 0 /\ Capital \in Nat /\ Cent = 10000
  BY AccountAssumption DEF AccountInit, Cent
<1>2. AccountTypeOK
  BY <1>1 DEF AccountTypeOK
<1>3. Unsold(buy_queue, bought, Len(bought), 0) /\ Len(bought) = 0
  BY <1>1 DEF Unsold
<1>4. LedgerBalances
  BY <1>1, OpenFew DEF LedgerBalances, Equity
<1> QED BY <1>2, <1>3, <1>4 DEF AccountInv, FifoInv

(* A step that leaves the account alone. *)
LEMMA AccountUnchanged ==
    ASSUME AccountInv, UNCHANGED accountVars
    PROVE  AccountInv'
BY DEF accountVars, AccountInv, AccountTypeOK, FifoInv, LedgerBalances, Equity

(* A buy: a new lot at the end, its cost out of the cash. *)
LEMMA BuyInv ==
    ASSUME AccountInv, NEW price \in Nat, NEW qty \in Nat \ {0}, OnBuy(price, qty)
    PROVE  AccountInv'
<1>1. PICK w \in Seq(Lot), b \in Seq(Lot), lot \in Lot :
        w = buy_queue /\ b = bought /\ lot = [price |-> price, qty |-> qty]
  BY DEF AccountInv, AccountTypeOK, Lot
<1>2. lot.price = price /\ lot.qty = qty
  BY <1>1
<1>3. buy_queue' = Append(w, lot) /\ bought' = Append(b, lot)
  BY <1>1 DEF OnBuy
<1>4. PICK n \in Nat, k \in Nat : n = Len(b) /\ k = Len(w)
  OBVIOUS
<1>5. /\ Append(w, lot) \in Seq(Lot) /\ Len(Append(w, lot)) = k + 1
      /\ \A j \in 1 .. k : Append(w, lot)[j] = w[j]
      /\ Append(w, lot)[k + 1] = lot
      /\ Append(b, lot) \in Seq(Lot) /\ Len(Append(b, lot)) = n + 1
      /\ \A j \in 1 .. n : Append(b, lot)[j] = b[j]
      /\ Append(b, lot)[n + 1] = lot
  BY <1>4, AppendFacts
<1>6. FifoInv'
  <2>1. PICK d \in 0 .. n : Unsold(w, b, n, d)
    BY <1>1, <1>4 DEF AccountInv, FifoInv
  <2>2. d \in Nat /\ k = n - d
    BY <1>4, <2>1 DEF Unsold
  <2>3. ASSUME NEW j \in 2 .. (n + 1) - d
        PROVE  Append(w, lot)[j] = Append(b, lot)[d + j]
    <3>1. CASE j = (n + 1) - d
      BY <1>5, <2>2, <3>1
    <3>2. CASE j # (n + 1) - d
      <4>1. j \in 2 .. n - d /\ j \in 1 .. k /\ d + j \in 1 .. n
        BY <2>2, <3>2
      <4> QED BY <1>5, <2>1, <4>1 DEF Unsold
    <3> QED BY <3>1, <3>2
  <2>4. Append(w, lot)[1].price = Append(b, lot)[d + 1].price
        /\ Append(w, lot)[1].qty <= Append(b, lot)[d + 1].qty
    <3>1. CASE d = n
      <4>1. Append(w, lot)[1] = lot /\ Append(b, lot)[d + 1] = lot
        BY <1>5, <2>2, <3>1
      <4> QED BY <1>2, <4>1
    <3>2. CASE d # n
      <4>1. d < n /\ 1 \in 1 .. k /\ d + 1 \in 1 .. n
        BY <2>2, <3>2
      <4> QED BY <1>5, <2>1, <4>1 DEF Unsold
    <3> QED BY <3>1, <3>2
  <2>5. PICK v, c : v = Append(w, lot) /\ c = Append(b, lot)
    OBVIOUS
  <2>6. Len(v) = (n + 1) - d
    BY <1>5, <2>2, <2>5
  <2>7. Unsold(v, c, n + 1, d)
    BY <2>3, <2>4, <2>5, <2>6 DEF Unsold
  <2>8. d \in 0 .. n + 1
    BY <2>2
  <2> QED BY <1>3, <1>5, <2>5, <2>7, <2>8 DEF FifoInv
<1>7. PICK x \in Nat : x = price * qty
  OBVIOUS
<1>8. /\ cash' = cash - x * (Cent + FeeBp) /\ total_fees' = total_fees + x * FeeBp
      /\ buy_notional' = buy_notional + x /\ realized_pnl' = realized_pnl
  BY <1>7 DEF OnBuy
<1>9. /\ cash \in Int /\ total_fees \in Nat /\ buy_notional \in Nat /\ realized_pnl \in Int
      /\ FeeBp \in Nat /\ Capital \in Nat /\ Cent = 10000
  BY AccountAssumption DEF AccountInv, AccountTypeOK, Cent
<1>10. AccountTypeOK'
  <2>1. x * FeeBp \in Nat /\ x * (Cent + FeeBp) \in Nat
    BY <1>9
  <2>2. cash' \in Int /\ total_fees' \in Nat /\ buy_notional' \in Nat /\ realized_pnl' \in Int
    BY <1>8, <1>9, <2>1
  <2>3. buy_queue' \in Seq(Lot) /\ bought' \in Seq(Lot)
    BY <1>3, <1>5
  <2> QED BY <2>2, <2>3 DEF AccountTypeOK
<1>11. LedgerBalances'
  <2>1. PICK v \in Int : v = OpenNotional(w) /\ OpenNotional(buy_queue') = v + x
    BY <1>2, <1>3, <1>7, OpenAppend
  <2>2. cash + v * Cent = (Capital + realized_pnl) * Cent - total_fees
    BY <1>1, <2>1 DEF AccountInv, LedgerBalances, Equity
  <2>3. cash' + (v + x) * Cent = (Capital + realized_pnl') * Cent - total_fees'
    BY <1>8, <1>9, <2>2
  <2> QED BY <2>1, <2>3 DEF LedgerBalances, Equity
<1> QED BY <1>6, <1>10, <1>11 DEF AccountInv

(* A sell: the oldest lots first, cash for what was matched. *)
LEMMA SellInv ==
    ASSUME AccountInv, NEW price \in Nat, NEW qty \in Nat, OnSell(price, qty)
    PROVE  AccountInv'
<1>1. PICK w \in Seq(Lot), b \in Seq(Lot) : w = buy_queue /\ b = bought
  BY DEF AccountInv, AccountTypeOK
<1>2. PICK m : m = MatchSell(w, price, qty)
  OBVIOUS
<1>3. m \in Matching /\ Matched(m, w, Len(w), qty)
  BY <1>2, SellIsFifo
<1>4. PICK r \in Nat, g \in Int, v \in Seq(Lot) : r = m.remaining /\ g = m.pnl /\ v = m.queue
  BY <1>3 DEF Matching
<1>5. PICK matched \in Nat : matched = qty - r
  <2>1. r <= qty
    BY <1>3, <1>4 DEF Matched
  <2> QED BY <2>1
<1>6. /\ buy_queue' = v /\ bought' = b /\ realized_pnl' = realized_pnl + g
      /\ buy_notional' = buy_notional
      /\ cash' = cash + price * matched * (Cent - FeeBp)
      /\ total_fees' = total_fees + price * matched * FeeBp
  BY <1>1, <1>2, <1>4, <1>5 DEF OnSell
<1>7. /\ cash \in Int /\ total_fees \in Nat /\ buy_notional \in Nat /\ realized_pnl \in Int
      /\ FeeBp \in Nat /\ Capital \in Nat /\ Cent = 10000
  BY AccountAssumption DEF AccountInv, AccountTypeOK, Cent
<1>8. PICK x \in Nat : x = price * matched
  OBVIOUS
<1>9. AccountTypeOK'
  <2>1. x * FeeBp \in Nat /\ x * (Cent - FeeBp) \in Int
    BY <1>7
  <2> QED BY <1>1, <1>6, <1>7, <1>8, <2>1 DEF AccountTypeOK
<1>10. FifoInv'
  <2>1. PICK n \in Nat, k \in Nat : n = Len(b) /\ k = Len(w)
    OBVIOUS
  <2>2. PICK d \in 0 .. n : Unsold(w, b, n, d)
    BY <1>1, <2>1 DEF AccountInv, FifoInv
  <2>3. PICK e \in 0 .. k : Unsold(v, w, k, e)
    BY <1>3, <1>4, <2>1 DEF Matched
  <2>4. d \in Nat /\ e \in Nat /\ k = n - d /\ d + e \in 0 .. n /\ k - e = n - (d + e)
    BY <2>1, <2>2, <2>3 DEF Unsold
  <2>5. Len(v) = n - (d + e)
    BY <2>3, <2>4 DEF Unsold
  <2>6. ASSUME NEW j \in 2 .. n - (d + e)
        PROVE  v[j] = b[(d + e) + j]
    <3>1. j \in 2 .. k - e /\ e + j \in 2 .. n - d /\ d + (e + j) = (d + e) + j
      BY <2>4
    <3>2. v[j] = w[e + j]
      BY <2>3, <3>1 DEF Unsold
    <3>3. w[e + j] = b[d + (e + j)]
      BY <2>2, <3>1 DEF Unsold
    <3> QED BY <3>1, <3>2, <3>3
  <2>7. ASSUME d + e < n
        PROVE  v[1].price = b[(d + e) + 1].price /\ v[1].qty <= b[(d + e) + 1].qty
    <3>1. v[1].price = w[e + 1].price /\ v[1].qty <= w[e + 1].qty
      BY <2>3, <2>4, <2>7 DEF Unsold
    <3>2. w[e + 1].price = b[(d + e) + 1].price /\ w[e + 1].qty <= b[(d + e) + 1].qty
      <4>1. CASE e = 0
        BY <2>2, <2>4, <2>7, <4>1 DEF Unsold
      <4>2. CASE e # 0
        <5>1. e + 1 \in 2 .. n - d /\ d + (e + 1) = (d + e) + 1
          BY <2>4, <2>7, <4>2
        <5>2. w[e + 1] = b[(d + e) + 1]
          BY <2>2, <5>1 DEF Unsold
        <5>3. w[e + 1].qty \in Nat
          <6>1. e + 1 \in 1 .. Len(w)
            BY <2>1, <2>4, <5>1
          <6>2. w[e + 1] \in Lot
            BY <6>1
          <6> QED BY <6>2 DEF Lot
        <5> QED BY <5>2, <5>3
      <4> QED BY <4>1, <4>2
    <3>3. v[1].qty \in Nat /\ w[e + 1].qty \in Nat /\ b[(d + e) + 1].qty \in Nat
      <4>1. 1 \in 1 .. Len(v) /\ e + 1 \in 1 .. Len(w) /\ (d + e) + 1 \in 1 .. Len(b)
        BY <2>1, <2>4, <2>5, <2>7
      <4>2. v[1] \in Lot /\ w[e + 1] \in Lot /\ b[(d + e) + 1] \in Lot
        BY <4>1
      <4> QED BY <4>2 DEF Lot
    <3> QED BY <3>1, <3>2, <3>3, SMTT(30)
  <2>8. Unsold(v, b, n, d + e)
    BY <2>5, <2>6, <2>7 DEF Unsold
  <2> QED BY <1>6, <2>1, <2>4, <2>8 DEF FifoInv
<1>11. LedgerBalances'
  <2>1. OpenNotional(v) + x = OpenNotional(w) + g
    BY <1>2, <1>4, <1>5, <1>8, SellBalances
  <2>2. PICK y \in Int, z \in Int : y = OpenNotional(w) /\ z = OpenNotional(v)
    <3>1. [price |-> 0, qty |-> 1] \in Lot
      BY DEF Lot
    <3> QED BY <3>1, OpenAppend
  <2>3. cash + y * Cent = (Capital + realized_pnl) * Cent - total_fees
    BY <1>1, <2>2 DEF AccountInv, LedgerBalances, Equity
  <2>4. PICK f \in Nat : f = x * FeeBp
    BY <1>7
  <2>5. x * (Cent - FeeBp) = x * 10000 - f
    BY <1>7, <2>4
  <2>6. cash' = cash + (x * 10000 - f) /\ total_fees' = total_fees + f
    BY <1>6, <1>8, <2>4, <2>5
  <2>7. z + x = y + g
    BY <2>1, <2>2
  <2>8. cash' + z * Cent = (Capital + realized_pnl') * Cent - total_fees'
    BY <1>6, <1>7, <2>3, <2>6, <2>7
  <2> QED BY <1>6, <2>2, <2>8 DEF LedgerBalances, Equity
<1> QED BY <1>9, <1>10, <1>11 DEF AccountInv

(* A suffix of the buys, the first of it perhaps in part, is FIFO. *)
LEMMA FifoInvImplies ==
    ASSUME AccountInv
    PROVE  FifoOrder
<1>1. PICK w \in Seq(Lot), b \in Seq(Lot) : w = buy_queue /\ b = bought
  BY DEF AccountInv, AccountTypeOK
<1>2. PICK n \in Nat, k \in Nat : n = Len(b) /\ k = Len(w)
  OBVIOUS
<1>3. PICK d \in 0 .. n : Unsold(w, b, n, d)
  BY <1>1, <1>2 DEF AccountInv, FifoInv
<1>4. CASE w = << >>
  BY <1>1, <1>4 DEF FifoOrder
<1>5. CASE w # << >>
  <2>1. k = n - d /\ d \in Nat /\ k >= 1 /\ d < n
    BY <1>2, <1>3, <1>5 DEF Unsold
  <2>2. n - k + 1 = d + 1
    BY <2>1
  <2>3. Head(w) = w[1]
    BY <1>5
  <2>4. Tail(w) = SubSeq(b, (d + 1) + 1, n)
    <3>1. Tail(w) \in Seq(Lot) /\ Len(Tail(w)) = k - 1
          /\ \A j \in 1 .. k - 1 : Tail(w)[j] = w[j + 1]
      BY <1>2, <1>5
    <3>2. /\ SubSeq(b, (d + 1) + 1, n) \in Seq(Lot)
          /\ Len(SubSeq(b, (d + 1) + 1, n)) = n - (d + 1)
          /\ \A j \in 1 .. n - (d + 1) : SubSeq(b, (d + 1) + 1, n)[j] = b[(d + 1) + j]
      BY <1>2, <2>1
    <3>3. k - 1 = n - (d + 1)
      BY <2>1
    <3>4. ASSUME NEW j \in 1 .. k - 1
          PROVE  Tail(w)[j] = SubSeq(b, (d + 1) + 1, n)[j]
      <4>1. j + 1 \in 2 .. n - d /\ d + (j + 1) = (d + 1) + j
        BY <2>1
      <4>2. w[j + 1] = b[(d + 1) + j]
        BY <1>3, <4>1 DEF Unsold
      <4> QED BY <3>1, <3>2, <3>3, <4>2
    <3>5. Tail(w) = [j \in 1 .. k - 1 |-> Tail(w)[j]]
      BY <3>1, SeqIsFunction
    <3>6. SubSeq(b, (d + 1) + 1, n)
            = [j \in 1 .. k - 1 |-> SubSeq(b, (d + 1) + 1, n)[j]]
      BY <3>2, <3>3, SeqIsFunction
    <3> QED BY <3>4, <3>5, <3>6, Zenon
  <2>5. Head(w).price = b[d + 1].price /\ Head(w).qty <= b[d + 1].qty
    BY <1>3, <2>1, <2>3 DEF Unsold
  <2> QED BY <1>1, <1>2, <2>1, <2>2, <2>4, <2>5 DEF FifoOrder
<1> QED BY <1>4, <1>5

-----------------------------------------------------------------------------
(* The kill switch starts well-formed, and every step of it keeps it so. *)
LEMMA KillSwitchInitType ==
    ASSUME KillSwitchInit
    PROVE  KillSwitchTypeOK
<1>1. halt_file \in BOOLEAN /\ halt_flag \in BOOLEAN /\ demanded \in BOOLEAN
  BY Zenon DEF KillSwitchInit
<1>2. {halt_file, halt_flag, demanded} \subseteq BOOLEAN
  BY <1>1, Zenon
<1>3. /\ poll \in {"asleep", "exists", "absent"}
      /\ request \in [Request -> {"new", "halting", "resuming", "done"}]
      /\ shell \in 0 .. MaxShell /\ fsFail \in 0 .. MaxFsFail
  BY KillSwitchAssumption DEF KillSwitchInit
<1> QED BY <1>2, <1>3, Zenon DEF KillSwitchTypeOK

(* Any step of the poller, a handler or the shell. *)
LEMMA KillSwitchNextType ==
    ASSUME KillSwitchTypeOK, KillSwitchNext
    PROVE  KillSwitchTypeOK'
<1>1. /\ halt_file \in BOOLEAN /\ halt_flag \in BOOLEAN /\ demanded \in BOOLEAN
      /\ TRUE \in BOOLEAN /\ FALSE \in BOOLEAN
  BY Zenon DEF KillSwitchTypeOK
<1>2. /\ poll \in {"asleep", "exists", "absent"}
      /\ request \in [Request -> {"new", "halting", "resuming", "done"}]
      /\ shell \in 0 .. MaxShell /\ fsFail \in 0 .. MaxFsFail
      /\ MaxShell \in Nat /\ MaxFsFail \in Nat
  BY KillSwitchAssumption DEF KillSwitchTypeOK
<1>3. ASSUME NEW b \in BOOLEAN, SetFile(b)
      PROVE  halt_file' \in BOOLEAN /\ demanded' \in BOOLEAN /\ fsFail' \in 0 .. MaxFsFail
  <2>1. halt_file' \in BOOLEAN /\ demanded' \in BOOLEAN
    BY <1>1, <1>3, Zenon DEF SetFile
  <2>2. fsFail' \in 0 .. MaxFsFail
    BY <1>2, <1>3 DEF SetFile
  <2> QED BY <2>1, <2>2, Zenon
<1>4. halt_file' \in BOOLEAN /\ demanded' \in BOOLEAN
  BY <1>1, <1>3, Zenon DEF KillSwitchNext, Poller, PollRead, PollStore, HaltWrites, HaltStores,
    ResumeRemoves, ResumeStores, Handler, Shell
<1>5. halt_flag' \in BOOLEAN
  <2>1. (poll = "exists") \in BOOLEAN
    BY Zenon
  <2> QED BY <1>1, <2>1, Zenon DEF KillSwitchNext, Poller, PollRead, PollStore, HaltWrites,
    HaltStores, ResumeRemoves, ResumeStores, Handler, Shell
<1>6. poll' \in {"asleep", "exists", "absent"}
  BY <1>2 DEF KillSwitchNext, Poller, PollRead, PollStore, HaltWrites, HaltStores,
    ResumeRemoves, ResumeStores, Handler, Shell
<1>7. request' \in [Request -> {"new", "halting", "resuming", "done"}]
  BY <1>2 DEF KillSwitchNext, Poller, PollRead, PollStore, HaltWrites, HaltStores,
    ResumeRemoves, ResumeStores, Handler, Shell
<1>8. shell' \in 0 .. MaxShell
  <2>1. shell' = shell \/ (shell > 0 /\ shell' = shell - 1)
    BY Zenon DEF KillSwitchNext, Poller, PollRead, PollStore, HaltWrites, HaltStores,
      ResumeRemoves, ResumeStores, Handler, Shell
  <2> QED BY <1>2, <2>1
<1>9. fsFail' \in 0 .. MaxFsFail
  <2>1. (\E b \in BOOLEAN : SetFile(b)) \/ UNCHANGED fsFail
    BY <1>1, Zenon DEF KillSwitchNext, Poller, PollRead, PollStore, HaltWrites, HaltStores,
      ResumeRemoves, ResumeStores, Handler, Shell
  <2> QED BY <1>2, <1>3, <2>1, Zenon
<1>10. {halt_file', halt_flag', demanded'} \subseteq BOOLEAN
  BY <1>4, <1>5, Zenon
<1> QED BY <1>6, <1>7, <1>8, <1>9, <1>10, Zenon DEF KillSwitchTypeOK

(* A step that leaves the kill switch alone. *)
LEMMA KillSwitchUnchanged ==
    ASSUME KillSwitchTypeOK, UNCHANGED killVars
    PROVE  KillSwitchTypeOK'
BY Zenon DEF KillSwitchTypeOK, killVars

-----------------------------------------------------------------------------
(* How sequences are put together. *)
LEMMA ConcatType ==
    ASSUME NEW S, NEW a \in Seq(S), NEW b \in Seq(S)
    PROVE  /\ a \o b \in Seq(S)
           /\ Len(a) \in Nat /\ Len(b) \in Nat /\ Len(a \o b) = Len(a) + Len(b)
           /\ a \o << >> = a /\ << >> \o a = a
<1>1. a \o b \in Seq(S) /\ Len(a \o b) = Len(a) + Len(b)
  OBVIOUS
<1>2. a \o << >> = a /\ << >> \o a = a
  OBVIOUS
<1> QED BY <1>1, <1>2

(* ... in any order. *)
LEMMA ConcatAssoc ==
    ASSUME NEW S, NEW a \in Seq(S), NEW b \in Seq(S), NEW c \in Seq(S)
    PROVE  (a \o b) \o c = a \o (b \o c)
OBVIOUS

(* A sequence of at most one element. *)
LEMMA OneElement ==
    ASSUME NEW S, NEW a \in Seq(S), Len(a) <= 1, a # << >>
    PROVE  a = <<a[1]>> /\ a[1] \in S
OBVIOUS

(***************************************************************************)
(* An order on its way asks for at least one step.  The three places it    *)
(* can be in, and what the executor keeps.                                 *)
(***************************************************************************)
StandingOrder == {o \in ValidatedOrder : o.signal.qty > 0}

FlightTypeOK ==
    /\ outbox \in Seq(StandingOrder) /\ Len(outbox) <= 1
    /\ executing \in Seq(StandingOrder) /\ Len(executing) <= 1
    /\ orders \in Seq(StandingOrder) /\ Len(orders) <= OrderCap
    /\ filled \in BOOLEAN
    /\ cash_bits \in Int

(* Only an order under execution is filled; before, the mirror is exact. *)
MirrorInv ==
    /\ filled => executing # << >>
    /\ ~filled => cash_bits = cash

(* The orders on their way are bounded by what the three places hold. *)
LEMMA FlightBounded ==
    ASSUME FlightTypeOK
    PROVE  InFlight \in Seq(StandingOrder) /\ Len(InFlight) <= OrderCap + 2
<1>1. PICK x : x = IF filled THEN << >> ELSE executing
  OBVIOUS
<1>2. x \in Seq(StandingOrder) /\ Len(x) <= 1
  <2>1. x = << >> \/ x = executing
    BY <1>1, Zenon
  <2>2. << >> \in Seq(StandingOrder) /\ Len(<< >>) <= 1
    OBVIOUS
  <2>3. executing \in Seq(StandingOrder) /\ Len(executing) <= 1
    BY DEF FlightTypeOK
  <2> QED BY <2>1, <2>2, <2>3, Zenon
<1>3. InFlight = (x \o orders) \o outbox
  BY <1>1, Zenon DEF InFlight
<1>4. /\ OrderCap \in Nat /\ orders \in Seq(StandingOrder) /\ outbox \in Seq(StandingOrder)
      /\ Len(orders) <= OrderCap /\ Len(outbox) <= 1
  BY TradingAssumption DEF FlightTypeOK
<1>5. PICK s \in Seq(StandingOrder) : s = x \o orders /\ Len(s) = Len(x) + Len(orders)
  <2>1. x \o orders \in Seq(StandingOrder) /\ Len(x \o orders) = Len(x) + Len(orders)
    BY <1>2, <1>4, ConcatType
  <2> QED BY <2>1
<1>6. s \o outbox \in Seq(StandingOrder) /\ Len(s \o outbox) = Len(s) + Len(outbox)
  BY <1>4, ConcatType
<1> QED BY <1>2, <1>3, <1>4, <1>5, <1>6

(* The send, the take and the mirroring of the cash move no order past another. *)
LEMMA SendFlight ==
    ASSUME FlightTypeOK, SendOrder
    PROVE  FlightTypeOK' /\ InFlight' = InFlight
<1>1. /\ orders' = orders \o outbox /\ outbox' = << >> /\ Len(orders) < OrderCap
      /\ executing' = executing /\ cash_bits' = cash_bits /\ OrderCap \in Nat
  BY TradingAssumption DEF SendOrder
<1>2. filled' = filled
  BY Zenon DEF SendOrder
<1>3. PICK x \in Seq(StandingOrder) : x = IF filled THEN << >> ELSE executing
  <2>1. << >> \in Seq(StandingOrder) /\ executing \in Seq(StandingOrder)
    BY DEF FlightTypeOK
  <2> QED BY <2>1, Zenon
<1>4. InFlight = (x \o orders) \o outbox
  BY <1>3, Zenon DEF InFlight
<1>5. InFlight' = (x \o (orders \o outbox)) \o << >>
  BY <1>1, <1>2, <1>3, Zenon DEF InFlight
<1>6. orders \in Seq(StandingOrder) /\ outbox \in Seq(StandingOrder)
  BY DEF FlightTypeOK
<1>7. InFlight' = InFlight
  <2>1. orders \o outbox \in Seq(StandingOrder)
    BY <1>6, ConcatType
  <2>2. x \o (orders \o outbox) \in Seq(StandingOrder)
    BY <2>1, ConcatType
  <2>3. (x \o (orders \o outbox)) \o << >> = x \o (orders \o outbox)
    BY <2>2, ConcatType
  <2>4. (x \o orders) \o outbox = x \o (orders \o outbox)
    BY <1>6, ConcatAssoc
  <2> QED BY <1>4, <1>5, <2>3, <2>4, Zenon
<1>8. FlightTypeOK'
  <2>1. orders' \in Seq(StandingOrder) /\ Len(orders') <= OrderCap
    BY <1>1, <1>6 DEF FlightTypeOK
  <2>2. outbox' \in Seq(StandingOrder) /\ Len(outbox') <= 1
    BY <1>1
  <2>3. filled' \in BOOLEAN
    BY <1>2, Zenon DEF FlightTypeOK
  <2> QED BY <1>1, <2>1, <2>2, <2>3 DEF FlightTypeOK
<1> QED BY <1>7, <1>8

(* The executor takes the order at the head of the channel. *)
LEMMA TakeFlight ==
    ASSUME FlightTypeOK, MirrorInv, TakeOrder
    PROVE  FlightTypeOK' /\ InFlight' = InFlight /\ ~filled
<1>1. /\ executing = << >> /\ orders # << >> /\ executing' = <<Head(orders)>>
      /\ orders' = Tail(orders) /\ outbox' = outbox /\ cash_bits' = cash_bits
  BY DEF TakeOrder
<1>2. ~filled /\ filled' = FALSE
  BY <1>1, Zenon DEF TakeOrder, MirrorInv
<1>3. InFlight = (executing \o orders) \o outbox
  BY <1>2, Zenon DEF InFlight
<1>4. InFlight' = (executing' \o orders') \o outbox'
  BY <1>2, Zenon DEF InFlight
<1>5. orders \in Seq(StandingOrder) /\ outbox \in Seq(StandingOrder)
  BY DEF FlightTypeOK
<1>6. /\ <<Head(orders)>> \in Seq(StandingOrder) /\ Tail(orders) \in Seq(StandingOrder)
      /\ <<Head(orders)>> \o Tail(orders) = orders /\ << >> \o orders = orders
      /\ Len(Tail(orders)) <= Len(orders) /\ Len(<<Head(orders)>>) = 1
  BY <1>1, <1>5
<1>7. InFlight' = InFlight
  BY <1>1, <1>3, <1>4, <1>6
<1>8. FlightTypeOK'
  <2>1. Len(orders') <= OrderCap
    BY <1>1, <1>5, <1>6, TradingAssumption DEF FlightTypeOK
  <2>2. filled' \in BOOLEAN
    BY <1>2, Zenon
  <2> QED BY <1>1, <1>6, <2>1, <2>2 DEF FlightTypeOK
<1> QED BY <1>2, <1>7, <1>8

(* The order that is filled is the oldest one on its way. *)
LEMMA FillFlight ==
    ASSUME FlightTypeOK, FillOrder
    PROVE  /\ FlightTypeOK'
           /\ InFlight # << >> /\ InFlight' = Tail(InFlight)
           /\ executing[1] = Head(InFlight) /\ executing[1] \in StandingOrder
           /\ filled' = TRUE /\ ~filled /\ executing' # << >>
<1>1. executing # << >> /\ executing' = executing /\ orders' = orders /\ outbox' = outbox
      /\ cash_bits' = cash_bits
  BY DEF FillOrder
<1>2. ~filled /\ filled' = TRUE
  BY Zenon DEF FillOrder
<1>3. InFlight = (executing \o orders) \o outbox
  BY <1>2, Zenon DEF InFlight
<1>4. InFlight' = (<< >> \o orders) \o outbox
  BY <1>1, <1>2, Zenon DEF InFlight
<1>5. /\ executing \in Seq(StandingOrder) /\ Len(executing) <= 1
      /\ orders \in Seq(StandingOrder) /\ outbox \in Seq(StandingOrder)
  BY DEF FlightTypeOK
<1>6. PICK x \in StandingOrder : executing = <<x>>
  <2>1. executing = <<executing[1]>> /\ executing[1] \in StandingOrder
    BY <1>1, <1>5, OneElement
  <2> QED BY <2>1
<1>7. PICK s \in Seq(StandingOrder) : s = orders \o outbox
  BY <1>5, ConcatType
<1>8. InFlight = <<x>> \o s /\ InFlight' = s
  <2>1. (<<x>> \o orders) \o outbox = <<x>> \o s
    BY <1>5, <1>7, ConcatAssoc
  <2>2. << >> \o orders = orders
    BY <1>5, ConcatType
  <2> QED BY <1>3, <1>4, <1>6, <1>7, <2>1, <2>2, Zenon
<1>9. <<x>> \o s # << >> /\ Tail(<<x>> \o s) = s /\ Head(<<x>> \o s) = x
  OBVIOUS
<1>10. FlightTypeOK'
  <2>1. filled' \in BOOLEAN
    BY <1>2, Zenon
  <2> QED BY <1>1, <2>1 DEF FlightTypeOK
<1> QED BY <1>1, <1>2, <1>6, <1>8, <1>9, <1>10

(* The executor is done with a filled order. *)
LEMMA MirrorFlight ==
    ASSUME FlightTypeOK, cash \in Int, MirrorCash
    PROVE  FlightTypeOK' /\ InFlight' = InFlight /\ filled' = FALSE /\ cash_bits' = cash
<1>1. executing' = << >> /\ orders' = orders /\ outbox' = outbox /\ cash_bits' = cash
  BY DEF MirrorCash
<1>2. filled /\ filled' = FALSE
  BY Zenon DEF MirrorCash
<1>3. InFlight' = InFlight
  BY <1>1, <1>2, Zenon DEF InFlight
<1>4. FlightTypeOK'
  <2>1. filled' \in BOOLEAN
    BY <1>2, Zenon
  <2>2. << >> \in Seq(StandingOrder) /\ Len(<< >>) <= 1
    OBVIOUS
  <2> QED BY <1>1, <2>1, <2>2 DEF FlightTypeOK
<1> QED BY <1>1, <1>2, <1>3, <1>4

(* An approved order joins those on their way at the end. *)
LEMMA ApproveFlight ==
    ASSUME FlightTypeOK, NEW o \in StandingOrder, outbox = << >>, outbox' = <<o>>,
           UNCHANGED execVars
    PROVE  FlightTypeOK' /\ InFlight' = Append(InFlight, o) /\ Len(InFlight) < OrderCap + 2
<1>1. executing' = executing /\ orders' = orders /\ cash_bits' = cash_bits
  BY DEF execVars
<1>2. filled' = filled
  BY Zenon DEF execVars
<1>3. PICK x \in Seq(StandingOrder) : x = (IF filled THEN << >> ELSE executing) /\ Len(x) <= 1
  <2>1. << >> \in Seq(StandingOrder) /\ executing \in Seq(StandingOrder) /\ Len(executing) <= 1
        /\ Len(<< >>) <= 1
    BY DEF FlightTypeOK
  <2> QED BY <2>1, Zenon
<1>4. InFlight = (x \o orders) \o << >>
  BY <1>3, Zenon DEF InFlight
<1>5. InFlight' = (x \o orders) \o <<o>>
  BY <1>1, <1>2, <1>3, Zenon DEF InFlight
<1>6. orders \in Seq(StandingOrder) /\ Len(orders) <= OrderCap /\ OrderCap \in Nat
  BY TradingAssumption DEF FlightTypeOK
<1>7. PICK s \in Seq(StandingOrder) : s = x \o orders /\ Len(s) < OrderCap + 2
  <2>1. x \o orders \in Seq(StandingOrder) /\ Len(x \o orders) = Len(x) + Len(orders)
    BY <1>6, ConcatType
  <2>2. Len(x) \in Nat /\ Len(orders) \in Nat
    BY <1>6
  <2>3. Len(x) + Len(orders) < OrderCap + 2
    BY <1>3, <1>6, <2>2
  <2> QED BY <2>1, <2>3
<1>8. InFlight = s /\ InFlight' = Append(s, o)
  <2>1. s \o << >> = s
    BY ConcatType
  <2>2. s \o <<o>> = Append(s, o)
    OBVIOUS
  <2> QED BY <1>4, <1>5, <1>7, <2>1, <2>2, Zenon
<1>9. FlightTypeOK'
  <2>1. filled' \in BOOLEAN
    BY <1>2, Zenon DEF FlightTypeOK
  <2>2. <<o>> \in Seq(StandingOrder) /\ Len(<<o>>) <= 1
    OBVIOUS
  <2> QED BY <1>1, <2>1, <2>2 DEF FlightTypeOK
<1> QED BY <1>7, <1>8, <1>9

(* A step elsewhere. *)
LEMMA FlightUnchanged ==
    ASSUME FlightTypeOK, UNCHANGED <<outbox, execVars>>
    PROVE  FlightTypeOK' /\ InFlight' = InFlight
<1>1. executing' = executing /\ orders' = orders /\ cash_bits' = cash_bits /\ outbox' = outbox
  BY DEF execVars
<1>2. filled' = filled
  BY Zenon DEF execVars
<1>3. InFlight' = InFlight
  BY <1>1, <1>2, Zenon DEF InFlight
<1>4. filled' \in BOOLEAN
  BY <1>2, Zenon DEF FlightTypeOK
<1> QED BY <1>1, <1>3, <1>4 DEF FlightTypeOK

-----------------------------------------------------------------------------
(***************************************************************************)
(* The inductive invariant of Trading: what each part keeps, the mirror of *)
(* the cash and the count of late fills.                                   *)
(***************************************************************************)
LateInv == late \in Nat /\ (~halt_flag => late = 0) /\ LateFillsBounded

HistoryTypeOK == excused \in BOOLEAN /\ overlapped \in BOOLEAN

TradingInv ==
    /\ RiskInv(Nat) /\ StrategyInv /\ KillSwitchTypeOK /\ AccountInv
    /\ FlightTypeOK /\ MirrorInv /\ LateInv /\ HistoryTypeOK

(* What a live update of the book can lead to. *)
HoldsOn(q) == SignalOf(q) = NoSignal /\ UNCHANGED <<now, riskVars, outbox, checkHistory>>

RejectsOn(sig, q) ==
    /\ sig = SignalOf(q)
    /\ \/ RejectLimits(sig, q.bid, cash_bits, halt_flag)
       \/ RejectRate(sig, q.bid, cash_bits, halt_flag)
    /\ excused' = (excused \/ (sig.side = "Sell" /\ MayReject(sig, q.bid)))
    /\ UNCHANGED <<outbox, overlapped>>

ApprovesOn(o, q) ==
    /\ o.signal = SignalOf(q)
    /\ o.client_order_id = Len(approved) + 1
    /\ Approve(o.signal, q.bid, cash_bits, halt_flag, o.client_order_id)
    /\ outbox = << >> /\ outbox' = <<o>>
    /\ overlapped' = (overlapped \/ (o.signal.side = "Buy" /\ UnderWay))
    /\ UNCHANGED excused

(* The three of them are all. *)
LEMMA OnOrderbookCases ==
    ASSUME RiskInv(Nat), StrategyInv, NEW q, Priced(q), OnOrderbook(q)
    PROVE  \/ HoldsOn(q)
           \/ \E sig \in Signal : RejectsOn(sig, q)
           \/ \E o \in StandingOrder : ApprovesOn(o, q)
<1>1. CASE SignalOf(q) = NoSignal
  BY <1>1 DEF OnOrderbook, HoldsOn
<1>2. CASE SignalOf(q) # NoSignal
  <2>1. PICK sig \in Signal : sig = SignalOf(q) /\ sig.qty > 0
    BY <1>2, SignalType
  <2>2. Submit(sig, q.bid) /\ outbox = << >>
    BY <1>2, <2>1 DEF OnOrderbook
  <2>3. PICK id \in Nat : id = Len(approved) + 1
    BY RiskBounds
  <2>4. PICK o : o = [signal |-> sig, client_order_id |-> id]
    OBVIOUS
  <2>5. o \in StandingOrder /\ o.signal = sig /\ o.client_order_id = id
    BY <2>1, <2>4 DEF StandingOrder, ValidatedOrder
  <2>6. RejectsOn(sig, q) \/ ApprovesOn(o, q)
    BY <2>1, <2>2, <2>3, <2>4, <2>5, Zenon DEF Submit, RejectsOn, ApprovesOn
  <2> QED BY <2>1, <2>5, <2>6
<1> QED BY <1>1, <1>2

(* The bound on late fills when a step keeps or loses orders on their way. *)
LEMMA LateUnchanged ==
    ASSUME FlightTypeOK, LateInv, late' = late, halt_flag' = halt_flag, InFlight' = InFlight
    PROVE  LateInv'
BY DEF LateInv, LateFillsBounded

(* The check and the send of one signal. *)
LEMMA OnOrderbookInv ==
    ASSUME TradingInv, NEW q, Priced(q), OnOrderbook(q)
    PROVE  TradingInv'
<1>1. /\ RiskInv(Nat) /\ StrategyInv /\ KillSwitchTypeOK /\ AccountInv
      /\ FlightTypeOK /\ MirrorInv /\ LateInv /\ HistoryTypeOK
  BY DEF TradingInv
<1>2. Asked(q) /\ UNCHANGED <<accountVars, killVars, execVars, fills, late>>
  BY DEF OnOrderbook
<1>3. StrategyInv' /\ AccountInv' /\ KillSwitchTypeOK'
  BY <1>1, <1>2, AskedInv, AccountUnchanged, KillSwitchUnchanged
<1>4. MirrorInv' /\ cash_bits' = cash_bits
  <2>1. filled' = filled
    BY <1>2, Zenon DEF execVars
  <2>2. cash' = cash /\ cash_bits' = cash_bits /\ executing' = executing
    BY <1>2 DEF accountVars, execVars
  <2> QED BY <1>1, <2>1, <2>2, Zenon DEF MirrorInv
<1>5. halt_flag' = halt_flag /\ late' = late
  BY <1>2, Zenon DEF killVars
<1>6. CASE HoldsOn(q)
  <2>1. FlightTypeOK' /\ InFlight' = InFlight
    BY <1>1, <1>2, <1>6, FlightUnchanged DEF HoldsOn
  <2>2. RiskInv(Nat)'
    BY <1>1, <1>6, RiskUnchanged DEF HoldsOn
  <2>3. HistoryTypeOK'
    BY <1>1, <1>6, Zenon DEF HoldsOn, checkHistory, HistoryTypeOK
  <2> QED BY <1>1, <1>3, <1>4, <1>5, <2>1, <2>2, <2>3, LateUnchanged DEF TradingInv
<1>7. ASSUME NEW sig \in Signal, RejectsOn(sig, q)
      PROVE  TradingInv'
  <2>1. FlightTypeOK' /\ InFlight' = InFlight
    BY <1>1, <1>2, <1>7, FlightUnchanged DEF RejectsOn
  <2>2. RiskInv(Nat)'
    BY <1>1, <1>7, RejectInv DEF RejectsOn
  <2>3. HistoryTypeOK'
    <3>1. (excused \/ (sig.side = "Sell" /\ MayReject(sig, q.bid))) \in BOOLEAN
      BY Zenon
    <3> QED BY <1>1, <1>7, <3>1, Zenon DEF RejectsOn, HistoryTypeOK
  <2> QED BY <1>1, <1>3, <1>4, <1>5, <2>1, <2>2, <2>3, LateUnchanged DEF TradingInv
<1>8. ASSUME NEW o \in StandingOrder, ApprovesOn(o, q)
      PROVE  TradingInv'
  <2>1. /\ Approve(o.signal, q.bid, cash_bits, halt_flag, o.client_order_id)
        /\ outbox = << >> /\ outbox' = <<o>>
    BY <1>8 DEF ApprovesOn
  <2>2. FlightTypeOK' /\ InFlight' = Append(InFlight, o)
    BY <1>1, <1>2, <2>1, ApproveFlight
  <2>3. o.client_order_id \in Nat
    BY DEF StandingOrder, ValidatedOrder
  <2>4. RiskInv(Nat)'
    BY <1>1, <2>1, <2>3, ApproveInv
  <2>5. HistoryTypeOK'
    <3>1. (overlapped \/ (o.signal.side = "Buy" /\ UnderWay)) \in BOOLEAN
      BY Zenon
    <3> QED BY <1>1, <1>8, <3>1, Zenon DEF ApprovesOn, HistoryTypeOK
  <2>6. LateInv'
    <3>1. ~halt_flag
      BY <2>1, Zenon DEF Approve, WithinLimits
    <3>2. ~halt_flag'
      BY <1>5, <3>1, Zenon
    <3>3. late' \in Nat /\ late' = 0
      BY <1>1, <1>5, <3>1 DEF LateInv
    <3> QED BY <3>2, <3>3, Zenon DEF LateInv, LateFillsBounded
  <2> QED BY <1>3, <1>4, <2>2, <2>4, <2>5, <2>6 DEF TradingInv
<1> QED BY <1>1, <1>6, <1>7, <1>8, OnOrderbookCases

(* The book thread's send goes through. *)
LEMMA SendInv ==
    ASSUME TradingInv, SendOrder
    PROVE  TradingInv'
<1>1. /\ RiskInv(Nat) /\ StrategyInv /\ KillSwitchTypeOK /\ AccountInv
      /\ FlightTypeOK /\ MirrorInv /\ LateInv /\ HistoryTypeOK
  BY DEF TradingInv
<1>2. UNCHANGED <<now, riskVars, accountVars, strategyVars, killVars, executing, filled, cash_bits, history>>
  BY DEF SendOrder
<1>3. RiskInv(Nat)' /\ StrategyInv' /\ AccountInv' /\ KillSwitchTypeOK'
  BY <1>1, <1>2, RiskUnchanged, StrategyUnchanged, AccountUnchanged, KillSwitchUnchanged
<1>4. FlightTypeOK' /\ InFlight' = InFlight
  BY <1>1, SendFlight
<1>5. MirrorInv'
  <2>1. cash' = cash /\ cash_bits' = cash_bits /\ executing' = executing
    BY <1>2 DEF accountVars
  <2>2. filled' = filled
    BY <1>2, Zenon
  <2> QED BY <1>1, <2>1, <2>2, Zenon DEF MirrorInv
<1>6. LateInv'
  <2>1. halt_flag' = halt_flag /\ late' = late
    BY <1>2, Zenon DEF killVars, history
  <2> QED BY <1>1, <1>4, <2>1, LateUnchanged
<1>7. HistoryTypeOK'
  BY <1>1, <1>2, Zenon DEF history, checkHistory, HistoryTypeOK
<1> QED BY <1>3, <1>4, <1>5, <1>6, <1>7 DEF TradingInv

(* The executor takes an order. *)
LEMMA TakeInv ==
    ASSUME TradingInv, TakeOrder
    PROVE  TradingInv'
<1>1. /\ RiskInv(Nat) /\ StrategyInv /\ KillSwitchTypeOK /\ AccountInv
      /\ FlightTypeOK /\ MirrorInv /\ LateInv /\ HistoryTypeOK
  BY DEF TradingInv
<1>2. UNCHANGED <<now, riskVars, accountVars, strategyVars, killVars, outbox, cash_bits, history>>
  BY DEF TakeOrder
<1>3. RiskInv(Nat)' /\ StrategyInv' /\ AccountInv' /\ KillSwitchTypeOK'
  BY <1>1, <1>2, RiskUnchanged, StrategyUnchanged, AccountUnchanged, KillSwitchUnchanged
<1>4. FlightTypeOK' /\ InFlight' = InFlight /\ ~filled
  BY <1>1, TakeFlight
<1>5. MirrorInv'
  <2>1. cash' = cash /\ cash_bits' = cash_bits
    BY <1>2 DEF accountVars
  <2>2. filled' = FALSE
    BY Zenon DEF TakeOrder
  <2> QED BY <1>1, <1>4, <2>1, <2>2, Zenon DEF MirrorInv
<1>6. LateInv'
  <2>1. halt_flag' = halt_flag /\ late' = late
    BY <1>2, Zenon DEF killVars, history
  <2> QED BY <1>1, <1>4, <2>1, LateUnchanged
<1>7. HistoryTypeOK'
  BY <1>1, <1>2, Zenon DEF history, checkHistory, HistoryTypeOK
<1> QED BY <1>3, <1>4, <1>5, <1>6, <1>7 DEF TradingInv

(* The executor fills it: one order less on its way, one late fill more perhaps. *)
LEMMA FillInv ==
    ASSUME TradingInv, FillOrder
    PROVE  TradingInv'
<1>1. /\ RiskInv(Nat) /\ StrategyInv /\ KillSwitchTypeOK /\ AccountInv
      /\ FlightTypeOK /\ MirrorInv /\ LateInv /\ HistoryTypeOK
  BY DEF TradingInv
<1>2. UNCHANGED <<now, riskVars, strategyVars, killVars, outbox, orders, executing, cash_bits, checkHistory>>
  BY DEF FillOrder
<1>3. RiskInv(Nat)' /\ StrategyInv' /\ KillSwitchTypeOK'
  BY <1>1, <1>2, RiskUnchanged, StrategyUnchanged, KillSwitchUnchanged
<1>4. /\ FlightTypeOK' /\ InFlight # << >> /\ InFlight' = Tail(InFlight)
      /\ executing[1] \in StandingOrder /\ filled' = TRUE /\ executing' # << >>
  BY <1>1, FillFlight
<1>5. AccountInv'
  <2>1. PICK sig \in Signal : sig = executing[1].signal /\ sig.qty > 0
    BY <1>4 DEF StandingOrder, ValidatedOrder
  <2>2. sig.price \in Nat /\ sig.qty \in Nat \ {0}
    BY <2>1 DEF Signal
  <2>3. OnBuy(sig.price, sig.qty) \/ OnSell(sig.price, sig.qty)
    BY <2>1, Zenon DEF FillOrder
  <2> QED BY <1>1, <2>2, <2>3, BuyInv, SellInv
<1>6. MirrorInv'
  BY <1>4, Zenon DEF MirrorInv
<1>7. LateInv'
  <2>1. halt_flag' = halt_flag
    BY <1>2, Zenon DEF killVars
  <2>2. /\ InFlight \in Seq(StandingOrder) /\ Len(InFlight) \in Nat /\ OrderCap \in Nat
        /\ Len(InFlight') = Len(InFlight) - 1 /\ Len(InFlight) <= OrderCap + 2
    <3>1. InFlight \in Seq(StandingOrder) /\ Len(InFlight) <= OrderCap + 2
      BY <1>1, FlightBounded
    <3>2. Len(Tail(InFlight)) = Len(InFlight) - 1
      BY <1>4, <3>1
    <3> QED BY <1>4, <3>1, <3>2, TradingAssumption
  <2>3. CASE halt_flag
    <3>1. late \in Nat /\ late + Len(InFlight) <= OrderCap + 2
      BY <1>1, <2>3 DEF LateInv, LateFillsBounded
    <3>2. late' = late + 1
      BY <2>3, Zenon DEF FillOrder
    <3>3. late' \in Nat /\ late' + Len(InFlight') <= OrderCap + 2
      BY <2>2, <3>1, <3>2
    <3> QED BY <2>1, <2>3, <3>3, Zenon DEF LateInv, LateFillsBounded
  <2>4. CASE ~halt_flag
    <3>1. late' = 0
      BY <2>4, Zenon DEF FillOrder
    <3>2. late' \in Nat
      BY <3>1
    <3> QED BY <2>1, <2>4, <3>1, <3>2, Zenon DEF LateInv, LateFillsBounded
  <2> QED BY <2>3, <2>4
<1>8. HistoryTypeOK'
  BY <1>1, <1>2, Zenon DEF checkHistory, HistoryTypeOK
<1> QED BY <1>3, <1>4, <1>5, <1>6, <1>7, <1>8 DEF TradingInv

(* The executor mirrors the cash. *)
LEMMA MirrorStepInv ==
    ASSUME TradingInv, MirrorCash
    PROVE  TradingInv'
<1>1. /\ RiskInv(Nat) /\ StrategyInv /\ KillSwitchTypeOK /\ AccountInv
      /\ FlightTypeOK /\ MirrorInv /\ LateInv /\ HistoryTypeOK
  BY DEF TradingInv
<1>2. UNCHANGED <<now, riskVars, accountVars, strategyVars, killVars, outbox, orders, history>>
  BY DEF MirrorCash
<1>3. RiskInv(Nat)' /\ StrategyInv' /\ AccountInv' /\ KillSwitchTypeOK'
  BY <1>1, <1>2, RiskUnchanged, StrategyUnchanged, AccountUnchanged, KillSwitchUnchanged
<1>4. FlightTypeOK' /\ InFlight' = InFlight /\ filled' = FALSE /\ cash_bits' = cash
  BY <1>1, MirrorFlight DEF AccountInv, AccountTypeOK
<1>5. MirrorInv'
  <2>1. cash' = cash
    BY <1>2 DEF accountVars
  <2> QED BY <1>4, <2>1, Zenon DEF MirrorInv
<1>6. LateInv'
  <2>1. halt_flag' = halt_flag /\ late' = late
    BY <1>2, Zenon DEF killVars, history
  <2> QED BY <1>1, <1>4, <2>1, LateUnchanged
<1>7. HistoryTypeOK'
  BY <1>1, <1>2, Zenon DEF history, checkHistory, HistoryTypeOK
<1> QED BY <1>3, <1>4, <1>5, <1>6, <1>7 DEF TradingInv

(* Time passes. *)
LEMMA TickInv ==
    ASSUME TradingInv, Tick
    PROVE  TradingInv'
<1>1. /\ RiskInv(Nat) /\ StrategyInv /\ KillSwitchTypeOK /\ AccountInv
      /\ FlightTypeOK /\ MirrorInv /\ LateInv /\ HistoryTypeOK
  BY DEF TradingInv
<1>2. UNCHANGED <<accountVars, strategyVars, killVars, outbox, execVars, history>> /\ ClockTick
  BY DEF Tick
<1>3. RiskInv(Nat)' /\ StrategyInv' /\ AccountInv' /\ KillSwitchTypeOK'
  BY <1>1, <1>2, ClockTickInv, StrategyUnchanged, AccountUnchanged, KillSwitchUnchanged
<1>4. FlightTypeOK' /\ InFlight' = InFlight
  BY <1>1, <1>2, FlightUnchanged
<1>5. MirrorInv'
  <2>1. cash' = cash /\ cash_bits' = cash_bits /\ executing' = executing
    BY <1>2 DEF accountVars, execVars
  <2>2. filled' = filled
    BY <1>2, Zenon DEF execVars
  <2> QED BY <1>1, <2>1, <2>2, Zenon DEF MirrorInv
<1>6. LateInv'
  <2>1. halt_flag' = halt_flag /\ late' = late
    BY <1>2, Zenon DEF killVars, history
  <2> QED BY <1>1, <1>4, <2>1, LateUnchanged
<1>7. HistoryTypeOK'
  BY <1>1, <1>2, Zenon DEF history, checkHistory, HistoryTypeOK
<1> QED BY <1>3, <1>4, <1>5, <1>6, <1>7 DEF TradingInv

(* The kill switch is set or cleared: the count of late fills starts again. *)
LEMMA SwitchInv ==
    ASSUME TradingInv, SwitchStep
    PROVE  TradingInv'
<1>1. /\ RiskInv(Nat) /\ StrategyInv /\ KillSwitchTypeOK /\ AccountInv
      /\ FlightTypeOK /\ MirrorInv /\ LateInv /\ HistoryTypeOK
  BY DEF TradingInv
<1>2. /\ UNCHANGED <<now, riskVars, accountVars, strategyVars, outbox, execVars, fills, checkHistory>>
      /\ KillSwitchNext /\ late' = IF halt_flag' THEN late ELSE 0
  BY DEF SwitchStep
<1>3. RiskInv(Nat)' /\ StrategyInv' /\ AccountInv' /\ KillSwitchTypeOK'
  BY <1>1, <1>2, RiskUnchanged, StrategyUnchanged, AccountUnchanged, KillSwitchNextType
<1>4. FlightTypeOK' /\ InFlight' = InFlight
  BY <1>1, <1>2, FlightUnchanged
<1>5. MirrorInv'
  <2>1. cash' = cash /\ cash_bits' = cash_bits /\ executing' = executing
    BY <1>2 DEF accountVars, execVars
  <2>2. filled' = filled
    BY <1>2, Zenon DEF execVars
  <2> QED BY <1>1, <2>1, <2>2, Zenon DEF MirrorInv
<1>6. LateInv'
  <2>1. CASE halt_flag'
    <3>1. late' = late /\ late \in Nat
      BY <1>1, <1>2, <2>1, Zenon DEF LateInv
    <3>2. late + Len(InFlight) <= OrderCap + 2
      <4>1. CASE halt_flag
        BY <1>1, <4>1, Zenon DEF LateInv, LateFillsBounded
      <4>2. CASE ~halt_flag
        <5>1. late = 0
          BY <1>1, <4>2, Zenon DEF LateInv
        <5>2. InFlight \in Seq(StandingOrder) /\ Len(InFlight) <= OrderCap + 2
          BY <1>1, FlightBounded
        <5> QED BY <5>1, <5>2
      <4> QED BY <4>1, <4>2
    <3> QED BY <1>4, <2>1, <3>1, <3>2, Zenon DEF LateInv, LateFillsBounded
  <2>2. CASE ~halt_flag'
    <3>1. late' = 0
      BY <1>2, <2>2, Zenon
    <3>2. late' \in Nat
      BY <3>1
    <3> QED BY <2>2, <3>1, <3>2, Zenon DEF LateInv, LateFillsBounded
  <2> QED BY <2>1, <2>2
<1>7. HistoryTypeOK'
  BY <1>1, <1>2, Zenon DEF checkHistory, HistoryTypeOK
<1> QED BY <1>3, <1>4, <1>5, <1>6, <1>7 DEF TradingInv

-----------------------------------------------------------------------------
(* Any step: Trading's own, and the same with any other source of quotes. *)
TradingStep ==
    \/ \E q : Priced(q) /\ OnOrderbook(q)
    \/ SendOrder \/ Executor \/ Tick \/ SwitchStep
    \/ UNCHANGED tradingVars

(* Nothing moves. *)
LEMMA StutterInv ==
    ASSUME TradingInv, UNCHANGED tradingVars
    PROVE  TradingInv'
<1>1. /\ RiskInv(Nat) /\ StrategyInv /\ KillSwitchTypeOK /\ AccountInv
      /\ FlightTypeOK /\ MirrorInv /\ LateInv /\ HistoryTypeOK
  BY DEF TradingInv
<1>2. UNCHANGED <<now, riskVars, accountVars, strategyVars, killVars, outbox, execVars, history>>
  BY DEF tradingVars
<1>3. RiskInv(Nat)' /\ StrategyInv' /\ AccountInv' /\ KillSwitchTypeOK'
  BY <1>1, <1>2, RiskUnchanged, StrategyUnchanged, AccountUnchanged, KillSwitchUnchanged
<1>4. FlightTypeOK' /\ InFlight' = InFlight
  BY <1>1, <1>2, FlightUnchanged
<1>5. MirrorInv'
  <2>1. cash' = cash /\ cash_bits' = cash_bits /\ executing' = executing
    BY <1>2 DEF accountVars, execVars
  <2>2. filled' = filled
    BY <1>2, Zenon DEF execVars
  <2> QED BY <1>1, <2>1, <2>2, Zenon DEF MirrorInv
<1>6. LateInv'
  <2>1. halt_flag' = halt_flag /\ late' = late
    BY <1>2, Zenon DEF killVars, history
  <2> QED BY <1>1, <1>4, <2>1, LateUnchanged
<1>7. HistoryTypeOK'
  BY <1>1, <1>2, Zenon DEF history, checkHistory, HistoryTypeOK
<1> QED BY <1>3, <1>4, <1>5, <1>6, <1>7 DEF TradingInv

(* Every step keeps the invariant. *)
LEMMA TradingStepInv ==
    ASSUME TradingInv, TradingStep
    PROVE  TradingInv'
BY OnOrderbookInv, SendInv, TakeInv, FillInv, MirrorStepInv, TickInv, SwitchInv, StutterInv
    DEF TradingStep, Executor

(* The steps of Trading are such steps. *)
LEMMA TradingNextIsStep ==
    ASSUME [TradingNext]_tradingVars
    PROVE  TradingStep
<1>1. \A q \in Quotes : Priced(q)
  BY TradingAssumption DEF Priced, Quote
<1> QED BY <1>1 DEF TradingNext, TradingStep

(* It holds at the start. *)
LEMMA TradingInitInv ==
    ASSUME TradingInit
    PROVE  TradingInv /\ InFlight = << >>
<1>1. RiskInv(Nat) /\ StrategyInv /\ KillSwitchTypeOK /\ AccountInv
  BY RiskInitInv, StrategiesInitInv, KillSwitchInitType, AccountInitInv DEF TradingInit
<1>2. outbox = << >> /\ orders = << >> /\ executing = << >> /\ cash_bits = cash
  BY DEF TradingInit
<1>3. filled = FALSE /\ excused = FALSE /\ overlapped = FALSE /\ late = 0
  BY Zenon DEF TradingInit
<1>4. InFlight = << >>
  <2>1. InFlight = (executing \o orders) \o outbox
    BY <1>3, Zenon DEF InFlight
  <2> QED BY <1>2, <2>1
<1>5. FlightTypeOK
  <2>1. filled \in BOOLEAN
    BY <1>3, Zenon
  <2>2. /\ outbox \in Seq(StandingOrder) /\ executing \in Seq(StandingOrder)
        /\ orders \in Seq(StandingOrder)
    BY <1>2
  <2>3. Len(outbox) <= 1 /\ Len(executing) <= 1 /\ Len(orders) <= OrderCap
    BY <1>2, TradingAssumption
  <2>4. cash_bits \in Int
    BY <1>1, <1>2 DEF AccountInv, AccountTypeOK
  <2> QED BY <2>1, <2>2, <2>3, <2>4 DEF FlightTypeOK
<1>6. MirrorInv
  BY <1>2, <1>3, Zenon DEF MirrorInv
<1>7. LateInv
  <2>1. late + Len(InFlight) <= OrderCap + 2 /\ late \in Nat
    BY <1>3, <1>4, TradingAssumption
  <2> QED BY <1>3, <2>1, Zenon DEF LateInv, LateFillsBounded
<1>8. HistoryTypeOK
  BY <1>3, Zenon DEF HistoryTypeOK
<1> QED BY <1>1, <1>4, <1>5, <1>6, <1>7, <1>8 DEF TradingInv

(* The type invariant of the run is a part of it. *)
LEMMA TradingInvImplies ==
    ASSUME TradingInv
    PROVE  /\ TradingTypeOK /\ LateFillsBounded /\ LedgerBalances /\ FifoOrder
           /\ RateLimited /\ NoDuplicateInWindow
<1>1. /\ RiskInv(Nat) /\ StrategyInv /\ KillSwitchTypeOK /\ AccountInv
      /\ FlightTypeOK /\ MirrorInv /\ LateInv /\ HistoryTypeOK
  BY DEF TradingInv
<1>2. RiskTypeOK /\ RateLimited /\ NoDuplicateInWindow
  BY <1>1, RiskInvImplies
<1>3. LateFillsBounded /\ LedgerBalances /\ FifoOrder
  BY <1>1, FifoInvImplies DEF LateInv, AccountInv
<1>4. {outbox, executing} \subseteq Seq(ValidatedOrder) /\ orders \in Seq(ValidatedOrder)
  <2>1. \A x \in Seq(StandingOrder) : x \in Seq(ValidatedOrder)
    <3>1. \A o \in StandingOrder : o \in ValidatedOrder
      BY DEF StandingOrder
    <3> QED BY <3>1
  <2> QED BY <1>1, <2>1 DEF FlightTypeOK
<1>5. {excused, overlapped} \subseteq BOOLEAN /\ filled \in BOOLEAN
  BY <1>1, Zenon DEF HistoryTypeOK, FlightTypeOK
<1>6. Len(outbox) <= 1 /\ Len(executing) <= 1 /\ Len(orders) <= OrderCap
      /\ cash_bits \in Int /\ late \in Nat
  BY <1>1 DEF FlightTypeOK, LateInv
<1>7. AccountTypeOK /\ StrategiesTypeOK
  BY <1>1 DEF AccountInv, StrategyInv
<1> QED BY <1>1, <1>2, <1>3, <1>4, <1>5, <1>6, <1>7, Zenon DEF TradingTypeOK

(***************************************************************************)
(* Live trading with whatever the source of its quotes: what Trading and   *)
(* System both do.  The theorems are proved of it, and then said of each.  *)
(***************************************************************************)
AnyBookSpec == TradingInit /\ [][TradingStep]_tradingVars

(* The invariant of live trading. *)
THEOREM AnyBookCorrect == AnyBookSpec => []TradingInv
<1>1. TradingInit => TradingInv
  BY TradingInitInv
<1>2. TradingInv /\ [TradingStep]_tradingVars => TradingInv'
  BY TradingStepInv DEF TradingStep
<1> QED BY <1>1, <1>2, PTL DEF AnyBookSpec

-----------------------------------------------------------------------------
(***************************************************************************)
(* The three things a step can do to the orders on their way: nothing (and *)
(* nothing to account or strategy), ask the strategy and perhaps append an *)
(* order, or fill the oldest.                                              *)
(***************************************************************************)
Passes ==
    InFlight' = InFlight /\ UNCHANGED <<accountVars, strategyVars, approved, fills, checkHistory>>

Keeps(q) == InFlight' = InFlight /\ (HoldsOn(q) \/ \E sig \in Signal : RejectsOn(sig, q))

Joins(o, q) ==
    InFlight' = Append(InFlight, o) /\ Len(InFlight) < OrderCap + 2 /\ ApprovesOn(o, q)

Decides(q) ==
    /\ Priced(q) /\ Asked(q) /\ UNCHANGED <<accountVars, fills>>
    /\ Keeps(q) \/ \E o \in StandingOrder : Joins(o, q)

Leaves ==
    /\ FillOrder /\ UNCHANGED approved
    /\ InFlight # << >> /\ InFlight' = Tail(InFlight)
    /\ Head(InFlight) \in StandingOrder /\ executing[1] = Head(InFlight)

(* They are all. *)
LEMMA StepCases ==
    ASSUME TradingInv, TradingStep
    PROVE  Passes \/ (\E q : Decides(q)) \/ Leaves
<1>1. RiskInv(Nat) /\ StrategyInv /\ FlightTypeOK /\ MirrorInv /\ AccountInv
  BY DEF TradingInv
<1>2. ASSUME NEW q, Priced(q), OnOrderbook(q)
      PROVE  Decides(q)
  <2>1. Asked(q) /\ UNCHANGED <<accountVars, killVars, execVars, fills, late>>
    BY <1>2 DEF OnOrderbook
  <2>2. CASE HoldsOn(q)
    <3>1. InFlight' = InFlight
      BY <1>1, <2>1, <2>2, FlightUnchanged DEF HoldsOn
    <3> QED BY <1>2, <2>1, <2>2, <3>1 DEF Decides, Keeps
  <2>3. ASSUME NEW sig \in Signal, RejectsOn(sig, q)
        PROVE  Decides(q)
    <3>1. InFlight' = InFlight
      BY <1>1, <2>1, <2>3, FlightUnchanged DEF RejectsOn
    <3> QED BY <1>2, <2>1, <2>3, <3>1 DEF Decides, Keeps
  <2>4. ASSUME NEW o \in StandingOrder, ApprovesOn(o, q)
        PROVE  Decides(q)
    <3>1. InFlight' = Append(InFlight, o) /\ Len(InFlight) < OrderCap + 2
      BY <1>1, <2>1, <2>4, ApproveFlight DEF ApprovesOn
    <3> QED BY <1>2, <2>1, <2>4, <3>1 DEF Decides, Joins
  <2> QED BY <1>1, <1>2, <2>2, <2>3, <2>4, OnOrderbookCases
<1>3. CASE SendOrder
  <2>1. InFlight' = InFlight
    BY <1>1, <1>3, SendFlight
  <2> QED BY <1>3, <2>1 DEF SendOrder, Passes, riskVars, history
<1>4. CASE TakeOrder
  <2>1. InFlight' = InFlight
    BY <1>1, <1>4, TakeFlight
  <2> QED BY <1>4, <2>1 DEF TakeOrder, Passes, riskVars, history
<1>5. CASE FillOrder
  BY <1>1, <1>5, FillFlight DEF Leaves, FillOrder, riskVars
<1>6. CASE MirrorCash
  <2>1. InFlight' = InFlight
    BY <1>1, <1>6, MirrorFlight DEF AccountInv, AccountTypeOK
  <2> QED BY <1>6, <2>1 DEF MirrorCash, Passes, riskVars, history
<1>7. CASE Tick
  <2>1. InFlight' = InFlight
    BY <1>1, <1>7, FlightUnchanged DEF Tick
  <2> QED BY <1>7, <2>1 DEF Tick, ClockTick, Passes, riskVars, history
<1>8. CASE SwitchStep
  <2>1. InFlight' = InFlight
    BY <1>1, <1>8, FlightUnchanged DEF SwitchStep
  <2> QED BY <1>8, <2>1 DEF SwitchStep, Passes, riskVars
<1>9. CASE UNCHANGED tradingVars
  <2>1. InFlight' = InFlight
    BY <1>1, <1>9, FlightUnchanged DEF tradingVars
  <2> QED BY <1>9, <2>1 DEF tradingVars, Passes, riskVars, history
<1> QED BY <1>2, <1>3, <1>4, <1>5, <1>6, <1>7, <1>8, <1>9 DEF TradingStep, Executor

-----------------------------------------------------------------------------
(***************************************************************************)
(* The refinement of the order pipeline: the orders on their way, by their *)
(* ids, are the queue.                                                     *)
(***************************************************************************)
Ids(s) == [i \in DOMAIN s |-> s[i].client_order_id]

(* Ids and the operations of the queue. *)
LEMMA IdsFacts ==
    ASSUME NEW s \in Seq(StandingOrder)
    PROVE  /\ Ids(s) \in Seq(Nat) /\ Len(Ids(s)) = Len(s)
           /\ \A o \in StandingOrder : Ids(Append(s, o)) = Append(Ids(s), o.client_order_id)
           /\ s # << >> => /\ Ids(s) # << >> /\ Ids(Tail(s)) = Tail(Ids(s))
                           /\ Head(Ids(s)) = Head(s).client_order_id
<1>1. PICK n \in Nat : n = Len(s) /\ DOMAIN s = 1 .. n /\ \A i \in 1 .. n : s[i] \in StandingOrder
  OBVIOUS
<1>2. ASSUME NEW o \in StandingOrder PROVE o.client_order_id \in Nat
  BY DEF StandingOrder, ValidatedOrder
<1>3. PICK t : t = Ids(s) /\ t \in Seq(Nat) /\ Len(t) = n /\ \A i \in 1 .. n : t[i] = s[i].client_order_id
  <2>1. Ids(s) \in [1 .. n -> Nat] /\ \A i \in 1 .. n : Ids(s)[i] = s[i].client_order_id
    BY <1>1, <1>2 DEF Ids
  <2> QED BY <2>1
<1> PICK X : X = Nat
  OBVIOUS
<1>0. t \in Seq(X) /\ \A o \in StandingOrder : o.client_order_id \in X
  BY <1>2, <1>3
<1>4. ASSUME NEW o \in StandingOrder
      PROVE  Ids(Append(s, o)) = Append(t, o.client_order_id)
  <2>1. PICK v \in Seq(StandingOrder) :
          /\ v = Append(s, o) /\ DOMAIN v = 1 .. n + 1
          /\ \A i \in 1 .. n : v[i] = s[i]
          /\ v[n + 1] = o
    <3>1. /\ Append(s, o) \in Seq(StandingOrder) /\ DOMAIN Append(s, o) = 1 .. Len(s) + 1
          /\ \A i \in 1 .. Len(s) : Append(s, o)[i] = s[i]
          /\ Append(s, o)[Len(s) + 1] = o
      BY AppendFacts
    <3> QED BY <1>1, <3>1
  <2>2. PICK x \in X : x = o.client_order_id
    BY <1>0
  <2>3. PICK u \in Seq(X) :
          /\ u = Append(t, x) /\ Len(u) = n + 1 /\ (\A i \in 1 .. n : u[i] = t[i]) /\ u[n + 1] = x
    <3>1. /\ Append(t, x) \in Seq(X) /\ Len(Append(t, x)) = Len(t) + 1
          /\ \A i \in 1 .. Len(t) : Append(t, x)[i] = t[i]
          /\ Append(t, x)[Len(t) + 1] = x
      BY <1>0, AppendFacts
    <3> QED BY <1>3, <3>1
  <2>4. u = [i \in 1 .. n + 1 |-> u[i]]
    <3>1. u = [i \in 1 .. Len(u) |-> u[i]]
      BY SeqIsFunction
    <3> QED BY <2>3, <3>1
  <2>5. \A i \in 1 .. n + 1 : u[i] = v[i].client_order_id
    <3>1. ASSUME NEW i \in 1 .. n + 1
          PROVE  u[i] = v[i].client_order_id
      <4>1. CASE i = n + 1
        BY <2>1, <2>2, <2>3, <4>1
      <4>2. CASE i # n + 1
        <5>1. i \in 1 .. n
          BY <4>2
        <5> QED BY <1>3, <2>1, <2>3, <5>1
      <4> QED BY <4>1, <4>2
    <3> QED BY <3>1
  <2> QED BY <2>1, <2>2, <2>3, <2>4, <2>5 DEF Ids
<1>5. ASSUME s # << >>
      PROVE  t # << >> /\ Ids(Tail(s)) = Tail(t) /\ Head(t) = Head(s).client_order_id
  <2>1. n \in Nat \ {0} /\ 1 \in 1 .. n /\ Head(s) = s[1] /\ t # << >> /\ Head(t) = t[1]
    BY <1>1, <1>3, <1>5
  <2>2. PICK v \in Seq(StandingOrder) :
          v = Tail(s) /\ DOMAIN v = 1 .. n - 1 /\ \A i \in 1 .. n - 1 : v[i] = s[i + 1]
    <3>1. /\ Tail(s) \in Seq(StandingOrder) /\ DOMAIN Tail(s) = 1 .. Len(s) - 1
          /\ \A i \in 1 .. Len(s) - 1 : Tail(s)[i] = s[i + 1]
      BY <1>5, TailFacts
    <3> QED BY <1>1, <3>1
  <2>3. PICK u \in Seq(X) :
          u = Tail(t) /\ Len(u) = n - 1 /\ \A i \in 1 .. n - 1 : u[i] = t[i + 1]
    <3>1. /\ Tail(t) \in Seq(X) /\ Len(Tail(t)) = Len(t) - 1
          /\ \A i \in 1 .. Len(t) - 1 : Tail(t)[i] = t[i + 1]
      BY <1>0, <2>1, TailFacts
    <3> QED BY <1>3, <3>1
  <2>4. u = [i \in 1 .. n - 1 |-> u[i]]
    <3>1. u = [i \in 1 .. Len(u) |-> u[i]]
      BY SeqIsFunction
    <3> QED BY <2>3, <3>1
  <2>5. \A i \in 1 .. n - 1 : u[i] = v[i].client_order_id
    BY <1>3, <2>1, <2>2, <2>3
  <2>6. Ids(v) = u
    BY <2>2, <2>4, <2>5 DEF Ids
  <2> QED BY <1>3, <2>1, <2>2, <2>3, <2>6
<1> QED BY <1>1, <1>3, <1>4, <1>5

(* A step of Trading is a step of the pipeline, or none. *)
LEMMA PipelineStep ==
    ASSUME TradingInv, TradingStep
    PROVE  \/ Ids(InFlight)' = Ids(InFlight) /\ fills' = fills /\ Len(approved)' = Len(approved)
           \/ /\ Len(Ids(InFlight)) < OrderCap + 2
              /\ Len(approved)' = Len(approved) + 1
              /\ Ids(InFlight)' = Append(Ids(InFlight), Len(approved) + 1)
              /\ fills' = fills
           \/ /\ Ids(InFlight) # << >>
              /\ Ids(InFlight)' = Tail(Ids(InFlight))
              /\ fills' = Append(fills, Head(Ids(InFlight)))
              /\ Len(approved)' = Len(approved)
<1>1. PICK s \in Seq(StandingOrder) : s = InFlight
  BY FlightBounded DEF TradingInv
<1>2. CASE InFlight' = InFlight /\ fills' = fills /\ approved' = approved
  BY <1>2 DEF Ids
<1>3. ASSUME NEW q, NEW o \in StandingOrder, Joins(o, q), fills' = fills
      PROVE  /\ Len(Ids(InFlight)) < OrderCap + 2
             /\ Len(approved)' = Len(approved) + 1
             /\ Ids(InFlight)' = Append(Ids(InFlight), Len(approved) + 1)
  <2>1. InFlight' = Append(s, o) /\ Len(s) < OrderCap + 2
    BY <1>1, <1>3 DEF Joins
  <2>2. Len(Ids(s)) = Len(s) /\ Ids(Append(s, o)) = Append(Ids(s), o.client_order_id)
    BY IdsFacts
  <2>3. Ids(InFlight)' = Ids(Append(s, o))
    BY <2>1 DEF Ids
  <2>4. /\ o.client_order_id = Len(approved) + 1
        /\ \E r : approved' = Append(approved, r)
    BY <1>3, Zenon DEF Joins, ApprovesOn, Approve
  <2>5. Len(approved') = Len(approved) + 1
    BY <2>4, RiskBounds DEF TradingInv
  <2> QED BY <1>1, <2>1, <2>2, <2>3, <2>4, <2>5
<1>4. CASE Leaves
  <2>1. s # << >> /\ InFlight' = Tail(s) /\ executing[1] = Head(s) /\ approved' = approved
    BY <1>1, <1>4 DEF Leaves
  <2>2. Ids(s) # << >> /\ Ids(Tail(s)) = Tail(Ids(s)) /\ Head(Ids(s)) = Head(s).client_order_id
    BY <2>1, IdsFacts
  <2>3. Ids(InFlight)' = Ids(Tail(s))
    BY <2>1 DEF Ids
  <2>4. fills' = Append(fills, executing[1].client_order_id)
    BY <1>4 DEF Leaves, FillOrder
  <2> QED BY <1>1, <2>1, <2>2, <2>3, <2>4
<1>5. ASSUME NEW q, Keeps(q)
      PROVE  approved' = approved
  BY <1>5 DEF Keeps, HoldsOn, RejectsOn, RejectLimits, RejectRate, riskVars
<1> QED BY <1>2, <1>3, <1>4, <1>5, StepCases DEF Passes, Decides, Keeps

(***************************************************************************)
(* The blocking send, the channel and the executor implement one bounded   *)
(* queue of the approved orders, for any capacity of the channel.          *)
(***************************************************************************)
THEOREM AnyBookImplementsPipeline == AnyBookSpec => ImplementsPipeline
<1>1. TradingInit => Pipeline!PipelineInit
  <2>1. TradingInit => InFlight = << >> /\ fills = << >> /\ approved = << >>
    BY TradingInitInv DEF TradingInit, RiskInit
  <2> QED BY <2>1 DEF Pipeline!PipelineInit
<1>2. TradingInv /\ [TradingStep]_tradingVars => [Pipeline!Accept \/ Pipeline!FillNext]_Pipeline!pipelineVars
  <2>1. [TradingStep]_tradingVars => TradingStep
    BY DEF TradingStep
  <2> QED BY <2>1, PipelineStep DEF Ids, Pipeline!Accept, Pipeline!FillNext, Pipeline!pipelineVars
<1> QED BY <1>1, <1>2, AnyBookCorrect, PTL DEF AnyBookSpec, ImplementsPipeline, Pipeline!PipelineSpec

(* Orders a + 1, a + 2, ... wait in r: the promise of the pipeline for its queue. *)
Numbered(r, a) == \A i \in DOMAIN r : r[i] = a + i

(* Approval: the next number joins at the end. *)
LEMMA NumberedAppend ==
    ASSUME NEW a \in Nat, NEW r \in Seq(Nat), Numbered(r, a)
    PROVE  /\ Append(r, a + Len(r) + 1) \in Seq(Nat)
           /\ Len(Append(r, a + Len(r) + 1)) = Len(r) + 1
           /\ Numbered(Append(r, a + Len(r) + 1), a)
<1>1. PICK b \in Nat, x \in Nat : b = Len(r) /\ x = a + b + 1 /\ DOMAIN r = 1 .. b
  OBVIOUS
<1>2. PICK v : v = Append(r, x)
  OBVIOUS
<1>3. /\ v \in Seq(Nat) /\ Len(v) = b + 1 /\ DOMAIN v = 1 .. b + 1
      /\ \A i \in 1 .. b : v[i] = r[i]
      /\ v[b + 1] = x
  BY <1>1, <1>2, AppendFacts
<1>4. ASSUME NEW i \in 1 .. b + 1
      PROVE  v[i] = a + i
  <2>1. CASE i \in 1 .. b
    BY <1>1, <1>3, <2>1 DEF Numbered
  <2>2. CASE i = b + 1
    BY <1>1, <1>3, <2>2
  <2> QED BY <1>1, <1>4, <2>1, <2>2
<1>5. Numbered(v, a)
  BY <1>3, <1>4 DEF Numbered
<1> QED BY <1>1, <1>2, <1>3, <1>5

(* Fill: the least number leaves at the head. *)
LEMMA NumberedTail ==
    ASSUME NEW a \in Nat, NEW r \in Seq(Nat), Numbered(r, a), r # << >>
    PROVE  Head(r) = a + 1 /\ Len(Tail(r)) = Len(r) - 1 /\ Numbered(Tail(r), a + 1)
<1>1. PICK b \in Nat \ {0} : b = Len(r) /\ DOMAIN r = 1 .. b /\ Head(r) = r[1]
  OBVIOUS
<1>2. PICK v : v = Tail(r)
  OBVIOUS
<1>3. Len(v) = b - 1 /\ DOMAIN v = 1 .. b - 1 /\ \A i \in 1 .. b - 1 : v[i] = r[i + 1]
  BY <1>1, <1>2, TailFacts
<1>4. ASSUME NEW i \in 1 .. b - 1
      PROVE  v[i] = (a + 1) + i
  <2>1. i + 1 \in 1 .. b /\ v[i] = r[i + 1]
    BY <1>3
  <2>2. r[i + 1] = a + (i + 1)
    BY <1>1, <2>1 DEF Numbered
  <2> QED BY <2>1, <2>2
<1>5. Numbered(v, a + 1)
  BY <1>3, <1>4 DEF Numbered
<1>6. Head(r) = a + 1
  BY <1>1 DEF Numbered
<1> QED BY <1>1, <1>2, <1>3, <1>5, <1>6

(***************************************************************************)
(* Every approved order is filled once and in the order of approval: the   *)
(* fills so far and the orders on their way are together just the orders   *)
(* that the risk checker approved.                                         *)
(***************************************************************************)
THEOREM AnyBookFillsOnce == AnyBookSpec => []Pipeline!FilledOnce
<1> DEFINE OnceInv == fills \in Seq(Nat) /\ Pipeline!FilledOnce
<1>1. TradingInit => OnceInv
  <2>1. TradingInit => InFlight = << >> /\ fills = << >> /\ approved = << >>
    BY TradingInitInv DEF TradingInit, RiskInit
  <2> QED BY <2>1 DEF Pipeline!FilledOnce
<1>2. ASSUME TradingInv, TradingInv', OnceInv, [TradingStep]_tradingVars
      PROVE  OnceInv'
  <2>1. TradingStep
    BY <1>2 DEF TradingStep
  <2>2. PICK n \in Nat, q \in Seq(Nat), f \in Seq(Nat) :
          n = Len(approved) /\ q = Ids(InFlight) /\ f = fills
    <3>1. Len(approved) \in Nat
      BY <1>2, RiskBounds DEF TradingInv
    <3>2. Ids(InFlight) \in Seq(Nat)
      BY <1>2, FlightBounded, IdsFacts DEF TradingInv
    <3> QED BY <1>2, <3>1, <3>2
  <2>3. PICK m, r, g : m = Len(approved') /\ r = Ids(InFlight') /\ g = fills'
    OBVIOUS
  <2>4. PICK a \in Nat, b \in Nat : a = Len(f) /\ b = Len(q) /\ a + b = n
    BY <1>2, <2>2 DEF Pipeline!FilledOnce, Ids
  <2>5. Numbered(f, 0) /\ Numbered(q, a)
    BY <1>2, <2>2, <2>4 DEF Pipeline!FilledOnce, Ids, Numbered
  <2>6. \/ m = n /\ r = q /\ g = f
        \/ m = n + 1 /\ r = Append(q, n + 1) /\ g = f
        \/ q # << >> /\ m = n /\ r = Tail(q) /\ g = Append(f, Head(q))
    BY <1>2, <2>1, <2>2, <2>3, PipelineStep
  <2>7. g \in Seq(Nat) /\ Len(g) + Len(r) = m /\ Numbered(g, 0) /\ Numbered(r, Len(g))
    <3>1. CASE m = n /\ r = q /\ g = f
      BY <2>4, <2>5, <3>1
    <3>2. CASE m = n + 1 /\ r = Append(q, n + 1) /\ g = f
      <4>1. Len(r) = b + 1 /\ Numbered(r, a)
        BY <2>4, <2>5, <3>2, NumberedAppend
      <4> QED BY <2>4, <2>5, <3>2, <4>1
    <3>3. CASE q # << >> /\ m = n /\ r = Tail(q) /\ g = Append(f, Head(q))
      <4>1. Head(q) = a + 1 /\ Len(r) = b - 1 /\ Numbered(r, a + 1)
        BY <2>4, <2>5, <3>3, NumberedTail
      <4>2. g \in Seq(Nat) /\ Len(g) = a + 1 /\ Numbered(g, 0)
        <5>1. g = Append(f, 0 + Len(f) + 1)
          BY <2>4, <3>3, <4>1
        <5>2. 0 \in Nat /\ f \in Seq(Nat) /\ Numbered(f, 0)
          BY <2>5
        <5>3. g \in Seq(Nat) /\ Len(g) = Len(f) + 1 /\ Numbered(g, 0)
          BY <5>1, <5>2, NumberedAppend, Zenon
        <5> QED BY <2>4, <5>3
      <4>3. Len(g) + Len(r) = (a + 1) + (b - 1) /\ (a + 1) + (b - 1) = a + b
        BY <2>4, <4>1, <4>2
      <4>4. Len(g) + Len(r) = m
        BY <2>4, <3>3, <4>3, Zenon
      <4>5. Numbered(r, Len(g))
        BY <4>1, <4>2, Zenon
      <4> QED BY <4>2, <4>4, <4>5
    <3> QED BY <2>6, <3>1, <3>2, <3>3
  <2>8. \A i \in DOMAIN g : g[i] = i
    BY <2>7 DEF Numbered
  <2> QED BY <2>3, <2>7, <2>8 DEF Pipeline!FilledOnce, Ids, Numbered
<1>3. OnceInv => Pipeline!FilledOnce
  OBVIOUS
<1> QED BY <1>1, <1>2, <1>3, AnyBookCorrect, PTL DEF AnyBookSpec

-----------------------------------------------------------------------------
(***************************************************************************)
(* Why an order alone on its way cannot overdraw: it was checked against   *)
(* the cash there is, and nothing is filled before it.                     *)
(***************************************************************************)
AffordableInFlight ==
    \A i \in DOMAIN InFlight :
        InFlight[i].signal.side = "Buy" => i = 1 /\ Affordable(InFlight[i].signal, cash)

SolventInv == ~overlapped => cash >= 0 /\ AffordableInFlight

(* The approval of an order. *)
LEMMA ApproveSolvent ==
    ASSUME TradingInv, SolventInv, NEW q, NEW o \in StandingOrder, Joins(o, q),
           UNCHANGED accountVars, ~overlapped'
    PROVE  cash' >= 0 /\ AffordableInFlight'
<1>1. cash' = cash
  BY DEF accountVars
<1>2. ~overlapped /\ (o.signal.side = "Buy" => ~UnderWay)
  <2>1. overlapped' = (overlapped \/ (o.signal.side = "Buy" /\ UnderWay))
    BY DEF Joins, ApprovesOn
  <2> QED BY <2>1, Zenon
<1>3. cash >= 0 /\ AffordableInFlight
  BY <1>2 DEF SolventInv
<1>4. PICK s \in Seq(StandingOrder) : s = InFlight
  BY FlightBounded DEF TradingInv
<1>5. PICK v : v = InFlight' /\ v = Append(s, o) /\ DOMAIN v = 1 .. Len(s) + 1 /\ Len(s) \in Nat
               /\ DOMAIN s = 1 .. Len(s) /\ v[Len(s) + 1] = o /\ \A i \in 1 .. Len(s) : v[i] = s[i]
  BY <1>4, AppendFacts DEF Joins
<1>6. ASSUME NEW i \in DOMAIN v, v[i].signal.side = "Buy"
      PROVE  i = 1 /\ Affordable(v[i].signal, cash)
  <2>1. CASE i \in 1 .. Len(s)
    BY <1>3, <1>4, <1>5, <1>6, <2>1 DEF AffordableInFlight
  <2>2. CASE i = Len(s) + 1
    <3>1. o.signal.side = "Buy" /\ v[i] = o
      BY <1>5, <1>6, <2>2
    <3>2. outbox = << >> /\ orders = << >> /\ executing = << >>
      BY <1>2, <3>1 DEF UnderWay
    <3>3. ~filled /\ cash_bits = cash
      BY <3>2, Zenon DEF TradingInv, MirrorInv
    <3>4. InFlight = (executing \o orders) \o outbox
      BY <3>3, Zenon DEF InFlight
    <3>5. Len(s) = 0
      BY <1>4, <3>2, <3>4
    <3>6. Affordable(o.signal, cash_bits)
      BY <3>1, Zenon DEF Joins, ApprovesOn, Approve, WithinLimits
    <3> QED BY <2>2, <3>1, <3>3, <3>5, <3>6
  <2> QED BY <1>5, <2>1, <2>2
<1> QED BY <1>1, <1>3, <1>5, <1>6 DEF AffordableInFlight, Affordable

(* The fill of an order, when the fee is covered by the headroom of the check. *)
LEMMA FillSolvent ==
    ASSUME TradingInv, SolventInv, Leaves, ~overlapped', FeeBp <= Headroom
    PROVE  cash' >= 0 /\ AffordableInFlight'
<1>1. ~overlapped
  <2>1. overlapped' = overlapped
    BY Zenon DEF Leaves, FillOrder, checkHistory
  <2> QED BY <2>1, Zenon
<1>2. cash >= 0 /\ AffordableInFlight
  BY <1>1 DEF SolventInv
<1>3. PICK s \in Seq(StandingOrder) : s = InFlight
  BY FlightBounded DEF TradingInv
<1>4. /\ s # << >> /\ InFlight' = Tail(s) /\ Head(s) = s[1] /\ Len(s) \in Nat \ {0}
      /\ DOMAIN s = 1 .. Len(s) /\ DOMAIN Tail(s) = 1 .. Len(s) - 1
      /\ \A i \in 1 .. Len(s) - 1 : Tail(s)[i] = s[i + 1]
  <2>1. s # << >> /\ InFlight' = Tail(s)
    BY <1>3 DEF Leaves
  <2>2. DOMAIN s = 1 .. Len(s)
    OBVIOUS
  <2> QED BY <2>1, <2>2, TailFacts
<1>5. ASSUME NEW i \in DOMAIN Tail(s)
      PROVE  Tail(s)[i].signal.side # "Buy"
  <2>1. i + 1 \in 1 .. Len(s) /\ i + 1 # 1 /\ Tail(s)[i] = s[i + 1]
    BY <1>4, <1>5
  <2> QED BY <1>2, <1>3, <1>4, <2>1 DEF AffordableInFlight
<1>6. AffordableInFlight'
  BY <1>4, <1>5 DEF AffordableInFlight
<1>7. PICK sig \in Signal : sig = executing[1].signal /\ sig = s[1].signal
  BY <1>3, <1>4 DEF Leaves, StandingOrder, ValidatedOrder
<1>8. PICK price \in Nat, qty \in Nat : price = sig.price /\ qty = sig.qty
  BY DEF Signal
<1>9. cash \in Int /\ FeeBp \in Nat /\ FeeBp <= 10 /\ Cent = 10000 /\ Unit = 10000
  BY AccountAssumption DEF TradingInv, AccountInv, AccountTypeOK, Cent, Unit, Headroom
<1>10. CASE sig.side = "Buy"
  <2>1. OnBuy(price, qty)
    BY <1>7, <1>8, <1>10 DEF Leaves, FillOrder
  <2>2. PICK n \in Nat, k \in Nat : n = price * qty /\ FeeBp + k = 10
    <3>1. 10 - FeeBp \in Nat /\ FeeBp + (10 - FeeBp) = 10
      BY <1>9
    <3>2. price * qty \in Nat
      OBVIOUS
    <3> QED BY <3>1, <3>2
  <2>3. n * (10000 + 10) <= cash
    <3>1. Affordable(sig, cash)
      BY <1>2, <1>3, <1>4, <1>7, <1>10 DEF AffordableInFlight
    <3> QED BY <1>8, <1>9, <2>2, <3>1 DEF Affordable, Headroom
  <2>4. cash' = cash - n * (10000 + FeeBp)
    BY <1>9, <2>1, <2>2 DEF OnBuy
  <2>5. PICK a \in Nat, b \in Nat : a = n * FeeBp /\ b = n * k
    BY <1>9
  <2>6. n * (10000 + FeeBp) = n * 10000 + a /\ n * (10000 + 10) = n * 10000 + (a + b)
    BY <1>9, <2>2, <2>5
  <2> QED BY <1>6, <1>9, <2>3, <2>4, <2>5, <2>6
<1>11. CASE sig.side # "Buy"
  <2>1. OnSell(price, qty)
    BY <1>7, <1>8, <1>11 DEF Leaves, FillOrder
  <2>2. buy_queue \in Seq(Lot)
    BY DEF TradingInv, AccountInv, AccountTypeOK
  <2>3. PICK m : m = MatchSell(buy_queue, price, qty) /\ m \in Matching /\ m.remaining <= qty
    BY <2>2, SellIsFifo DEF Matched
  <2>4. qty - m.remaining \in Nat
    BY <2>3 DEF Matching
  <2>5. PICK n \in Nat, k \in Nat : n = price * (qty - m.remaining) /\ k = 10000 - FeeBp
    <3>1. 10000 - FeeBp \in Nat
      BY <1>9
    <3>2. price * (qty - m.remaining) \in Nat
      BY <2>4
    <3> QED BY <3>1, <3>2
  <2>6. cash' = cash + n * k
    BY <1>9, <2>1, <2>3, <2>5 DEF OnSell
  <2>7. n * k \in Nat
    OBVIOUS
  <2> QED BY <1>2, <1>6, <1>9, <2>6, <2>7
<1> QED BY <1>10, <1>11

(***************************************************************************)
(* With a fee of at most the check's headroom of 0.1 %, only a buy         *)
(* approved while another order is under way can overdraw the account, for *)
(* any capital, budget and quotes.                                         *)
(***************************************************************************)
THEOREM AnyBookSolvent ==
    ASSUME FeeBp <= Headroom
    PROVE  AnyBookSpec => []SolventWhenAlone
<1>1. TradingInit => SolventInv
  <2>1. ASSUME TradingInit PROVE SolventInv
    <3>1. InFlight = << >>
      BY <2>1, TradingInitInv
    <3>2. AffordableInFlight
      BY <3>1 DEF AffordableInFlight
    <3>3. cash >= 0
      <4>1. cash = Capital * Cent /\ Capital \in Nat
        BY <2>1, AccountAssumption DEF TradingInit, AccountInit
      <4> QED BY <4>1 DEF Cent
    <3> QED BY <3>2, <3>3 DEF SolventInv
  <2> QED BY <2>1
<1>2. ASSUME TradingInv, SolventInv, TradingStep
      PROVE  SolventInv'
  <2>1. SUFFICES ASSUME ~overlapped'
                 PROVE  cash' >= 0 /\ AffordableInFlight'
    BY DEF SolventInv
  <2>2. ASSUME InFlight' = InFlight, cash' = cash, overlapped' = overlapped
        PROVE  cash' >= 0 /\ AffordableInFlight'
    <3>1. ~overlapped
      BY <2>1, <2>2, Zenon
    <3>2. cash >= 0 /\ AffordableInFlight
      BY <1>2, <3>1 DEF SolventInv
    <3> QED BY <2>2, <3>2 DEF AffordableInFlight, Affordable
  <2>3. CASE Passes
    <3>1. InFlight' = InFlight /\ cash' = cash
      BY <2>3 DEF Passes, accountVars
    <3>2. overlapped' = overlapped
      BY <2>3, Zenon DEF Passes, checkHistory
    <3> QED BY <2>2, <3>1, <3>2
  <2>4. ASSUME NEW q, Decides(q)
        PROVE  cash' >= 0 /\ AffordableInFlight'
    <3>1. UNCHANGED accountVars
      BY <2>4 DEF Decides
    <3>2. CASE Keeps(q)
      <4>1. InFlight' = InFlight /\ cash' = cash
        BY <3>1, <3>2 DEF Keeps, accountVars
      <4>2. overlapped' = overlapped
        BY <3>2, Zenon DEF Keeps, HoldsOn, RejectsOn, checkHistory
      <4> QED BY <2>2, <4>1, <4>2
    <3>3. ASSUME NEW o \in StandingOrder, Joins(o, q)
          PROVE  cash' >= 0 /\ AffordableInFlight'
      BY <1>2, <2>1, <3>1, <3>3, ApproveSolvent
    <3> QED BY <2>4, <3>2, <3>3 DEF Decides
  <2>5. CASE Leaves
    BY <1>2, <2>1, <2>5, FillSolvent
  <2> QED BY <1>2, <2>3, <2>4, <2>5, StepCases
<1>3. SolventInv => SolventWhenAlone
  BY DEF SolventInv, SolventWhenAlone
<1>4. TradingInv /\ SolventInv /\ [TradingStep]_tradingVars => SolventInv'
  BY <1>2 DEF TradingStep
<1> QED BY <1>1, <1>3, <1>4, AnyBookCorrect, PTL DEF AnyBookSpec

-----------------------------------------------------------------------------
(***************************************************************************)
(* The position that the strategy believes in.  s is the orders on their   *)
(* way, h the quantity that is open, holds and e what the strategy         *)
(* believes: buys and sells of the same quantity alternate, but for buys   *)
(* that were rejected, and the last word is the strategy's.                *)
(***************************************************************************)
Buys(o) == o.signal.side = "Buy"

Alternating(s, h) ==
    \A i \in DOMAIN s :
        /\ i = 1 => h = 0 \/ (~Buys(s[i]) /\ h = s[i].signal.qty)
        /\ i > 1 /\ Buys(s[i - 1]) => ~Buys(s[i]) /\ s[i - 1].signal.qty = s[i].signal.qty

Believed(s, h, holds, e) ==
    /\ s = << >> => h = 0 \/ (holds /\ h = e)
    /\ s # << >> /\ Buys(s[Len(s)]) => holds /\ e = s[Len(s)].signal.qty

(* The strategy's next order keeps the alternation. *)
LEMMA AlternatingAppend ==
    ASSUME NEW s \in Seq(StandingOrder), NEW h, NEW holds, NEW e, NEW o \in StandingOrder,
           Alternating(s, h), Believed(s, h, holds, e),
           Buys(o) => ~holds, ~Buys(o) => holds /\ o.signal.qty = e
    PROVE  Alternating(Append(s, o), h)
<1>1. PICK v : v = Append(s, o) /\ DOMAIN v = 1 .. Len(s) + 1 /\ Len(s) \in Nat
               /\ DOMAIN s = 1 .. Len(s) /\ v[Len(s) + 1] = o /\ \A i \in 1 .. Len(s) : v[i] = s[i]
  <2>1. /\ DOMAIN Append(s, o) = 1 .. Len(s) + 1 /\ Len(s) \in Nat
        /\ DOMAIN s = 1 .. Len(s) /\ Append(s, o)[Len(s) + 1] = o
        /\ \A i \in 1 .. Len(s) : Append(s, o)[i] = s[i]
    BY AppendFacts
  <2> QED BY <2>1, Zenon
<1>2. ASSUME NEW i \in DOMAIN v
      PROVE  /\ i = 1 => h = 0 \/ (~Buys(v[i]) /\ h = v[i].signal.qty)
             /\ i > 1 /\ Buys(v[i - 1]) => ~Buys(v[i]) /\ v[i - 1].signal.qty = v[i].signal.qty
  <2>1. CASE i \in 1 .. Len(s)
    <3>1. v[i] = s[i] /\ (i > 1 => v[i - 1] = s[i - 1])
      BY <1>1, <2>1
    <3> QED BY <1>1, <2>1, <3>1 DEF Alternating
  <2>2. CASE i = Len(s) + 1
    <3>1. v[i] = o
      BY <1>1, <2>2
    <3>2. ASSUME i = 1
          PROVE  h = 0 \/ (~Buys(o) /\ h = o.signal.qty)
      <4>1. s = << >>
        BY <1>1, <2>2, <3>2
      <4>2. h = 0 \/ (holds /\ h = e)
        BY <4>1 DEF Believed
      <4> QED BY <4>2, Zenon
    <3>3. ASSUME i > 1, Buys(v[i - 1])
          PROVE  ~Buys(o) /\ v[i - 1].signal.qty = o.signal.qty
      <4>1. s # << >> /\ i - 1 = Len(s) /\ v[i - 1] = s[Len(s)]
        <5>0. Len(s) \in Nat
          BY <1>1
        <5>1. i - 1 = Len(s) /\ Len(s) \in 1 .. Len(s) /\ Len(s) # 0
          BY <2>2, <3>3, <5>0
        <5>2. v[Len(s)] = s[Len(s)]
          BY <1>1, <5>1, Zenon
        <5> QED BY <5>1, <5>2
      <4>2. holds /\ e = s[Len(s)].signal.qty
        BY <3>3, <4>1 DEF Believed
      <4> QED BY <4>1, <4>2
    <3> QED BY <3>1, <3>2, <3>3
  <2> QED BY <1>1, <2>1, <2>2
<1> QED BY <1>1, <1>2 DEF Alternating

(* ... and so does the fill of the oldest, which leaves the quantity of a buy or nothing. *)
LEMMA AlternatingTail ==
    ASSUME NEW s \in Seq(StandingOrder), s # << >>, NEW h, NEW holds, NEW e, NEW g,
           Alternating(s, h), Believed(s, h, holds, e),
           g = IF Buys(s[1]) THEN s[1].signal.qty ELSE 0
    PROVE  Alternating(Tail(s), g) /\ Believed(Tail(s), g, holds, e)
<1>1. PICK v \in Seq(StandingOrder), n \in Nat :
        /\ v = Tail(s) /\ Len(s) = n + 1 /\ Len(v) = n
        /\ DOMAIN s = 1 .. n + 1 /\ DOMAIN v = 1 .. n
        /\ \A i \in 1 .. n : v[i] = s[i + 1]
  <2>1. /\ Tail(s) \in Seq(StandingOrder) /\ Len(Tail(s)) = Len(s) - 1
        /\ DOMAIN Tail(s) = 1 .. Len(s) - 1
        /\ \A i \in 1 .. Len(s) - 1 : Tail(s)[i] = s[i + 1]
        /\ Len(s) \in Nat \ {0} /\ DOMAIN s = 1 .. Len(s)
    BY TailFacts
  <2>2. PICK n \in Nat : n = Len(s) - 1 /\ Len(s) = n + 1
    <3>1. Len(s) - 1 \in Nat /\ Len(s) = (Len(s) - 1) + 1
      BY <2>1
    <3> QED BY <3>1, Zenon
  <2> QED BY <2>1, <2>2
<1>2. ASSUME NEW i \in 1 .. n
      PROVE  /\ i = 1 => g = 0 \/ (~Buys(v[i]) /\ g = v[i].signal.qty)
             /\ i > 1 /\ Buys(v[i - 1]) => ~Buys(v[i]) /\ v[i - 1].signal.qty = v[i].signal.qty
  <2>1. i + 1 \in DOMAIN s /\ i + 1 > 1 /\ (i + 1) - 1 = i /\ v[i] = s[i + 1]
    BY <1>1
  <2>2. Buys(s[i]) => ~Buys(s[i + 1]) /\ s[i].signal.qty = s[i + 1].signal.qty
    BY <2>1 DEF Alternating
  <2>3. i = 1 => g = 0 \/ (~Buys(v[i]) /\ g = v[i].signal.qty)
    BY <2>1, <2>2
  <2>4. i > 1 => v[i - 1] = s[i]
    <3>1. i > 1 => i - 1 \in 1 .. n /\ (i - 1) + 1 = i
      BY <1>1
    <3> QED BY <1>1, <3>1
  <2> QED BY <2>1, <2>2, <2>3, <2>4
<1>3. Alternating(v, g)
  BY <1>1, <1>2 DEF Alternating
<1>4. Believed(v, g, holds, e)
  <2>1. CASE n = 0
    <3>1. v = << >> /\ s[Len(s)] = s[1]
      BY <1>1, <2>1
    <3>2. Buys(s[1]) => holds /\ e = s[1].signal.qty
      BY <3>1 DEF Believed
    <3> QED BY <3>1, <3>2 DEF Believed
  <2>2. CASE n # 0
    <3>1. v # << >> /\ v[Len(v)] = s[Len(s)]
      <4>1. n \in 1 .. n /\ Len(v) = n /\ Len(s) = n + 1
        BY <1>1, <2>2
      <4>2. v[n] = s[n + 1]
        BY <1>1, <4>1, Zenon
      <4>3. v # << >>
        BY <1>1, <2>2
      <4> QED BY <4>1, <4>2, <4>3
    <3> QED BY <3>1 DEF Believed
  <2> QED BY <2>1, <2>2
<1> QED BY <1>1, <1>3, <1>4

(* What the strategy does when it emits a signal, or none. *)
LEMMA SignalMeaning ==
    ASSUME StrategyInv, NEW q, Priced(q), Asked(q)
    PROVE  /\ SignalOf(q) = NoSignal => entry_qty' = entry_qty /\ holding' = holding
           /\ SignalOf(q) # NoSignal /\ SignalOf(q).side = "Buy" =>
                ~holding /\ holding' /\ entry_qty' = SignalOf(q).qty
           /\ SignalOf(q) # NoSignal /\ SignalOf(q).side # "Buy" =>
                holding /\ entry_qty = SignalOf(q).qty
<1>1. strategy \in Known
  BY DEF StrategyInv, StrategiesTypeOK
<1>2. \A price, qty : /\ Buy(price, qty).side = "Buy" /\ Buy(price, qty).qty = qty
                      /\ Sell(price, qty).side = "Sell" /\ Sell(price, qty).qty = qty
  BY DEF Buy, Sell
<1>3. NoSignal.side = "Hold"
  BY DEF NoSignal
<1>4. ASSUME NEW price, Enter(price)
      PROVE  holding' /\ entry_qty' = EntryQty(price)
  <2>1. holding' = TRUE
    BY <1>4, Zenon DEF Enter
  <2> QED BY <1>4, <2>1, Zenon DEF Enter
<1>5. CASE strategy = "pingpong"
  <2>1. SignalOf(q) = PingPongSignal(q)
    BY <1>5 DEF SignalOf
  <2>2. PingPongAsked(q)
    BY <1>5 DEF Asked
  <2>3. CASE PingPongEnters(q)
    <3>1. SignalOf(q) = Buy(q.bid, EntryQty(q.bid))
      BY <2>1, <2>3 DEF PingPongSignal, PingPongEnters, PingPongExits
    <3>2. Enter(q.bid) /\ ~holding
      BY <2>2, <2>3, Zenon DEF PingPongAsked, PingPongEnters, PingPongExits
    <3> QED BY <1>2, <1>3, <1>4, <3>1, <3>2
  <2>4. CASE PingPongExits(q)
    <3>1. PICK price : SignalOf(q) = Sell(price, entry_qty)
      BY <2>1, <2>4 DEF PingPongSignal, PingPongEnters, PingPongExits
    <3>2. holding
      BY <2>4, Zenon DEF PingPongExits
    <3>3. SignalOf(q).side = "Sell" /\ SignalOf(q).qty = entry_qty
      BY <3>1 DEF Sell
    <3>4. SignalOf(q) # NoSignal /\ SignalOf(q).side # "Buy"
      BY <1>3, <3>3
    <3> QED BY <3>2, <3>3, <3>4, Zenon
  <2>5. CASE ~PingPongEnters(q) /\ ~PingPongExits(q)
    <3>1. SignalOf(q) = NoSignal
      BY <2>1, <2>5 DEF PingPongSignal
    <3>2. holding' = holding /\ entry_qty' = entry_qty
      BY <2>2, <2>5, Zenon DEF PingPongAsked, positionVars
    <3> QED BY <3>1, <3>2
  <2> QED BY <2>3, <2>4, <2>5
<1>6. CASE strategy = "momentum"
  <2>1. SignalOf(q) = MomentumSignal(q)
    BY <1>6 DEF SignalOf
  <2>2. MomentumAsked(q)
    BY <1>6 DEF Asked
  <2>3. CASE MomentumEnters(q)
    <3>1. SignalOf(q) = Buy(q.ask, EntryQty(q.ask))
      BY <2>1, <2>3 DEF MomentumSignal, MomentumEnters, MomentumExits
    <3>2. Enter(q.ask) /\ ~holding
      BY <2>2, <2>3, Zenon DEF MomentumAsked, MomentumEnters, MomentumExits
    <3> QED BY <1>2, <1>3, <1>4, <3>1, <3>2
  <2>4. CASE MomentumExits(q)
    <3>1. SignalOf(q) = Sell(q.bid, entry_qty)
      BY <2>1, <2>4 DEF MomentumSignal, MomentumEnters, MomentumExits
    <3>2. holding
      BY <2>4, Zenon DEF MomentumExits
    <3>3. SignalOf(q).side = "Sell" /\ SignalOf(q).qty = entry_qty
      BY <3>1 DEF Sell
    <3>4. SignalOf(q) # NoSignal /\ SignalOf(q).side # "Buy"
      BY <1>3, <3>3
    <3> QED BY <3>2, <3>3, <3>4, Zenon
  <2>5. CASE ~MomentumEnters(q) /\ ~MomentumExits(q)
    <3>1. SignalOf(q) = NoSignal
      BY <2>1, <2>5 DEF MomentumSignal
    <3>2. holding' = holding /\ entry_qty' = entry_qty
      BY <2>2, <2>5, Zenon DEF MomentumAsked, positionVars
    <3> QED BY <3>1, <3>2
  <2> QED BY <2>3, <2>4, <2>5
<1>7. CASE strategy = "noop"
  <2>1. SignalOf(q) = NoSignal
    BY <1>7 DEF SignalOf
  <2>2. UNCHANGED positionVars
    BY <1>7 DEF Asked
  <2>3. holding' = holding /\ entry_qty' = entry_qty
    BY <2>2, Zenon DEF positionVars
  <2> QED BY <2>1, <2>3
<1> QED BY <1>1, <1>5, <1>6, <1>7 DEF Known

(* The quantity that is open, when it is in one lot. *)
Held(w) == IF w = << >> THEN 0 ELSE w[1].qty

(* A sale of what is open leaves nothing; neither does one when nothing is open. *)
LEMMA SellAll ==
    ASSUME NEW w \in Seq(Lot), Len(w) <= 1, NEW price \in Nat, NEW qty \in Nat,
           Held(w) = 0 \/ Held(w) = qty
    PROVE  MatchSell(w, price, qty).queue = << >>
<1>1. CASE w = << >>
  <2>1. PICK m \in Matching : m = MatchSell(w, price, qty) /\ Matched(m, w, Len(w), qty)
    BY SellIsFifo
  <2>2. Len(w) = 0 /\ 0 .. 0 = {0}
    BY <1>1
  <2>3. Len(m.queue) = 0
    BY <2>1, <2>2 DEF Matched, Unsold
  <2>4. m.queue \in Seq(Lot)
    BY DEF Matching
  <2> QED BY <2>1, <2>3, <2>4
<1>2. CASE w # << >>
  <2>1. PICK lot \in Lot : lot = w[1] /\ Len(w) = 1
    BY <1>2
  <2>2. lot.qty = qty /\ qty \in Nat \ {0}
    BY <1>2, <2>1 DEF Held, Lot
  <2>3. PICK p \in [0 .. Len(w) -> Matching] :
          /\ p[0] = Unmatched(qty)
          /\ \A k \in 1 .. Len(w) : p[k] = MatchLot(price, p[k - 1], w[k])
          /\ MatchSell(w, price, qty) = p[Len(w)]
    BY MatchSellPath
  <2>4. 1 \in 1 .. Len(w) /\ 1 - 1 = 0
    BY <2>1
  <2>5. MatchSell(w, price, qty) = MatchLot(price, Unmatched(qty), lot)
    BY <2>1, <2>3, <2>4
  <2>6. Unmatched(qty).remaining = qty /\ Unmatched(qty).queue = << >>
    BY DEF Unmatched
  <2>7. qty <= qty
    BY <2>2
  <2>8. MatchLot(price, Unmatched(qty), lot).queue = << >>
    BY <2>2, <2>6, <2>7 DEF MatchLot
  <2> QED BY <2>5, <2>8
<1> QED BY <1>1, <1>2

(***************************************************************************)
(* The account and the strategy agree, once the orders on their way are    *)
(* filled: what is open is in one lot, and the strategy's word continues   *)
(* from it.                                                                *)
(***************************************************************************)
PositionInv ==
    ~excused => /\ Len(buy_queue) <= 1
                /\ Alternating(InFlight, Held(buy_queue))
                /\ Believed(InFlight, Held(buy_queue), holding, entry_qty)

(* The fill of an order leaves the quantity of a buy, or nothing. *)
LEMMA FillHeld ==
    ASSUME TradingInv, Leaves, Len(buy_queue) <= 1, Alternating(InFlight, Held(buy_queue))
    PROVE  /\ Len(buy_queue') <= 1
           /\ Held(buy_queue') = IF Buys(InFlight[1]) THEN InFlight[1].signal.qty ELSE 0
<1>1. PICK w \in Seq(Lot) : w = buy_queue
  BY DEF TradingInv, AccountInv, AccountTypeOK
<1>2. PICK s \in Seq(StandingOrder) : s = InFlight /\ s # << >>
  BY FlightBounded DEF TradingInv, Leaves
<1>3. 1 \in DOMAIN s /\ Head(s) = s[1]
  BY <1>2
<1>4. PICK o \in StandingOrder : o = s[1] /\ o = executing[1]
  BY <1>2, <1>3 DEF Leaves
<1>5. PICK sig \in Signal : sig = o.signal /\ sig.price \in Nat /\ sig.qty \in Nat \ {0}
  <2>1. o.signal \in Signal /\ o.signal.qty > 0
    BY DEF StandingOrder, ValidatedOrder
  <2>2. o.signal.price \in Nat /\ o.signal.qty \in Nat
    BY <2>1 DEF Signal
  <2>3. o.signal.qty \in Nat \ {0}
    BY <2>1, <2>2
  <2> QED BY <2>1, <2>2, <2>3
<1>6. Held(w) = 0 \/ (~Buys(o) /\ Held(w) = sig.qty)
  BY <1>1, <1>2, <1>3, <1>4, <1>5 DEF Alternating
<1>7. CASE Buys(o)
  <2>1. OnBuy(sig.price, sig.qty)
    BY <1>4, <1>5, <1>7, Zenon DEF Leaves, FillOrder, Buys
  <2>2. PICK lot \in Lot : lot = [price |-> sig.price, qty |-> sig.qty]
    BY <1>5 DEF Lot
  <2>3. w = << >>
    <3>1. w # << >> => w[1] \in Lot
      OBVIOUS
    <3>2. w # << >> => w[1].qty # 0
      BY <3>1 DEF Lot
    <3> QED BY <1>6, <1>7, <3>2 DEF Held
  <2>4. buy_queue' = <<lot>>
    BY <1>1, <2>1, <2>2, <2>3 DEF OnBuy
  <2>5. Len(buy_queue') = 1 /\ Held(buy_queue') = sig.qty
    BY <2>2, <2>4 DEF Held
  <2> QED BY <1>2, <1>4, <1>5, <1>7, <2>5
<1>8. CASE ~Buys(o)
  <2>1. OnSell(sig.price, sig.qty)
    BY <1>4, <1>5, <1>8, Zenon DEF Leaves, FillOrder, Buys
  <2>2. Len(w) <= 1 /\ sig.qty \in Nat
    BY <1>1, <1>5
  <2>3. MatchSell(w, sig.price, sig.qty).queue = << >>
    BY <1>5, <1>6, <2>2, SellAll
  <2>4. buy_queue' = << >>
    BY <1>1, <2>1, <2>3 DEF OnSell
  <2>5. Len(buy_queue') = 0 /\ Held(buy_queue') = 0
    BY <2>4 DEF Held
  <2> QED BY <1>2, <1>4, <1>8, <2>5
<1> QED BY <1>7, <1>8

(* A sell that is rejected is rejected by a limit that excuses it. *)
LEMMA RejectedSell ==
    ASSUME TradingInv, NEW sig \in Signal, NEW q, RejectsOn(sig, q), ~excused'
    PROVE  sig.side = "Buy"
<1>1. excused' = (excused \/ (sig.side = "Sell" /\ MayReject(sig, q.bid)))
  BY DEF RejectsOn
<1>2. ~(sig.side = "Sell" /\ MayReject(sig, q.bid))
  BY <1>1, Zenon
<1>3. ASSUME sig.side = "Sell"
      PROVE  MayReject(sig, q.bid)
  <2>1. sig.side # "Buy"
    BY <1>3
  <2>2. CASE RejectLimits(sig, q.bid, cash_bits, halt_flag)
    <3>1. halt_flag \/ ~(sig.qty <= MaxOrderQty) \/ ~InBand(sig, q.bid)
      BY <2>1, <2>2, Zenon DEF RejectLimits, WithinLimits
    <3>2. sig.qty \in Nat /\ MaxOrderQty \in Nat
      BY RiskAssumption DEF Signal
    <3>3. ~(sig.qty <= MaxOrderQty) => sig.qty > MaxOrderQty
      BY <3>2
    <3> QED BY <3>1, <3>3, Zenon DEF MayReject
  <2>3. CASE RejectRate(sig, q.bid, cash_bits, halt_flag)
    BY <2>3, Zenon DEF RejectRate, MayReject
  <2> QED BY <2>2, <2>3, Zenon DEF RejectsOn
<1>4. sig.side \in {"Buy", "Sell"}
  BY DEF Signal
<1> QED BY <1>2, <1>3, <1>4, Zenon

(* What a decision of the strategy does to the agreement. *)
LEMMA DecideAgrees ==
    ASSUME TradingInv, NEW q, Decides(q), NEW h,
           Alternating(InFlight, h), Believed(InFlight, h, holding, entry_qty), ~excused'
    PROVE  Alternating(InFlight', h) /\ Believed(InFlight', h, holding', entry_qty')
<1>1. PICK s \in Seq(StandingOrder) : s = InFlight
  BY FlightBounded DEF TradingInv
<1>2. StrategyInv /\ Priced(q) /\ Asked(q)
  BY DEF TradingInv, Decides
<1>3. /\ SignalOf(q) = NoSignal => entry_qty' = entry_qty /\ holding' = holding
      /\ SignalOf(q) # NoSignal /\ SignalOf(q).side = "Buy" =>
           ~holding /\ holding' /\ entry_qty' = SignalOf(q).qty
      /\ SignalOf(q) # NoSignal /\ SignalOf(q).side # "Buy" =>
           holding /\ entry_qty = SignalOf(q).qty
  BY <1>2, SignalMeaning
<1>4. ASSUME NEW sig \in Signal
      PROVE  sig # NoSignal
  BY <1>4 DEF Signal, NoSignal
<1>5. CASE InFlight' = InFlight /\ HoldsOn(q)
  <2>1. holding' = holding /\ entry_qty' = entry_qty
    BY <1>3, <1>5, Zenon DEF HoldsOn
  <2> QED BY <1>5, <2>1 DEF Believed
<1>6. ASSUME InFlight' = InFlight, NEW sig \in Signal, RejectsOn(sig, q)
      PROVE  Alternating(InFlight', h) /\ Believed(InFlight', h, holding', entry_qty')
  <2>1. sig = SignalOf(q) /\ sig.side = "Buy"
    BY <1>6, RejectedSell DEF RejectsOn
  <2>2. ~holding /\ holding'
    BY <1>3, <1>4, <2>1, Zenon
  <2>3. s = << >> => h = 0
    BY <1>1, <2>2, Zenon DEF Believed
  <2>4. ~(s # << >> /\ Buys(s[Len(s)]))
    BY <1>1, <2>2, Zenon DEF Believed
  <2>5. Believed(s, h, holding', entry_qty')
    BY <2>3, <2>4 DEF Believed
  <2> QED BY <1>1, <1>6, <2>5
<1>7. ASSUME NEW o \in StandingOrder, Joins(o, q)
      PROVE  Alternating(InFlight', h) /\ Believed(InFlight', h, holding', entry_qty')
  <2>1. o.signal = SignalOf(q) /\ o.signal \in Signal
    BY <1>7 DEF Joins, ApprovesOn, StandingOrder, ValidatedOrder
  <2>2. Buys(o) => ~holding /\ holding' /\ entry_qty' = o.signal.qty
    BY <1>3, <1>4, <2>1, Zenon DEF Buys
  <2>3. ~Buys(o) => holding /\ entry_qty = o.signal.qty
    BY <1>3, <1>4, <2>1, Zenon DEF Buys
  <2>4. PICK v : v = InFlight' /\ v = Append(s, o)
    BY <1>1, <1>7 DEF Joins
  <2>5. Alternating(v, h)
    <3>1. Alternating(s, h) /\ Believed(s, h, holding, entry_qty)
      BY <1>1
    <3>2. (Buys(o) => ~holding) /\ (~Buys(o) => holding /\ o.signal.qty = entry_qty)
      BY <2>2, <2>3, Zenon
    <3> QED BY <2>4, <3>1, <3>2, AlternatingAppend
  <2>6. v # << >> /\ v[Len(v)] = o
    BY <2>4
  <2>7. Believed(v, h, holding', entry_qty')
    <3>1. Buys(o) => holding' /\ entry_qty' = o.signal.qty
      BY <2>2, Zenon
    <3> QED BY <2>6, <3>1 DEF Believed
  <2> QED BY <2>4, <2>5, <2>7
<1> QED BY <1>5, <1>6, <1>7 DEF Decides, Keeps

(* Every step keeps the agreement. *)
LEMMA PositionStep ==
    ASSUME TradingInv, PositionInv, TradingStep
    PROVE  PositionInv'
<1>1. SUFFICES ASSUME ~excused'
               PROVE  /\ Len(buy_queue') <= 1
                      /\ Alternating(InFlight', Held(buy_queue'))
                      /\ Believed(InFlight', Held(buy_queue'), holding', entry_qty')
  BY DEF PositionInv
<1>2. ASSUME ~excused
      PROVE  /\ Len(buy_queue) <= 1
             /\ Alternating(InFlight, Held(buy_queue))
             /\ Believed(InFlight, Held(buy_queue), holding, entry_qty)
  BY <1>2 DEF PositionInv
<1>3. CASE Passes
  <2>1. InFlight' = InFlight /\ buy_queue' = buy_queue /\ entry_qty' = entry_qty
    BY <1>3 DEF Passes, accountVars, strategyVars, positionVars
  <2>2. holding' = holding /\ excused' = excused
    BY <1>3, Zenon DEF Passes, strategyVars, positionVars, checkHistory
  <2>3. ~excused
    BY <1>1, <2>2, Zenon
  <2> QED BY <1>2, <2>1, <2>2, <2>3 DEF Believed
<1>4. ASSUME NEW q, Decides(q)
      PROVE  /\ Len(buy_queue') <= 1
             /\ Alternating(InFlight', Held(buy_queue'))
             /\ Believed(InFlight', Held(buy_queue'), holding', entry_qty')
  <2>1. buy_queue' = buy_queue
    BY <1>4 DEF Decides, accountVars
  <2>2. excused => excused'
    BY <1>4, Zenon DEF Decides, Keeps, Joins, HoldsOn, RejectsOn, ApprovesOn, checkHistory
  <2>3. ~excused
    BY <1>1, <2>2, Zenon
  <2>4. PICK h : h = Held(buy_queue)
    OBVIOUS
  <2>5. Alternating(InFlight, h) /\ Believed(InFlight, h, holding, entry_qty)
    BY <1>2, <2>3, <2>4
  <2>6. Alternating(InFlight', h) /\ Believed(InFlight', h, holding', entry_qty')
    BY <1>1, <1>4, <2>5, DecideAgrees
  <2> QED BY <1>2, <2>1, <2>3, <2>4, <2>6
<1>5. CASE Leaves
  <2>1. excused' = excused /\ holding' = holding
    BY <1>5, Zenon DEF Leaves, FillOrder, checkHistory, strategyVars, positionVars
  <2>2. entry_qty' = entry_qty /\ InFlight' = Tail(InFlight) /\ InFlight # << >>
    BY <1>5 DEF Leaves, FillOrder, strategyVars, positionVars
  <2>3. ~excused
    BY <1>1, <2>1, Zenon
  <2>4. PICK s \in Seq(StandingOrder) : s = InFlight
    BY FlightBounded DEF TradingInv
  <2>5. PICK h, g : h = Held(buy_queue) /\ g = Held(buy_queue')
    OBVIOUS
  <2>6. Len(buy_queue') <= 1 /\ g = IF Buys(s[1]) THEN s[1].signal.qty ELSE 0
    BY <1>2, <1>5, <2>3, <2>4, <2>5, FillHeld
  <2>7. Alternating(s, h) /\ Believed(s, h, holding, entry_qty) /\ s # << >>
    BY <1>2, <2>2, <2>3, <2>4, <2>5
  <2>8. Alternating(Tail(s), g) /\ Believed(Tail(s), g, holding, entry_qty)
    BY <2>6, <2>7, AlternatingTail
  <2> QED BY <2>1, <2>2, <2>4, <2>5, <2>6, <2>8
<1> QED BY <1>3, <1>4, <1>5, StepCases

(* With no order on its way, the agreement is what the property says. *)
LEMMA PositionInvImplies ==
    ASSUME TradingInv, PositionInv
    PROVE  PositionFollowsStrategy
<1>1. SUFFICES ASSUME InFlight = << >>, ~excused, buy_queue # << >>
               PROVE  holding /\ PositionQty = entry_qty
  BY DEF PositionFollowsStrategy
<1>2. PICK w \in Seq(Lot) : w = buy_queue
  BY DEF TradingInv, AccountInv, AccountTypeOK
<1>3. Len(buy_queue) <= 1 /\ Believed(InFlight, Held(buy_queue), holding, entry_qty)
  BY <1>1, Zenon DEF PositionInv
<1>4. PICK lot \in Lot : lot = w[1] /\ w = <<lot>>
  <2>1. Len(w) <= 1 /\ w # << >>
    BY <1>1, <1>2, <1>3
  <2>2. w = <<w[1]>> /\ w[1] \in Lot
    BY <2>1, OneElement
  <2> QED BY <2>2, Zenon
<1>5. Held(buy_queue) = lot.qty /\ lot.qty # 0
  BY <1>1, <1>2, <1>4 DEF Held, Lot
<1>6. Held(buy_queue) = 0 \/ (holding /\ Held(buy_queue) = entry_qty)
  BY <1>1, <1>3 DEF Believed
<1>7. holding /\ entry_qty = lot.qty
  BY <1>5, <1>6
<1>8. PositionQty = lot.qty
  BY <1>2, <1>4, OpenFew DEF PositionQty
<1> QED BY <1>7, <1>8

(***************************************************************************)
(* With no order on its way the account is flat or holds what the strategy *)
(* believes it holds, for any budget, balance and quotes, as long as no    *)
(* sell was rejected by the kill switch, the rate limit, the size or the   *)
(* price band.                                                             *)
(***************************************************************************)
THEOREM AnyBookFollows == AnyBookSpec => []PositionFollowsStrategy
<1>1. TradingInit => PositionInv
  <2>1. ASSUME TradingInit PROVE PositionInv
    <3>1. InFlight = << >> /\ buy_queue = << >>
      BY <2>1, TradingInitInv DEF TradingInit, AccountInit
    <3>2. Alternating(<< >>, 0) /\ Believed(<< >>, 0, holding, entry_qty)
      BY DEF Alternating, Believed
    <3> QED BY <3>1, <3>2 DEF PositionInv, Held
  <2> QED BY <2>1
<1>2. TradingInv /\ PositionInv /\ [TradingStep]_tradingVars => PositionInv'
  BY PositionStep DEF TradingStep
<1>3. TradingInv /\ PositionInv => PositionFollowsStrategy
  BY PositionInvImplies
<1> QED BY <1>1, <1>2, <1>3, AnyBookCorrect, PTL DEF AnyBookSpec

-----------------------------------------------------------------------------
(* Trading takes its quotes from a set. *)
LEMMA TradingIsOfAnyBook == TradingSpec => AnyBookSpec
<1>1. [TradingNext]_tradingVars => [TradingStep]_tradingVars
  BY TradingNextIsStep
<1> QED BY <1>1, PTL DEF TradingSpec, AnyBookSpec

(* Every variable of live trading keeps its type. *)
THEOREM TradingTypeCorrect == TradingSpec => []TradingTypeOK
<1>1. TradingInv => TradingTypeOK
  BY TradingInvImplies
<1> QED BY <1>1, AnyBookCorrect, TradingIsOfAnyBook, PTL

(***************************************************************************)
(* After the kill switch is set no more orders are filled than the book    *)
(* thread, the channel and the executor hold, for any capacity.            *)
(***************************************************************************)
THEOREM LateFillsAreBounded == TradingSpec => []LateFillsBounded
<1>1. TradingInv => LateFillsBounded
  BY TradingInvImplies
<1> QED BY <1>1, AnyBookCorrect, TradingIsOfAnyBook, PTL

(* No sequence of fills makes or loses money. *)
THEOREM LedgerAlwaysBalances == TradingSpec => []LedgerBalances
<1>1. TradingInv => LedgerBalances
  BY TradingInvImplies
<1> QED BY <1>1, AnyBookCorrect, TradingIsOfAnyBook, PTL

(* What is open is always the latest buys, the oldest of them in part perhaps. *)
THEOREM MatchingIsFifo == TradingSpec => []FifoOrder
<1>1. TradingInv => FifoOrder
  BY TradingInvImplies
<1> QED BY <1>1, AnyBookCorrect, TradingIsOfAnyBook, PTL

(* No second of live trading, wherever it starts, has more orders than the limit. *)
THEOREM TradingRateLimited == TradingSpec => []RateLimited
<1>1. TradingInv => RateLimited
  BY TradingInvImplies
<1> QED BY <1>1, AnyBookCorrect, TradingIsOfAnyBook, PTL

(***************************************************************************)
(* The way of an order through Trading is a bounded queue that only the    *)
(* approval of an order enters, with an id of its own, and only its fill   *)
(* leaves.                                                                 *)
(***************************************************************************)
THEOREM TradingImplementsPipeline == TradingSpec => ImplementsPipeline
BY AnyBookImplementsPipeline, TradingIsOfAnyBook, PTL

(* Hence no approved order of Trading is lost, filled twice or out of order. *)
THEOREM TradingFillsOnce == TradingSpec => []Pipeline!FilledOnce
BY AnyBookFillsOnce, TradingIsOfAnyBook, PTL

(***************************************************************************)
(* With a fee that the headroom of the check covers, only a buy approved   *)
(* while another order is under way can overdraw the account of Trading.   *)
(***************************************************************************)
THEOREM AlwaysSolventWhenAlone ==
    ASSUME FeeBp <= Headroom
    PROVE  TradingSpec => []SolventWhenAlone
BY AnyBookSolvent, TradingIsOfAnyBook, PTL

(***************************************************************************)
(* In Trading, with no order on its way, the account is flat or holds what *)
(* the strategy believes it holds.                                         *)
(***************************************************************************)
THEOREM PositionAlwaysFollows == TradingSpec => []PositionFollowsStrategy
BY AnyBookFollows, TradingIsOfAnyBook, PTL
=============================================================================
