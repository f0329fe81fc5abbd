----------------------------- MODULE FoldLemmas -----------------------------
(***************************************************************************)
(* Lemmas about natural numbers, about FoldLeft of the community modules   *)
(* and about the folds of FifoPnl, which the proofs of several components  *)
(* need.                                                                   *)
(*                                                                         *)
(* The provers cannot instantiate an induction theorem over a predicate.   *)
(* An induction is therefore a proof by least counterexample: the set of   *)
(* numbers at which the claim fails, were it not empty, would have a least *)
(* element (LeastNat, from the well-foundedness of < on Nat).  For the     *)
(* same reason a fold is described by a function of first order: step      *)
(* gives for a value and a position what the fold makes of the two.        *)
(***************************************************************************)
EXTENDS FifoPnl, FiniteSetTheorems, WellFoundedInduction, TLAPS

(* Every non-empty set of natural numbers has a least element. *)
LEMMA LeastNat ==
    ASSUME NEW T, T \subseteq Nat, T # {}
    PROVE  \E x \in T : \A y \in T : x <= y
<1> DEFINE R == {p \in Nat \X Nat : p[1] < p[2]}
<1>1. IsWellFoundedOn(R, Nat)
  <2>1. R = OpToRel(<, Nat)
    BY DEF OpToRel
  <2> QED BY <2>1, NatLessThanWellFounded
<1>2. PICK x \in T : \A y \in T : ~(<<y, x>> \in R)
  <2> HIDE DEF R
  <2> QED BY <1>1, WFMin
<1>3. \A y \in T : y < x => <<y, x>> \in R
  OBVIOUS
<1>4. \A y \in T : ~(y < x)
  BY <1>2, <1>3
<1> QED BY <1>4

(* The CHOOSE of Min has a witness in every non-empty set of naturals. *)
LEMMA MinNat ==
    ASSUME NEW T, T \subseteq Nat, T # {}
    PROVE  Min(T) \in T /\ \A y \in T : Min(T) <= y
<1>1. PICK x \in T : \A y \in T : x <= y
  BY LeastNat
<1> QED BY <1>1 DEF Min

(* The CHOOSE of Max has a witness in every non-empty bounded one. *)
LEMMA MaxNat ==
    ASSUME NEW n \in Nat, NEW T, T \subseteq 0 .. n, T # {}
    PROVE  Max(T) \in T /\ \A y \in T : Max(T) >= y
<1> DEFINE D == {n - t : t \in T}
<1>1. D \subseteq Nat /\ D # {}
  <2>1. \A t \in T : n - t \in Nat
    OBVIOUS
  <2> QED BY <2>1
<1>2. PICK d \in D : \A y \in D : d <= y
  <2> HIDE DEF D
  <2> QED BY <1>1, LeastNat
<1>3. PICK x \in T : d = n - x
  OBVIOUS
<1>4. \A y \in T : x >= y
  <2> TAKE y \in T
  <2>1. n - y \in D
    OBVIOUS
  <2>2. n - x <= n - y
    BY <2>1, <1>2, <1>3
  <2> QED BY <2>2
<1> QED BY <1>4 DEF Max

-----------------------------------------------------------------------------
(* The largest of 1 .. k is k, and without it 1 .. k - 1 is left. *)
LEMMA MaxUpTo ==
    ASSUME NEW k \in Nat \ {0}
    PROVE  Max(1 .. k) = k /\ (1 .. k) \ {k} = 1 .. k - 1
<1>1. k \in 1 .. k /\ \A y \in 1 .. k : k >= y
  OBVIOUS
<1>2. Max(1 .. k) \in 1 .. k /\ \A y \in 1 .. k : Max(1 .. k) >= y
  BY <1>1 DEF Max
<1> QED BY <1>1, <1>2

(***************************************************************************)
(* A fold over the positions 1 .. n of a sequence, with values in X.       *)
(* FoldLeft computes it for every subset of the positions (FoldOf says so  *)
(* of a function, Computes of anything that FoldLeft may choose); PathOf   *)
(* is the path of the intermediate results.                                *)
(***************************************************************************)
FoldSteps(n, X) == [X \X (1 .. n) -> X]

FoldOf(g, n, X, base, step) ==
    /\ g \in [SUBSET (1 .. n) -> X]
    /\ \A s \in SUBSET (1 .. n) :
         g[s] = IF s = {} THEN base ELSE step[<<g[s \ {Max(s)}], Max(s)>>]

Computes(iter, n, X, base, step) ==
    /\ iter[{}] = base
    /\ \A s \in SUBSET (1 .. n) :
         s # {} /\ iter[s \ {Max(s)}] \in X
             => iter[s] = step[<<iter[s \ {Max(s)}], Max(s)>>]

PathOf(p, n, X, base, step) ==
    /\ p \in [0 .. n -> X]
    /\ p[0] = base
    /\ \A k \in 1 .. n : p[k] = step[<<p[k - 1], k>>]

(* The recursion of FoldLeft has a solution, for every step function. *)
LEMMA FoldExists ==
    ASSUME NEW n \in Nat, NEW X, NEW base \in X, NEW step \in FoldSteps(n, X)
    PROVE  \E g : FoldOf(g, n, X, base, step)
<1> USE DEF FoldSteps
<1> DEFINE Solves(g, m) ==
      \A s \in SUBSET (1 .. m) :
        g[s] = IF s = {} THEN base ELSE step[<<g[s \ {Max(s)}], Max(s)>>]
    Fails == {m \in 0 .. n : ~\E g \in [SUBSET (1 .. m) -> X] : Solves(g, m)}
<1>1. 0 \notin Fails
  <2> DEFINE g == [s \in SUBSET (1 .. 0) |-> base]
  <2>1. SUBSET (1 .. 0) = {{}}
    OBVIOUS
  <2>2. g \in [SUBSET (1 .. 0) -> X] /\ g[{}] = base
    BY <2>1
  <2>3. Solves(g, 0)
    BY <2>1, <2>2
  <2> QED BY <2>2, <2>3
<1>2. ASSUME NEW m \in 0 .. n, m + 1 \in 0 .. n, m \notin Fails
      PROVE  m + 1 \notin Fails
  <2>1. PICK g \in [SUBSET (1 .. m) -> X] : Solves(g, m)
    BY <1>2
  <2> DEFINE k == m + 1
             h == [s \in SUBSET (1 .. k) |-> IF k \in s THEN step[<<g[s \ {k}], k>>] ELSE g[s]]
  <2>2. /\ k \in 1 .. n
        /\ \A s \in SUBSET (1 .. k) : s \ {k} \in SUBSET (1 .. m)
        /\ \A s \in SUBSET (1 .. k) : k \notin s => s \in SUBSET (1 .. m)
    BY <1>2
  <2>3. h \in [SUBSET (1 .. k) -> X]
    <3>1. ASSUME NEW s \in SUBSET (1 .. k)
          PROVE  (IF k \in s THEN step[<<g[s \ {k}], k>>] ELSE g[s]) \in X
      BY <2>1, <2>2
    <3> QED BY <3>1
  <2>4. ASSUME NEW s \in SUBSET (1 .. k)
        PROVE  h[s] = IF s = {} THEN base ELSE step[<<h[s \ {Max(s)}], Max(s)>>]
    <3>1. CASE k \in s
      <4>1. Max(s) = k
        <5>1. k \in Nat /\ \A y \in s : k >= y
          BY <2>2
        <5>2. Max(s) \in s /\ \A y \in s : Max(s) >= y
          BY <3>1, <5>1 DEF Max
        <5>3. Max(s) \in 1 .. k
          BY <5>2
        <5>4. Max(s) \in Nat /\ Max(s) >= k /\ k >= Max(s)
          BY <3>1, <5>1, <5>2, <5>3
        <5> HIDE DEF k
        <5> QED BY <5>1, <5>4
      <4>2. s \ {k} \in SUBSET (1 .. k) /\ k \notin s \ {k}
        BY <2>2
      <4>3. h[s \ {k}] = g[s \ {k}] /\ h[s] = step[<<g[s \ {k}], k>>]
        BY <3>1, <4>2
      <4> HIDE DEF h, k
      <4> QED BY <3>1, <4>1, <4>3
    <3>2. CASE k \notin s
      <4>1. s \in SUBSET (1 .. m) /\ h[s] = g[s]
        BY <2>2, <3>2
      <4>2. s \ {Max(s)} \in SUBSET (1 .. k) /\ k \notin s \ {Max(s)}
        BY <3>2
      <4>3. h[s \ {Max(s)}] = g[s \ {Max(s)}]
        BY <4>2
      <4> HIDE DEF h, k
      <4> QED BY <2>1, <4>1, <4>3
    <3> QED BY <3>1, <3>2
  <2>5. Solves(h, k)
    BY <2>4
  <2> HIDE DEF h
  <2> QED BY <2>3, <2>5
<1>3. Fails = {}
  <2> SUFFICES ASSUME Fails # {} PROVE FALSE
    OBVIOUS
  <2>1. Fails \subseteq Nat
    OBVIOUS
  <2>2. PICK m \in Fails : \A y \in Fails : m <= y
    <3> HIDE DEF Fails
    <3> QED BY <2>1, LeastNat
  <2>3. m \in 0 .. n /\ m # 0
    BY <1>1
  <2> HIDE DEF Fails
  <2>4. m - 1 \in 0 .. n /\ (m - 1) + 1 = m /\ ~(m <= m - 1)
    BY <2>3
  <2>5. m - 1 \notin Fails
    BY <2>2, <2>4
  <2>6. m \notin Fails
    BY <1>2, <2>3, <2>4, <2>5
  <2> QED BY <2>2, <2>6
<1>4. n \notin Fails
  <2> HIDE DEF Fails
  <2> QED BY <1>3
<1>5. PICK g \in [SUBSET (1 .. n) -> X] : Solves(g, n)
  <2> HIDE DEF Solves
  <2>1. n \in 0 .. n
    OBVIOUS
  <2> QED BY <1>4, <2>1
<1> QED BY <1>5 DEF FoldOf

(* Induction over 0 .. n, for a set T of the numbers at which a claim holds. *)
LEMMA UpTo ==
    ASSUME NEW n \in Nat, NEW T, 0 \in T,
           \A k \in 0 .. n : k \in T /\ k < n => k + 1 \in T
    PROVE  0 .. n \subseteq T
<1> DEFINE Fails == {k \in 0 .. n : k \notin T}
<1>1. ASSUME Fails # {} PROVE FALSE
  <2>1. Fails \subseteq Nat
    OBVIOUS
  <2>2. PICK m \in Fails : \A y \in Fails : m <= y
    <3> HIDE DEF Fails
    <3> QED BY <1>1, <2>1, LeastNat
  <2>3. m \in 1 .. n /\ m \notin T
    OBVIOUS
  <2>4. m - 1 \in 0 .. n /\ m - 1 < n /\ (m - 1) + 1 = m /\ ~(m <= m - 1)
    BY <2>3
  <2>5. m - 1 \in T
    BY <2>2, <2>4
  <2> QED BY <2>3, <2>4, <2>5
<1> QED BY <1>1

(* The path leads to what FoldLeft computes for all of 1 .. n. *)
LEMMA FoldPath ==
    ASSUME NEW n \in Nat, NEW X, NEW base \in X, NEW step \in FoldSteps(n, X),
           NEW iter, Computes(iter, n, X, base, step)
    PROVE  \E p : PathOf(p, n, X, base, step) /\ iter[1 .. n] = p[n]
<1> USE DEF Computes
<1> DEFINE p == [k \in 0 .. n |-> iter[1 .. k]]
           T == {k \in 0 .. n : p[k] \in X}
<1>1. p[0] = base
  <2>1. 1 .. 0 = {}
    OBVIOUS
  <2> QED BY <2>1
<1>2. ASSUME NEW k \in 1 .. n, p[k - 1] \in X
      PROVE  p[k] = step[<<p[k - 1], k>>]
  <2>1. 1 .. k \in SUBSET (1 .. n) /\ 1 .. k # {} /\ k - 1 \in 0 .. n /\ k \in 0 .. n
    OBVIOUS
  <2>2. Max(1 .. k) = k /\ (1 .. k) \ {k} = 1 .. k - 1
    BY MaxUpTo
  <2>3. p[k] = iter[1 .. k] /\ p[k - 1] = iter[1 .. k - 1]
    BY <2>1
  <2> HIDE DEF p
  <2> QED BY <1>2, <2>1, <2>2, <2>3
<1>3. 0 .. n \subseteq T
  <2>1. 0 \in T
    BY <1>1
  <2>2. ASSUME NEW k \in 0 .. n, k \in T, k < n
        PROVE  k + 1 \in T
    <3>1. k + 1 \in 1 .. n /\ (k + 1) - 1 = k /\ k + 1 \in 0 .. n
      BY <2>2
    <3>2. p[k] \in X
      BY <2>2
    <3>3. p[k + 1] = step[<<p[k], k + 1>>]
      <4> HIDE DEF p
      <4> QED BY <1>2, <3>1, <3>2
    <3>4. p[k + 1] \in X
      <4> HIDE DEF p
      <4> QED BY <3>1, <3>2, <3>3 DEF FoldSteps
    <3> HIDE DEF p
    <3> QED BY <3>1, <3>4
  <2> HIDE DEF T
  <2> QED BY <2>1, <2>2, UpTo
<1>4. p \in [0 .. n -> X]
  BY <1>3
<1>5. \A k \in 1 .. n : p[k] = step[<<p[k - 1], k>>]
  <2>1. \A k \in 1 .. n : k - 1 \in 0 .. n
    OBVIOUS
  <2>2. \A k \in 1 .. n : p[k - 1] \in X
    BY <1>4, <2>1
  <2> HIDE DEF p
  <2> QED BY <1>2, <2>2
<1>6. iter[1 .. n] = p[n]
  OBVIOUS
<1> HIDE DEF p
<1> QED BY <1>1, <1>4, <1>5, <1>6 DEF PathOf

-----------------------------------------------------------------------------
(* A finite set with a number to each element has one with the largest. *)
LEMMA MaxOfFinite ==
    ASSUME NEW S, IsFiniteSet(S), S # {}, NEW f \in [S -> Nat]
    PROVE  Max({f[x] : x \in S}) \in {f[x] : x \in S}
<1>0. PICK n \in Nat : ExistsSurjection(1 .. n, S)
  BY FS_NatSurjection
<1>1. PICK g \in [1 .. n -> S] : \A x \in S : \E k \in 1 .. n : g[k] = x
  BY <1>0 DEF ExistsSurjection, Surjection
<1> DEFINE T == {m \in 0 .. n : m = 0 \/ \E k \in 1 .. m : \A j \in 1 .. m : f[g[k]] >= f[g[j]]}
<1>2. 0 \in T
  OBVIOUS
<1>3. ASSUME NEW m \in 0 .. n, m \in T, m < n
      PROVE  m + 1 \in T
  <2>1. m + 1 \in 1 .. n /\ \A j \in 1 .. m + 1 : f[g[j]] \in Nat
    BY <1>1, <1>3
  <2>2. PICK k \in 1 .. m + 1 : \A j \in 1 .. m : f[g[k]] >= f[g[j]]
    <3>1. CASE m = 0
      <4>1. 1 \in 1 .. m + 1 /\ \A j \in 1 .. m : FALSE
        BY <3>1
      <4> QED BY <4>1
    <3>2. CASE m # 0
      BY <1>3, <3>2
    <3> QED BY <3>1, <3>2
  <2>3. \E i \in 1 .. m + 1 : \A j \in 1 .. m + 1 : f[g[i]] >= f[g[j]]
    <3>1. \A j \in 1 .. m + 1 : j = m + 1 \/ j \in 1 .. m
      OBVIOUS
    <3>2. CASE f[g[k]] >= f[g[m + 1]]
      BY <2>2, <3>1, <3>2
    <3>3. CASE ~(f[g[k]] >= f[g[m + 1]])
      <4>1. m + 1 \in 1 .. m + 1
        OBVIOUS
      <4>2. f[g[k]] \in Nat /\ f[g[m + 1]] \in Nat
        BY <2>1, <4>1
      <4>3. ASSUME NEW j \in 1 .. m + 1
            PROVE  f[g[m + 1]] >= f[g[j]]
        <5>1. CASE j = m + 1
          BY <4>2, <5>1
        <5>2. CASE j \in 1 .. m
          <6>1. f[g[k]] >= f[g[j]] /\ f[g[j]] \in Nat
            BY <2>1, <2>2, <5>2
          <6> QED BY <3>3, <4>2, <6>1
        <5> QED BY <3>1, <5>1, <5>2
      <4> QED BY <4>1, <4>3
    <3> QED BY <3>2, <3>3
  <2> QED BY <2>1, <2>3
<1>4. n \in T
  <2> HIDE DEF T
  <2>1. 0 .. n \subseteq T
    BY <1>2, <1>3, UpTo
  <2> QED BY <2>1
<1>5. n # 0
  BY <1>1
<1>6. PICK k \in 1 .. n : \A j \in 1 .. n : f[g[k]] >= f[g[j]]
  BY <1>4, <1>5
<1>7. \A x \in S : f[g[k]] >= f[x]
  BY <1>1, <1>6
<1>8. f[g[k]] \in {f[x] : x \in S} /\ \A y \in {f[x] : x \in S} : f[g[k]] >= y
  BY <1>1, <1>7
<1> QED BY <1>8 DEF Max

(* The prices of finitely many levels have a highest and a lowest. *)
LEMMA BestPrices ==
    ASSUME NEW S, IsFiniteSet(S), S # {}, \A l \in S : l.price \in Nat
    PROVE  Max({l.price : l \in S}) \in Nat /\ Min({l.price : l \in S}) \in Nat
<1>1. Max({l.price : l \in S}) \in Nat
  <2> DEFINE f == [l \in S |-> l.price]
  <2>1. f \in [S -> Nat] /\ {f[l] : l \in S} = {l.price : l \in S}
    OBVIOUS
  <2> HIDE DEF f
  <2>2. Max({f[l] : l \in S}) \in {f[l] : l \in S}
    BY <2>1, MaxOfFinite
  <2> QED BY <2>1, <2>2
<1>2. Min({l.price : l \in S}) \in Nat
  <2>1. {l.price : l \in S} \subseteq Nat /\ {l.price : l \in S} # {}
    OBVIOUS
  <2> QED BY <2>1, MinNat
<1> QED BY <1>1, <1>2
-----------------------------------------------------------------------------
(* What Append does, for facts that are hard to find all at once. *)
LEMMA AppendFacts ==
    ASSUME NEW S, NEW s \in Seq(S), NEW x \in S
    PROVE  /\ Append(s, x) \in Seq(S)
           /\ Len(s) \in Nat /\ DOMAIN s = 1 .. Len(s)
           /\ Len(Append(s, x)) = Len(s) + 1
           /\ DOMAIN Append(s, x) = 1 .. Len(s) + 1
           /\ \A k \in 1 .. Len(s) : s[k] \in S /\ Append(s, x)[k] = s[k]
           /\ Append(s, x)[Len(s) + 1] = x
<1>1. Append(s, x) \in Seq(S) /\ Len(s) \in Nat /\ DOMAIN s = 1 .. Len(s)
  OBVIOUS
<1>2. Len(Append(s, x)) = Len(s) + 1 /\ DOMAIN Append(s, x) = 1 .. Len(s) + 1
  BY <1>1
<1>3. \A k \in 1 .. Len(s) : s[k] \in S /\ Append(s, x)[k] = s[k]
  BY <1>1
<1>4. Append(s, x)[Len(s) + 1] = x
  BY <1>1
<1> QED BY <1>1, <1>2, <1>3, <1>4

(* A sequence is a function on its positions. *)
LEMMA SeqIsFunction ==
    ASSUME NEW S, NEW s \in Seq(S)
    PROVE  s = [i \in 1 .. Len(s) |-> s[i]]
OBVIOUS

(* What Tail does. *)
LEMMA TailFacts ==
    ASSUME NEW S, NEW s \in Seq(S), s # << >>
    PROVE  /\ Tail(s) \in Seq(S) /\ Len(Tail(s)) = Len(s) - 1
           /\ DOMAIN Tail(s) = 1 .. Len(s) - 1
           /\ \A i \in 1 .. Len(s) - 1 : Tail(s)[i] = s[i + 1]
           /\ Head(s) = s[1] /\ Len(s) \in Nat \ {0}
<1>1. Tail(s) \in Seq(S) /\ Len(Tail(s)) = Len(s) - 1 /\ Len(s) \in Nat \ {0}
  OBVIOUS
<1>2. DOMAIN Tail(s) = 1 .. Len(s) - 1
  BY <1>1
<1>3. \A i \in 1 .. Len(s) - 1 : Tail(s)[i] = s[i + 1]
  BY <1>1
<1>4. Head(s) = s[1]
  OBVIOUS
<1> QED BY <1>1, <1>2, <1>3, <1>4

-----------------------------------------------------------------------------
(* What on_sell has after some lots: what remains, the profit, what is kept. *)
Matching == [remaining : Nat, pnl : Int, queue : Seq(Lot)]

Unmatched(qty) == [remaining |-> qty, pnl |-> 0, queue |-> << >>]

(* One iteration of on_sell goes from such a result to another. *)
LEMMA MatchLotType ==
    ASSUME NEW price \in Nat, NEW acc \in Matching, NEW lot \in Lot
    PROVE  MatchLot(price, acc, lot) \in Matching
<1>1. PICK m \in Nat : m = IF acc.remaining <= lot.qty THEN acc.remaining ELSE lot.qty
  BY DEF Matching, Lot
<1>2. m <= acc.remaining /\ m <= lot.qty /\ acc.remaining \in Nat /\ lot.qty \in Nat
  BY <1>1 DEF Matching, Lot
<1>3. acc.remaining - m \in Nat
  BY <1>2
<1>4. acc.pnl + (price - lot.price) * m \in Int
  BY <1>2 DEF Matching, Lot
<1>5. m # lot.qty => [lot EXCEPT !.qty = lot.qty - m] \in Lot
  BY <1>2 DEF Lot
<1>6. (IF m = lot.qty THEN acc.queue ELSE Append(acc.queue, [lot EXCEPT !.qty = lot.qty - m]))
        \in Seq(Lot)
  <2>1. acc.queue \in Seq(Lot)
    BY DEF Matching
  <2> QED BY <1>5, <2>1
<1> QED BY <1>1, <1>3, <1>4, <1>6 DEF MatchLot, Matching

(* on_sell runs over the queue in order: its path of intermediate results. *)
LEMMA MatchSellPath ==
    ASSUME NEW queue \in Seq(Lot), NEW price \in Nat, NEW qty \in Nat
    PROVE  \E p \in [0 .. Len(queue) -> Matching] :
             /\ p[0] = Unmatched(qty)
             /\ \A k \in 1 .. Len(queue) : p[k] = MatchLot(price, p[k - 1], queue[k])
             /\ MatchSell(queue, price, qty) = p[Len(queue)]
<1> DEFINE n == Len(queue)
           step == [z \in Matching \X (1 .. n) |-> MatchLot(price, z[1], queue[z[2]])]
           Eq(it) == it = [s \in SUBSET (1 .. n) |->
                             IF s = {} THEN Unmatched(qty)
                             ELSE MatchLot(price, it[s \ {Max(s)}], queue[Max(s)])]
           iter == CHOOSE it : Eq(it)
<1>1. n \in Nat /\ Unmatched(qty) \in Matching /\ DOMAIN queue = 1 .. n
  BY DEF Unmatched, Matching
<1>2. ASSUME NEW a \in Matching, NEW k \in 1 .. n
      PROVE  /\ step[<<a, k>>] = MatchLot(price, a, queue[k])
             /\ step[<<a, k>>] \in Matching
  <2>1. queue[k] \in Lot
    OBVIOUS
  <2>2. MatchLot(price, a, queue[k]) \in Matching
    BY <2>1, MatchLotType
  <2> QED BY <2>2
<1>3. step \in FoldSteps(n, Matching)
  <2>1. ASSUME NEW z \in Matching \X (1 .. n)
        PROVE  MatchLot(price, z[1], queue[z[2]]) \in Matching
    <3>1. z[1] \in Matching /\ queue[z[2]] \in Lot
      OBVIOUS
    <3> QED BY <3>1, MatchLotType
  <2> QED BY <2>1 DEF FoldSteps
<1>4. MatchSell(queue, price, qty) = iter[1 .. n]
  BY <1>1 DEF MatchSell, FoldLeft, MapThenFoldSet, Unmatched
<1>5. Eq(iter)
  <2> HIDE DEF step, n
  <2>1. PICK g : FoldOf(g, n, Matching, Unmatched(qty), step)
    BY <1>1, <1>3, FoldExists
  <2>2. ASSUME NEW s \in SUBSET (1 .. n), s # {}
        PROVE  g[s] = MatchLot(price, g[s \ {Max(s)}], queue[Max(s)])
    <3>1. s \subseteq 0 .. n
      BY <1>1
    <3>2. Max(s) \in s
      BY <1>1, <2>2, <3>1, MaxNat
    <3>3. Max(s) \in 1 .. n /\ s \ {Max(s)} \in SUBSET (1 .. n)
      BY <3>2
    <3> QED BY <1>2, <2>1, <2>2, <3>3 DEF FoldOf
  <2>3. Eq(g)
    BY <2>1, <2>2 DEF FoldOf
  <2> QED BY <2>3
<1> HIDE DEF iter
<1>6. iter[{}] = Unmatched(qty)
  BY <1>5
<1>7. ASSUME NEW s \in SUBSET (1 .. n), s # {}, iter[s \ {Max(s)}] \in Matching
      PROVE  iter[s] = step[<<iter[s \ {Max(s)}], Max(s)>>]
  <2>1. iter[s] = MatchLot(price, iter[s \ {Max(s)}], queue[Max(s)])
    BY <1>5, <1>7
  <2>2. s \subseteq 0 .. n
    BY <1>1
  <2>3. Max(s) \in s
    BY <1>1, <1>7, <2>2, MaxNat
  <2> HIDE DEF step, n
  <2>4. Max(s) \in 1 .. n
    BY <2>3
  <2> QED BY <1>2, <1>7, <2>1, <2>4
<1>8. PICK p : PathOf(p, n, Matching, Unmatched(qty), step) /\ iter[1 .. n] = p[n]
  <2> HIDE DEF step, n
  <2>1. Computes(iter, n, Matching, Unmatched(qty), step)
    BY <1>6, <1>7 DEF Computes
  <2> QED BY <1>1, <1>3, <2>1, FoldPath
<1>9. ASSUME NEW k \in 1 .. n
      PROVE  p[k] = MatchLot(price, p[k - 1], queue[k])
  <2>1. k - 1 \in 0 .. n
    OBVIOUS
  <2> HIDE DEF step, n
  <2> QED BY <1>2, <1>8, <2>1 DEF PathOf
<1> HIDE DEF step
<1> QED BY <1>4, <1>8, <1>9 DEF PathOf

(* The same of the sum of a sequence. *)
LEMMA TotalPath ==
    ASSUME NEW f \in Seq(Int)
    PROVE  \E p \in [0 .. Len(f) -> Int] :
             /\ p[0] = 0
             /\ \A k \in 1 .. Len(f) : p[k] = p[k - 1] + f[k]
             /\ Total(f) = p[Len(f)]
<1> DEFINE n == Len(f)
           step == [z \in Int \X (1 .. n) |-> z[1] + f[z[2]]]
           Eq(it) == it = [s \in SUBSET (1 .. n) |->
                             IF s = {} THEN 0 ELSE it[s \ {Max(s)}] + f[Max(s)]]
           iter == CHOOSE it : Eq(it)
<1>1. n \in Nat /\ 0 \in Int /\ DOMAIN f = 1 .. n /\ \A k \in 1 .. n : f[k] \in Int
  OBVIOUS
<1>2. ASSUME NEW a \in Int, NEW k \in 1 .. n
      PROVE  step[<<a, k>>] = a + f[k] /\ step[<<a, k>>] \in Int
  BY <1>1
<1>3. step \in FoldSteps(n, Int)
  <2>1. \A z \in Int \X (1 .. n) : step[z] \in Int
    BY <1>1
  <2> QED BY <2>1 DEF FoldSteps
<1>4. Total(f) = iter[1 .. n]
  BY <1>1 DEF Total, FoldLeft, MapThenFoldSet
<1>5. Eq(iter)
  <2> HIDE DEF step, n
  <2>1. PICK g : FoldOf(g, n, Int, 0, step)
    BY <1>1, <1>3, FoldExists
  <2>2. ASSUME NEW s \in SUBSET (1 .. n), s # {}
        PROVE  g[s] = g[s \ {Max(s)}] + f[Max(s)]
    <3>1. s \subseteq 0 .. n
      BY <1>1
    <3>2. Max(s) \in s
      BY <1>1, <2>2, <3>1, MaxNat
    <3>3. Max(s) \in 1 .. n /\ s \ {Max(s)} \in SUBSET (1 .. n)
      BY <3>2
    <3> QED BY <1>2, <2>1, <2>2, <3>3 DEF FoldOf
  <2>3. Eq(g)
    BY <2>1, <2>2 DEF FoldOf
  <2> QED BY <2>3
<1> HIDE DEF iter
<1>6. iter[{}] = 0
  BY <1>5
<1>7. ASSUME NEW s \in SUBSET (1 .. n), s # {}, iter[s \ {Max(s)}] \in Int
      PROVE  iter[s] = step[<<iter[s \ {Max(s)}], Max(s)>>]
  <2>1. iter[s] = iter[s \ {Max(s)}] + f[Max(s)]
    BY <1>5, <1>7
  <2>2. s \subseteq 0 .. n
    BY <1>1
  <2>3. Max(s) \in s
    BY <1>1, <1>7, <2>2, MaxNat
  <2> HIDE DEF step, n
  <2>4. Max(s) \in 1 .. n
    BY <2>3
  <2> QED BY <1>2, <1>7, <2>1, <2>4
<1>8. PICK p : PathOf(p, n, Int, 0, step) /\ iter[1 .. n] = p[n]
  <2> HIDE DEF step, n
  <2>1. \A s \in SUBSET (1 .. n) :
           s # {} /\ iter[s \ {Max(s)}] \in Int
               => iter[s] = step[<<iter[s \ {Max(s)}], Max(s)>>]
    BY <1>7
  <2>2. Computes(iter, n, Int, 0, step)
    BY <1>6, <2>1, Zenon DEF Computes
  <2>3. PICK X, base : X = Int /\ base = 0
    OBVIOUS
  <2>4. base \in X /\ step \in FoldSteps(n, X) /\ Computes(iter, n, X, base, step)
    BY <1>1, <1>3, <2>2, <2>3, Zenon
  <2>5. \E p : PathOf(p, n, X, base, step) /\ iter[1 .. n] = p[n]
    BY <1>1, <2>4, FoldPath
  <2> QED BY <2>3, <2>5, Zenon
<1>9. ASSUME NEW k \in 1 .. n
      PROVE  p[k] = p[k - 1] + f[k]
  <2>1. k - 1 \in 0 .. n
    OBVIOUS
  <2> HIDE DEF step, n
  <2> QED BY <1>2, <1>8, <2>1 DEF PathOf
<1> HIDE DEF step
<1> QED BY <1>4, <1>8, <1>9 DEF PathOf

-----------------------------------------------------------------------------
(* A function on 1 .. n is a sequence. *)
LEMMA SeqOfInt ==
    ASSUME NEW n \in Nat, NEW f \in [1 .. n -> Int]
    PROVE  f \in Seq(Int) /\ Len(f) = n
OBVIOUS
=============================================================================
