---------------------------- MODULE MomentumRule ----------------------------
(***************************************************************************)
(* What the momentum strategy promises, without its ring buffer and its    *)
(* counters: it looks at a window of the latest mid prices, and at how     *)
(* long ago its position was opened or closed.  At a threshold itself the  *)
(* rule acts, as the code does: the comments there say "more than" and     *)
(* "longer than".                                                          *)
(***************************************************************************)
EXTENDS Integers, Sequences

CONSTANTS
    Size, Lookback, MomentumBp, ImbalanceBp, TakeProfitBp, StopOutBp, MaxHold, Cooldown,
    OrderQty, Budget

VARIABLES
    quote,             \* the quote last shown to the strategy
    window,            \* the latest mid prices, oldest first, at most Size of them
    holding, entry,    \* the position, and the price it was opened at
    age                \* ticks since it was opened, or closed (at most Cooldown)

ruleVars == <<quote, window, holding, entry, age>>

RuleInit ==
    /\ window = << >>
    /\ holding = FALSE
    /\ age = Cooldown

Latest(s) == IF Len(s) <= Size THEN s ELSE SubSeq(s, Len(s) - Size + 1, Len(s))

Sees(q) == window' = Latest(Append(window, q.bid + q.ask))

(* The mid price now, and Lookback ticks ago. *)
Risen ==
    LET n == Len(window')
    IN  /\ n > Lookback
        /\ window'[n - Lookback] > 0
        /\ (window'[n] - window'[n - Lookback]) * 10000 >= MomentumBp * window'[n - Lookback]

Leans(q) ==
    /\ q.bidVol + q.askVol > 0
    /\ q.bidVol * 10000 >= ImbalanceBp * (q.bidVol + q.askVol)

WithinBudget(q) == OrderQty > 0 /\ (q.ask = 0 \/ q.ask <= Budget)

MayOpen(q) == age = Cooldown /\ Risen /\ Leans(q) /\ WithinBudget(q)

Opens(q) ==
    /\ ~holding /\ MayOpen(q)
    /\ holding' = TRUE /\ entry' = q.ask /\ age' = 0

MustClose(q) ==
    \/ q.bid * 10000 >= entry * (10000 + TakeProfitBp)
    \/ q.bid * 10000 <= entry * (10000 - StopOutBp)
    \/ age + 1 >= MaxHold

Closes(q) ==
    /\ holding /\ MustClose(q)
    /\ holding' = FALSE /\ age' = 0
    /\ UNCHANGED entry

Keeps(q) ==
    /\ holding /\ ~MustClose(q)
    /\ age' = age + 1
    /\ UNCHANGED <<holding, entry>>

StaysOut(q) ==
    /\ ~holding /\ ~MayOpen(q)
    /\ age' = IF age < Cooldown THEN age + 1 ELSE age
    /\ UNCHANGED <<holding, entry>>

(* One tick: the strategy sees quote' and acts on it. *)
Shown == Sees(quote') /\ (Opens(quote') \/ Closes(quote') \/ Keeps(quote') \/ StaysOut(quote'))

RuleSpec == RuleInit /\ [][Shown]_ruleVars
=============================================================================
