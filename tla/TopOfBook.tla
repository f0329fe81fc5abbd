----------------------------- MODULE TopOfBook ------------------------------
(***************************************************************************)
(* Orderbook::snapshot (src/src/orderbook.rs) and what the strategies read *)
(* of it: here a level has a side and a price, and a book the best prices  *)
(* and the volume of its first five levels on each side.  There are        *)
(* finitely many levels, a price key being a u64.                          *)
(***************************************************************************)
EXTENDS Types, FiniteSetsExt

CONSTANT DepthLevels   \* orderbook.depth_levels

ASSUME TopOfBookAssumption ==
    /\ Level \subseteq [side : {"bid", "ask"}, price : Nat] /\ IsFiniteSet(Level)
    /\ DepthLevels \in Nat \ {0}

VolumeLevels == 5

Present(b, side) == {l \in Level : l.side = side /\ b[l] > 0}

Better(k, l) == IF l.side = "bid" THEN k.price > l.price ELSE k.price < l.price

(* The best n levels of a side. *)
Top(b, side, n) ==
    {l \in Present(b, side) : Cardinality({k \in Present(b, side) : Better(k, l)}) < n}

Shown(b, side) == Top(b, side, DepthLevels)

Volume(b, side) ==
    MapThenSumSet(LAMBDA l : b[l], Shown(b, side) \cap Top(b, side, VolumeLevels))

(* Without a level on each side there is nothing for a strategy to do. *)
HasQuote(b) == Shown(b, "bid") # {} /\ Shown(b, "ask") # {}

QuoteOf(b) ==
    [bid    |-> Max({l.price : l \in Shown(b, "bid")}),
     ask    |-> Min({l.price : l \in Shown(b, "ask")}),
     bidVol |-> Volume(b, "bid"),
     askVol |-> Volume(b, "ask")]
=============================================================================
