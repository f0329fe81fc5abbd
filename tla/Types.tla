------------------------------- MODULE Types -------------------------------
(***************************************************************************)
(* The data the components exchange (src/src/types.rs).                    *)
(*                                                                         *)
(* A price level (a side and a price key) is a member of Level.  A book    *)
(* gives every level its resting quantity; quantity 0 means that the level *)
(* is absent, which is what both BTreeMaps of Orderbook make of it: a      *)
(* level of quantity 0 is removed or never inserted.                       *)
(***************************************************************************)
EXTENDS Integers, Sequences

CONSTANTS
    Level,   \* price levels: side and price key
    Qty      \* quantities a level may carry, 0 for "no level"

ASSUME QtyAssumption == Qty \subseteq Nat /\ 0 \in Qty

Book == [Level -> Qty]

EmptyBook == [l \in Level |-> 0]

(***************************************************************************)
(* DepthUpdate: the levels an event carries are a partial function, from   *)
(* the levels that its "b" and "a" arrays list to their new quantities.    *)
(***************************************************************************)
DepthUpdate ==
    [type : {"DepthUpdate"}, U : Nat, u : Nat, pu : Nat,
     levels : UNION {[T -> Qty] : T \in SUBSET Level}]

DepthSnapshot == [type : {"DepthSnapshot"}, id : Nat, book : Book]

Trade == [type |-> "Trade"]

Reconnect == [type |-> "Reconnect"]

MarketEvent == DepthUpdate \cup DepthSnapshot \cup {Trade, Reconnect}

OrderbookSnapshot == [id : Nat, book : Book]
=============================================================================
