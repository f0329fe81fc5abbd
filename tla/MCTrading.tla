----------------------------- MODULE MCTrading ------------------------------
(***************************************************************************)
(* Trading for TLC: quotes as a definition.  A round trip from 2000 to     *)
(* 2001 takes the profit, one from 4000 to 2000 is stopped, at 4000 the    *)
(* budget buys one step less, and the wide quote asks more than one        *)
(* percent above the bid.                                                  *)
(***************************************************************************)
EXTENDS Trading

At(bid, ask) == [bid |-> bid, ask |-> ask, bidVol |-> 1, askVol |-> 1]

Jumping == {At(2000, 2001), At(4000, 4001), At(2000, 2050)}
=============================================================================
