--------------------------- MODULE OrderPipeline ----------------------------
(***************************************************************************)
(* What the way from the risk checker to the account promises: a queue of  *)
(* at most Capacity orders.  An order joins it in the step that approves   *)
(* it and has the number of its approval for an id; the oldest leaves it   *)
(* when it is filled.  So an order that was approved is filled once, in    *)
(* the order of approval; none is dropped, repeated or overtaken, and none *)
(* is filled that was not approved.                                        *)
(***************************************************************************)
EXTENDS Naturals, Sequences

CONSTANT Capacity

VARIABLES
    accepted,          \* how many orders were approved so far
    queue,             \* ids of the orders approved and not yet filled
    fills              \* ids of the orders filled, oldest first

pipelineVars == <<accepted, queue, fills>>

PipelineInit == accepted = 0 /\ queue = << >> /\ fills = << >>

Accept ==
    /\ Len(queue) < Capacity
    /\ accepted' = accepted + 1
    /\ queue' = Append(queue, accepted + 1)
    /\ UNCHANGED fills

FillNext ==
    /\ queue # << >>
    /\ queue' = Tail(queue)
    /\ fills' = Append(fills, Head(queue))
    /\ UNCHANGED accepted

PipelineSpec == PipelineInit /\ [][Accept \/ FillNext]_pipelineVars

-----------------------------------------------------------------------------
(* Every order approved is either filled or waiting, each just once, and   *)
(* the fills are the orders approved first.                                *)
FilledOnce ==
    /\ Len(fills) + Len(queue) = accepted
    /\ \A i \in DOMAIN fills : fills[i] = i
    /\ \A i \in DOMAIN queue : queue[i] = Len(fills) + i
=============================================================================
