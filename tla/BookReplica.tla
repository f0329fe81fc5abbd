---------------------------- MODULE BookReplica ----------------------------
(***************************************************************************)
(* What the market-data half promises the strategy: an abstract replica.   *)
(* The exchange's book evolves; from time to time the strategy is given    *)
(* the exchange's book as it was at some id, later than the one it was     *)
(* given before.  How the ids are chained, what is buffered and when a     *)
(* snapshot is fetched does not show.                                      *)
(***************************************************************************)
EXTENDS Types

VARIABLES exId, hist, fed

replicaVars == <<exId, hist, fed>>

ReplicaInit ==
    /\ exId = 0
    /\ hist \in [{0} -> Book]
    /\ fed = [id |-> 0, book |-> EmptyBook]

Change ==
    /\ exId' = exId + 1
    /\ hist' \in [0 .. exId + 1 -> Book]
    /\ \A i \in 0 .. exId : hist'[i] = hist[i]
    /\ UNCHANGED fed

Feed ==
    /\ \E n \in fed.id + 1 .. exId : fed' = [id |-> n, book |-> hist[n]]
    /\ UNCHANGED <<exId, hist>>

ReplicaSpec == ReplicaInit /\ [][Change \/ Feed]_replicaVars
=============================================================================
