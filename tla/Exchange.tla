------------------------------ MODULE Exchange ------------------------------
(***************************************************************************)
(* The exchange, external to the repository: it is modelled from what      *)
(* orderbook.rs and ingestion.rs rely on.  Every change of its book gets   *)
(* the next update id.  The depth stream batches consecutive changes into  *)
(* an event; the REST endpoint answers with a whole book and its id, and   *)
(* may lag behind the stream.                                              *)
(***************************************************************************)
EXTENDS Types

CONSTANTS
    MaxId,             \* bound on the update ids of a behaviour
    SnapLag            \* how many ids a REST answer may lag behind

ASSUME ExchangeAssumption == MaxId \in Nat /\ SnapLag \in Nat

VARIABLES
    exId,              \* id of the exchange's latest change
    hist,              \* hist[i] is the exchange's book after change i
    streamed           \* u of the last event the stream delivered or lost

exchangeVars == <<exId, hist, streamed>>

ExchangeTypeOK ==
    /\ exId \in Nat
    /\ hist \in [0 .. exId -> Book]
    /\ streamed \in 0 .. exId

ExchangeInit ==
    /\ exId = 0
    /\ hist \in [{0} -> Book]
    /\ streamed = 0

(* One level of the exchange's book changes. *)
ExchangeStep ==
    /\ exId < MaxId
    /\ \E l \in Level, q \in Qty :
         /\ q # hist[exId][l]
         /\ hist' = [i \in 0 .. exId + 1 |->
                       IF i <= exId THEN hist[i] ELSE [hist[exId] EXCEPT ![l] = q]]
    /\ exId' = exId + 1
    /\ UNCHANGED streamed

(***************************************************************************)
(* The event for the changes pu+1..u carries the final quantity of every   *)
(* level that was ever different in that range.  U is the first id of the  *)
(* batch: the futures stream numbers pu separately because U need not be   *)
(* pu+1.                                                                   *)
(***************************************************************************)
Touched(pu, u) == {l \in Level : \E i \in pu .. u : hist[i][l] # hist[u][l]}

DepthEvent(pu, U, u) ==
    [type |-> "DepthUpdate", U |-> U, u |-> u, pu |-> pu,
     levels |-> [l \in Touched(pu, u) |-> hist[u][l]]]

SnapshotAt(id) == [type |-> "DepthSnapshot", id |-> id, book |-> hist[id]]

RestAnswers == {SnapshotAt(id) : id \in {i \in 0 .. exId : i + SnapLag >= exId}}

-----------------------------------------------------------------------------
(***************************************************************************)
(* What an event and a snapshot say of a history h that has reached id n.  *)
(* An event gives the final quantity of the levels it carries, and a level *)
(* it does not carry did not change from pu to u.                          *)
(***************************************************************************)
FaithfulUpdate(e, n, h) ==
    /\ e.pu < e.U /\ e.U <= e.u /\ e.u <= n
    /\ \A l \in DOMAIN e.levels : e.levels[l] = h[e.u][l]
    /\ \A l \in Level \ DOMAIN e.levels : \A i \in e.pu .. e.u : h[i][l] = h[e.u][l]

FaithfulSnapshot(s, n, h) == s.id <= n /\ s.book = h[s.id]
=============================================================================
