----------------------------- MODULE Orderbook -----------------------------
(***************************************************************************)
(* The local order book of the book thread (src/src/orderbook.rs): a copy  *)
(* of the exchange's book, kept up to date with incremental events that    *)
(* are chained by their ids, and rebuilt from a REST snapshot whenever the *)
(* chain is broken.                                                        *)
(*                                                                         *)
(* SyncState::Buffering(buf) is state = "Buffering" with lastUpdateId 0,   *)
(* SyncState::Live{last_update_id} is state = "Live" with an empty buffer. *)
(***************************************************************************)
EXTENDS Channels, FiniteSetsExt

VARIABLES
    state,             \* "Buffering" or "Live"
    buf,               \* the buffered updates, oldest first
    lastUpdateId,      \* the id the book is at, when Live
    book               \* bids and asks

bookVars == <<state, buf, lastUpdateId, book>>

Live == state = "Live"

OrderbookTypeOK ==
    /\ state \in {"Buffering", "Live"}
    /\ buf \in Seq(DepthUpdate)
    /\ lastUpdateId \in Nat
    /\ book \in Book
    /\ Live => buf = << >>
    /\ ~Live => lastUpdateId = 0 /\ book = EmptyBook

OrderbookInit ==
    /\ state = "Buffering"
    /\ buf = << >>
    /\ lastUpdateId = 0
    /\ book = EmptyBook

(* Mutant: reset() that forgets to clear the two maps. *)
ResetKeepsLevels ==
    /\ state' = "Buffering"
    /\ buf' = << >>
    /\ lastUpdateId' = 0
    /\ UNCHANGED book

Reset ==
    /\ state' = "Buffering"
    /\ buf' = << >>
    /\ lastUpdateId' = 0
    /\ book' = EmptyBook

GoLive(id, b) ==
    /\ state' = "Live"
    /\ buf' = << >>
    /\ lastUpdateId' = id
    /\ book' = b

-----------------------------------------------------------------------------
(* Mutant: apply_levels without the removal of levels of quantity 0. *)
ApplyLevelsNoRemoval(b, e) ==
    [l \in Level |-> IF l \in DOMAIN e.levels /\ e.levels[l] # 0 THEN e.levels[l] ELSE b[l]]

(* apply_levels: the event's levels overwrite the book's. *)
ApplyLevels(b, e) ==
    [l \in Level |-> IF l \in DOMAIN e.levels THEN e.levels[l] ELSE b[l]]

(***************************************************************************)
(* handle_update, one action per way out of it.                            *)
(***************************************************************************)
Chained(e) == e.pu = lastUpdateId
Stale(e) == ~Chained(e) /\ e.u <= lastUpdateId

(* Mutant: an event that starts after the book's id taken for a spanning one. *)
SpanningOverGap(e) == e.u > lastUpdateId

Spanning(e) == e.pu < lastUpdateId /\ e.u > lastUpdateId

BufferUpdate(e) ==
    /\ ~Live
    /\ buf' = Append(buf, e)
    /\ UNCHANGED <<state, lastUpdateId, book, resync_needed>>

SkipStale(e) ==
    /\ Live
    /\ Stale(e)
    /\ UNCHANGED <<bookVars, resync_needed>>

ApplyUpdate(e) ==
    /\ Live
    /\ Chained(e) \/ Spanning(e)
    /\ GoLive(e.u, ApplyLevels(book, e))
    /\ UNCHANGED resync_needed

(* Mutant: a gap that does not ask for a new snapshot. *)
DetectGapSilently(e) ==
    /\ Live
    /\ ~Chained(e) /\ ~Stale(e) /\ ~Spanning(e)
    /\ Reset
    /\ UNCHANGED resync_needed

DetectGap(e) ==
    /\ Live
    /\ ~Chained(e) /\ ~Stale(e) /\ ~Spanning(e)
    /\ Reset
    /\ resync_needed' = TRUE

-----------------------------------------------------------------------------
(***************************************************************************)
(* handle_snapshot.  Valid is the set of positions the scan for            *)
(* first_valid accepts; LastChained is the position at which the replay    *)
(* loop stops, the last one before the first event whose pu is not the u   *)
(* of its predecessor.  The book after the replay holds, level by level,   *)
(* the quantity of the last replayed event that carries the level.         *)
(***************************************************************************)
(* Mutant: first_valid without the lower end of the range. *)
ValidAfterGap(b, s) == {i \in 1 .. Len(b) : b[i].u >= s + 1}

Valid(b, s) == {i \in 1 .. Len(b) : b[i].U <= s + 1 /\ b[i].u >= s + 1}

(* Mutant: a replay that does not stop at a gap. *)
ChainedOverGaps(b, i) == i .. Len(b)

ChainedUpTo(b, i) ==
    {j \in i .. Len(b) : \A k \in (i + 1) .. j : b[k].pu = b[k - 1].u}

LastChained(b, i) == Max(ChainedUpTo(b, i))

Carriers(b, i, j, l) == {k \in i .. j : l \in DOMAIN b[k].levels}

Replay(start, b, i, j) ==
    [l \in Level |->
        IF Carriers(b, i, j, l) = {}
        THEN start[l]
        ELSE b[Max(Carriers(b, i, j, l))].levels[l]]

HandleSnapshot(snap) ==
    /\ IF Valid(buf, snap.id) = {}
       THEN GoLive(snap.id, snap.book)
       ELSE LET first == Min(Valid(buf, snap.id))
                last  == LastChained(buf, first)
            IN  GoLive(buf[last].u, Replay(snap.book, buf, first, last))
    /\ UNCHANGED resync_needed
=============================================================================
