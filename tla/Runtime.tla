------------------------------ MODULE Runtime -------------------------------
(***************************************************************************)
(* Who gets to run (src/src/main.rs).  The tokio runtime has as many       *)
(* workers as the host has processors; a task keeps its worker until it    *)
(* awaits.  Two kinds of task block without awaiting: the executor, whose  *)
(* loop over the order channel never gives its worker back, and the tasks  *)
(* that send a snapshot while the market channel is full.  The book thread *)
(* and the reader, which main polls itself, run on threads of their own.   *)
(* Channels are counted, not remembered; the kill switch stands for the    *)
(* tasks that do not block.                                                *)
(***************************************************************************)
EXTENDS KillSwitch, FiniteSets

CONSTANTS
    Processors,        \* the numbers of workers to consider
    Fetcher,           \* initial-snapshot tasks and resync pollers
    MarketRoom,        \* capacity of the market channel
    OrderRoom          \* capacity of the order channel

ASSUME RuntimeAssumption ==
    /\ Processors \subseteq Nat \ {0}
    /\ {MarketRoom, OrderRoom} \subseteq Nat \ {0}
    /\ Request \cap Fetcher = {}
    /\ {"executor", "poller"} \cap (Request \cup Fetcher) = {}

VARIABLES
    workers,           \* the number of workers
    running,           \* tasks that hold a worker
    events,            \* length of the market channel
    waiting,           \* length of the order channel
    book               \* the book thread: receiving, or sending an order

workVars == <<workers, running>>

channelVars == <<events, waiting, book>>

runtimeVars == <<killVars, workVars, channelVars>>

Task == {"executor", "poller"} \cup Request \cup Fetcher

RuntimeInit ==
    /\ KillSwitchInit
    /\ workers \in Processors
    /\ running = {}
    /\ events = 0 /\ waiting = 0 /\ book = "recv"

-----------------------------------------------------------------------------
Leaves(t) == running' = running \ {t} /\ UNCHANGED workers

(* A ready task gets a free worker. *)
Scheduled(t) ==
    /\ t \notin running
    /\ Cardinality(running) < workers
    /\ running' = running \cup {t}
    /\ UNCHANGED <<killVars, workers, channelVars>>

(* main spawns the executor once ... *)
StartExecutor == Scheduled("executor")

(* ... the interval of the poller ticks ... *)
StartPoller == Scheduled("poller")

(* ... a request arrives ... *)
StartHandler(r) == request[r] = "new" /\ Scheduled(r)

(* Mutant: main spawns the executor after the ingestion. *)
StartFetcherFirst(f) == Scheduled(f)

(* ... and an answer to a snapshot request, which none made before the     *)
(* executor was running: the connection that spawns it comes later in main.*)
StartFetcher(f) == "executor" \in running /\ Scheduled(f)

(* From a tick to the next: the poller awaits nothing in between. *)
PollerRuns ==
    /\ "poller" \in running
    /\ \/ PollRead /\ UNCHANGED workVars
       \/ PollStore /\ Leaves("poller")
    /\ UNCHANGED channelVars

HandlerRuns(r) ==
    /\ r \in running
    /\ \/ (HaltWrites(r) \/ ResumeRemoves(r)) /\ UNCHANGED workVars
       \/ Handler(r) /\ Leaves(r)
    /\ UNCHANGED channelVars

(* The blocking send of a snapshot. *)
FetcherSends(f) ==
    /\ f \in running
    /\ events < MarketRoom
    /\ events' = events + 1
    /\ Leaves(f)
    /\ UNCHANGED <<killVars, waiting, book>>

ExecutorTakes ==
    /\ "executor" \in running
    /\ waiting > 0
    /\ waiting' = waiting - 1
    /\ UNCHANGED <<killVars, workVars, events, book>>

(* The reader, on the main thread. *)
ReaderSends ==
    /\ events < MarketRoom
    /\ events' = events + 1
    /\ UNCHANGED <<killVars, workVars, waiting, book>>

(* The book thread takes an event and may have to send an order. *)
BookReceives ==
    /\ book = "recv"
    /\ events > 0
    /\ events' = events - 1
    /\ book' \in {"recv", "send"}
    /\ UNCHANGED <<killVars, workVars, waiting>>

(* Mutant: an order channel without a bound. *)
BookSendsUnbounded ==
    /\ book = "send"
    /\ waiting' = waiting + 1
    /\ book' = "recv"
    /\ UNCHANGED <<killVars, workVars, events>>

BookSends ==
    /\ book = "send"
    /\ waiting < OrderRoom
    /\ waiting' = waiting + 1
    /\ book' = "recv"
    /\ UNCHANGED <<killVars, workVars, events>>

RuntimeNext ==
    \/ StartExecutor \/ StartPoller
    \/ \E r \in Request : StartHandler(r) \/ HandlerRuns(r)
    \/ \E f \in Fetcher : StartFetcher(f) \/ FetcherSends(f)
    \/ PollerRuns \/ ExecutorTakes
    \/ ReaderSends \/ BookReceives \/ BookSends
    \/ Shell /\ UNCHANGED <<workVars, channelVars>>

(***************************************************************************)
(* Threads and tasks that hold a worker run.  A ready task waits in a      *)
(* queue and gets a worker if workers are freed again and again, a blocked *)
(* sender gets through if there is room again and again: depth events come *)
(* every 100 ms, and the book thread takes far less for each.              *)
(***************************************************************************)
RuntimeFairness ==
    /\ SF_runtimeVars(StartExecutor) /\ SF_runtimeVars(StartPoller)
    /\ WF_runtimeVars(PollerRuns) /\ WF_runtimeVars(ExecutorTakes)
    /\ WF_runtimeVars(BookReceives) /\ WF_runtimeVars(BookSends)
    /\ \A r \in Request : WF_runtimeVars(HandlerRuns(r))
    /\ \A f \in Fetcher : SF_runtimeVars(FetcherSends(f))

RuntimeSpec == RuntimeInit /\ [][RuntimeNext]_runtimeVars /\ RuntimeFairness

-----------------------------------------------------------------------------
RuntimeTypeOK ==
    /\ KillSwitchTypeOK
    /\ workers \in Processors
    /\ running \subseteq Task /\ Cardinality(running) <= workers
    /\ events \in 0 .. MarketRoom /\ waiting \in 0 .. OrderRoom
    /\ book \in {"recv", "send"}

(***************************************************************************)
(* There is no circle of waiting: when both channels are full and the book *)
(* thread waits for room, the executor can take an order, or a worker is   *)
(* free for it, or a task has a worker that blocks on nothing.             *)
(***************************************************************************)
NoCircle ==
    events = MarketRoom /\ book = "send" /\ waiting = OrderRoom =>
        \/ "executor" \in running
        \/ Cardinality(running) < workers
        \/ running \cap (Request \cup {"poller"}) # {}

(***************************************************************************)
(* The blocking sends and receives never wait for each other in a circle,  *)
(* whatever holds the workers: the market channel has room again and       *)
(* again.  With two workers this hangs on the executor having one before   *)
(* the tasks that can block are spawned.                                   *)
(***************************************************************************)
NeverStuck == []<>(events < MarketRoom)
=============================================================================
