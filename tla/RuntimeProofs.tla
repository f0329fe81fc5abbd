--------------------------- MODULE RuntimeProofs ----------------------------
(***************************************************************************)
(* Theorems about Runtime, for every number of workers, of requests and of *)
(* snapshot tasks and for every capacity of the channels.                  *)
(***************************************************************************)
EXTENDS Runtime, FiniteSetTheorems, TLAPS

(* A task that blocks on the market channel came after the executor, which *)
(* never gives its worker back.                                            *)
ExecutorFirst == running \cap Fetcher # {} => "executor" \in running

(***************************************************************************)
(* The inductive invariant: the type, that the set of running tasks is     *)
(* finite, so that its cardinality counts, and the order in which main     *)
(* spawns its tasks, which NoCircle does not remember.                     *)
(***************************************************************************)
RuntimeInv == RuntimeTypeOK /\ IsFiniteSet(running) /\ ExecutorFirst

-----------------------------------------------------------------------------
(* A step of the kill switch keeps its variables typed. *)
LEMMA KillSwitchStep ==
    ASSUME KillSwitchTypeOK, [KillSwitchNext]_killVars
    PROVE  KillSwitchTypeOK'
<1>1. CASE UNCHANGED killVars
  BY <1>1 DEF KillSwitchTypeOK, killVars
<1>2. CASE Poller
  <2>1. /\ poll' \in {"asleep", "exists", "absent"} /\ halt_flag' \in BOOLEAN
        /\ UNCHANGED <<halt_file, request, shell, fsFail, demanded>>
    BY <1>2 DEF Poller, PollRead, PollStore, KillSwitchTypeOK
  <2> QED BY <2>1 DEF KillSwitchTypeOK
<1>3. ASSUME NEW r \in Request, HaltWrites(r) \/ ResumeRemoves(r) \/ Handler(r)
      PROVE  KillSwitchTypeOK'
  <2>1. request' \in [Request -> {"new", "halting", "resuming", "done"}]
    BY <1>3 DEF HaltWrites, ResumeRemoves, Handler, HaltStores, ResumeStores, KillSwitchTypeOK
  <2>2. fsFail' \in 0 .. MaxFsFail
    BY <1>3, KillSwitchAssumption DEF HaltWrites, ResumeRemoves, Handler, HaltStores, ResumeStores,
       SetFile, KillSwitchTypeOK
  <2>3. halt_file' \in BOOLEAN /\ halt_flag' \in BOOLEAN /\ demanded' \in BOOLEAN
    BY <1>3 DEF HaltWrites, ResumeRemoves, Handler, HaltStores, ResumeStores, SetFile, KillSwitchTypeOK
  <2>4. poll' = poll /\ shell' = shell
    BY <1>3 DEF HaltWrites, ResumeRemoves, Handler, HaltStores, ResumeStores
  <2> QED BY <2>1, <2>2, <2>3, <2>4 DEF KillSwitchTypeOK
<1>4. CASE Shell
  <2>1. shell' \in 0 .. MaxShell
    BY <1>4, KillSwitchAssumption DEF Shell, KillSwitchTypeOK
  <2>2. halt_file' \in BOOLEAN /\ demanded' \in BOOLEAN /\ UNCHANGED <<halt_flag, poll, request, fsFail>>
    BY <1>4 DEF Shell
  <2> QED BY <2>1, <2>2 DEF KillSwitchTypeOK
<1> QED BY <1>1, <1>2, <1>3, <1>4 DEF KillSwitchNext

(* Taking a worker needs one that is free. *)
LEMMA ScheduledInv ==
    ASSUME RuntimeInv, NEW t \in Task, Scheduled(t), t \in Fetcher => "executor" \in running
    PROVE  RuntimeInv'
<1>1. /\ running' = running \cup {t} /\ IsFiniteSet(running')
      /\ Cardinality(running') = Cardinality(running) + 1
  BY FS_AddElement DEF Scheduled, RuntimeInv
<1>2. Cardinality(running) \in Nat /\ workers \in Nat /\ workers' = workers
  BY FS_CardinalityType, RuntimeAssumption DEF RuntimeInv, RuntimeTypeOK, Scheduled
<1>3. Cardinality(running') <= workers'
  BY <1>1, <1>2 DEF Scheduled
<1>4. running' \subseteq Task /\ ExecutorFirst'
  BY <1>1 DEF RuntimeInv, RuntimeTypeOK, ExecutorFirst
<1>5. KillSwitchTypeOK' /\ UNCHANGED <<workers, events, waiting, book>>
  BY KillSwitchStep DEF Scheduled, channelVars, RuntimeInv, RuntimeTypeOK
<1> QED BY <1>1, <1>3, <1>4, <1>5 DEF RuntimeInv, RuntimeTypeOK

(* Giving a worker back or keeping it; the executor keeps its own. *)
LEMMA WorkersInv ==
    ASSUME RuntimeInv, NEW t \in Task \ {"executor"}, UNCHANGED workVars \/ Leaves(t)
    PROVE  /\ workers' \in Processors /\ running' \subseteq Task
           /\ Cardinality(running') <= workers'
           /\ IsFiniteSet(running') /\ ExecutorFirst'
<1>1. running' = running \/ running' = running \ {t}
  BY DEF workVars, Leaves
<1>2. /\ IsFiniteSet(running') /\ Cardinality(running') <= Cardinality(running)
      /\ Cardinality(running') \in Nat /\ Cardinality(running) \in Nat
  BY <1>1, FS_Subset, FS_CardinalityType DEF RuntimeInv
<1>3. workers' = workers /\ workers \in Nat
  BY RuntimeAssumption DEF workVars, Leaves, RuntimeInv, RuntimeTypeOK
<1>4. ExecutorFirst' /\ running' \subseteq Task
  BY <1>1 DEF RuntimeInv, RuntimeTypeOK, ExecutorFirst
<1> QED BY <1>2, <1>3, <1>4 DEF RuntimeInv, RuntimeTypeOK

(* A step on the channels moves their lengths within their room. *)
LEMMA ChannelsInv ==
    ASSUME RuntimeInv, UNCHANGED <<killVars, workVars>>,
           events' \in 0 .. MarketRoom, waiting' \in 0 .. OrderRoom, book' \in {"recv", "send"}
    PROVE  RuntimeInv'
<1>1. KillSwitchTypeOK'
  BY KillSwitchStep DEF RuntimeInv, RuntimeTypeOK
<1>2. workers' = workers /\ running' = running
  BY DEF workVars
<1> QED BY <1>1, <1>2 DEF RuntimeInv, RuntimeTypeOK, ExecutorFirst

(* Each step keeps the invariant. *)
LEMMA RuntimeStep ==
    ASSUME RuntimeInv, [RuntimeNext]_runtimeVars
    PROVE  RuntimeInv'
<1> USE RuntimeAssumption
<1>1. CASE StartExecutor \/ StartPoller
  <2>1. /\ "executor" \in Task /\ "executor" \notin Fetcher
        /\ "poller" \in Task /\ "poller" \notin Fetcher
    BY DEF Task
  <2> QED BY <1>1, <2>1, ScheduledInv DEF StartExecutor, StartPoller
<1>2. ASSUME NEW r \in Request, StartHandler(r) PROVE RuntimeInv'
  <2>1. r \in Task /\ r \notin Fetcher
    BY DEF Task
  <2> QED BY <1>2, <2>1, ScheduledInv DEF StartHandler
<1>3. ASSUME NEW f \in Fetcher, StartFetcher(f) PROVE RuntimeInv'
  <2>1. f \in Task
    BY DEF Task
  <2> QED BY <1>3, <2>1, ScheduledInv DEF StartFetcher
<1>4. ASSUME NEW r \in Request, HandlerRuns(r) PROVE RuntimeInv'
  <2>1. r \in Task \ {"executor"}
    BY DEF Task
  <2>2. UNCHANGED workVars \/ Leaves(r)
    BY <1>4 DEF HandlerRuns
  <2>3. KillSwitchTypeOK'
    BY <1>4, KillSwitchStep DEF HandlerRuns, KillSwitchNext, RuntimeInv, RuntimeTypeOK
  <2>4. UNCHANGED <<events, waiting, book>>
    BY <1>4 DEF HandlerRuns, channelVars
  <2> QED BY <2>1, <2>2, <2>3, <2>4, WorkersInv DEF RuntimeInv, RuntimeTypeOK
<1>5. CASE PollerRuns
  <2>1. "poller" \in Task \ {"executor"}
    BY DEF Task
  <2>2. UNCHANGED workVars \/ Leaves("poller")
    BY <1>5 DEF PollerRuns
  <2>3. KillSwitchTypeOK'
    BY <1>5, KillSwitchStep DEF PollerRuns, KillSwitchNext, Poller, RuntimeInv, RuntimeTypeOK
  <2>4. UNCHANGED <<events, waiting, book>>
    BY <1>5 DEF PollerRuns, channelVars
  <2> QED BY <2>1, <2>2, <2>3, <2>4, WorkersInv DEF RuntimeInv, RuntimeTypeOK
<1>6. ASSUME NEW f \in Fetcher, FetcherSends(f) PROVE RuntimeInv'
  <2>1. f \in Task \ {"executor"}
    BY DEF Task
  <2>2. UNCHANGED workVars \/ Leaves(f)
    BY <1>6 DEF FetcherSends
  <2>3. KillSwitchTypeOK'
    BY <1>6, KillSwitchStep DEF FetcherSends, RuntimeInv, RuntimeTypeOK
  <2>4. events' \in 0 .. MarketRoom /\ UNCHANGED <<waiting, book>>
    BY <1>6 DEF FetcherSends, RuntimeInv, RuntimeTypeOK
  <2> QED BY <2>1, <2>2, <2>3, <2>4, WorkersInv DEF RuntimeInv, RuntimeTypeOK
<1>7. CASE ExecutorTakes \/ ReaderSends \/ BookReceives \/ BookSends
  <2>1. UNCHANGED <<killVars, workVars>>
    BY <1>7 DEF ExecutorTakes, ReaderSends, BookReceives, BookSends
  <2>2. events \in 0 .. MarketRoom /\ waiting \in 0 .. OrderRoom /\ book \in {"recv", "send"}
    BY DEF RuntimeInv, RuntimeTypeOK
  <2>3. events' \in 0 .. MarketRoom /\ waiting' \in 0 .. OrderRoom /\ book' \in {"recv", "send"}
    BY <1>7, <2>2 DEF ExecutorTakes, ReaderSends, BookReceives, BookSends
  <2> QED BY <2>1, <2>3, ChannelsInv
<1>8. CASE Shell /\ UNCHANGED <<workVars, channelVars>>
  <2>1. KillSwitchTypeOK'
    BY <1>8, KillSwitchStep DEF KillSwitchNext, RuntimeInv, RuntimeTypeOK
  <2> QED BY <1>8, <2>1 DEF workVars, channelVars, RuntimeInv, RuntimeTypeOK, ExecutorFirst
<1>9. CASE UNCHANGED runtimeVars
  BY <1>9, ChannelsInv DEF runtimeVars, channelVars, RuntimeInv, RuntimeTypeOK
<1> QED BY <1>1, <1>2, <1>3, <1>4, <1>5, <1>6, <1>7, <1>8, <1>9 DEF RuntimeNext

(* Every reachable state satisfies the inductive invariant. *)
THEOREM RuntimeCorrect == RuntimeSpec => []RuntimeInv
<1>1. RuntimeInit => RuntimeInv
  <2> SUFFICES ASSUME RuntimeInit PROVE RuntimeInv
    OBVIOUS
  <2>1. KillSwitchTypeOK
    BY KillSwitchAssumption DEF RuntimeInit, KillSwitchInit, KillSwitchTypeOK
  <2>2. IsFiniteSet(running) /\ Cardinality(running) = 0 /\ running = {}
    BY FS_EmptySet DEF RuntimeInit
  <2>3. workers \in Processors /\ workers \in Nat /\ 0 <= workers
    BY RuntimeAssumption DEF RuntimeInit
  <2> QED BY <2>1, <2>2, <2>3, RuntimeAssumption
          DEF RuntimeInit, RuntimeInv, RuntimeTypeOK, ExecutorFirst
<1>2. RuntimeInv /\ [RuntimeNext]_runtimeVars => RuntimeInv'
  BY RuntimeStep
<1> QED BY <1>1, <1>2, PTL DEF RuntimeSpec

(* Channels stay within their room, workers are never over-committed, and  *)
(* flag, file and requests of the kill switch keep their types.            *)
THEOREM RuntimeTypeCorrect == RuntimeSpec => []RuntimeTypeOK
<1>1. RuntimeInv => RuntimeTypeOK
  BY DEF RuntimeInv
<1> QED BY <1>1, RuntimeCorrect, PTL

(* The two full channels never wait for an executor that cannot start. *)
THEOREM NeverACircle == RuntimeSpec => []NoCircle
<1>1. RuntimeInv => NoCircle
  <2> SUFFICES ASSUME RuntimeInv, "executor" \notin running,
                      running \cap (Request \cup {"poller"}) = {}
               PROVE  Cardinality(running) < workers
    BY DEF NoCircle
  <2>1. running = {}
    BY DEF RuntimeInv, RuntimeTypeOK, ExecutorFirst, Task
  <2>2. Cardinality(running) = 0
    BY <2>1, FS_EmptySet
  <2> QED BY <2>2, RuntimeAssumption DEF RuntimeInv, RuntimeTypeOK
<1> QED BY <1>1, RuntimeCorrect, PTL
=============================================================================
