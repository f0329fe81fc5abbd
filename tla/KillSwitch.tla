----------------------------- MODULE KillSwitch -----------------------------
(***************************************************************************)
(* The kill switch: the HALT file, the atomic flag that the risk checker   *)
(* reads, the task that copies the one to the other every 500 ms           *)
(* (src/src/main.rs), the /halt and /resume handlers of the dashboard      *)
(* (src/src/dashboard/server.rs), and an operator at a shell.  The poller  *)
(* and the handlers run on different workers of the tokio runtime, so the  *)
(* file access and the store of each are two steps.                        *)
(***************************************************************************)
EXTENDS Naturals

CONSTANTS
    Request,           \* the HTTP requests that will arrive, each handled once
    MaxShell,          \* bound: touch HALT / rm HALT at a shell
    MaxFsFail          \* bound: file operations that fail (their errors are dropped)

ASSUME KillSwitchAssumption == MaxShell \in Nat /\ MaxFsFail \in Nat

VARIABLES
    halt_file,         \* the HALT file exists
    halt_flag,
    poll,              \* the poller: asleep until its tick, or what it has read
    request,           \* where the handler of each request is
    shell, fsFail,     \* what is left of the bounds
    demanded           \* history: the last command given was a halt

killVars == <<halt_file, halt_flag, poll, request, shell, fsFail, demanded>>

KillSwitchTypeOK ==
    /\ {halt_file, halt_flag, demanded} \subseteq BOOLEAN
    /\ poll \in {"asleep", "exists", "absent"}
    /\ request \in [Request -> {"new", "halting", "resuming", "done"}]
    /\ shell \in 0 .. MaxShell /\ fsFail \in 0 .. MaxFsFail

(* main reads the file once before it starts the poller. *)
KillSwitchInit ==
    /\ halt_file \in BOOLEAN
    /\ halt_flag = halt_file
    /\ poll = "asleep"
    /\ request = [r \in Request |-> "new"]
    /\ shell = MaxShell /\ fsFail = MaxFsFail
    /\ demanded = halt_file

(* The tick: Path::exists. *)
PollRead ==
    /\ poll = "asleep"
    /\ poll' = IF halt_file THEN "exists" ELSE "absent"
    /\ UNCHANGED <<halt_file, halt_flag, request, shell, fsFail, demanded>>

(* Mutant: a poll that only ever sets the flag. *)
PollStoreSetsOnly ==
    /\ poll # "asleep"
    /\ halt_flag' = (halt_flag \/ poll = "exists")
    /\ poll' = "asleep"
    /\ UNCHANGED <<halt_file, request, shell, fsFail, demanded>>

(* The store of what was read. *)
PollStore ==
    /\ poll # "asleep"
    /\ halt_flag' = (poll = "exists")
    /\ poll' = "asleep"
    /\ UNCHANGED <<halt_file, request, shell, fsFail, demanded>>

(* A file operation that makes the file exist or not, or fails. *)
SetFile(b) ==
    /\ demanded' = b
    /\ \/ halt_file' = b /\ UNCHANGED fsFail
       \/ fsFail > 0 /\ fsFail' = fsFail - 1 /\ UNCHANGED halt_file

HaltWrites(r) ==
    /\ request[r] = "new"
    /\ SetFile(TRUE)
    /\ request' = [request EXCEPT ![r] = "halting"]
    /\ UNCHANGED <<halt_flag, poll, shell>>

HaltStores(r) ==
    /\ request[r] = "halting"
    /\ halt_flag' = TRUE
    /\ request' = [request EXCEPT ![r] = "done"]
    /\ UNCHANGED <<halt_file, poll, shell, fsFail, demanded>>

ResumeRemoves(r) ==
    /\ request[r] = "new"
    /\ SetFile(FALSE)
    /\ request' = [request EXCEPT ![r] = "resuming"]
    /\ UNCHANGED <<halt_flag, poll, shell>>

ResumeStores(r) ==
    /\ request[r] = "resuming"
    /\ halt_flag' = FALSE
    /\ request' = [request EXCEPT ![r] = "done"]
    /\ UNCHANGED <<halt_file, poll, shell, fsFail, demanded>>

(* touch HALT and rm HALT; the operator sees it when they fail. *)
Shell ==
    /\ shell > 0
    /\ shell' = shell - 1
    /\ \E b \in BOOLEAN : halt_file' = b /\ demanded' = b
    /\ UNCHANGED <<halt_flag, poll, request, fsFail>>

Poller == PollRead \/ PollStore

Handler(r) == HaltStores(r) \/ ResumeStores(r)

KillSwitchNext ==
    \/ Poller
    \/ \E r \in Request : HaltWrites(r) \/ ResumeRemoves(r) \/ Handler(r)
    \/ Shell

(* The ticks keep coming, and a handler that has started runs to its end.  *)
(* No request has to arrive.                                               *)
KillSwitchFairness ==
    /\ WF_killVars(Poller)
    /\ \A r \in Request : WF_killVars(Handler(r))

KillSwitchSpec ==
    KillSwitchInit /\ [][KillSwitchNext]_killVars /\ KillSwitchFairness

-----------------------------------------------------------------------------
(***************************************************************************)
(* Once commands stop, the flag that the risk checker reads settles on     *)
(* what the file says, whatever the handlers, the shell and a poll that    *)
(* was caught between its two steps did to each other, and even when file  *)
(* operations fail.                                                        *)
(***************************************************************************)
FlagSettles == <>[](halt_flag = halt_file)

(***************************************************************************)
(* What the comment of halt_handler promises: the flag is set directly so  *)
(* that the risk checker reacts at once.  When every request is answered   *)
(* and the last command was a halt, orders are blocked.                    *)
(***************************************************************************)
HaltStands ==
    demanded /\ (\A r \in Request : request[r] \in {"new", "done"}) /\ shell = MaxShell
        => halt_flag
=============================================================================
