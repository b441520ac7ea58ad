---------------------------- MODULE ServiceRuntime ----------------------------
(***************************************************************************)
(* service_runtime.sh restart, run at the same time by any of the threads  *)
(* of the health monitor, each with up to three tries                      *)
(* (service_runtime_restart), on the one docker container.                 *)
(*                                                                         *)
(* The script runs under "set -e": the first command that fails ends it.   *)
(* The container is run with --rm, so a stopped one removes itself after a *)
(* while and its name is taken until then.                                 *)
(***************************************************************************)
EXTENDS Integers

CONSTANTS Caller,      \* the threads that may restart the container
          MaxTries     \* the tries of service_runtime_restart

ASSUME RuntimeAssumption == MaxTries \in Nat \ {0}

VARIABLES container,   \* docker's state of service_runtime_container
          script,      \* the next command of the caller's script
          tries        \* the tries the caller has left, the present one included

rtVars == <<container, script, tries>>

ScriptPc == {"none", "stopCheck", "stop", "startCheck", "waitRemove", "run"}

RuntimeInit ==
    /\ container = "running"
    /\ script = [p \in Caller |-> "none"]
    /\ tries = [p \in Caller |-> 0]

\* service_runtime_restart calls the script for the first time.
RestartBegin(p) ==
    /\ script' = [script EXCEPT ![p] = "stopCheck"]
    /\ tries' = [tries EXCEPT ![p] = MaxTries]

Restarting(p) == script[p] # "none"

\* The script exits with 0.
ExitOk(p) ==
    /\ script' = [script EXCEPT ![p] = "none"]
    /\ tries' = [tries EXCEPT ![p] = 0]

\* The script exits with another status; after a second it is tried again, if a
\* try is left.
ExitError(p) ==
    /\ tries' = [tries EXCEPT ![p] = @ - 1]
    /\ script' = [script EXCEPT ![p] = IF tries[p] > 1 THEN "stopCheck" ELSE "none"]

Goto(p, s) == script' = [script EXCEPT ![p] = s] /\ UNCHANGED tries

\* Mutant of StopCheck: docker stop whatever the state of the container.
StopUnchecked(p) ==
    /\ script[p] = "stopCheck"
    /\ Goto(p, "stop")
    /\ UNCHANGED container

\* container_status in stop_service_runtime.
StopCheck(p) ==
    /\ script[p] = "stopCheck"
    /\ Goto(p, IF container = "running" THEN "stop" ELSE "startCheck")
    /\ UNCHANGED container

\* docker stop; it fails for a container that no longer exists.
DockerStop(p) ==
    /\ script[p] = "stop"
    /\ \/ container # "removed" /\ container' = "stopped" /\ Goto(p, "startCheck")
       \/ container = "removed" /\ ExitError(p) /\ UNCHANGED container

\* container_status in start_service_runtime: nothing to do for a running one.
StartCheck(p) ==
    /\ script[p] = "startCheck"
    /\ IF container = "running" THEN ExitOk(p) ELSE Goto(p, "waitRemove")
    /\ UNCHANGED container

\* wait_remove_container: up to five looks, a second apart.
WaitRemove(p) ==
    /\ script[p] = "waitRemove"
    /\ \/ container = "removed" /\ Goto(p, "run")
       \/ container # "removed" /\ ExitError(p)
    /\ UNCHANGED container

\* docker run -d: fails when the name is taken, and may fail for other reasons.
DockerRunFails(p) ==
    /\ script[p] = "run"
    /\ ExitError(p)
    /\ UNCHANGED container

DockerRun(p) ==
    /\ script[p] = "run"
    /\ container = "removed"
    /\ container' = "running"
    /\ ExitOk(p)

ScriptStep(p) == StopCheck(p) \/ DockerStop(p) \/ StartCheck(p) \/ WaitRemove(p) \/ DockerRunFails(p)

\* docker removes a container that has stopped.
DockerRemove ==
    /\ container = "stopped"
    /\ container' = "removed"
    /\ UNCHANGED <<script, tries>>

\* The container ends by itself.
ContainerDies ==
    /\ container = "running"
    /\ container' = "stopped"
    /\ UNCHANGED <<script, tries>>
=============================================================================
