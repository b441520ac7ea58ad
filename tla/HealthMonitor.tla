---------------------------- MODULE HealthMonitor ----------------------------
(***************************************************************************)
(* The health monitor on the host (service_runtime_health_monitor.cc) and  *)
(* its agent in the container (service_runtime_health_monitor_client.py).  *)
(*                                                                         *)
(* The agent, run by docker once a minute, looks at every target, restarts *)
(* or kills what does not answer, looks again two seconds later and calls  *)
(* notify.  A handler of notify feeds the watchdog, counts the unhealthy   *)
(* reports in a row and restarts the container after the third.  The       *)
(* watchdog restarts it when nothing was heard for two minutes.            *)
(*                                                                         *)
(* Time passes in ticks of any length (Tick): docker's interval, its limit *)
(* and the watchdog's timeout are numbers of ticks.  What takes no tick is *)
(* done at one instant, in any order with what else is due then.           *)
(***************************************************************************)
EXTENDS ServiceRuntime, FiniteSets

CONSTANTS Handler,      \* threads of the gRPC server that can be in notify at once
          watchdog,     \* the thread of ServiceRuntimeWatchdog
          Daemon,       \* daemon_targets: seen by ps, restarted with sv
          Service,      \* grpc_targets and fcgi_targets: also asked for their health
          NoCall,       \* the agent is not in a call of notify
          Interval,     \* --health-interval: 60 seconds
          CmdLimit,     \* after which docker ends a health command: 30 seconds
          Timeout       \* WATCHDOG_TIMEOUT: 120 seconds

ASSUME MonitorAssumption ==
    /\ Caller = Handler \union {watchdog}
    /\ watchdog \notin Handler
    /\ NoCall \notin Handler
    /\ Daemon \intersect Service = {}

ASSUME TimesAssumption ==
    /\ Interval \in Nat \ {0} /\ CmdLimit \in Nat \ {0} /\ Timeout \in Nat
    /\ Interval + 2 * CmdLimit <= Timeout

Target == Daemon \union Service

Unhealthy == 3    \* reports in a row after which notify restarts
LastRound == 2    \* 30, 15 and 7.5 seconds: sleep_time > 8 fails after two halvings

VARIABLES svc,               \* the processes: "ok", "hung" (no answer in 2 s) or "dead"
          broken,            \* targets that do not come up again in this container
          apc,               \* where the agent is
          dead_targets,      \* what its first look found dead
          bad,               \* its second look found something dead
          round,             \* how often it has halved sleep_time
          call,              \* the handler of its call
          wait,              \* ticks until docker runs the agent again
          ran,               \* ticks the agent has been running
          hpc,               \* where each handler is
          hbad,              \* the report it handles is unhealthy
          unhealthy_count,   \* capped at Unhealthy
          wpc,               \* the watchdog thread: waiting, or restarting with the mutex
          age,               \* ticks since the watchdog was fed
          upFor,             \* ticks the container has been running, up to Timeout
          missed             \* since then, an agent of this container ended without a report

agentVars   == <<apc, dead_targets, bad, round, call, wait, ran>>
handlerVars == <<hpc, hbad, unhealthy_count>>
timeVars    == <<age, upFor, missed>>
vars == <<rtVars, svc, broken, agentVars, handlerVars, wpc, timeVars>>

Init ==
    /\ RuntimeInit
    /\ svc = [t \in Target |-> "ok"]
    /\ broken = {}
    /\ apc = "idle"
    /\ dead_targets = {}
    /\ bad = FALSE
    /\ round = 0
    /\ call = NoCall
    /\ wait = Interval
    /\ ran = 0
    /\ hpc = [h \in Handler |-> "free"]
    /\ hbad = [h \in Handler |-> FALSE]
    /\ unhealthy_count = 0
    /\ wpc = "wait"
    /\ age = 0
    /\ upFor = 0
    /\ missed = FALSE

-----------------------------------------------------------------------------
(* The targets.                                                            *)

\* A process hangs or dies; broken ones will not start again.
Fail(t, s, b) ==
    /\ container = "running"
    /\ svc[t] = "ok"
    /\ svc' = [svc EXCEPT ![t] = s]
    /\ broken' = broken \union b
    /\ UNCHANGED <<rtVars, agentVars, handlerVars, wpc, timeVars>>

\* runit and lighttpd start dead processes again.
Respawn(t) ==
    /\ container = "running"
    /\ svc[t] = "dead"
    /\ t \notin broken
    /\ svc' = [svc EXCEPT ![t] = "ok"]
    /\ UNCHANGED <<rtVars, broken, agentVars, handlerVars, wpc, timeVars>>

-----------------------------------------------------------------------------
(* The agent.                                                              *)

Dead(S) == {t \in S : svc[t] = "dead"}

Unanswered == {t \in Service : svc[t] # "ok"}

\* get_healthcheck_status kills what gives no good answer within 2 seconds; "sv
\* restart" brings back the daemons of S.
Treated(S) ==
    [t \in Target |-> IF t \in Unanswered THEN "dead"
                      ELSE IF t \in S \ broken THEN "ok"
                      ELSE svc[t]]

\* First look, when docker runs the agent or a round of it follows another.
AgentCheck ==
    /\ container = "running"
    /\ \/ apc = "idle" /\ wait = 0
       \/ apc = "again"
    /\ dead_targets' = Dead(Target)
    /\ svc' = Treated(Dead(Daemon))
    /\ apc' = "checked"
    /\ UNCHANGED <<rtVars, broken, bad, round, call, wait, ran, handlerVars, wpc, timeVars>>

\* Second look: ps again for the kinds of target that had dead ones, and the health
\* of all services again.
AgentRecheck ==
    /\ container = "running"
    /\ apc = "checked"
    /\ LET again == UNION {K \in {Daemon, Service} : K \intersect dead_targets # {}}
       IN  bad' = (Dead(again) \union Unanswered # {})
    /\ svc' = Treated({})
    /\ dead_targets' = {}
    /\ apc' = "rechecked"
    /\ UNCHANGED <<rtVars, broken, round, call, wait, ran, handlerVars, wpc, timeVars>>

\* stub.notify: the monitor gives the call to a thread.
AgentNotify(h) ==
    /\ container = "running"
    /\ apc = "rechecked"
    /\ hpc[h] = "free"
    /\ hpc' = [hpc EXCEPT ![h] = "feed"]
    /\ hbad' = [hbad EXCEPT ![h] = bad]
    /\ call' = h
    /\ apc' = "called"
    /\ UNCHANGED <<rtVars, svc, broken, dead_targets, bad, round, wait, ran, unhealthy_count, wpc, timeVars>>

\* The agent has ended; docker waits for an interval.
AgentIdle ==
    /\ apc' = "idle"
    /\ wait' = Interval
    /\ ran' = 0
    /\ dead_targets' = {}
    /\ bad' = FALSE
    /\ round' = 0
    /\ call' = NoCall

\* The call was answered: an unhealthy agent runs itself again after half the time.
AgentNext ==
    \/ /\ bad /\ round < LastRound
       /\ apc' = "again"
       /\ round' = round + 1
       /\ bad' = FALSE /\ call' = NoCall
       /\ UNCHANGED <<dead_targets, wait, ran>>
    \/ ~(bad /\ round < LastRound) /\ AgentIdle

\* The agent has not come to its call.
Unreported == round = 0 /\ apc \in {"checked", "rechecked"}

\* An exception ends the agent, whatever it does, and docker's limit does; so does the
\* third second of an unanswered call, though not its handler.
AgentEnds ==
    /\ apc # "idle"
    /\ AgentIdle
    /\ missed' = (missed \/ Unreported)
    /\ UNCHANGED <<rtVars, svc, broken, handlerVars, wpc, age, upFor>>

\* When docker or grpc will not wait any longer.
AgentLimit ==
    /\ \/ apc = "called"
       \/ ran = CmdLimit
       \/ Unreported /\ ran = CmdLimit - 1
    /\ AgentEnds

-----------------------------------------------------------------------------
(* notify.                                                                 *)

\* Mutant of NotifyFeed: only a healthy report feeds the watchdog.
FeedHealthyOnly(h) ==
    /\ hpc[h] = "feed"
    /\ wpc = "wait"
    /\ age' = IF hbad[h] THEN age ELSE 0
    /\ missed' = (missed /\ hbad[h])
    /\ hpc' = [hpc EXCEPT ![h] = "count"]
    /\ UNCHANGED <<rtVars, svc, broken, agentVars, hbad, unhealthy_count, wpc, upFor>>

\* wd.feed(), once the watchdog does not hold timer_reset_cond_mutex.
NotifyFeed(h) ==
    /\ hpc[h] = "feed"
    /\ wpc = "wait"
    /\ age' = 0
    /\ missed' = FALSE
    /\ hpc' = [hpc EXCEPT ![h] = "count"]
    /\ UNCHANGED <<rtVars, svc, broken, agentVars, hbad, unhealthy_count, wpc, upFor>>

\* Mutant of Counted: a flag in place of a count.
CountedOnce(h) == IF hbad[h] THEN 1 ELSE 0

Counted(h) == IF hbad[h] THEN IF unhealthy_count = Unhealthy THEN unhealthy_count
                              ELSE unhealthy_count + 1
              ELSE 0

\* Counts the report; unhealthy_count is not protected, and of two updates at the
\* same time one may be lost.  The third report in a row starts a restart.
NotifyCount(h) ==
    /\ hpc[h] = "count"
    /\ \/ unhealthy_count' = Counted(h)
       \/ /\ \E g \in Handler \ {h} : hpc[g] = "count"
          /\ UNCHANGED unhealthy_count
    /\ IF unhealthy_count' >= Unhealthy
       THEN RestartBegin(h) /\ hpc' = [hpc EXCEPT ![h] = "restart"] /\ UNCHANGED agentVars
       ELSE /\ hpc' = [hpc EXCEPT ![h] = "free"]
            /\ IF call = h THEN AgentNext ELSE UNCHANGED agentVars
            /\ UNCHANGED <<script, tries>>
    /\ hbad' = [hbad EXCEPT ![h] = FALSE]
    /\ UNCHANGED <<container, svc, broken, wpc, timeVars>>

\* service_runtime_restart has returned.
NotifyReturn(h) ==
    /\ hpc[h] = "restart"
    /\ ~Restarting(h)
    /\ hpc' = [hpc EXCEPT ![h] = "free"]
    /\ IF call = h THEN AgentNext ELSE UNCHANGED agentVars
    /\ UNCHANGED <<rtVars, svc, broken, hbad, unhealthy_count, wpc, timeVars>>

-----------------------------------------------------------------------------
(* The watchdog, the container and time.                                   *)

WatchdogTimeout ==
    /\ wpc = "wait"
    /\ age = Timeout
    /\ wpc' = "restart"
    /\ age' = 0
    /\ RestartBegin(watchdog)
    /\ UNCHANGED <<container, svc, broken, agentVars, handlerVars, upFor, missed>>

WatchdogReturn ==
    /\ wpc = "restart"
    /\ ~Restarting(watchdog)
    /\ wpc' = "wait"
    /\ UNCHANGED <<rtVars, svc, broken, agentVars, handlerVars, timeVars>>

\* What becomes of the processes in the container when its state changes.
ContainerEffect ==
    \/ /\ container = "running" /\ container' # "running"
       /\ AgentIdle
       /\ svc' = [t \in Target |-> "dead"]
       /\ upFor' = 0
       /\ missed' = FALSE
       /\ UNCHANGED broken
    \/ /\ container # "running" /\ container' = "running"
       /\ svc' = [t \in Target |-> "ok"]
       /\ broken' = {}
       /\ UNCHANGED <<agentVars, upFor, missed>>
    \/ /\ container = "running" <=> container' = "running"
       /\ UNCHANGED <<svc, broken, agentVars, upFor, missed>>

Docker(A) ==
    /\ A
    /\ ContainerEffect
    /\ UNCHANGED <<hpc, hbad, unhealthy_count, wpc, age>>

Script(p) == Docker(ScriptStep(p) \/ DockerRun(p))

\* What is due is done; a restart takes as long as it takes.
Settled ==
    /\ container = "running" /\ apc = "idle" => wait > 0
    /\ apc # "called"
    /\ apc # "idle" => ran < CmdLimit
    /\ Unreported => ran < CmdLimit - 1
    /\ \A h \in Handler :
          /\ hpc[h] # "count"
          /\ hpc[h] = "feed" => wpc = "restart"
          /\ hpc[h] = "restart" => Restarting(h)
    /\ wpc = "restart" => Restarting(watchdog)
    /\ wpc = "wait" => age < Timeout

Tick ==
    /\ Settled
    /\ age' = IF wpc = "wait" THEN age + 1 ELSE age
    /\ wait' = IF container = "running" /\ apc = "idle" THEN wait - 1 ELSE wait
    /\ ran' = IF apc = "idle" THEN ran ELSE ran + 1
    /\ upFor' = IF container = "running" /\ upFor < Timeout THEN upFor + 1 ELSE upFor
    /\ UNCHANGED <<rtVars, svc, broken, apc, dead_targets, bad, round, call, handlerVars, wpc, missed>>

-----------------------------------------------------------------------------
Agent == AgentCheck \/ AgentRecheck \/ \E h \in Handler : AgentNotify(h)

Notify(h) == NotifyFeed(h) \/ NotifyCount(h) \/ NotifyReturn(h)

Next ==
    \/ \E t \in Target : Fail(t, "dead", {}) \/ Fail(t, "dead", {t}) \/ Respawn(t)
    \/ \E t \in Service : Fail(t, "hung", {})
    \/ Agent
    \/ AgentEnds
    \/ \E h \in Handler : Notify(h)
    \/ WatchdogTimeout
    \/ WatchdogReturn
    \/ \E p \in Caller : Script(p)
    \/ Docker(DockerRemove)
    \/ Docker(ContainerDies)
    \/ Tick

Spec == Init /\ [][Next]_vars

\* Processes run; docker runs a container if asked often enough.
Fairness ==
    /\ WF_vars(Agent)
    /\ WF_vars(AgentLimit)
    /\ \A h \in Handler : WF_vars(Notify(h))
    /\ WF_vars(WatchdogTimeout)
    /\ WF_vars(WatchdogReturn)
    /\ \A p \in Caller : WF_vars(Script(p)) /\ SF_vars(Docker(DockerRun(p)))
    /\ WF_vars(Docker(DockerRemove))
    /\ WF_vars(Tick)

FairSpec == Spec /\ Fairness

-----------------------------------------------------------------------------
(* Properties.                                                             *)

\* The watchdog leaves a container alone that has been there for as long as its
\* timeout, however sick the targets and however long others' restarts take: it restarts
\* a new one that has not had the time to report, and one whose agent was ended before it
\* could.
WatchdogPatient ==
    [][wpc = "wait" /\ wpc' = "restart" =>
          ~(container = "running" /\ upFor = Timeout /\ ~missed)]_vars

\* A container that is gone is run again, whatever tries to do so fail or collide.
ContainerRestored == container # "running" ~> container = "running"

\* A target that cannot be brought back in its container gets a new container, also
\* when a first restart fails.
BrokenReplaced == broken # {} ~> broken = {}
=============================================================================
