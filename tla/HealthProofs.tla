---------------------------- MODULE HealthProofs ----------------------------
(***************************************************************************)
(* Proofs about HealthMonitor, for every number of threads of the gRPC      *)
(* server, targets and tries of a restart, restarts of any length and every  *)
(* length of a tick: the watchdog is patient with a container that reports.  *)
(***************************************************************************)
EXTENDS HealthMonitor, TLAPS

AgentPc == {"idle", "checked", "rechecked", "called", "again"}
HandlerPc == {"free", "feed", "count", "restart"}

Types ==
    /\ age \in 0 .. Timeout /\ upFor \in 0 .. Timeout
    /\ wait \in 0 .. Interval /\ ran \in 0 .. CmdLimit /\ round \in Nat
    /\ wpc \in {"wait", "restart"} /\ apc \in AgentPc /\ hpc \in [Handler -> HandlerPc]

\* The agent has no call unless it waits for one, starts with its first round, and makes the
\* report of that round before docker's limit; the watchdog measures nothing while it restarts.
AgentInv ==
    /\ apc = "idle" => round = 0 /\ ran = 0
    /\ apc = "again" => round > 0
    /\ call # NoCall => apc = "called"
    /\ Unreported => ran < CmdLimit
    /\ container # "running" => apc = "idle" /\ wait = Interval /\ upFor = 0
    /\ wpc = "restart" => age = 0

\* The watchdog has been fed, or the container run, no more than n ticks ago.
Young(n) == age <= n \/ upFor <= n

\* How far a container that has made every report it owes is from the watchdog's timeout: its
\* report is before feed, or docker waits to run the agent, which has ended within the limit of
\* its last report; or the agent is before its report, or after it.
Owed ==
    \/ (\E h \in Handler : hpc[h] = "feed") /\ Young(Timeout - 1)
    \/ apc = "idle" /\ Young(Interval + CmdLimit - wait)
    \/ Unreported /\ Young(Interval + CmdLimit + ran)
    \/ apc # "idle" /\ ~Unreported /\ Young(ran)

WatchInv == Types /\ AgentInv /\ (container = "running" /\ missed # TRUE => Owed)

USE MonitorAssumption, TimesAssumption

LEMMA WatchInit == Init => WatchInv
  <1> SUFFICES ASSUME Init PROVE WatchInv
    OBVIOUS
  <1>1. hpc \in [Handler -> HandlerPc]
    BY Zenon DEF Init, HandlerPc
  <1>2. /\ age = 0 /\ upFor = 0 /\ wpc = "wait" /\ apc = "idle" /\ wait = Interval /\ ran = 0 /\ round = 0
        /\ call = NoCall /\ container = "running"
    BY DEF Init, RuntimeInit
  <1>3. Types
    BY <1>1, <1>2 DEF Types, AgentPc
  <1>4. AgentInv
    BY <1>2 DEF AgentInv, Unreported
  <1>5. age <= Interval + CmdLimit - wait
    BY <1>2
  <1>6. Owed
    BY <1>2, <1>5 DEF Owed, Young
  <1> QED
    BY <1>3, <1>4, <1>6 DEF WatchInv

\* A watchdog that has just been fed, or is restarting, is owed nothing.
LEMMA JustFed ==
  ASSUME Types', AgentInv', age' = 0
  PROVE  WatchInv'
  <1>1. wait' \in 0 .. Interval /\ ran' \in 0 .. CmdLimit /\ Interval \in Nat /\ CmdLimit \in Nat
    BY DEF Types
  <1>2. age' <= Interval + CmdLimit - wait' /\ age' <= Interval + CmdLimit + ran' /\ age' <= ran'
    <2>1. \A i, c \in Nat : \A w \in 0 .. i, r \in 0 .. c : 0 <= i + c - w /\ 0 <= i + c + r /\ 0 <= r
      OBVIOUS
    <2> QED
      BY <1>1, <2>1, Zenon
  <1>3. Owed'
    BY <1>2, Zenon DEF Owed, Young
  <1> QED
    BY <1>3 DEF WatchInv

LEMMA AgentWatched ==
  ASSUME WatchInv, Agent \/ AgentEnds
  PROVE  WatchInv'
  <1> USE DEF WatchInv, Types, AgentInv, AgentPc, Unreported
  <1>1. CASE AgentCheck
    <2>1. UNCHANGED <<container, age, upFor, missed, wpc, hpc, wait, ran, round, call>> /\ apc' = "checked"
          /\ ((apc = "idle" /\ wait = 0) \/ apc = "again") /\ container = "running"
      BY <1>1 DEF AgentCheck, rtVars, handlerVars, timeVars
    <2>2. Types' /\ AgentInv'
      BY <2>1
    <2>3. Owed => Owed'
      BY <2>1 DEF Owed, Young
    <2> QED
      BY <2>1, <2>2, <2>3
  <1>2. CASE AgentRecheck
    <2>1. UNCHANGED <<container, age, upFor, missed, wpc, hpc, wait, ran, round, call>> /\ apc' = "rechecked"
          /\ apc = "checked" /\ container = "running"
      BY <1>2 DEF AgentRecheck, rtVars, handlerVars, timeVars
    <2>2. Types' /\ AgentInv'
      BY <2>1
    <2>3. Owed => Owed'
      BY <2>1 DEF Owed, Young
    <2> QED
      BY <2>1, <2>2, <2>3
  <1>3. ASSUME NEW h \in Handler, AgentNotify(h) PROVE WatchInv'
    <2>1. UNCHANGED <<container, age, upFor, missed, wpc, wait, ran, round>> /\ apc' = "called"
          /\ apc = "rechecked" /\ container = "running" /\ call' = h
      BY <1>3 DEF AgentNotify, rtVars, timeVars
    <2>2. hpc' \in [Handler -> HandlerPc] /\ hpc'[h] = "feed"
      BY <1>3 DEF AgentNotify, HandlerPc
    <2>3. Types' /\ AgentInv'
      BY <2>1, <2>2
    <2>4. Owed => Young(Timeout - 1)
      BY <2>1 DEF Owed, Young
    <2>5. Owed => Owed'
      BY <2>1, <2>2, <2>4 DEF Owed, Young
    <2> QED
      BY <2>1, <2>3, <2>5
  <1>4. CASE AgentEnds
    <2>1. UNCHANGED <<container, age, upFor, wpc, hpc>> /\ missed' = (missed \/ Unreported) /\ apc # "idle"
          /\ apc' = "idle" /\ wait' = Interval /\ ran' = 0 /\ round' = 0 /\ call' = NoCall
      BY <1>4 DEF AgentEnds, AgentIdle, rtVars, handlerVars
    <2>2. Types' /\ AgentInv'
      BY <2>1
    <2>3. Owed /\ ~Unreported => Owed'
      BY <2>1 DEF Owed, Young
    <2>4. missed' # TRUE => missed # TRUE /\ ~Unreported
      BY <2>1
    <2> QED
      BY <2>1, <2>2, <2>3, <2>4
  <1> QED
    BY <1>1, <1>2, <1>3, <1>4 DEF Agent

LEMMA NotifyWatched ==
  ASSUME WatchInv, NEW h \in Handler, Notify(h)
  PROVE  WatchInv'
  <1> USE DEF WatchInv, Types, AgentInv, AgentPc, HandlerPc, Unreported
  <1>1. CASE NotifyFeed(h)
    <2>1. Types' /\ AgentInv' /\ age' = 0
      BY <1>1 DEF NotifyFeed, agentVars, rtVars
    <2> QED
      BY <2>1, JustFed
  <1>2. CASE NotifyCount(h) \/ NotifyReturn(h)
    <2>1. PICK s \in {"free", "restart"} : hpc' = [hpc EXCEPT ![h] = s] /\ hpc[h] # "feed"
      BY <1>2 DEF NotifyCount, NotifyReturn
    <2>2. UNCHANGED agentVars \/ (call = h /\ AgentNext)
      BY <1>2 DEF NotifyCount, NotifyReturn
    <2>3. \/ UNCHANGED <<apc, wait, ran, round, call>>
          \/ apc = "called" /\ apc' = "idle" /\ wait' = Interval /\ ran' = 0 /\ round' = 0 /\ call' = NoCall
          \/ apc = "called" /\ apc' = "again" /\ UNCHANGED <<wait, ran>> /\ round' = round + 1 /\ call' = NoCall
      BY <2>2 DEF agentVars, AgentNext, AgentIdle
    <2>4. UNCHANGED <<container, wpc, age, upFor, missed>>
      BY <1>2 DEF NotifyCount, NotifyReturn, rtVars, timeVars
    <2>5. Types'
      BY <2>1, <2>3, <2>4
    <2>6. AgentInv'
      BY <2>3, <2>4
    <2>7. (\E g \in Handler : hpc[g] = "feed") => \E g \in Handler : hpc'[g] = "feed"
      BY <2>1
    <2>8. Owed => Owed'
      BY <2>3, <2>4, <2>7 DEF Owed, Young
    <2> QED
      BY <2>4, <2>5, <2>6, <2>8
  <1> QED
    BY <1>1, <1>2 DEF Notify

\* What docker does to the container: it goes, and its agent with it, or one is run.
LEMMA DockerWatched ==
  ASSUME WatchInv, ContainerEffect, UNCHANGED <<hpc, wpc, age>>
  PROVE  WatchInv'
  <1> USE DEF WatchInv, Types, AgentInv, AgentPc, Unreported
  <1>1. CASE container = "running" /\ container' # "running" /\ AgentIdle /\ upFor' = 0
    <2>1. Types'
      BY <1>1 DEF AgentIdle
    <2>2. AgentInv'
      BY <1>1 DEF AgentIdle
    <2> QED
      BY <1>1, <2>1, <2>2
  <1>2. CASE container # "running" /\ container' = "running" /\ UNCHANGED <<agentVars, upFor>>
    <2>1. Types' /\ AgentInv' /\ apc' = "idle" /\ upFor' = 0 /\ wait' = Interval
      BY <1>2 DEF agentVars
    <2>2. upFor' <= Interval + CmdLimit - wait'
      BY <2>1
    <2>3. Owed'
      BY <2>1, <2>2, Zenon DEF Owed, Young
    <2> QED
      BY <2>1, <2>3
  <1>3. CASE (container = "running" <=> container' = "running") /\ UNCHANGED <<agentVars, upFor, missed>>
    <2>1. Types' /\ AgentInv'
      BY <1>3 DEF agentVars
    <2>2. Owed' <=> Owed
      BY <1>3 DEF agentVars, Owed, Young
    <2> QED
      BY <1>3, <2>1, <2>2
  <1> QED
    BY <1>1, <1>2, <1>3 DEF ContainerEffect

LEMMA TickWatched ==
  ASSUME WatchInv, Tick
  PROVE  WatchInv'
  <1> USE DEF WatchInv, Types, AgentInv, Unreported
  <1>1. UNCHANGED <<container, apc, round, call, hpc, wpc, missed>>
    BY DEF Tick, rtVars, handlerVars
  <1>2. /\ age' = (IF wpc = "wait" THEN age + 1 ELSE age)
        /\ wait' = (IF container = "running" /\ apc = "idle" THEN wait - 1 ELSE wait)
        /\ ran' = (IF apc = "idle" THEN ran ELSE ran + 1)
        /\ upFor' = (IF container = "running" /\ upFor < Timeout THEN upFor + 1 ELSE upFor)
    BY DEF Tick
  <1>3. /\ container = "running" /\ apc = "idle" => wait > 0
        /\ apc # "idle" => ran < CmdLimit
        /\ Unreported => ran < CmdLimit - 1
        /\ wpc = "wait" => age < Timeout /\ \A h \in Handler : hpc[h] # "feed"
    BY DEF Tick, Settled
  <1>4. Types'
    BY <1>1, <1>2, <1>3
  <1>5. AgentInv'
    BY <1>1, <1>2, <1>3
  <1>6. CASE wpc = "restart"
    BY <1>1, <1>2, <1>4, <1>5, <1>6, JustFed
  <1>7. CASE wpc = "wait"
    <2>1. container = "running" /\ Owed => Owed'
      BY <1>1, <1>2, <1>3, <1>7 DEF Owed, Young
    <2> QED
      BY <1>1, <1>4, <1>5, <2>1
  <1> QED
    BY <1>6, <1>7

LEMMA WatchNext == WatchInv /\ [Next]_vars => WatchInv'
  <1> SUFFICES ASSUME WatchInv, [Next]_vars PROVE WatchInv'
    OBVIOUS
  <1>1. ASSUME UNCHANGED <<rtVars, agentVars, handlerVars, wpc, timeVars>> PROVE WatchInv'
    BY <1>1 DEF WatchInv, Types, AgentInv, Owed, Young, Unreported, rtVars, agentVars, handlerVars, timeVars
  <1>2. CASE UNCHANGED vars
    BY <1>1, <1>2 DEF vars
  <1>3. ASSUME NEW t, NEW s, NEW b, Fail(t, s, b) PROVE WatchInv'
    BY <1>1, <1>3 DEF Fail
  <1>4. ASSUME NEW t, Respawn(t) PROVE WatchInv'
    BY <1>1, <1>4 DEF Respawn
  <1>5. CASE WatchdogTimeout
    <2>1. wpc' = "restart" /\ age' = 0 /\ UNCHANGED <<container, agentVars, hpc, upFor>>
      BY <1>5 DEF WatchdogTimeout, handlerVars
    <2>2. Types' /\ AgentInv'
      BY <2>1 DEF WatchInv, Types, AgentInv, Unreported, agentVars
    <2> QED
      BY <2>1, <2>2, JustFed
  <1>6. CASE WatchdogReturn
    <2>1. wpc = "restart" /\ wpc' = "wait" /\ UNCHANGED <<container, agentVars, hpc, timeVars>>
      BY <1>6 DEF WatchdogReturn, handlerVars, rtVars
    <2>2. Types' /\ AgentInv' /\ age' = 0
      BY <2>1 DEF WatchInv, Types, AgentInv, Unreported, agentVars, timeVars
    <2> QED
      BY <2>2, JustFed
  <1>7. CASE (\E p \in Caller : Script(p)) \/ Docker(DockerRemove) \/ Docker(ContainerDies)
    BY <1>7, DockerWatched DEF Script, Docker
  <1> QED
    BY <1>2, <1>3, <1>4, <1>5, <1>6, <1>7, AgentWatched, NotifyWatched, TickWatched DEF Next

\* service_runtime_health_monitor.cc, with any number of threads in notify, restarts that take
\* as long as they like and agents that docker or an exception may end at any point: the watchdog
\* restarts no container that has been there for as long as its timeout and whose agents were all
\* heard, because an interval and twice the limit of a health command are no longer than it.
THEOREM WatchdogProved == Spec => WatchdogPatient
  <1>1. WatchInv /\ [Next]_vars =>
           [wpc = "wait" /\ wpc' = "restart" => ~(container = "running" /\ upFor = Timeout /\ ~missed)]_vars
    <2> SUFFICES ASSUME WatchInv, Next, wpc = "wait", wpc' = "restart", container = "running", upFor = Timeout, ~missed
                 PROVE  FALSE
      OBVIOUS
    <2>1. WatchdogTimeout
      BY DEF Next, Fail, Respawn, Agent, AgentCheck, AgentRecheck, AgentNotify, AgentEnds, Notify, NotifyFeed,
             NotifyCount, NotifyReturn, WatchdogReturn, Script, Docker, Tick
    <2>2. age = Timeout
      BY <2>1 DEF WatchdogTimeout
    <2>3. Owed
      BY Zenon DEF WatchInv
    <2> QED
      BY <2>2, <2>3 DEF WatchInv, Types, AgentInv, Owed, Young
  <1> QED
    BY <1>1, WatchInit, WatchNext, PTL DEF Spec, WatchdogPatient
=============================================================================
