---------------------------- MODULE PolicyDaemon ----------------------------
(***************************************************************************)
(* The policy daemon (daemon_policy.cpp): it samples the load of the CPU   *)
(* and the GPU into a shared memory segment, ever more seldom while the    *)
(* services are idle, until SIGUSR1 wakes it.                              *)
(*                                                                         *)
(* Signal handlers run on the daemon's only thread, between two of its     *)
(* steps; gMtx is held in the steps "arm" and "disarm".  Times are         *)
(* multiples of gDefaultTimeout.                                           *)
(***************************************************************************)
EXTENDS PolicyShm

CONSTANTS IterDefault, IterDouble, \* 120 and 29: samples before the next timeout
          Longest                  \* 1280: the longest timeout

ASSUME DaemonAssumption ==
    /\ IterDefault \in Nat /\ IterDouble \in Nat
    /\ Longest \in Nat /\ Longest >= 2

VARIABLES dpc,            \* where the daemon is
          gTimeout, iter, \* the sampling interval and the samples taken with it
          prom,           \* gProm: "none" (nullptr), "armed", or "set" (has its value)
          sig,            \* SIGUSR1 is pending
          active,         \* the last sample saw the services use the CPU
          gpuTopRunning,
          gpuTops         \* intel_gpu_top processes, 2 for two or more

ladderVars == <<gTimeout, iter, prom, active>>
gpuVars    == <<gpuTopRunning, gpuTops>>
vars == <<dpc, ladderVars, gpuVars, sig, shmVars>>

Up == dpc \notin {"down", "hung"}

IterLimit == IF gTimeout = 1 THEN IterDefault ELSE IF gTimeout = 2 THEN IterDouble ELSE 0

Init ==
    /\ ShmInit
    /\ dpc = "start"
    /\ gTimeout = 1 /\ iter = 0 /\ prom = "none" /\ active = FALSE
    /\ sig = FALSE
    /\ gpuTopRunning = FALSE /\ gpuTops = 0

-----------------------------------------------------------------------------
(* Beginning and end of the process.                                       *)

\* main up to the loop, when runit starts the daemon.
DaemonStart ==
    /\ CreateShm(InitialMemory)
    /\ dpc' = "start"
    /\ gTimeout' = 1 /\ iter' = 0 /\ prom' = "none" /\ active' = FALSE
    /\ sig' = FALSE
    /\ gpuTopRunning' = FALSE
    /\ UNCHANGED gpuTops

\* The 2 seconds before the first sample are over.
DaemonLoop ==
    /\ dpc = "start"
    /\ dpc' = "top"
    /\ UNCHANGED <<ladderVars, gpuVars, sig, shmVars>>

\* closeGpuTop kills the intel_gpu_top processes; it returns -1 if it finds none.
closeGpuTop ==
    /\ gpuTops' = 0
    /\ gpuTopRunning' = (gpuTops = 0)

\* SIGTERM.
signalHandler ==
    /\ DestroyShm(FALSE)
    /\ dpc' = "down"
    /\ IF gpuTopRunning THEN closeGpuTop ELSE UNCHANGED gpuVars
    /\ sig' = FALSE
    /\ UNCHANGED ladderVars

\* An exception leaves a signal handler.
terminate ==
    /\ AbandonShm
    /\ dpc' = "down"
    /\ UNCHANGED <<ladderVars, gpuVars>>

-----------------------------------------------------------------------------
(* SIGUSR1.                                                                *)

\* The handler.  It waits for ever for a mutex its own thread holds, and set_value
\* throws for a promise that has its value.
wakeup ==
    /\ sig
    /\ Up
    /\ sig' = FALSE
    /\ \/ /\ gTimeout = 1 \/ (dpc \notin {"arm", "disarm"} /\ prom = "none")
          /\ UNCHANGED <<dpc, ladderVars, gpuVars, shmVars>>
       \/ /\ gTimeout # 1 /\ dpc \in {"arm", "disarm"}
          /\ dpc' = "hung"
          /\ UNCHANGED <<ladderVars, gpuVars, shmVars>>
       \/ /\ gTimeout # 1 /\ dpc \notin {"arm", "disarm"} /\ prom = "armed"
          /\ prom' = "set"
          /\ UNCHANGED <<dpc, gTimeout, iter, active, gpuVars, shmVars>>
       \/ /\ gTimeout # 1 /\ dpc \notin {"arm", "disarm"} /\ prom = "set"
          /\ terminate

-----------------------------------------------------------------------------
(* The loop.                                                               *)

Step(from, to) == dpc = from /\ dpc' = to

\* gMtx is locked, and released with a new promise in gProm.
ArmLock ==
    /\ Step("top", "arm")
    /\ UNCHANGED <<ladderVars, gpuVars, sig, shmVars>>

Arm ==
    /\ Step("arm", "sample")
    /\ prom' = "armed"
    /\ UNCHANGED <<gTimeout, iter, active, gpuVars, sig, shmVars>>

\* process_cpu_occupancy: how busy the CPU is, and whether the services used it.  A
\* failed read leaves the status as it is and reports no use.
process_cpu_occupancy(busy, used) ==
    /\ Step("sample", "gpu")
    /\ active' = used
    /\ PublishLoad(busy) \/ (~used /\ UNCHANGED shmVars)
    /\ UNCHANGED <<gTimeout, iter, prom, gpuVars, sig>>

\* process_gpu_occupancy; expired tells whether intel_gpu_top has run for
\* RESTART_GPU_TIME, and started whether it can be started.
process_gpu_occupancy(expired, started) ==
    /\ Step("gpu", "transfer")
    /\ IF mem[seg].dev = "GPU"
       THEN IF gpuTopRunning /\ (~expired \/ gpuTops = 0)
            THEN UNCHANGED gpuVars
            ELSE LET left == IF gpuTopRunning THEN 0 ELSE gpuTops
                 IN /\ gpuTopRunning' = started
                    /\ gpuTops' = IF started /\ left < 2 THEN left + 1 ELSE left
       ELSE IF gpuTopRunning THEN closeGpuTop ELSE UNCHANGED gpuVars
    /\ UNCHANGED <<ladderVars, sig, shmVars>>

NextTimeout == IF gTimeout = 1 THEN 2 ELSE 4 * gTimeout

stateTransfer ==
    IF active THEN gTimeout' = 1 /\ iter' = 0
    ELSE IF iter = IterLimit
    THEN gTimeout' = (IF NextTimeout >= Longest THEN Longest ELSE NextTimeout) /\ iter' = 0
    ELSE iter' = iter + 1 /\ UNCHANGED gTimeout

\* gotoSleep up to its wait.
gotoSleep ==
    /\ Step("transfer", "sleep")
    /\ stateTransfer
    /\ UNCHANGED <<prom, active, gpuVars, sig, shmVars>>

\* Mutant of WaitReady: the interval is left as long as it was.
ReadyKeepsTimeout ==
    /\ ~sig
    /\ prom = "set"
    /\ Step("sleep", "slept")
    /\ iter' = 0
    /\ UNCHANGED <<gTimeout, prom, active, gpuVars, sig, shmVars>>

\* wait_for: a thread that waits handles a pending signal before it goes on.
WaitReady ==
    /\ ~sig
    /\ prom = "set"
    /\ Step("sleep", "slept")
    /\ gTimeout' = 1
    /\ iter' = 0
    /\ UNCHANGED <<prom, active, gpuVars, sig, shmVars>>

\* Mutant of WaitTimeout: the count starts again after every sleep.
TimeoutResets ==
    /\ ~sig
    /\ prom # "set"
    /\ Step("sleep", "slept")
    /\ iter' = 0
    /\ UNCHANGED <<gTimeout, prom, active, gpuVars, sig, shmVars>>

WaitTimeout ==
    /\ ~sig
    /\ prom # "set"
    /\ Step("sleep", "slept")
    /\ UNCHANGED <<ladderVars, gpuVars, sig, shmVars>>

DisarmLock ==
    /\ Step("slept", "disarm")
    /\ UNCHANGED <<ladderVars, gpuVars, sig, shmVars>>

Disarm ==
    /\ Step("disarm", "top")
    /\ prom' = "none"
    /\ UNCHANGED <<gTimeout, iter, active, gpuVars, sig, shmVars>>

\* intel_gpu_top ends by itself.
GpuTopDies ==
    /\ gpuTops > 0
    /\ gpuTops' = gpuTops - 1
    /\ UNCHANGED <<dpc, ladderVars, gpuTopRunning, sig, shmVars>>

Loop ==
    \/ ArmLock \/ Arm
    \/ \E busy, used \in BOOLEAN : process_cpu_occupancy(busy, used)
    \/ \E expired, started \in BOOLEAN : process_gpu_occupancy(expired, started)
    \/ gotoSleep \/ WaitReady \/ WaitTimeout
    \/ DisarmLock \/ Disarm

-----------------------------------------------------------------------------
(* What the services do to the daemon.                                     *)

\* Policy::WakeupDaemon: pidOfDaemon may be that of a process that is gone.
WakeupDaemon ==
    /\ DaemonRuns
    /\ sig' = TRUE
    /\ UNCHANGED <<dpc, ladderVars, gpuVars, shmVars>>

\* A service sets another device, or is about to.
DeviceSet(d) ==
    /\ seg # 0
    /\ ShmWrite(seg, [mem[seg] EXCEPT !.dev = d])
    /\ UNCHANGED <<dpc, ladderVars, gpuVars, sig>>

Next ==
    \/ DaemonStart \/ DaemonLoop \/ Loop
    \/ wakeup \/ signalHandler
    \/ GpuTopDies
    \/ WakeupDaemon
    \/ \E d \in Device \union {""} : DeviceSet(d)

Spec == Init /\ [][Next]_vars

\* The daemon's thread runs, signals are delivered, and runit starts a daemon that has
\* ended.
Fairness ==
    /\ WF_vars(DaemonLoop \/ Loop)
    /\ WF_vars(wakeup)
    /\ WF_vars(DaemonStart)

FairSpec == Spec /\ Fairness

-----------------------------------------------------------------------------
(* Properties.                                                             *)

\* SIGUSR1 for a daemon that sleeps for longer than the default makes it sample at the
\* default rate again, unless the daemon ends or hangs.
WakeupEndsSleep ==
    dpc = "sleep" /\ sig /\ gTimeout # 1 ~> gTimeout = 1 \/ ~Up

\* A daemon that nobody wakes and that sees no use of the CPU backs off to its longest
\* sleep.
IdleBacksOff ==
    <>[](Up /\ dpc # "start" /\ ~sig /\ ~active) => <>[](gTimeout = Longest)
=============================================================================
