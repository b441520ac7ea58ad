------------------------------ MODULE PolicyShm ------------------------------
(***************************************************************************)
(* The shared memory segment (policy.cpp) in which the policy daemon       *)
(* publishes the load and the services their settings.                     *)
(*                                                                         *)
(* The segment outlives a daemon that crashes; one that is given SIGTERM   *)
(* removes it, but processes that are attached to it stay so.              *)
(***************************************************************************)
EXTENDS Integers

CONSTANTS CfgRoute, CfgDevice,     \* /etc/policy_setting.cfg
          Device,                  \* devices that can be set, "CPU" among them
          MaxTerm                  \* how often the daemon may be given SIGTERM

Route == {"LOCAL_ONLY", "LOCAL_FIRST", "SERVER_ONLY"}

ASSUME PolicyAssumption ==
    /\ CfgRoute \in Route
    /\ {"CPU", CfgDevice} \subseteq Device
    /\ "" \notin Device
    /\ MaxTerm \in Nat

VARIABLES seg,     \* the segment of the key, 0 if there is none
          segs,    \* segments created so far
          mem,     \* their contents
          terms    \* how often a daemon was given SIGTERM

shmVars == <<seg, segs, mem, terms>>

Segment == 1..(MaxTerm + 1)

\* struct ShareMemory; pid tells whether pidOfDaemon is the pid of a running daemon.
ShareMemory == [busy : BOOLEAN, local : BOOLEAN, server : BOOLEAN,
                dev : Device \union {""}, pid : BOOLEAN]

\* ParseConfiguration: what a value of -Offload-to-local means.
OffloadToLocal(route)  == route # "SERVER_ONLY"
OffloadToServer(route) == route # "LOCAL_ONLY"

\* A new segment: no idle time, no offloading, no device.
ZeroMemory == [busy |-> TRUE, local |-> FALSE, server |-> FALSE, dev |-> "", pid |-> FALSE]

\* What a daemon that starts writes: an idle CPU, its pid and the configuration
\* (SaveCfgParams).
InitialMemory ==
    [busy |-> FALSE, local |-> OffloadToLocal(CfgRoute), server |-> OffloadToServer(CfgRoute),
     dev |-> CfgDevice, pid |-> TRUE]

ShmInit ==
    /\ seg = 1
    /\ segs = 1
    /\ mem = [s \in Segment |-> IF s = 1 THEN InitialMemory ELSE ZeroMemory]
    /\ terms = 0

DaemonRuns == seg # 0 /\ mem[seg].pid

\* The segment a daemon that starts gets: that of the key if there is one.
Found == IF seg = 0 THEN segs + 1 ELSE seg

\* A daemon starts, and m is written.
CreateShm(m) ==
    /\ ~DaemonRuns
    /\ seg' = Found
    /\ segs' = IF seg = 0 THEN segs + 1 ELSE segs
    /\ mem' = [mem EXCEPT ![Found] = m]
    /\ UNCHANGED terms

NoPid == [s \in Segment |-> [mem[s] EXCEPT !.pid = FALSE]]

\* The daemon is given SIGTERM, by "sv restart" or a shutdown, and removes the segment:
\* at once, unless it is used by a service that is attached to it.
DestroyShm(used) ==
    /\ DaemonRuns
    /\ terms < MaxTerm
    /\ terms' = terms + 1
    /\ seg' = 0
    /\ mem' = IF used THEN NoPid ELSE [mem EXCEPT ![seg] = ZeroMemory]
    /\ UNCHANGED segs

\* The daemon ends without cleaning up.
AbandonShm ==
    /\ DaemonRuns
    /\ mem' = NoPid
    /\ UNCHANGED <<seg, segs, terms>>

\* The daemon publishes how busy the CPU is.
PublishLoad(busy) ==
    /\ DaemonRuns
    /\ mem' = [mem EXCEPT ![seg].busy = busy]
    /\ UNCHANGED <<seg, segs, terms>>

\* A process attached to segment s changes its contents.
ShmWrite(s, m) ==
    /\ mem' = [mem EXCEPT ![s] = m]
    /\ UNCHANGED <<seg, segs, terms>>
=============================================================================
