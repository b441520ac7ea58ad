---------------------------- MODULE PolicyRouting ----------------------------
(***************************************************************************)
(* The services' side of the policy: setting it (UserSetCfgParams, called  *)
(* by fcgi_policy) and following it in an inference (ReadShareMemory and   *)
(* the choice of vino_ie_pipe.cpp), on the shared memory of PolicyShm.     *)
(*                                                                         *)
(* Nothing protects the segment: the parts of a setting are written and    *)
(* read one by one.                                                        *)
(***************************************************************************)
EXTENDS PolicyShm

CONSTANT Client   \* processes that run inferences, one at a time each

\* No device has the name of another place to run an inference.
ASSUME RoutingAssumption == Device \intersect {"nowhere", "server", "own"} = {}

VARIABLES bpc,       \* where a daemon is in starting
          spc,       \* where fcgi_policy is in setting a policy
          set,       \* what it sets
          sseg,      \* the segment it has attached
          cpc,       \* where each client is in an inference
          cseg,      \* the segment whose id it has got, 0 for none
          got,       \* what it has read
          went,      \* where it runs the inference
          inForce,   \* what the settings of which the segment holds one allow
          clean,     \* no setting and no start of a daemon have overlapped
          cut,       \* a kill left the segment of the key without a device's name
          seen,      \* what settings in force or being made since a client's call began allow
          torn       \* the segment was being written since then, or was left without a name

setterVars == <<spc, set, sseg>>
clientVars == <<cpc, cseg, got, went>>
ghostVars  == <<inForce, clean, cut, seen, torn>>
vars == <<shmVars, bpc, setterVars, clientVars, ghostVars>>

Setting == [route : Route, dev : Device]

CfgSetting == [route |-> CfgRoute, dev |-> CfgDevice]

\* struct CfgParams policyParams{true, false, "CPU", 500}
DefaultSetting == [route |-> "LOCAL_ONLY", dev |-> "CPU"]

DefaultRead == [busy |-> FALSE, local |-> TRUE, server |-> FALSE, dev |-> "CPU"]

\* What a setting allows, and what one of two allows.
Allowed(s) == [server |-> OffloadToServer(s.route), devs |-> {s.dev}]
Nothing    == [server |-> FALSE, devs |-> {}]
Either(a, b) == [server |-> a.server \/ b.server, devs |-> a.devs \union b.devs]

Init ==
    /\ ShmInit
    /\ bpc = "up"
    /\ spc = "idle" /\ set = CfgSetting /\ sseg = 0
    /\ cpc = [c \in Client |-> "idle"]
    /\ cseg = [c \in Client |-> 0]
    /\ got = [c \in Client |-> DefaultRead]
    /\ went = [c \in Client |-> "nowhere"]
    /\ inForce = Allowed(CfgSetting)
    /\ clean = TRUE
    /\ cut = FALSE
    /\ seen = [c \in Client |-> Nothing]
    /\ torn = [c \in Client |-> FALSE]

-----------------------------------------------------------------------------
\* A setting that may be read from now on.
Offer(s) ==
    seen' = [c \in Client |-> IF cpc[c] = "idle" THEN Nothing ELSE Either(seen[c], Allowed(s))]

\* The segment is being written from now on.
Tear == torn' = [c \in Client |-> cpc[c] # "idle"]

\* vino_ie_pipeline_set_parameters and UserSetCfgParams up to the first write.  A
\* device that is not in Device is refused before, and no segment is an error.
SetBegin(r, d) ==
    /\ spc = "idle"
    /\ IF seg = 0 THEN UNCHANGED <<setterVars, clean, seen, torn>>
       ELSE /\ spc' = "attach"
            /\ set' = [route |-> r, dev |-> d]
            /\ sseg' = seg
            /\ clean' = (bpc = "up")
            /\ Offer(set')
            /\ Tear
    /\ UNCHANGED <<shmVars, bpc, clientVars, inForce, cut>>

\* Someone is attached to segment s, removed or not.
Attached(s) ==
    \/ sseg = s /\ spc \notin {"idle", "attach"}
    \/ \E c \in Client : cseg[c] = s /\ cpc[c] \in {"load", "local", "server", "device"}

\* shmat, whose failure is not looked at: it fails for a segment that was removed and
\* has no user left, and the process crashes.
shmat(s) == s = seg \/ Attached(s)

SetAttach ==
    /\ spc = "attach"
    /\ IF shmat(sseg) THEN spc' = "local" /\ UNCHANGED <<set, sseg>>
       ELSE spc' = "idle" /\ set' = CfgSetting /\ sseg' = 0
    /\ UNCHANGED <<shmVars, bpc, clientVars, ghostVars>>

SetWrite(from, to, m) ==
    /\ spc = from
    /\ spc' = to
    /\ ShmWrite(sseg, m)
    /\ UNCHANGED <<bpc, set, sseg, clientVars, ghostVars>>

SetLocal == SetWrite("local", "server", [mem[sseg] EXCEPT !.local = OffloadToLocal(set.route)])

SetServer == SetWrite("server", "device", [mem[sseg] EXCEPT !.server = OffloadToServer(set.route)])

\* memset of another device's name, before the copy of the new one.
SetClear ==
    /\ spc = "device" /\ mem[sseg].dev # set.dev
    /\ SetWrite("device", "copy", [mem[sseg] EXCEPT !.dev = ""])

SetCopy == SetWrite("copy", "done", [mem[sseg] EXCEPT !.dev = set.dev])

SetSame ==
    /\ spc = "device" /\ mem[sseg].dev = set.dev
    /\ SetWrite("device", "done", mem[sseg])

\* The answer: "successfully set the policy daemon".
SetAnswer ==
    /\ spc = "done"
    /\ spc' = "idle"
    /\ sseg' = 0
    /\ set' = CfgSetting
    /\ inForce' = IF sseg # seg THEN inForce
                  ELSE IF clean THEN Allowed(set) ELSE Either(inForce, Allowed(set))
    /\ clean' = (clean \/ bpc = "up")
    /\ cut' = (cut /\ ~(clean /\ sseg = seg))
    /\ UNCHANGED <<shmVars, bpc, clientVars, seen, torn>>

\* fcgi_policy is killed, by the health monitor's agent, before it has written everything:
\* what it has written stays, and if it was about to copy the name there is none.
SetKilled ==
    /\ spc \notin {"idle", "done"}
    /\ spc' = "idle"
    /\ sseg' = 0
    /\ set' = CfgSetting
    /\ inForce' = IF sseg # seg THEN inForce ELSE Either(inForce, Allowed(set))
    /\ clean' = (clean \/ bpc = "up")
    /\ cut' = (cut \/ (spc = "copy" /\ sseg = seg))
    /\ UNCHANGED <<shmVars, bpc, clientVars, seen, torn>>

-----------------------------------------------------------------------------
\* An inference begins, with GetShmid of ReadShareMemory.
InferBegin(c) ==
    /\ cpc[c] = "idle"
    /\ cseg' = [cseg EXCEPT ![c] = seg]
    /\ cpc' = [cpc EXCEPT ![c] = IF seg = 0 THEN "choose" ELSE "attach"]
    /\ got' = [got EXCEPT ![c] = DefaultRead]
    /\ seen' = [seen EXCEPT ![c] =
                   IF spc = "idle" THEN inForce ELSE Either(inForce, Allowed(set))]
    /\ torn' = [torn EXCEPT ![c] = (spc # "idle" \/ bpc # "up" \/ cut)]
    /\ UNCHANGED <<shmVars, bpc, setterVars, went, inForce, clean, cut>>

\* The call is over, and with it what its process knew.
InferReturn(c) ==
    /\ cpc' = [cpc EXCEPT ![c] = "idle"]
    /\ cseg' = [cseg EXCEPT ![c] = 0]
    /\ got' = [got EXCEPT ![c] = DefaultRead]
    /\ went' = [went EXCEPT ![c] = "nowhere"]
    /\ seen' = [seen EXCEPT ![c] = Nothing]
    /\ torn' = [torn EXCEPT ![c] = FALSE]
    /\ UNCHANGED <<shmVars, bpc, setterVars, inForce, clean, cut>>

ReadStep(c, from, to) ==
    /\ cpc[c] = from
    /\ cpc' = [cpc EXCEPT ![c] = to]
    /\ UNCHANGED <<shmVars, bpc, setterVars, cseg, went, ghostVars>>

Attach(c) ==
    /\ shmat(cseg[c])
    /\ ReadStep(c, "attach", "load")
    /\ UNCHANGED got

AttachCrash(c) ==
    /\ cpc[c] = "attach"
    /\ ~shmat(cseg[c])
    /\ InferReturn(c)

ReadLoad(c) ==
    /\ ReadStep(c, "load", "local")
    /\ got' = [got EXCEPT ![c].busy = mem[cseg[c]].busy]

ReadLocal(c) ==
    /\ ReadStep(c, "local", "server")
    /\ got' = [got EXCEPT ![c].local = mem[cseg[c]].local]

ReadServer(c) ==
    /\ ReadStep(c, "server", "device")
    /\ got' = [got EXCEPT ![c].server = mem[cseg[c]].server]

ReadDevice(c) ==
    /\ ReadStep(c, "device", "choose")
    /\ got' = [got EXCEPT ![c].dev = mem[cseg[c]].dev]

\* Mutant of toServer: a busy CPU sends the inference to the server.
ServerWhenBusy(g, url) == url /\ (~g.local \/ g.busy)

toServer(g, url) == g.server /\ url /\ (~g.local \/ g.busy)

\* The backend takes the CPU for an empty device name.
LocalDevice(g) == IF g.dev = "" THEN "CPU" ELSE g.dev

\* url: the caller has named a remote server.  own: the process has set a device of its
\* own for the model (irt_set_infer_device).
Choose(c, url, own) ==
    /\ cpc[c] = "choose"
    /\ cpc' = [cpc EXCEPT ![c] = "infer"]
    /\ went' = [went EXCEPT ![c] = IF toServer(got[c], url) THEN "server"
                                   ELSE IF own THEN "own" ELSE LocalDevice(got[c])]
    /\ cseg' = [cseg EXCEPT ![c] = 0]
    /\ got' = [got EXCEPT ![c] = DefaultRead]
    /\ UNCHANGED <<shmVars, bpc, setterVars, ghostVars>>

\* The inference ends, well or not.
InferEnd(c) ==
    /\ cpc[c] = "infer"
    /\ InferReturn(c)

\* The process is killed in the middle of it.
InferKilled(c) ==
    /\ cpc[c] # "idle"
    /\ InferReturn(c)

-----------------------------------------------------------------------------
(* The daemon, whose start and end change the setting in force.            *)

\* A daemon starts, with the segment of its predecessor or a new one.
DaemonStart ==
    /\ CreateShm([mem[Found] EXCEPT !.pid = TRUE])
    /\ bpc' = "load"
    /\ inForce' = Either(inForce, Allowed(CfgSetting))
    /\ clean' = (spc = "idle")
    /\ Offer(CfgSetting)
    /\ Tear
    /\ UNCHANGED <<setterVars, clientVars, cut>>

\* It writes the parts of the segment one after the other, in SaveCfgParams most of them.
BootWrite(from, to, m) ==
    /\ bpc = from
    /\ bpc' = to
    /\ ShmWrite(seg, m)
    /\ UNCHANGED <<setterVars, clientVars, seen, torn>>

BootLoad  == BootWrite("load", "local", [mem[seg] EXCEPT !.busy = InitialMemory.busy])
BootLocal == BootWrite("local", "server", [mem[seg] EXCEPT !.local = InitialMemory.local])
BootServer == BootWrite("server", "clear", [mem[seg] EXCEPT !.server = InitialMemory.server])
BootClear == BootWrite("clear", "copy", [mem[seg] EXCEPT !.dev = ""])
BootCopy  == BootWrite("copy", "up", [mem[seg] EXCEPT !.dev = InitialMemory.dev])

SaveCfgParams ==
    \/ (BootLoad \/ BootLocal \/ BootServer \/ BootClear) /\ UNCHANGED <<inForce, clean, cut>>
    \/ /\ BootCopy
       /\ inForce' = IF clean THEN Allowed(CfgSetting) ELSE inForce
       /\ clean' = (clean \/ spc = "idle")
       /\ cut' = (cut /\ ~clean)

DaemonTerm ==
    /\ DestroyShm(Attached(seg))
    /\ bpc' = "up"
    /\ inForce' = Allowed(DefaultSetting)
    /\ clean' = (clean \/ spc = "idle")
    /\ cut' = FALSE
    /\ Offer(DefaultSetting)
    /\ UNCHANGED <<setterVars, clientVars, torn>>

\* The daemon dies, also in the middle of its start.
DaemonCrash ==
    /\ AbandonShm
    /\ bpc' = "up"
    /\ clean' = (clean \/ spc = "idle")
    /\ cut' = (cut \/ bpc # "up")
    /\ UNCHANGED <<setterVars, clientVars, inForce, seen, torn>>

DaemonSample(busy) ==
    /\ bpc = "up"
    /\ PublishLoad(busy)
    /\ UNCHANGED <<bpc, setterVars, clientVars, ghostVars>>

-----------------------------------------------------------------------------
Setter ==
    \/ \E r \in {"LOCAL_ONLY", "SERVER_ONLY"}, d \in Device : SetBegin(r, d)
    \/ SetAttach \/ SetLocal \/ SetServer \/ SetClear \/ SetCopy \/ SetSame \/ SetAnswer
    \/ SetKilled

Inference(c) ==
    \/ InferBegin(c) \/ Attach(c) \/ AttachCrash(c)
    \/ ReadLoad(c) \/ ReadLocal(c) \/ ReadServer(c) \/ ReadDevice(c)
    \/ \E url, own \in BOOLEAN : Choose(c, url, own)
    \/ InferEnd(c) \/ InferKilled(c)

Next ==
    \/ DaemonStart \/ SaveCfgParams \/ DaemonTerm \/ DaemonCrash
    \/ \E busy \in BOOLEAN : DaemonSample(busy)
    \/ Setter
    \/ \E c \in Client : Inference(c)

Spec == Init /\ [][Next]_vars

-----------------------------------------------------------------------------
(* Properties.                                                             *)

\* An inference goes to the remote server only if a setting that was in force, or being
\* made, during its call allows it; else it runs on the device of such a setting.  Only
\* when the segment was being written during the call, or a kill had cut off the last
\* writing of it, may it run on the CPU though no setting names it.
RoutedAsSet ==
    \A c \in Client : cpc[c] = "infer" =>
        /\ went[c] = "server" => seen[c].server
        /\ went[c] \in Device => went[c] \in seen[c].devs \/ (torn[c] /\ went[c] = "CPU")
=============================================================================
