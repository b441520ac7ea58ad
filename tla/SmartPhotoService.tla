-------------------------- MODULE SmartPhotoService --------------------------
(***************************************************************************)
(* The smart-photo FastCGI service (fcgi_smartphoto.cpp) on top of the     *)
(* library: one process, one request at a time, and the photo monitor that *)
(* tells the service what happens to the files of the photo directory.     *)
(*                                                                         *)
(* The queries (list_..., scan_running, waiting_scan_count, healthcheck)   *)
(* change nothing; they occupy the request loop like the others.           *)
(***************************************************************************)
EXTENDS SmartPhoto

CONSTANTS fcgi,         \* the thread of the request loop
          UserMethods,  \* methods that users call on their own
          MaxEvents     \* bound on the notifications the monitor has yet to send

ASSUME ServiceAssumption ==
    /\ Client = {fcgi}
    /\ Calls = CallName
    /\ Name # {}
    /\ MaxEvents \in Nat

Method == {"add_dir", "scan_start", "scan_stop", "add_file", "del_file", "mv_file",
           "del_all_file", "query"}

ASSUME MethodAssumption == UserMethods \subseteq Method

\* A request; stage tells how far smartphoto_resp is with it.
Request == [method : Method, name : Name, to : Name,
            stage : {"none", "parsed", "called", "added", "reply", "failed"}]

VARIABLES req,      \* the request being handled; its stage is "none" between requests
          events    \* notifications of the monitor, oldest first

svcVars == <<vars, req, events>>

Event(method, n, m) == [method |-> method, name |-> n, to |-> m]

SomeName == CHOOSE n \in Name : TRUE

\* What the method finds in its parameter: "file", "from" and "to", or nothing.
Params(method) ==
    CASE method \in {"add_file", "del_file"} -> {<<n, n>> : n \in Name}
      [] method = "mv_file"                  -> Name \X Name
      [] OTHER                               -> {<<SomeName, SomeName>>}

NoRequest == [method |-> "query", name |-> SomeName, to |-> SomeName, stage |-> "none"]

ServiceInit ==
    /\ Init
    /\ req = NoRequest
    /\ events = <<>>

Stage(s) == req' = [req EXCEPT !.stage = s]

-----------------------------------------------------------------------------
(* The request loop.                                                       *)

\* FCGX_Accept_r and the parsing of the method and its parameter.
AcceptRequest(method, n, m) ==
    /\ up = "up"
    /\ req.stage = "none"
    /\ req' = [method |-> method, name |-> n, to |-> m, stage |-> "parsed"]
    /\ UNCHANGED vars

AcceptUser ==
    /\ \E method \in UserMethods : \E p \in Params(method) : AcceptRequest(method, p[1], p[2])
    /\ UNCHANGED events

AcceptEvent ==
    /\ events # <<>>
    /\ LET e == Head(events) IN AcceptRequest(e.method, e.name, e.to)
    /\ events' = Tail(events)

\* The library call behind the method.
LibraryCall ==
    \/ req.method = "add_dir"      /\ \E S \in SUBSET Name : ccai_sp_add_dir(fcgi, S)
    \/ req.method = "scan_start"   /\ ccai_sp_scan(fcgi)
    \/ req.method = "scan_stop"    /\ ccai_sp_stop_scan(fcgi)
    \/ req.method = "del_file"     /\ ccai_sp_remove_file(fcgi, req.name)
    \/ req.method = "mv_file"      /\ ccai_sp_move_file(fcgi, req.name, req.to)
    \/ req.method = "del_all_file" /\ ccai_sp_remove_all_file(fcgi)

HandleCall ==
    /\ req.stage = "parsed"
    /\ LibraryCall
    /\ Stage("called")
    /\ UNCHANGED events

\* add_file adds the file and, if that went well, starts a scan.
HandleAddFile ==
    /\ req.stage = "parsed"
    /\ req.method = "add_file"
    /\ \/ ccai_sp_add_file(fcgi, req.name) /\ Stage("added")
       \/ /\ up = "up" /\ disk[realpath[req.name]] = NoFile
          /\ Stage("failed")
          /\ UNCHANGED vars
    /\ UNCHANGED events

HandleAddFileScan ==
    /\ req.stage = "added"
    /\ ccai_sp_scan(fcgi)
    /\ Stage("reply")
    /\ UNCHANGED events

HandleQuery ==
    /\ up = "up"
    /\ req.stage = "parsed"
    /\ req.method = "query"
    /\ mutex = Nobody
    /\ Stage("reply")
    /\ UNCHANGED <<vars, events>>

\* The library function has returned.
CallReturned ==
    /\ up = "up"
    /\ req.stage = "called"
    /\ cpc[fcgi] = "idle"
    /\ Stage("reply")
    /\ UNCHANGED <<vars, events>>

\* FCGX_PutStr: the request is answered.
Reply ==
    /\ up = "up"
    /\ req.stage \in {"reply", "failed"}
    /\ req' = NoRequest
    /\ UNCHANGED <<vars, events>>

ServiceStep == HandleCall \/ HandleAddFile \/ HandleAddFileScan \/ HandleQuery
               \/ CallReturned \/ Reply

-----------------------------------------------------------------------------
(* The photo directory and its monitor.                                    *)

\* A file is written or deleted, and the monitor notes it.
FileEvent(n, content) ==
    /\ Len(events) < MaxEvents
    /\ DiskChange(n, content)
    /\ events' = Append(events, Event(IF content = NoFile THEN "del_file" ELSE "add_file", n, n))
    /\ UNCHANGED req

\* The process dies and lighttpd starts it again; the request is lost.
Restart ==
    \/ Crash /\ req' = NoRequest /\ UNCHANGED events
    \/ ccai_sp_init /\ UNCHANGED <<req, events>>

LibraryStep ==
    /\ ClientStep(fcgi) \/ \E t \in Thread : ThreadStep(t)
    /\ UNCHANGED <<req, events>>

ServiceNext ==
    \/ AcceptUser
    \/ AcceptEvent
    \/ ServiceStep
    \/ LibraryStep
    \/ \E n \in Name, content \in Content : FileEvent(n, content)
    \/ Restart

ServiceSpec == ServiceInit /\ [][ServiceNext]_svcVars

\* The loop and the threads of a running process are scheduled.
ServiceFairness ==
    /\ WF_svcVars(ServiceStep)
    /\ WF_svcVars(ClientStep(fcgi) /\ UNCHANGED <<req, events>>)
    /\ \A t \in Thread : WF_svcVars(ThreadStep(t) /\ UNCHANGED <<req, events>>)

ServiceFairSpec == ServiceSpec /\ ServiceFairness

-----------------------------------------------------------------------------
(* Properties.                                                             *)

\* When scan_stop is answered, whatever the answer, no scan thread is left.
StopAnswerTrue ==
    req.stage = "reply" /\ req.method = "scan_stop" => \A t \in Thread : ~Active(t)

\* When add_file is answered with 0, the file has been dealt with or a scan thread is at
\* work that cannot end without having seen it: no add is lost between the scan thread
\* finding nothing to do and its saying so.  (Unless the last pthread_create failed: the
\* flag is then set without a thread, and no call starts a scan until somebody stops the
\* one that never ran.)
NoLostAdd ==
    req.stage = "reply" /\ req.method = "add_file" /\ realpath[req.name] \in work.changed
    => \/ scan_runing /\ \E t \in Thread : Active(t)
       \/ failed

\* Every request is answered, scan_stop during a long inference included.
RequestAnswered == req.stage # "none" ~> req.stage = "none"
=============================================================================
