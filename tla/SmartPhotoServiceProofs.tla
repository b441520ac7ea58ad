----------------------- MODULE SmartPhotoServiceProofs -----------------------
(***************************************************************************)
(* Proofs about the smart-photo service: it uses the library as a single   *)
(* client does, so what is proved of the library holds in it, and its      *)
(* answers to scan_stop and add_file are true.                             *)
(***************************************************************************)
EXTENDS SmartPhotoService, SmartPhotoProofs

LEMMA ServiceClient == OnlyClient /\ fcgi \in Client /\ \A c \in Client : c = fcgi
  BY ServiceAssumption DEF OnlyClient

-----------------------------------------------------------------------------
(* Types of requests and notifications.                                    *)

Notification == [method : Method, name : Name, to : Name]

RequestType ==
    /\ req \in Request
    /\ events \in Seq(Notification)

LEMMA SomeNameType == SomeName \in Name
  BY ServiceAssumption DEF SomeName

LEMMA NoRequestType == NoRequest \in Request
  BY SomeNameType DEF NoRequest, Request, Method

LEMMA ParamsType ==
  ASSUME NEW method, NEW p \in Params(method)
  PROVE  p[1] \in Name /\ p[2] \in Name
  <1>1. CASE method \in {"add_file", "del_file"}
    BY <1>1 DEF Params
  <1>2. CASE method = "mv_file"
    BY <1>2 DEF Params
  <1>3. CASE method \notin {"add_file", "del_file", "mv_file"}
    <2>1. Params(method) = {<<SomeName, SomeName>>}
      BY <1>3 DEF Params
    <2> QED
      BY <2>1, SomeNameType
  <1> QED
    BY <1>1, <1>2, <1>3

LEMMA EventsType ==
  ASSUME NEW ev \in Seq(Notification)
  PROVE  /\ ev # <<>> => Head(ev) \in Notification /\ Tail(ev) \in Seq(Notification)
         /\ \A e \in Notification : Append(ev, e) \in Seq(Notification)
  <1>1. ev # <<>> => Head(ev) \in Notification /\ Tail(ev) \in Seq(Notification)
    BY HeadTailProperties, EmptySeq
  <1>2. \A e \in Notification : Append(ev, e) \in Seq(Notification)
    BY AppendProperties
  <1> QED
    BY <1>1, <1>2

\* A change of stage keeps the type, the method and the name.
LEMMA StageType ==
  ASSUME req \in Request, NEW s \in {"none", "parsed", "called", "added", "reply", "failed"},
         Stage(s)
  PROVE  /\ req' \in Request /\ req'.stage = s
         /\ req'.method = req.method /\ req'.name = req.name
  BY DEF Request, Stage

LEMMA NextRequestType == RequestType /\ [ServiceNext]_svcVars => RequestType'
  <1> SUFFICES ASSUME RequestType, [ServiceNext]_svcVars PROVE RequestType'
    OBVIOUS
  <1>0. req \in Request /\ events \in Seq(Notification)
    BY DEF RequestType
  <1>1. CASE AcceptUser
    <2>1. PICK method \in UserMethods : \E p \in Params(method) : AcceptRequest(method, p[1], p[2])
      BY <1>1 DEF AcceptUser
    <2>2. PICK p \in Params(method) : AcceptRequest(method, p[1], p[2])
      BY <2>1
    <2>3. method \in Method /\ p[1] \in Name /\ p[2] \in Name
      BY ParamsType, MethodAssumption
    <2>4. req' \in Request
      BY <2>2, <2>3 DEF AcceptRequest, Request
    <2> QED
      BY <1>0, <1>1, <2>4 DEF AcceptUser, RequestType
  <1>2. CASE AcceptEvent
    <2>1. Head(events) \in Notification /\ events' \in Seq(Notification)
      BY <1>0, <1>2, EventsType DEF AcceptEvent
    <2>2. AcceptRequest(Head(events).method, Head(events).name, Head(events).to)
      BY <1>2 DEF AcceptEvent
    <2>3. req' \in Request
      BY <2>1, <2>2 DEF AcceptRequest, Request, Notification
    <2> QED
      BY <2>1, <2>3 DEF RequestType
  <1>3. CASE ServiceStep
    <2>1. UNCHANGED events
      BY <1>3 DEF ServiceStep, HandleCall, HandleAddFile, HandleAddFileScan, HandleQuery,
                  CallReturned, Reply
    <2>2. \/ req' = NoRequest
          \/ Stage("called") \/ Stage("added") \/ Stage("failed") \/ Stage("reply")
      BY <1>3 DEF ServiceStep, HandleCall, HandleAddFile, HandleAddFileScan, HandleQuery,
                  CallReturned, Reply
    <2> QED
      BY <1>0, <2>1, <2>2, StageType, NoRequestType DEF RequestType
  <1>4. CASE LibraryStep
    BY <1>0, <1>4 DEF LibraryStep, RequestType
  <1>5. ASSUME NEW n \in Name, NEW content \in Content, FileEvent(n, content)
        PROVE  RequestType'
    <2>1. Event(IF content = NoFile THEN "del_file" ELSE "add_file", n, n) \in Notification
      BY DEF Event, Notification, Method
    <2> QED
      BY <1>0, <1>5, <2>1, EventsType DEF FileEvent, RequestType
  <1>6. CASE Restart
    BY <1>0, <1>6, NoRequestType DEF Restart, RequestType
  <1>7. CASE UNCHANGED svcVars
    BY <1>0, <1>7 DEF svcVars, RequestType
  <1> QED
    BY <1>1, <1>2, <1>3, <1>4, <1>5, <1>6, <1>7 DEF ServiceNext

-----------------------------------------------------------------------------
(* The service and the library.                                            *)

\* Every step of the service is a step of the library, or leaves it alone.
LEMMA ServiceStepIsStep ==
  ASSUME RequestType, [ServiceNext]_svcVars
  PROVE  [Next]_vars
  <1>0. req.name \in Name /\ req.to \in Name
    BY DEF RequestType, Request
  <1>1. CASE AcceptUser \/ AcceptEvent
    BY <1>1 DEF AcceptUser, AcceptEvent, AcceptRequest
  <1>2. CASE HandleCall
    <2>1. ClientCall(fcgi)
      BY <1>0, <1>2 DEF HandleCall, LibraryCall, ClientCall
    <2> QED
      BY <2>1, ServiceClient DEF Next
  <1>3. CASE HandleAddFile
    <2>1. ClientCall(fcgi) \/ UNCHANGED vars
      BY <1>0, <1>3 DEF HandleAddFile, ClientCall
    <2> QED
      BY <2>1, ServiceClient DEF Next
  <1>4. CASE HandleAddFileScan
    BY <1>4, ServiceClient DEF HandleAddFileScan, ClientCall, Next
  <1>5. CASE HandleQuery \/ CallReturned \/ Reply
    BY <1>5 DEF HandleQuery, CallReturned, Reply
  <1>6. CASE LibraryStep
    BY <1>6, ServiceClient DEF LibraryStep, Next
  <1>7. ASSUME NEW n \in Name, NEW content \in Content, FileEvent(n, content)
        PROVE  [Next]_vars
    BY <1>7 DEF FileEvent, Next, Environment
  <1>8. CASE Restart
    BY <1>8 DEF Restart, Next, Environment
  <1>9. CASE UNCHANGED svcVars
    BY <1>9 DEF svcVars
  <1> QED
    BY <1>1, <1>2, <1>3, <1>4, <1>5, <1>6, <1>7, <1>8, <1>9 DEF ServiceNext, ServiceStep

LEMMA InitRequestType == ServiceInit => RequestType
  BY NoRequestType, EmptySeq DEF ServiceInit, RequestType

\* The FastCGI service, with its request loop and the notifications of the photo monitor,
\* implements the specification of the library with one client: it makes no call that the
\* library's clients may not make, and changes nothing behind the library's back.
THEOREM ServiceImplementsLibrary == ServiceSpec => Spec
  <1>1. ServiceInit => Init /\ RequestType
    BY InitRequestType DEF ServiceInit
  <1>2. RequestType /\ [ServiceNext]_svcVars => RequestType' /\ [Next]_vars
    BY NextRequestType, ServiceStepIsStep
  <1> QED
    BY <1>1, <1>2, PTL DEF ServiceSpec, Spec

-----------------------------------------------------------------------------
(* The answers.                                                            *)

NoScan == \A t \in Thread : ~Active(t)

\* Where the library call is at each stage of a request.
StageInv ==
    /\ req.stage \in {"none", "parsed", "reply", "failed"} => cpc[fcgi] = "idle"
    /\ req.stage = "added" => cpc[fcgi] \in {"idle", "exec"} /\ req.method = "add_file"
    /\ req.stage = "called" => /\ cpc[fcgi] \in {"idle", "exec", "stopped", "stopJoin"}
                               /\ req.method # "add_file"

\* The call of ccai_sp_stop_scan has yet to join the thread, or there is none.
StopInv ==
    req.stage \in {"called", "reply"} /\ req.method = "scan_stop"
    => cpc[fcgi] \in {"stopped", "stopJoin"} \/ NoScan

\* The flag is set while a thread scans, or because pthread_create failed.
FlagInv == scan_runing => ~NoScan \/ failed

\* A scan thread puts nothing on the waiting list.
ProgramInv ==
    \A t \in Thread : tpc[t] = "exec" => \A i \in 1..Len(stmts) : stmts[i].op # "changed_add"

ServiceInv == RequestType /\ StageInv /\ StopInv /\ FlagInv /\ ProgramInv /\ NoLostAdd

LEMMA InitService == ServiceInit => ServiceInv
  <1> SUFFICES ASSUME ServiceInit PROVE ServiceInv
    OBVIOUS
  <1>1. req.stage = "none" /\ cpc[fcgi] = "idle" /\ ~scan_runing /\ tpc = [t \in Thread |-> "none"]
    BY ServiceClient DEF ServiceInit, NoRequest, Init
  <1>2. StageInv /\ StopInv /\ FlagInv /\ ProgramInv /\ NoLostAdd
    BY <1>1 DEF StageInv, StopInv, FlagInv, ProgramInv, NoLostAdd
  <1> QED
    BY <1>2, InitRequestType DEF ServiceInv

\* A step that leaves the library alone keeps the invariant if the request's new stage
\* promises no more than what holds.
LEMMA LibraryIdle ==
  ASSUME ServiceInv, RequestType', UNCHANGED vars,
         \/ req'.stage \in {"none", "parsed", "failed"} /\ cpc[fcgi] = "idle"
         \/ /\ req.stage = "called" /\ req'.stage = "reply" /\ cpc[fcgi] = "idle"
            /\ req'.method = req.method
         \/ req'.stage = "reply" /\ cpc[fcgi] = "idle" /\ req'.method = "query"
         \/ UNCHANGED req
  PROVE  ServiceInv'
  <1>1. UNCHANGED <<cpc, tpc, scan_runing, failed, stmts, work>>
    BY DEF vars, cliVars, thrVars, libVars, dbVars
  <1>2. StageInv'
    BY <1>1 DEF ServiceInv, StageInv
  <1>3. StopInv'
    BY <1>1 DEF ServiceInv, StopInv, NoScan, Active
  <1>4. FlagInv' /\ ProgramInv'
    BY <1>1 DEF ServiceInv, FlagInv, ProgramInv, NoScan, Active
  <1>5. NoLostAdd'
    BY <1>1 DEF ServiceInv, StageInv, NoLostAdd, Active
  <1> QED
    BY <1>2, <1>3, <1>4, <1>5 DEF ServiceInv

\* With the service between two calls, a scan that is not told to stop has its flag.
LEMMA IdleFlag ==
  ASSUME ScanInv, cpc[fcgi] = "idle", ~scan_runing
  PROVE  NoScan
  BY ServiceClient DEF ScanInv, Stopping, NoScan

\* A call that runs statements, from "parsed".
LEMMA StatementCall ==
  ASSUME TypeInv, ServiceInv, RequestType', NEW prog, RunLocked(fcgi, prog),
         \/ req'.stage = "called" /\ req.method \notin {"scan_stop", "add_file"}
         \/ req'.stage = "added" /\ req.method = "add_file",
         req'.method = req.method
  PROVE  ServiceInv'
  <1>1. /\ UNCHANGED <<tpc, scan_runing, failed>> /\ cpc'[fcgi] = "exec"
        /\ mutex = Nobody
    BY ServiceClient DEF RunLocked, Lock, thrVars, libVars, TypeInv, TypeOK
  <1>2. \A t \in Thread : tpc[t] # "exec"
    BY <1>1, SmartPhotoAssumption DEF TypeInv, MutexInv
  <1> QED
    BY <1>1, <1>2 DEF ServiceInv, StageInv, StopInv, FlagInv, NoScan, Active, ProgramInv, NoLostAdd

\* ccai_sp_scan, for scan_start and at the end of add_file.
LEMMA ScanCall ==
  ASSUME TypeInv, ScanInv, ServiceInv, RequestType', ccai_sp_scan(fcgi), req'.stage \in {"called", "reply"},
         req'.stage = "called" => req'.method # "add_file", req'.method # "scan_stop"
  PROVE  ServiceInv'
  <1>0. /\ cpc[fcgi] = "idle" /\ UNCHANGED <<cpc, stmts, work>> /\ scan_runing'
        /\ tpc \in [Thread -> TPc]
    BY DEF ccai_sp_scan, Calling, cliVars, dbVars, TypeInv, TypeOK
  <1>1. (\E t \in Thread : Active(t)') \/ failed'
    <2>1. CASE scan_runing
      <3>1. UNCHANGED <<tpc, failed>>
        BY <2>1 DEF ccai_sp_scan
      <3> QED
        BY <2>1, <3>1 DEF ServiceInv, FlagInv, NoScan, Active
    <2>2. CASE CreateThread
      BY <1>0, <2>2 DEF CreateThread, Active
    <2>3. CASE CreateFails
      BY <2>3 DEF CreateFails
    <2> QED
      BY <2>1, <2>2, <2>3 DEF ccai_sp_scan
  <1>2. \A t \in Thread : tpc'[t] = "exec" => tpc[t] = "exec"
    BY <1>0 DEF ccai_sp_scan, CreateThread, CreateFails
  <1>3. ProgramInv'
    BY <1>0, <1>2 DEF ServiceInv, ProgramInv
  <1>4. StageInv' /\ StopInv'
    BY <1>0 DEF StageInv, StopInv
  <1>5. FlagInv' /\ NoLostAdd'
    BY <1>0, <1>1 DEF FlagInv, NoLostAdd, NoScan
  <1> QED
    BY <1>3, <1>4, <1>5 DEF ServiceInv

\* ccai_sp_stop_scan, for scan_stop.
LEMMA StopCall ==
  ASSUME TypeInv, ScanInv, ServiceInv, RequestType', ccai_sp_stop_scan(fcgi),
         req'.stage = "called", req'.method = "scan_stop"
  PROVE  ServiceInv'
  <1>1. /\ cpc[fcgi] = "idle" /\ ~scan_runing' /\ UNCHANGED <<tpc, stmts, work>>
        /\ cpc'[fcgi] = IF scan_runing THEN "stopped" ELSE "idle"
    BY ServiceClient DEF ccai_sp_stop_scan, StopRequest, Calling, thrVars, dbVars, TypeInv, TypeOK
  <1>2. ~scan_runing => NoScan
    BY <1>1, IdleFlag
  <1> QED
    BY <1>1, <1>2 DEF ServiceInv, StageInv, StopInv, FlagInv, ProgramInv, NoLostAdd, NoScan, Active

\* A step of the library call in progress.
LEMMA CallStep ==
  ASSUME TypeInv, ScanInv, ServiceInv, ClientStep(fcgi), UNCHANGED <<req, events>>
  PROVE  ServiceInv'
  <1>0. /\ fcgi \in Client /\ cpc \in [Client -> CPc] /\ tpc \in [Thread -> TPc] /\ RequestType'
        /\ req \in Request
    BY ServiceClient DEF TypeInv, TypeOK, ServiceInv, RequestType
  <1>1. cpc[fcgi] # "idle" /\ req.stage \in {"added", "called"}
    <2>1. cpc[fcgi] # "idle"
      BY <1>0 DEF ClientStep, ClientExec, JoinBegin, JoinEnd, Joining, ReleaseFinit, TypeInv, MutexInv
    <2> QED
      BY <1>0, <2>1 DEF ServiceInv, StageInv, Request
  <1>2. NoLostAdd'
    BY <1>1 DEF NoLostAdd
  <1>3. CASE ClientExec(fcgi)
    <2>1. /\ cpc[fcgi] = "exec" /\ cpc'[fcgi] \in {"exec", "idle"} /\ UNCHANGED <<tpc, scan_runing, failed>>
          /\ mutex = fcgi
      BY <1>0, <1>3 DEF ClientExec, TypeInv, MutexInv, thrVars, libVars
    <2>2. \A t \in Thread : tpc[t] # "exec"
      BY <1>0, <2>1, SmartPhotoAssumption DEF TypeInv, MutexInv
    <2> QED
      BY <1>0, <1>1, <1>2, <2>1, <2>2
      DEF ServiceInv, StageInv, StopInv, FlagInv, ProgramInv, NoScan, Active
  <1>4. CASE JoinBegin(fcgi)
    <2>1. /\ cpc[fcgi] = "stopped" /\ cpc'[fcgi] = "stopJoin"
          /\ UNCHANGED <<tpc, scan_runing, failed, stmts>>
      BY <1>0, <1>1, <1>4 DEF JoinBegin, ServiceInv, StageInv, thrVars, libVars
    <2> QED
      BY <1>0, <1>1, <1>2, <2>1
      DEF ServiceInv, StageInv, StopInv, FlagInv, ProgramInv, NoScan, Active
  <1>5. CASE JoinEnd(fcgi)
    <2>1. cpc[fcgi] = "stopJoin" /\ cpc'[fcgi] = "idle" /\ UNCHANGED <<scan_runing, stmts>>
      BY <1>0, <1>1, <1>5 DEF JoinEnd, Joining, ServiceInv, StageInv, libVars
    <2>2. ~scan_runing
      BY <1>0, <2>1 DEF ScanInv, Stopping
    <2>3. \A t \in Thread : ~Active(t)
      BY <1>0, <1>5, <2>1 DEF JoinEnd, ScanInv
    <2>4. NoScan' /\ \A t \in Thread : tpc'[t] = "exec" => tpc[t] = "exec"
      BY <1>5, <2>3 DEF JoinEnd, NoScan, Active
    <2> QED
      BY <1>0, <1>1, <1>2, <2>1, <2>2, <2>4
      DEF ServiceInv, StageInv, StopInv, FlagInv, ProgramInv
  <1>6. CASE ReleaseFinit(fcgi)
    BY <1>1, <1>6 DEF ReleaseFinit, ServiceInv, StageInv
  <1> QED
    BY <1>3, <1>4, <1>5, <1>6 DEF ClientStep

\* A statement that adds nothing to the waiting list leaves on it what was there.
LEMMA NothingAdded ==
  ASSUME NEW s \in Statement, s.op # "changed_add", NEW db \in Tables
  PROVE  Effect(s, db).changed \subseteq db.changed
  <1> USE DEF Tables
  <1>1. CASE s.op \in {"BEGIN", "END"}
    BY <1>1 DEF Effect
  <1>2. CASE s.op = "changed_remove"
    BY <1>2 DEF Effect, db_changed_table_remove
  <1>3. CASE s.op = "changed_remove_all"
    BY <1>3 DEF Effect
  <1>4. CASE s.op = "photo_delete" \/ s.op = "photo_insert" \/ s.op = "photo_tag"
    BY <1>4 DEF Effect, SetPhoto
  <1>5. CASE s.op = "photo_move"
    BY <1>5 DEF Effect, SetPhoto, db_photo_table_move
  <1>6. CASE s.op = "photo_remove_all"
    BY <1>6 DEF Effect
  <1> QED
    BY <1>1, <1>2, <1>3, <1>4, <1>5, <1>6
    DEF Statement, Begin, End, ChangedRemoveAll, PhotoRemoveAll, ChangedAdd, ChangedRemove,
        PhotoDelete, PhotoInsert, PhotoTag, PhotoMove

\* A scan thread adds nothing to the waiting list.
LEMMA ThreadAddsNothing ==
  ASSUME TypeInv, ProgramInv, NEW t \in Thread, ThreadStep(t)
  PROVE  work'.changed \subseteq work.changed
  <1>1. CASE ScanExec(t)
    <2>1. /\ stmts \in Seq(Statement) /\ stmts # <<>> /\ work \in Tables
          /\ sqlite3_exec(Head(stmts)) /\ tpc[t] = "exec"
      BY <1>1 DEF ScanExec, TypeInv, TypeOK, DbTypeOK, MutexInv
    <2>2. Head(stmts) \in Statement /\ Head(stmts).op # "changed_add"
      BY <2>1, TailProgram, TailBalanced DEF ProgramInv
    <2>3. work' = work \/ work' = Effect(Head(stmts), work)
      BY <2>1 DEF sqlite3_exec, db_transaction_begin, db_transaction_end
    <2> QED
      BY <2>1, <2>2, <2>3, NothingAdded
  <1>2. CASE ~ScanExec(t)
    BY <1>2 DEF ThreadStep, ScanLock, ScanCollect, ScanExit, ScanNext, ScanInfer, ScanRelock,
                ScanEnd, db_transaction_begin, db_transaction_end, dbVars
  <1> QED
    BY <1>1, <1>2

LEMMA ThreadProgram ==
  ASSUME TypeInv, ProgramInv, NEW t \in Thread, ThreadStep(t)
  PROVE  ProgramInv'
  <1>0. tpc \in [Thread -> TPc] /\ stmts \in Seq(Statement)
    BY DEF TypeInv, TypeOK
  <1>1. CASE ScanRelock(t)
    <2>1. CASE img[t] \in Tag
      <3>1. \A i \in 1..4 : IndexPhoto(cur[t], img[t])[i].op # "changed_add"
        BY DEF IndexPhoto, ChangedRemove, PhotoDelete, PhotoInsert, PhotoTag
      <3>2. stmts' = IndexPhoto(cur[t], img[t]) /\ Len(stmts') = 4
        BY <1>1, <2>1 DEF ScanRelock, IndexPhoto
      <3> QED
        BY <3>1, <3>2 DEF ProgramInv
    <2>2. CASE img[t] \notin Tag
      BY <1>1, <2>2 DEF ScanRelock, ChangedRemove, ProgramInv
    <2> QED
      BY <2>1, <2>2
  <1>2. CASE ScanExec(t)
    <2>1. stmts # <<>> /\ stmts' = Tail(stmts) /\ tpc[t] = "exec"
      BY <1>2 DEF ScanExec, TypeInv, MutexInv
    <2>2. \A i \in 1..Len(stmts') : stmts'[i].op # "changed_add"
      BY <1>0, <2>1, TailBalanced DEF ProgramInv
    <2> QED
      BY <2>2 DEF ProgramInv
  <1>3. CASE ~ScanRelock(t) /\ ~ScanExec(t)
    <2>1. UNCHANGED stmts /\ \A s \in Thread : tpc'[s] = "exec" => tpc[s] = "exec"
      BY <1>0, <1>3 DEF ThreadStep, ScanLock, ScanCollect, ScanExit, ScanNext, ScanInfer, ScanEnd
    <2> QED
      BY <2>1 DEF ProgramInv
  <1> QED
    BY <1>1, <1>2, <1>3

\* A step of a scan thread while a request is being handled.
LEMMA ScanStep ==
  ASSUME TypeInv, ScanInv, ServiceInv, NEW t \in Thread, ThreadStep(t), UNCHANGED <<req, events>>
  PROVE  ServiceInv'
  <1>0. /\ tpc \in [Thread -> TPc] /\ RequestType' /\ UNCHANGED cpc
        /\ Active(t) /\ t \in Thread
    BY DEF TypeInv, TypeOK, ServiceInv, RequestType, ThreadStep, ScanLock, ScanCollect, ScanExit,
           ScanNext, ScanInfer, ScanRelock, ScanExec, ScanEnd, cliVars, Active
  <1>1. work'.changed \subseteq work.changed /\ ProgramInv'
    BY ThreadAddsNothing, ThreadProgram DEF ServiceInv
  <1>2. StageInv'
    BY <1>0 DEF ServiceInv, StageInv
  <1>3. StopInv'
    BY <1>0 DEF ServiceInv, StopInv, NoScan
  <1>4. CASE ScanExit(t)
    <2>1. ~scan_runing' /\ work' = work /\ (scan_runing => work.changed = {})
      BY <1>4 DEF ScanExit, dbVars
    <2>2. UNCHANGED failed
      BY DEF ThreadStep, ScanLock, ScanCollect, ScanExit, ScanNext, ScanInfer, ScanRelock,
             ScanExec, ScanEnd, libVars
    <2>3. NoLostAdd'
      BY <2>1, <2>2 DEF ServiceInv, NoLostAdd
    <2> QED
      BY <1>0, <1>1, <1>2, <1>3, <2>1, <2>3 DEF ServiceInv, FlagInv
  <1>5. CASE ~ScanExit(t)
    <2>1. UNCHANGED scan_runing /\ Active(t)'
      BY <1>0, <1>5 DEF ThreadStep, ScanLock, ScanCollect, ScanNext, ScanInfer, ScanRelock,
                        ScanExec, ScanEnd, libVars, Active
    <2>2. UNCHANGED failed
      BY DEF ThreadStep, ScanLock, ScanCollect, ScanExit, ScanNext, ScanInfer, ScanRelock,
             ScanExec, ScanEnd, libVars
    <2>3. NoLostAdd'
      BY <1>0, <1>1, <2>1, <2>2 DEF ServiceInv, NoLostAdd
    <2> QED
      BY <1>0, <1>1, <1>2, <1>3, <2>1, <2>3 DEF ServiceInv, FlagInv, NoScan
  <1> QED
    BY <1>4, <1>5

LEMMA NextService == TypeInv /\ ScanInv /\ ServiceInv /\ [ServiceNext]_svcVars => ServiceInv'
  <1> SUFFICES ASSUME TypeInv, ScanInv, ServiceInv, [ServiceNext]_svcVars PROVE ServiceInv'
    OBVIOUS
  <1>0. RequestType' /\ req \in Request
    BY NextRequestType DEF ServiceInv, RequestType
  <1>1. CASE AcceptUser \/ AcceptEvent
    <2>1. req.stage = "none" /\ req'.stage = "parsed" /\ UNCHANGED vars
      BY <1>1 DEF AcceptUser, AcceptEvent, AcceptRequest
    <2> QED
      BY <1>0, <2>1, LibraryIdle DEF ServiceInv, StageInv
  <1>2. CASE HandleCall
    <2>0. req'.stage = "called" /\ req'.method = req.method
      BY <1>0, <1>2, StageType DEF HandleCall
    <2>1. CASE req.method = "scan_stop" /\ ccai_sp_stop_scan(fcgi)
      BY <1>0, <2>0, <2>1, StopCall
    <2>2. CASE req.method = "scan_start" /\ ccai_sp_scan(fcgi)
      BY <1>0, <2>0, <2>2, ScanCall
    <2>3. ASSUME NEW prog, RunLocked(fcgi, prog), req.method \notin {"scan_stop", "add_file"}
          PROVE  ServiceInv'
      BY <1>0, <2>0, <2>3, StatementCall
    <2> QED
      BY <1>2, <2>1, <2>2, <2>3
      DEF HandleCall, LibraryCall, ccai_sp_add_dir, ccai_sp_remove_file, ccai_sp_move_file,
          ccai_sp_remove_all_file
  <1>3. CASE HandleAddFile
    <2>1. CASE ccai_sp_add_file(fcgi, req.name) /\ Stage("added")
      <3>1. req'.stage = "added" /\ req'.method = req.method
        BY <1>0, <2>1, StageType
      <3> QED
        BY <1>0, <1>3, <2>1, <3>1, StatementCall DEF ccai_sp_add_file, HandleAddFile
    <2>2. CASE Stage("failed") /\ UNCHANGED vars
      <3>1. req'.stage = "failed" /\ cpc[fcgi] = "idle"
        BY <1>0, <1>3, <2>2, StageType DEF HandleAddFile, ServiceInv, StageInv
      <3> QED
        BY <1>0, <2>2, <3>1, LibraryIdle
    <2> QED
      BY <1>3, <2>1, <2>2 DEF HandleAddFile
  <1>4. CASE HandleAddFileScan
    <2>1. req'.stage = "reply" /\ req'.method = req.method
      BY <1>0, <1>4, StageType DEF HandleAddFileScan
    <2>2. req.method = "add_file"
      BY <1>4 DEF HandleAddFileScan, ServiceInv, StageInv
    <2> QED
      BY <1>0, <1>4, <2>1, <2>2, ScanCall DEF HandleAddFileScan
  <1>5. CASE HandleQuery
    <2>1. req'.stage = "reply" /\ req'.method = "query" /\ cpc[fcgi] = "idle"
      BY <1>0, <1>5, StageType DEF HandleQuery, ServiceInv, StageInv
    <2> QED
      BY <1>0, <1>5, <2>1, LibraryIdle DEF HandleQuery
  <1>6. CASE CallReturned
    <2>1. req'.stage = "reply" /\ req'.method = req.method
      BY <1>0, <1>6, StageType DEF CallReturned
    <2> QED
      BY <1>0, <1>6, <2>1, LibraryIdle DEF CallReturned
  <1>7. CASE Reply
    <2>1. req'.stage = "none" /\ cpc[fcgi] = "idle"
      BY <1>7 DEF Reply, NoRequest, ServiceInv, StageInv
    <2> QED
      BY <1>0, <1>7, <2>1, LibraryIdle DEF Reply
  <1>8. CASE LibraryStep
    BY <1>8, CallStep, ScanStep DEF LibraryStep
  <1>9. ASSUME NEW n \in Name, NEW content \in Content, FileEvent(n, content)
        PROVE  ServiceInv'
    <2>1. UNCHANGED <<cpc, tpc, scan_runing, failed, stmts, work, req>>
      BY <1>9 DEF FileEvent, DiskChange, cliVars, thrVars, libVars, dbVars
    <2> QED
      BY <1>0, <2>1 DEF ServiceInv, StageInv, StopInv, FlagInv, ProgramInv, NoLostAdd, NoScan, Active
  <1>10. CASE Restart
    <2>1. CASE Crash /\ req' = NoRequest
      <3>1. /\ req'.stage = "none" /\ cpc'[fcgi] = "idle" /\ ~scan_runing'
            /\ \A t \in Thread : tpc'[t] = "none"
        BY <2>1, ServiceClient DEF Crash, NoRequest
      <3> QED
        BY <1>0, <3>1 DEF ServiceInv, StageInv, StopInv, FlagInv, ProgramInv, NoLostAdd
    <2>2. CASE ccai_sp_init /\ UNCHANGED req
      <3>1. UNCHANGED <<cpc, tpc, scan_runing, failed, stmts, work, req>>
        BY <2>2 DEF ccai_sp_init, cliVars, thrVars, libVars, dbVars
      <3> QED
        BY <1>0, <3>1
        DEF ServiceInv, StageInv, StopInv, FlagInv, ProgramInv, NoLostAdd, NoScan, Active
    <2> QED
      BY <1>10, <2>1, <2>2 DEF Restart
  <1>11. CASE UNCHANGED svcVars
    BY <1>0, <1>11, LibraryIdle DEF svcVars
  <1> QED
    BY <1>1, <1>2, <1>3, <1>4, <1>5, <1>6, <1>7, <1>8, <1>9, <1>10, <1>11
    DEF ServiceNext, ServiceStep

LEMMA ServiceInvariant == ServiceSpec => [](TypeInv /\ ScanInv /\ ServiceInv)
  <1> DEFINE IInv == TypeInv /\ ScanInv /\ ServiceInv
  <1>1. ServiceInit => IInv
    BY InitType, InitScan, InitService DEF ServiceInit
  <1>2. IInv /\ [ServiceNext]_svcVars => IInv'
    <2>1. ServiceInv => RequestType
      BY DEF ServiceInv
    <2> QED
      BY <2>1, ServiceStepIsStep, ServiceClient, NextType, NextScan, NextService
  <1> QED
    BY <1>1, <1>2, PTL DEF ServiceSpec

\* For any photos, threads and requests, and with notifications of the monitor and deaths
\* of the process at any time: when scan_stop is answered, with 0 or -1, no scan thread is
\* at work any more.
THEOREM StopAnswered == ServiceSpec => []StopAnswerTrue
  <1>1. ServiceInv => StopAnswerTrue
    BY DEF ServiceInv, StageInv, StopInv, NoScan, StopAnswerTrue
  <1> QED
    BY <1>1, ServiceInvariant, PTL

\* When add_file is answered with 0 and the file still waits, a scan thread is at work that
\* will look at the waiting list again before it ends: the service never misses an add in
\* the moment between the thread finding the list empty and its clearing the flag.
THEOREM AddsKept == ServiceSpec => []NoLostAdd
  <1>1. ServiceInv => NoLostAdd
    BY DEF ServiceInv
  <1> QED
    BY <1>1, ServiceInvariant, PTL
=============================================================================
