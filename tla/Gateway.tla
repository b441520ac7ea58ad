------------------------------- MODULE Gateway -------------------------------
(***************************************************************************)
(* One process of the API gateway with the inference library in it: a       *)
(* FastCGI service in C++ (one request at a time), a FastCGI service in      *)
(* Python (flup, a thread per request; the library is called with the lock   *)
(* of the interpreter held), or the gRPC server (a thread per request, one   *)
(* mutex around the inferences of a request). Which process it is, is         *)
(* chosen at the start. "library" is an application that calls the library.   *)
(***************************************************************************)
EXTENDS InferenceRuntime, Services

CONSTANTS
    Process,      \* the processes that are looked at
    Thread,       \* threads that serve requests
    AppModel,     \* the models of an application that calls the library itself
    MaxMethods,   \* methods of one server used at a time
    MaxRegions    \* regions found in an image, calls for the tokens of its texts

ASSUME GatewayAssumption ==
    /\ {MaxRegions, MaxMethods} \subseteq Nat \ {0} /\ IsFiniteSet(Thread) /\ Thread # {}
    /\ AppModel \subseteq Model /\ {"nobody", "thrown"} \cap Thread = {}

VARIABLES
    proc,         \* the process
    ready,        \* what main() does before its loop is done
    req,          \* what each thread works on
    holder,       \* who holds infer_mutex: a thread, nobody, or a method that has thrown
    jobs,         \* the methods that its clients use
    answer        \* the answer that a thread gives in this step

vars == <<runtimeVars, proc, jobs, ready, req, holder, answer>>

libraryVars == <<policy, temp, file, net, eng, said, mixed, buffered>>
fixedVars == <<proc, jobs>>

NoCall == [model |-> "none", remote |-> FALSE, out |-> "none", engine |-> NoEngine]
NoHandler == Handler({}, {}, <<>>)
Idle == [pc |-> "idle", job |-> NoHandler, k |-> 0, left |-> 0, n |-> 0, empty |-> FALSE,
         call |-> NoCall, made |-> {}]
Nobody == "nobody"
Thrown == "thrown"
Silence == [t \in Thread |-> "none"]
Says(t, a) == [Silence EXCEPT ![t] = a]

-----------------------------------------------------------------------------
\* The processes. setup: what main() loads before it accepts.
Fcgi(h) == [kind |-> "fcgi", jobs |-> {h}, setup |-> "none"]
Flup(h) == [kind |-> "flup", jobs |-> {h}, setup |-> "none"]

face_detection_main == Fcgi(face_detection_cpp)
classification_main == Fcgi(classification_cpp)
segmentation_main == Fcgi(segmentation_cpp)
super_resolution_main == [Fcgi(super_resolution_cpp) EXCEPT !.setup = "super"]
classification_pd_main == Fcgi(classification_pd)
classification_torch_main == Fcgi(classification_torch)
classification_tf_main == Fcgi(classification_tf)
face_detection_torch_main == Fcgi(face_detection_torch)
face_detection_onnx_main == Fcgi(face_detection_onnx)
facial_landmark_main == Fcgi(facial_landmark_cpp)
ocr_main == Fcgi(ocr_cpp)

face_detection_app == Flup(face_detection_py)
classification_app == Flup(classification_py)
segmentation_app == Flup(segmentation_py)
super_resolution_app == Flup(super_resolution_py)
facial_landmark_app == Flup(facial_landmark_py)
ocr_app == Flup(ocr_py)
handwritten_app == Flup(handwritten)
formula_app == Flup(formula)
ppocr_app == Flup(ppocr)
digitalnote_app == Flup(digitalnote)
tts_app == Flup(tts)

grpc_main ==
    [kind |-> "grpc", setup |-> "none",
     jobs |-> {FaceDetectionMethod, ClassificationMethod, FacialLandmarkMethod, OcrMethod, AsrMethod}]

Main ==
    [face_detection |-> face_detection_main, classification |-> classification_main,
     segmentation |-> segmentation_main, super_resolution |-> super_resolution_main,
     classification_pd |-> classification_pd_main,
     classification_torch |-> classification_torch_main,
     classification_tf |-> classification_tf_main,
     face_detection_torch |-> face_detection_torch_main,
     face_detection_onnx |-> face_detection_onnx_main,
     facial_landmark |-> facial_landmark_main, ocr |-> ocr_main,
     face_detection_py |-> face_detection_app, classification_py |-> classification_app,
     segmentation_py |-> segmentation_app,
     super_resolution_py |-> super_resolution_app,
     facial_landmark_py |-> facial_landmark_app, ocr_py |-> ocr_app,
     handwritten |-> handwritten_app, formula |-> formula_app, ppocr |-> ppocr_app,
     digitalnote |-> digitalnote_app, tts |-> tts_app,
     grpc |-> grpc_main,
     library |-> [kind |-> "library", jobs |-> {}, setup |-> "none"]]

ASSUME ProcessAssumption == Process \subseteq DOMAIN Main

\* The model that a process loads before it serves is one of its models.
ASSUME SetupAssumption == \A p \in Process : Main[p].setup \in Model \cup {"none"}

Kind == Main[proc].kind

\* A C++ service has one thread.
Serving(t) == Kind \in {"flup", "grpc"} \/ (Kind = "fcgi" /\ t = CHOOSE u \in Thread : TRUE)

-----------------------------------------------------------------------------
\* Mutant of Answer: an early return that leaves the mutex locked.
AnswerLocked(t, a) ==
    /\ req' = [req EXCEPT ![t] = Idle]
    /\ answer' = Says(t, a)
    /\ UNCHANGED <<up, holder, ready>>

\* The handler returns, and unlocks the mutex where it holds it.
Answer(t, a) ==
    /\ req' = [req EXCEPT ![t] = Idle]
    /\ answer' = Says(t, a)
    /\ holder' = IF holder = t THEN Nobody ELSE holder
    /\ UNCHANGED <<up, ready>>

\* The handler is left by an exception, which gRPC turns into a status; nobody unlocks the
\* mutex, which is not a guard object.
Throws(t) ==
    /\ req' = [req EXCEPT ![t] = Idle]
    /\ answer' = Says(t, "raise")
    /\ holder' = Thrown
    /\ UNCHANGED <<up, ready>>

\* The process ends, and every request it works on is lost.
Die ==
    /\ up' = FALSE /\ ready' = FALSE
    /\ req' = [t \in Thread |-> Idle]
    /\ answer' = [t \in Thread |-> IF req[t].pc = "idle" THEN "none" ELSE "lost"]
    /\ holder' = Nobody

\* main() of super_resolution: load_model. An exception ends the process.
Setup ==
    /\ up /\ ~ready
    /\ IF Main[proc].setup = "none"
       THEN UNCHANGED <<up, temp, file, net, eng, said, mixed, buffered>> /\ ready' = TRUE
       ELSE /\ LibInitFromBuffer(Main[proc].setup, 1)
            /\ said'[1] = "buffer" /\ ready' = TRUE
    /\ UNCHANGED <<policy, fixedVars, req, holder>> /\ answer' = Silence

SetupFails ==
    /\ up /\ ~ready /\ Main[proc].setup # "none"
    /\ Die
    /\ UNCHANGED <<libraryVars, fixedVars>>

\* How many calls a stage makes when n regions were found.
Calls(s, n) ==
    CASE s.work = "each" -> {n} [] s.work = "tokens" -> 1 .. MaxRegions
      [] s.work = "all" -> n .. MaxRegions [] OTHER -> {1}

\* A request is accepted. Refusals (no content type or length, no memory, a failed
\* authentication) and the health check of a FastCGI service are answered at once.
Accept(t) ==
    /\ up /\ ready /\ Serving(t) /\ req[t].pc = "idle"
    /\ \/ answer' = Says(t, "refused") /\ UNCHANGED req
       \/ \E h \in jobs, e \in BOOLEAN : \E c \in Calls(h.stages[1], 0) :
             /\ req' = [req EXCEPT ![t] = [Idle EXCEPT !.pc = IF Kind = "grpc" THEN "wait" ELSE "work",
                                                       !.job = h, !.k = 1, !.left = c, !.empty = e]]
             /\ answer' = Silence
    /\ UNCHANGED <<runtimeVars, fixedVars, ready, holder>>

\* HealthCheck of the gRPC server: try_lock_for ten seconds.
HealthCheck(t) ==
    /\ up /\ ready /\ Kind = "grpc" /\ req[t].pc = "idle"
    /\ req' = [req EXCEPT ![t] = [Idle EXCEPT !.pc = "health"]]
    /\ answer' = Silence
    /\ UNCHANGED <<runtimeVars, fixedVars, ready, holder>>

\* Mutant of HealthAnswer: the mutex is unlocked also when it was not had in time.
HealthAnswerUnlocks(t) ==
    /\ req[t].pc = "health"
    /\ req' = [req EXCEPT ![t] = Idle]
    /\ answer' = Says(t, IF holder = Nobody THEN "SUCCESS" ELSE "TIMEOUT")
    /\ holder' = Nobody
    /\ UNCHANGED <<up, ready, libraryVars, fixedVars>>

\* The answer is that of the moment at which the mutex is tried; unlock and set_status, which
\* nobody else sees, belong to it.
HealthAnswer(t) ==
    /\ req[t].pc = "health"
    /\ Answer(t, IF holder = Nobody THEN "SUCCESS" ELSE "TIMEOUT")
    /\ UNCHANGED <<libraryVars, fixedVars>>

\* infer_mutex.lock()
Lock(t) ==
    /\ req[t].pc = "wait" /\ holder = Nobody
    /\ holder' = t
    /\ req' = [req EXCEPT ![t].pc = "work"]
    /\ UNCHANGED <<runtimeVars, fixedVars, ready>> /\ answer' = Silence

-----------------------------------------------------------------------------
StageOf(r) == r.job.stages[r.k]

\* The rest of the stages, of which one for each region makes no call without regions.
Following(r, n) ==
    LET ks == {k \in DOMAIN r.job.stages : k > r.k /\ ~(r.job.stages[k].work \in {"each", "all"} /\ n = 0)}
    IN  {k \in ks : \A l \in ks : k <= l}

\* The request goes on after a call with result res, with the n regions known by now.
Advance(t, n, res) ==
    LET r == [req[t] EXCEPT !.pc = "work", !.call = NoCall, !.made = @ \cup {res}]
        next == Following(r, n)
        vain == n = 0 /\ r.k = 1 /\ r.job.none = {"error"}
    IN  \/ /\ r.left > 1
           /\ req' = [req EXCEPT ![t] = [r EXCEPT !.left = @ - 1]]
           /\ UNCHANGED <<up, ready, holder>> /\ answer' = Silence
        \/ r.left = 1 /\ vain /\ Answer(t, "error")
        \/ r.left = 1 /\ ~vain /\ next = {} /\ Answer(t, "ok")
        \/ /\ r.left = 1 /\ ~vain
           /\ \E k \in next : \E c \in Calls(r.job.stages[k], n) :
                 req' = [req EXCEPT ![t] = [r EXCEPT !.k = k, !.left = c, !.n = n, !.empty = FALSE]]
           /\ UNCHANGED <<up, ready, holder>> /\ answer' = Silence

\* The regions known after a call with result res: the first stage finds them.
Regions(r, res) ==
    IF r.k # 1 THEN {r.n} ELSE IF res = "ok" /\ Len(r.job.stages) > 1 THEN 0 .. MaxRegions ELSE {0}

\* Mutant of Reactions: the remote answer is taken for the local one's error.
ReactionsSwapped(s, res) ==
    CASE res = "ok" -> s.good [] res = "fail" -> s.remote [] res = "remote" -> s.error

Reactions(s, res) ==
    CASE res = "ok" -> s.good [] res = "fail" -> s.error [] res = "remote" -> s.remote

\* The handler takes the result of a call.
React(t, res) ==
    \E a \in Reactions(StageOf(req[t]), res) :
        CASE a = "go" -> \E n \in Regions(req[t], res) : Advance(t, n, res)
          [] a = "die" -> Die
          [] a = "throw" -> Throws(t)
          [] OTHER -> Answer(t, a)

\* An image that cannot be decoded, before the first inference.
BadFrame(t) ==
    /\ req[t].pc = "work" /\ req[t].k = 1 /\ req[t].empty
    /\ \E a \in req[t].job.frame \ {"go"} :
          CASE a = "die" -> Die
            [] a = "fail" -> React(t, "fail")
            [] OTHER -> Answer(t, a)
    /\ UNCHANGED <<libraryVars, fixedVars>>

\* Mutant of MayInfer: the interpreter's lock is released around the inference.
MayInferFreely(t) == TRUE

\* The Python binding keeps the lock of the interpreter while it infers, also remotely.
MayInfer(t) == Kind = "flup" => \A u \in Thread : req[u].pc # "infer"

\* An inference begins: the policy is read, and the engine is made ready; or the process ends.
InferBegin(t) ==
    LET r == req[t]
        s == StageOf(r)
        images == IF s.work = "batch" THEN r.n ELSE 1
    IN  /\ r.pc = "work" /\ (r.empty => "go" \in r.job.frame) /\ MayInfer(t)
        /\ \/ /\ toServer
              /\ req' = [req EXCEPT ![t].pc = "infer",
                                    ![t].call = [NoCall EXCEPT !.model = s.model, !.remote = TRUE]]
              /\ UNCHANGED <<up, ready, net, eng, holder>> /\ answer' = Silence
           \/ /\ ~toServer
              /\ \E out \in {"ok", "fail"} :
                    /\ Backend(s.backend, s.model, images, r.empty, out)
                    /\ req' = [req EXCEPT ![t].pc = "infer",
                                          ![t].call = [model |-> s.model, remote |-> FALSE, out |-> out,
                                                       engine |-> IF s.backend = "OPENVINO" THEN eng'[s.model]
                                                                  ELSE NoEngine]]
              /\ UNCHANGED <<up, ready, holder>> /\ answer' = Silence
           \/ /\ ~toServer
              /\ Backend(s.backend, s.model, images, r.empty, "die")
              /\ Die
        /\ UNCHANGED <<policy, temp, file, said, mixed, buffered, fixedVars>>

\* The request to the remote server is answered, or fails, at the latest after a hundred
\* seconds; without a handle of curl nothing is sent and it counts as answered.
HttpPost == {"remote", "fail"}

\* It ends.
InferEnd(t) ==
    /\ req[t].pc = "infer"
    /\ \E res \in IF req[t].call.remote THEN HttpPost ELSE {req[t].call.out} : React(t, res)
    /\ UNCHANGED <<libraryVars, fixedVars>>

-----------------------------------------------------------------------------
\* The process is killed, by the agent that had no answer in time or by anyone else.
Kill ==
    /\ up /\ Kind # "library" /\ Die
    /\ UNCHANGED <<libraryVars, fixedVars>>

\* It is started again by its supervisor, with nothing of its predecessor.
Restart ==
    /\ ~up /\ up' = TRUE
    /\ temp' = [m \in Model |-> "none"] /\ net' = [m \in Model |-> "none"]
    /\ eng' = [m \in Model |-> NoEngine]
    /\ said' = NothingSaid /\ mixed' = {} /\ buffered' = {}
    /\ UNCHANGED <<policy, file, fixedVars, ready, req, holder>> /\ answer' = Silence

PolicyChange ==
    /\ \E p \in [server : BOOLEAN, dev : Device] : p # policy /\ SetPolicy(p)
    /\ UNCHANGED <<fixedVars, ready, req, holder>> /\ answer' = Silence

Library ==
    /\ Kind = "library" /\ ready
    /\ \E m \in AppModel : LibraryCall(m) \/ \E v \in Version \cup {"none"} : ReplaceFile(m, v)
    /\ UNCHANGED <<fixedVars, ready, req, holder>> /\ answer' = Silence

Init ==
    /\ RuntimeInit
    /\ proc \in Process /\ ready = FALSE
    /\ jobs \in {j \in SUBSET Main[proc].jobs : Cardinality(j) <= MaxMethods}
    /\ jobs = {} => Main[proc].jobs = {}
    /\ req = [t \in Thread |-> Idle]
    /\ holder = Nobody
    /\ answer = Silence

Work(t) == BadFrame(t) \/ InferBegin(t) \/ InferEnd(t) \/ HealthAnswer(t)

Next ==
    \/ Setup \/ SetupFails \/ Kill \/ Restart \/ PolicyChange \/ Library
    \/ \E t \in Thread : Accept(t) \/ HealthCheck(t) \/ Lock(t) \/ Work(t)

Spec == Init /\ [][Next]_vars

-----------------------------------------------------------------------------
\* infer_image: while an inference runs, its engine is neither replaced nor erased by
\* another thread (which changes gEngines when the policy names another device).
EngineStable ==
    \A t \in Thread : req[t].pc = "infer" /\ req[t].call.engine # NoEngine =>
        eng[req[t].call.model] = req[t].call.engine

Promise == INSTANCE InferenceService WITH
    careful <- Kind # "grpc",
    state <- [t \in Thread |-> IF req[t].pc \in {"wait", "work"} THEN "open" ELSE req[t].pc],
    made <- [t \in Thread |-> req[t].made]

\* Every process of the gateway, with threads, failed and remote inferences, a policy that
\* changes between the calls of a request, and kills, keeps the promise of InferenceService.
KeepsPromise == Promise!Spec

\* The methods of the gRPC server: only a thread that works on a request has the mutex
\* locked, whatever way its method returns; a method that throws is the one exception.
MutexReleased == \A t \in Thread : holder = t => req[t].pc \in {"work", "infer"}

\* A method that has thrown between lock and unlock leaves the mutex locked for good: from
\* then on the server says nothing but refusals and failed health checks, which have it
\* restarted, whatever requests come or were waiting.
StrandedSeen ==
    [][holder = Thrown /\ up' =>
          holder' = Thrown /\ \A t \in Thread : answer'[t] \in {"none", "refused", "TIMEOUT"}]_vars
=============================================================================
