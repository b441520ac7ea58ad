---------------------------- MODULE GatewayProofs ----------------------------
(***************************************************************************)
(* Proofs about Gateway, for every number of threads, models, devices and   *)
(* regions: no engine changes under an inference that uses it, every process *)
(* implements InferenceService, and the caches follow what they hold.        *)
(***************************************************************************)
EXTENDS Gateway, TLAPS

-----------------------------------------------------------------------------
(* What the handlers have in common.                                       *)

Harm == {"go", "die", "error", "raise"}

\* A service other than the gRPC server looks at the result of its first inference, and what
\* answers with a remote result has had one.
HandlerOK(h, kind) ==
    /\ 1 \in DOMAIN h.stages /\ DOMAIN h.stages \subseteq Nat \ {0}
    /\ h.frame \in {{"go"}, {"error"}, {"raise"}, {"die"}, {"fail"}}
    /\ h.frame = {"fail"} => kind = "grpc" /\ h.stages[1].work = "one"
    /\ \A k \in DOMAIN h.stages :
          /\ h.stages[k].error \subseteq Harm /\ h.stages[k].remote \subseteq Harm \cup {"relay", "unsupported"}
          /\ h.stages[k].good \subseteq {"go", "die", "throw"}
          /\ "throw" \in h.stages[k].good => kind = "grpc"
    /\ kind # "grpc" => "go" \notin h.stages[1].error \cup h.stages[1].remote

LEMMA CppOK ==
  ASSUME NEW h \in {face_detection_cpp, classification_cpp, segmentation_cpp, super_resolution_cpp,
                    classification_pd, classification_torch, classification_tf, face_detection_torch,
                    face_detection_onnx, facial_landmark_cpp, ocr_cpp}
  PROVE  HandlerOK(h, "fcgi")
  <1>1. HandlerOK(face_detection_cpp, "fcgi") /\ HandlerOK(classification_cpp, "fcgi")
    BY DEF HandlerOK, Single, Handler, Stage, face_detection_cpp, classification_cpp, RelayCpp, Harm
  <1>2. HandlerOK(segmentation_cpp, "fcgi") /\ HandlerOK(super_resolution_cpp, "fcgi")
    BY DEF HandlerOK, Single, Handler, Stage, segmentation_cpp, super_resolution_cpp, Harm
  <1>3. HandlerOK(classification_pd, "fcgi") /\ HandlerOK(classification_torch, "fcgi")
    BY DEF HandlerOK, Single, Handler, Stage, classification_pd, classification_torch, Harm
  <1>4. HandlerOK(classification_tf, "fcgi") /\ HandlerOK(face_detection_torch, "fcgi")
    BY DEF HandlerOK, Single, Handler, Stage, classification_tf, face_detection_torch, Harm
  <1>5. HandlerOK(face_detection_onnx, "fcgi")
    BY DEF HandlerOK, Single, Handler, Stage, face_detection_onnx, RelayCpp, Harm
  <1>6. HandlerOK(facial_landmark_cpp, "fcgi")
    BY DEF HandlerOK, facial_landmark_cpp, Handler, Stage, RelayCpp, UnreadCpp, Harm
  <1>7. HandlerOK(ocr_cpp, "fcgi")
    BY DEF HandlerOK, ocr_cpp, Handler, Stage, RelayCpp, Harm
  <1> QED
    BY <1>1, <1>2, <1>3, <1>4, <1>5, <1>6, <1>7

LEMMA PyOK ==
  ASSUME NEW h \in {face_detection_py, classification_py, segmentation_py, super_resolution_py,
                    facial_landmark_py, ocr_py, handwritten, formula, ppocr, digitalnote, tts}
  PROVE  HandlerOK(h, "flup")
  <1>1. HandlerOK(face_detection_py, "flup") /\ HandlerOK(classification_py, "flup")
    BY DEF HandlerOK, Single, Handler, Stage, face_detection_py, classification_py, RelayPy, Harm
  <1>2. HandlerOK(segmentation_py, "flup") /\ HandlerOK(super_resolution_py, "flup")
    BY DEF HandlerOK, Single, Handler, Stage, segmentation_py, super_resolution_py, Harm
  <1>3. HandlerOK(handwritten, "flup")
    BY DEF HandlerOK, Single, Handler, Stage, handwritten, Harm
  <1>4. HandlerOK(facial_landmark_py, "flup")
    BY DEF HandlerOK, facial_landmark_py, Handler, Stage, RelayPy, Harm
  <1>5. HandlerOK(ocr_py, "flup")
    BY DEF HandlerOK, ocr_py, Handler, Stage, RelayPy, Harm
  <1>6. HandlerOK(formula, "flup")
    BY DEF HandlerOK, formula, Handler, Stage, Harm
  <1>7. HandlerOK(ppocr, "flup")
    BY DEF HandlerOK, ppocr, TextDetection, TextRecognizer, Handler, Stage, Harm
  <1>8. HandlerOK(digitalnote, "flup")
    BY DEF HandlerOK, digitalnote, TextDetection, ChooseCrop, LatexEncoder, LatexDecoder, TextRecognizer,
       Handler, Stage, Harm
  <1>9. HandlerOK(tts, "flup")
    BY DEF HandlerOK, tts, Handler, Stage, RelayPy, Harm
  <1> QED
    BY <1>1, <1>2, <1>3, <1>4, <1>5, <1>6, <1>7, <1>8, <1>9

LEMMA GrpcOK ==
  ASSUME NEW h \in grpc_main.jobs
  PROVE  HandlerOK(h, "grpc")
  <1>1. HandlerOK(FaceDetectionMethod, "grpc") /\ HandlerOK(ClassificationMethod, "grpc")
    BY DEF HandlerOK, Single, Handler, Stage, FaceDetectionMethod, ClassificationMethod, Harm
  <1>2. HandlerOK(FacialLandmarkMethod, "grpc")
    BY DEF HandlerOK, FacialLandmarkMethod, Handler, Stage, Harm
  <1>3. HandlerOK(OcrMethod, "grpc")
    BY DEF HandlerOK, OcrMethod, Handler, Stage, Harm
  <1>4. HandlerOK(AsrMethod, "grpc")
    BY DEF HandlerOK, AsrMethod, Handler, Stage, Harm
  <1> QED
    BY <1>1, <1>2, <1>3, <1>4 DEF grpc_main

\* The three kinds of processes that serve, and the application, which does not.
LEMMA MainOK ==
  ASSUME NEW p \in DOMAIN Main
  PROVE  \A h \in Main[p].jobs : HandlerOK(h, Main[p].kind)
  <1>1. \/ Main[p] \in {face_detection_main, classification_main, segmentation_main, super_resolution_main,
                        classification_pd_main, classification_torch_main, classification_tf_main,
                        face_detection_torch_main, face_detection_onnx_main, facial_landmark_main, ocr_main}
        \/ Main[p] \in {face_detection_app, classification_app, segmentation_app, super_resolution_app,
                        facial_landmark_app, ocr_app, handwritten_app, formula_app, ppocr_app,
                        digitalnote_app, tts_app}
        \/ Main[p] = grpc_main
        \/ Main[p] = [kind |-> "library", jobs |-> {}, setup |-> "none"]
    BY DEF Main
  <1>2. CASE Main[p] \in {face_detection_main, classification_main, segmentation_main, super_resolution_main,
                          classification_pd_main, classification_torch_main, classification_tf_main,
                          face_detection_torch_main, face_detection_onnx_main, facial_landmark_main, ocr_main}
    BY <1>2, CppOK DEF face_detection_main, classification_main, segmentation_main, super_resolution_main,
        classification_pd_main, classification_torch_main, classification_tf_main,
        face_detection_torch_main, face_detection_onnx_main, facial_landmark_main, ocr_main, Fcgi
  <1>3. CASE Main[p] \in {face_detection_app, classification_app, segmentation_app, super_resolution_app,
                          facial_landmark_app, ocr_app, handwritten_app, formula_app, ppocr_app,
                          digitalnote_app, tts_app}
    BY <1>3, PyOK DEF face_detection_app, classification_app, segmentation_app, super_resolution_app,
        facial_landmark_app, ocr_app, handwritten_app, formula_app, ppocr_app, digitalnote_app, tts_app, Flup
  <1>4. CASE Main[p] = grpc_main
    BY <1>4, GrpcOK DEF grpc_main
  <1>5. CASE Main[p] = [kind |-> "library", jobs |-> {}, setup |-> "none"]
    BY <1>5
  <1> QED
    BY <1>1, <1>2, <1>3, <1>4, <1>5

-----------------------------------------------------------------------------
(* The inductive invariant.                                                *)

PC == {"idle", "wait", "work", "infer", "health"}

Fields(r) ==
    r = [pc |-> r.pc, job |-> r.job, k |-> r.k, left |-> r.left, n |-> r.n, empty |-> r.empty,
         call |-> r.call, made |-> r.made]

\* What a thread works on: a method of the process, at a stage that it has, with the results
\* of the calls so far.
Doing(r) ==
    /\ Fields(r) /\ r.pc \in PC
    /\ r.pc \in {"idle", "health"} => r.made = {}
    /\ r.pc \in {"health", "wait"} => Kind = "grpc"
    /\ r.pc \in {"wait", "work", "infer"} =>
          /\ r.job \in Main[proc].jobs /\ r.k \in DOMAIN r.job.stages
          /\ Kind # "grpc" /\ r.k # 1 => "ok" \in r.made
          /\ r.k = 1 /\ r.job.stages[1].work = "one" => r.left = 1
    /\ r.pc \in {"wait", "work"} /\ r.empty /\ r.k = 1 /\ "go" \notin r.job.frame => r.made = {}
    /\ r.pc = "infer" =>
          /\ r.call.remote \/ r.call.out \in {"ok", "fail"}
          /\ r.empty => "go" \in r.job.frame

\* Only a process that is up and has made its preparations serves, with the threads it has.
Served == \A t \in Thread : req[t].pc # "idle" => up /\ ready /\ Serving(t)

\* infer_mutex, and the lock of the interpreter.
Locked ==
    /\ Kind = "grpc" => \A t \in Thread : req[t].pc \in {"work", "infer"} => holder = t
    /\ Kind = "flup" =>
          \A t, u \in Thread : req[t].pc = "infer" /\ req[u].pc = "infer" => t = u

IInv ==
    /\ proc \in DOMAIN Main /\ jobs \subseteq Main[proc].jobs
    /\ req = [t \in Thread |-> req[t]]
    /\ \A t \in Thread : Doing(req[t])
    /\ Served /\ Locked /\ EngineStable

USE GatewayAssumption, ProcessAssumption

LEMMA IdleFields == Fields(Idle) /\ Idle.pc = "idle" /\ Idle.made = {}
  BY DEF Fields, Idle

LEMMA InitInv == Init => IInv
  <1> SUFFICES ASSUME Init PROVE IInv
    OBVIOUS
  <1>1. proc \in DOMAIN Main /\ jobs \subseteq Main[proc].jobs /\ req = [t \in Thread |-> Idle]
    BY DEF Init
  <1>2. Idle.pc = "idle" /\ Doing(Idle)
    BY DEF Idle, Doing, Fields, PC
  <1> QED
    BY <1>1, <1>2 DEF IInv, Served, Locked, EngineStable

\* A step of one thread, to the record r.
LEMMA OneMoves ==
  ASSUME IInv, NEW t \in Thread, NEW r, Doing(r), req' = [req EXCEPT ![t] = r],
         UNCHANGED <<proc, jobs, up, ready>>,
         r.pc # "idle" => up /\ ready /\ Serving(t),
         Kind = "grpc" /\ r.pc \in {"work", "infer"} => holder' = t,
         \A u \in Thread : u # t /\ holder = u => holder' = u,
         Kind = "flup" /\ r.pc = "infer" => \A u \in Thread : u # t => req[u].pc # "infer",
         eng' = eng \/ \A u \in Thread : u # t => req[u].pc # "infer",
         r.pc = "infer" /\ r.call.engine # NoEngine => eng'[r.call.model] = r.call.engine
  PROVE  IInv'
  <1>1. req'[t] = r /\ \A u \in Thread : u # t => req'[u] = req[u]
    BY DEF IInv
  <1>2. req' = [u \in Thread |-> req'[u]]
    BY DEF IInv
  <1>3. Kind' = Kind /\ \A u \in Thread : Serving(u)' = Serving(u)
    BY DEF Kind, Serving
  <1>4. \A u \in Thread : Doing(req[u])'
    BY <1>1, <1>3 DEF IInv, Doing
  <1>5. Served'
    BY <1>1, <1>3 DEF IInv, Served
  <1>6. Locked'
    BY <1>1, <1>3 DEF IInv, Locked
  <1>7. EngineStable'
    BY <1>1 DEF IInv, EngineStable
  <1> QED
    BY <1>2, <1>4, <1>5, <1>6, <1>7 DEF IInv

\* A step that leaves the requests alone, and the engines of those that infer.
LEMMA NoneMoves ==
  ASSUME IInv, UNCHANGED <<proc, jobs, req, holder>>,
         \A t \in Thread : req[t].pc # "idle" => eng' = eng /\ up' = up /\ ready' = ready
  PROVE  IInv'
  <1>3. Kind' = Kind /\ \A u \in Thread : Serving(u)' = Serving(u)
    BY DEF Kind, Serving
  <1>4. \A u \in Thread : Doing(req[u])'
    BY <1>3 DEF IInv, Doing
  <1>5. Served' /\ Locked'
    BY <1>3 DEF IInv, Served, Locked
  <1>6. EngineStable'
    BY DEF IInv, EngineStable
  <1> QED
    BY <1>4, <1>5, <1>6 DEF IInv

LEMMA DieKeeps ==
  ASSUME IInv, Die, UNCHANGED <<proc, jobs>>
  PROVE  IInv'
  <1>1. req' = [t \in Thread |-> Idle]
    BY DEF Die
  <1>2. Idle.pc = "idle" /\ Doing(Idle)'
    BY DEF Idle, Doing, Fields, PC
  <1> QED
    BY <1>1, <1>2 DEF IInv, Served, Locked, EngineStable

LEMMA AnswerKeeps ==
  ASSUME IInv, NEW t \in Thread, NEW a, Answer(t, a), UNCHANGED <<proc, jobs, eng>>
  PROVE  IInv'
  <1>1. Idle.pc = "idle" /\ Doing(Idle)
    BY DEF Idle, Doing, Fields, PC
  <1> QED
    BY <1>1, OneMoves DEF Answer

LEMMA ThrowsKeeps ==
  ASSUME IInv, NEW t \in Thread, Throws(t), holder = t, UNCHANGED <<proc, jobs, eng>>
  PROVE  IInv'
  <1>1. Idle.pc = "idle" /\ Doing(Idle)
    BY DEF Idle, Doing, Fields, PC
  <1> QED
    BY <1>1, OneMoves DEF Throws

\* The invariant of the thread that takes a step, in one piece.
LEMMA Working ==
  ASSUME IInv, NEW t \in Thread, req[t].pc \in {"wait", "work", "infer"}
  PROVE  /\ Doing(req[t]) /\ Fields(req[t]) /\ up /\ ready /\ Serving(t)
         /\ req[t].job \in Main[proc].jobs /\ req[t].k \in DOMAIN req[t].job.stages
         /\ HandlerOK(req[t].job, Kind)
  BY MainOK DEF IInv, Served, Doing, Kind

LEMMA Holding ==
  ASSUME IInv, NEW t \in Thread, req[t].pc \in {"work", "infer"}
  PROVE  Kind = "grpc" => holder = t
  BY DEF IInv, Locked

\* A request may go on after a call with result res: when it was the first, the call was
\* good, or the process is the gRPC server.
GoesOn(r, res) ==
    /\ Kind # "grpc" => r.k # 1 \/ res = "ok"
    /\ r.empty => "go" \in r.job.frame \/ (r.k = 1 => r.left = 1)

LEMMA AdvanceKeeps ==
  ASSUME IInv, NEW t \in Thread, NEW n, NEW res, req[t].pc \in {"work", "infer"}, GoesOn(req[t], res),
         Advance(t, n, res), UNCHANGED <<proc, jobs, eng>>
  PROVE  IInv'
  <1> DEFINE r == [req[t] EXCEPT !.pc = "work", !.call = NoCall, !.made = @ \cup {res}]
  <1>1. /\ Doing(req[t]) /\ Fields(req[t]) /\ up /\ ready /\ Serving(t)
        /\ req[t].job \in Main[proc].jobs /\ req[t].k \in DOMAIN req[t].job.stages
    BY Working
  <1>2. /\ Fields(r) /\ r.pc = "work" /\ r.job = req[t].job /\ r.k = req[t].k /\ r.left = req[t].left
        /\ r.made = req[t].made \cup {res} /\ r.empty = req[t].empty
    <2>0. r = [req[t] EXCEPT !.pc = "work", !.call = NoCall, !.made = @ \cup {res}]
      OBVIOUS
    <2> HIDE DEF r
    <2>1. Fields(r)
      BY <1>1, <2>0 DEF Fields
    <2>2. r.pc = "work" /\ r.job = req[t].job /\ r.k = req[t].k /\ r.left = req[t].left
      BY <1>1, <2>0 DEF Fields
    <2>3. r.made = req[t].made \cup {res} /\ r.empty = req[t].empty
      BY <1>1, <2>0 DEF Fields
    <2> QED
      BY <2>1, <2>2, <2>3
  <1>3. Kind # "grpc" => "ok" \in r.made
    BY <1>1, <1>2 DEF Doing, GoesOn
  <1> HIDE DEF r
  <1>4. ASSUME NEW q, Doing(q), q.pc = "work", req' = [req EXCEPT ![t] = q], UNCHANGED <<up, ready, holder>>
        PROVE  IInv'
    BY <1>1, <1>4, Holding, OneMoves
  <1>5. CASE r.left > 1 /\ req' = [req EXCEPT ![t] = [r EXCEPT !.left = @ - 1]] /\ UNCHANGED <<up, ready, holder>>
    <2> DEFINE q == [r EXCEPT !.left = @ - 1]
    <2>1. /\ Fields(q) /\ q.pc = "work" /\ q.job = r.job /\ q.k = r.k
          /\ q.made = r.made /\ q.empty = r.empty
      BY <1>2 DEF Fields
    <2>2. ~(r.k = 1 /\ r.job.stages[1].work = "one")
      BY <1>1, <1>2, <1>5 DEF Doing
    <2>3. r.empty /\ r.k = 1 => "go" \in r.job.frame
      BY <1>2, <1>5 DEF GoesOn
    <2>4. Doing(q)
      BY <1>1, <1>2, <1>3, <2>1, <2>2, <2>3 DEF Doing, PC
    <2> QED
      BY <1>4, <1>5, <2>1, <2>4
  <1>6. CASE \E a : Answer(t, a)
    BY <1>6, AnswerKeeps
  <1>7. ASSUME NEW k \in Following(r, n), NEW c,
               req' = [req EXCEPT ![t] = [r EXCEPT !.k = k, !.left = c, !.n = n, !.empty = FALSE]],
               UNCHANGED <<up, ready, holder>>
        PROVE  IInv'
    <2> DEFINE q == [r EXCEPT !.k = k, !.left = c, !.n = n, !.empty = FALSE]
    <2>1. /\ Fields(q) /\ q.pc = "work" /\ q.job = r.job /\ q.k = k
          /\ q.made = r.made /\ q.empty = FALSE
      <3>0. q = [r EXCEPT !.k = k, !.left = c, !.n = n, !.empty = FALSE]
        OBVIOUS
      <3> HIDE DEF q
      <3>1. Fields(q)
        BY <1>2, <3>0 DEF Fields
      <3>2. q.pc = "work" /\ q.job = r.job /\ q.k = k
        BY <1>2, <3>0 DEF Fields
      <3>3. q.made = r.made /\ q.empty = FALSE
        BY <1>2, <3>0 DEF Fields
      <3> QED
        BY <3>1, <3>2, <3>3
    <2>2. k \in DOMAIN r.job.stages /\ k > r.k
      BY <1>7 DEF Following
    <2>3. k # 1
      BY <1>1, <1>2, <2>2, Working DEF HandlerOK
    <2>4. Doing(q)
      BY <1>1, <1>2, <1>3, <2>1, <2>2, <2>3 DEF Doing, PC
    <2> QED
      BY <1>4, <1>7, <2>1, <2>4
  <1> QED
    BY <1>5, <1>6, <1>7 DEF Advance, r

LEMMA ReactKeeps ==
  ASSUME IInv, NEW t \in Thread, NEW res \in {"ok", "fail", "remote"}, req[t].pc \in {"work", "infer"},
         req[t].empty => "go" \in req[t].job.frame \/ (req[t].k = 1 => req[t].left = 1),
         React(t, res), UNCHANGED <<proc, jobs, eng>>
  PROVE  IInv'
  <1>1. HandlerOK(req[t].job, Kind) /\ req[t].k \in DOMAIN req[t].job.stages
    BY Working
  <1>2. PICK a \in Reactions(StageOf(req[t]), res) :
           CASE a = "go" -> \E n \in Regions(req[t], res) : Advance(t, n, res)
             [] a = "die" -> Die
             [] a = "throw" -> Throws(t)
             [] OTHER -> Answer(t, a)
    BY DEF React
  <1>3. CASE a = "go"
    <2>1. GoesOn(req[t], res)
      BY <1>1, <1>3 DEF GoesOn, HandlerOK, Reactions, StageOf
    <2> QED
      BY <1>2, <1>3, <2>1, AdvanceKeeps
  <1>4. CASE a = "die"
    BY <1>2, <1>4, DieKeeps
  <1>5. CASE a = "throw"
    <2>1. Kind = "grpc"
      BY <1>1, <1>5 DEF HandlerOK, Reactions, StageOf, Harm
    <2> QED
      BY <1>2, <1>5, <2>1, Holding, ThrowsKeeps
  <1>6. CASE a \notin {"go", "die", "throw"}
    BY <1>2, <1>6, AnswerKeeps
  <1> QED
    BY <1>3, <1>4, <1>5, <1>6

-----------------------------------------------------------------------------
(* One lemma for each action.                                              *)

LEMMA SetupKeeps ==
  ASSUME IInv, Setup \/ SetupFails \/ Kill \/ Restart \/ PolicyChange \/ Library
  PROVE  IInv'
  <1>1. CASE Setup
    <2>1. \A t \in Thread : req[t].pc = "idle"
      BY <1>1 DEF Setup, IInv, Served
    <2> QED
      BY <1>1, <2>1, NoneMoves DEF Setup, fixedVars
  <1>2. CASE SetupFails
    BY <1>2, DieKeeps DEF SetupFails, fixedVars
  <1>3. CASE Kill
    BY <1>3, DieKeeps DEF Kill, fixedVars
  <1>4. CASE Restart
    <2>1. \A t \in Thread : req[t].pc = "idle"
      BY <1>4 DEF Restart, IInv, Served
    <2> QED
      BY <1>4, <2>1, NoneMoves DEF Restart, fixedVars
  <1>5. CASE PolicyChange
    BY <1>5, NoneMoves DEF PolicyChange, SetPolicy, fixedVars
  <1>6. CASE Library
    <2>1. \A t \in Thread : req[t].pc = "idle"
      BY <1>6 DEF Library, IInv, Served, Serving
    <2> QED
      BY <1>6, <2>1, NoneMoves DEF Library, fixedVars
  <1> QED
    BY <1>1, <1>2, <1>3, <1>4, <1>5, <1>6

LEMMA AcceptKeeps ==
  ASSUME IInv, NEW t \in Thread, Accept(t)
  PROVE  IInv'
  <1>1. CASE UNCHANGED req
    BY <1>1, NoneMoves DEF Accept, fixedVars, runtimeVars
  <1>2. ASSUME NEW h \in jobs, NEW e \in BOOLEAN, NEW c \in Calls(h.stages[1], 0),
               req' = [req EXCEPT ![t] = [Idle EXCEPT !.pc = IF Kind = "grpc" THEN "wait" ELSE "work",
                                                      !.job = h, !.k = 1, !.left = c, !.empty = e]]
        PROVE  IInv'
    <2> DEFINE pc == IF Kind = "grpc" THEN "wait" ELSE "work"
               r == [Idle EXCEPT !.pc = pc, !.job = h, !.k = 1, !.left = c, !.empty = e]
    <2>0. r = [Idle EXCEPT !.pc = pc, !.job = h, !.k = 1, !.left = c, !.empty = e]
      OBVIOUS
    <2>1. Fields(r) /\ r.pc = pc /\ r.job = h /\ r.k = 1 /\ r.left = c /\ r.made = {}
      <3> HIDE DEF r, pc
      <3>1. Fields(r)
        BY <2>0, IdleFields DEF Fields
      <3>2. r.pc = pc /\ r.job = h /\ r.k = 1
        BY <2>0, IdleFields DEF Fields
      <3>3. r.left = c /\ r.made = {}
        BY <2>0, IdleFields DEF Fields
      <3> QED
        BY <3>1, <3>2, <3>3
    <2>2. h \in Main[proc].jobs /\ HandlerOK(h, Kind)
      BY MainOK DEF IInv, Kind
    <2>3. h.stages[1].work = "one" => c = 1
      BY DEF Calls
    <2>4. Doing(r)
      BY <2>1, <2>2, <2>3 DEF Doing, PC, HandlerOK
    <2>5. up /\ ready /\ Serving(t) /\ UNCHANGED <<proc, jobs, up, ready, holder, eng>>
      BY DEF Accept, fixedVars, runtimeVars
    <2> HIDE DEF r
    <2>6. req' = [req EXCEPT ![t] = r]
      BY <1>2 DEF r
    <2> QED
      BY <2>1, <2>4, <2>5, <2>6, OneMoves
  <1> QED
    BY <1>1, <1>2 DEF Accept

LEMMA HealthCheckKeeps ==
  ASSUME IInv, NEW t \in Thread, HealthCheck(t)
  PROVE  IInv'
  <1> DEFINE r == [Idle EXCEPT !.pc = "health"]
  <1>0. r = [Idle EXCEPT !.pc = "health"]
    OBVIOUS
  <1>1. Fields(r) /\ r.pc = "health" /\ r.made = {}
    <2> HIDE DEF r
    <2> QED
      BY <1>0, IdleFields DEF Fields
  <1>2. Doing(r)
    BY <1>1 DEF Doing, PC, HealthCheck
  <1>3. up /\ ready /\ Serving(t) /\ UNCHANGED <<proc, jobs, up, ready, holder, eng>>
    BY DEF HealthCheck, fixedVars, runtimeVars, Serving
  <1> QED
    BY <1>1, <1>2, <1>3, OneMoves DEF HealthCheck

LEMMA LockKeeps ==
  ASSUME IInv, NEW t \in Thread, Lock(t)
  PROVE  IInv'
  <1> DEFINE r == [req[t] EXCEPT !.pc = "work"]
  <1>1. Doing(req[t]) /\ Fields(req[t]) /\ up /\ ready /\ Serving(t) /\ req[t].pc = "wait"
    BY Working DEF Lock
  <1>2. /\ Fields(r) /\ r.pc = "work" /\ r.job = req[t].job /\ r.k = req[t].k /\ r.left = req[t].left
        /\ r.made = req[t].made /\ r.empty = req[t].empty
    BY <1>1 DEF Fields
  <1>3. Doing(r)
    BY <1>1, <1>2 DEF Doing, PC
  <1>4. UNCHANGED <<proc, jobs, up, ready, eng>> /\ holder = Nobody /\ holder' = t
    BY DEF Lock, fixedVars, runtimeVars
  <1>5. req' = [req EXCEPT ![t] = r]
    BY DEF Lock
  <1>6. \A u \in Thread : u # holder
    BY <1>4 DEF Nobody
  <1> QED
    BY <1>1, <1>2, <1>3, <1>4, <1>5, <1>6, OneMoves

LEMMA BadFrameKeeps ==
  ASSUME IInv, NEW t \in Thread, BadFrame(t)
  PROVE  IInv'
  <1>1. req[t].pc = "work" /\ req[t].k = 1 /\ req[t].empty /\ UNCHANGED <<proc, jobs, eng>>
    BY DEF BadFrame, libraryVars, fixedVars
  <1>2. HandlerOK(req[t].job, Kind) /\ Doing(req[t])
    BY <1>1, Working
  <1>3. PICK a \in req[t].job.frame \ {"go"} :
           CASE a = "die" -> Die [] a = "fail" -> React(t, "fail") [] OTHER -> Answer(t, a)
    BY DEF BadFrame
  <1>4. CASE a = "die"
    BY <1>1, <1>3, <1>4, DieKeeps
  <1>5. CASE a = "fail"
    <2>1. req[t].left = 1
      BY <1>1, <1>2, <1>3, <1>5 DEF HandlerOK, Doing
    <2>2. React(t, "fail")
      BY <1>3, <1>5
    <2> QED
      BY <1>1, <2>1, <2>2, ReactKeeps
  <1>6. CASE a \notin {"die", "fail"}
    BY <1>1, <1>3, <1>6, AnswerKeeps
  <1> QED
    BY <1>4, <1>5, <1>6

\* While one thread prepares an inference no other thread infers.
LEMMA Alone ==
  ASSUME IInv, NEW t \in Thread, req[t].pc = "work", MayInfer(t)
  PROVE  \A u \in Thread : u # t => req[u].pc # "infer"
  <1> SUFFICES ASSUME NEW u \in Thread, u # t, req[u].pc = "infer" PROVE FALSE
    OBVIOUS
  <1>1. Serving(t) /\ Serving(u)
    BY DEF IInv, Served
  <1>2. Kind = "grpc" => holder = t /\ holder = u
    BY Holding
  <1> QED
    BY <1>1, <1>2 DEF Serving, MayInfer

LEMMA InferBeginKeeps ==
  ASSUME IInv, NEW t \in Thread, InferBegin(t)
  PROVE  IInv'
  <1> DEFINE s == StageOf(req[t])
  <1>1. /\ req[t].pc = "work" /\ (req[t].empty => "go" \in req[t].job.frame) /\ MayInfer(t)
        /\ UNCHANGED <<proc, jobs>>
    BY DEF InferBegin, fixedVars
  <1>2. \A u \in Thread : u # t => req[u].pc # "infer"
    BY <1>1, Alone
  <1>3. Doing(req[t]) /\ Fields(req[t]) /\ up /\ ready /\ Serving(t) /\ (Kind = "grpc" => holder = t)
    BY <1>1, Working, Holding
  <1>4. ASSUME NEW call, call.remote \/ call.out \in {"ok", "fail"},
               call.engine # NoEngine => eng'[call.model] = call.engine,
               req' = [req EXCEPT ![t].pc = "infer", ![t].call = call], UNCHANGED <<up, ready, holder>>
        PROVE  IInv'
    <2> DEFINE r == [req[t] EXCEPT !.pc = "infer", !.call = call]
    <2>0. r = [req[t] EXCEPT !.pc = "infer", !.call = call]
      OBVIOUS
    <2>1. req' = [req EXCEPT ![t] = r]
      BY <1>4 DEF IInv
    <2> HIDE DEF r
    <2>2. Fields(r)
      BY <1>3, <2>0 DEF Fields
    <2>3. r.pc = "infer" /\ r.job = req[t].job /\ r.k = req[t].k /\ r.left = req[t].left
      BY <1>3, <2>0 DEF Fields
    <2>4. r.made = req[t].made /\ r.empty = req[t].empty /\ r.call = call
      BY <1>3, <2>0 DEF Fields
    <2>5. Doing(r)
      BY <1>1, <1>3, <1>4, <2>2, <2>3, <2>4 DEF Doing, PC
    <2> QED
      BY <1>1, <1>2, <1>3, <1>4, <2>1, <2>3, <2>4, <2>5, OneMoves
  <1>5. CASE /\ req' = [req EXCEPT ![t].pc = "infer",
                                   ![t].call = [NoCall EXCEPT !.model = s.model, !.remote = TRUE]]
             /\ UNCHANGED <<up, ready, holder>>
    <2>1. [NoCall EXCEPT !.model = s.model, !.remote = TRUE].remote
      BY DEF NoCall
    <2>2. [NoCall EXCEPT !.model = s.model, !.remote = TRUE].engine = NoEngine
      BY DEF NoCall
    <2> QED
      BY <1>4, <1>5, <2>1, <2>2
  <1>6. ASSUME NEW out \in {"ok", "fail"}, UNCHANGED <<up, ready, holder>>,
               req' = [req EXCEPT ![t].pc = "infer",
                                  ![t].call = [model |-> s.model, remote |-> FALSE, out |-> out,
                                               engine |-> IF s.backend = "OPENVINO" THEN eng'[s.model]
                                                          ELSE NoEngine]]
        PROVE  IInv'
    <2> DEFINE c == [model |-> s.model, remote |-> FALSE, out |-> out,
                     engine |-> IF s.backend = "OPENVINO" THEN eng'[s.model] ELSE NoEngine]
    <2>1. c.out \in {"ok", "fail"} /\ (c.engine # NoEngine => eng'[c.model] = c.engine)
      BY <1>6
    <2>2. req' = [req EXCEPT ![t].pc = "infer", ![t].call = c]
      BY <1>6
    <2> HIDE DEF c
    <2> QED
      BY <1>4, <1>6, <2>1, <2>2
  <1>7. CASE Die
    BY <1>1, <1>7, DieKeeps
  <1> QED
    BY <1>5, <1>6, <1>7 DEF InferBegin

LEMMA InferEndKeeps ==
  ASSUME IInv, NEW t \in Thread, InferEnd(t)
  PROVE  IInv'
  <1>1. req[t].pc = "infer" /\ UNCHANGED <<proc, jobs, eng>>
    BY DEF InferEnd, libraryVars, fixedVars
  <1>2. Doing(req[t])
    BY <1>1, Working
  <1>3. PICK res \in {"ok", "fail", "remote"} : React(t, res)
    BY <1>1, <1>2 DEF InferEnd, HttpPost, Doing
  <1> QED
    BY <1>1, <1>2, <1>3, ReactKeeps DEF Doing

LEMMA NextKeeps == IInv /\ [Next]_vars => IInv'
  <1> SUFFICES ASSUME IInv, [Next]_vars PROVE IInv'
    OBVIOUS
  <1>1. ASSUME NEW t \in Thread, HealthAnswer(t) PROVE IInv'
    <2>1. UNCHANGED <<proc, jobs, eng>>
      BY <1>1 DEF HealthAnswer, libraryVars, fixedVars
    <2>2. PICK a \in {"SUCCESS", "TIMEOUT"} : Answer(t, a)
      BY <1>1 DEF HealthAnswer
    <2> QED
      BY <2>1, <2>2, AnswerKeeps
  <1>2. CASE UNCHANGED vars
    BY <1>2, NoneMoves DEF vars, runtimeVars
  <1>3. ASSUME NEW t \in Thread, Accept(t) \/ HealthCheck(t) \/ Lock(t) \/ Work(t) PROVE IInv'
    BY <1>1, <1>3, AcceptKeeps, HealthCheckKeeps, LockKeeps, BadFrameKeeps, InferBeginKeeps, InferEndKeeps
       DEF Work
  <1>4. CASE Setup \/ SetupFails \/ Kill \/ Restart \/ PolicyChange \/ Library
    BY <1>4, SetupKeeps
  <1> QED
    BY <1>2, <1>3, <1>4 DEF Next

\* The inductive invariant of a process of the gateway: what each thread works on, that only a
\* process that is up serves, who holds the locks, and that engines stay.
THEOREM Invariant == Spec => []IInv
  BY InitInv, NextKeeps, PTL DEF Spec

\* With any number of threads, an engine is neither replaced nor erased while one of them
\* infers with it: by the mutex of the gRPC server, the lock of the interpreter, or because
\* there is but one thread.
THEOREM EngineProved == Spec => []EngineStable
  <1>1. IInv => EngineStable
    BY DEF IInv
  <1> QED
    BY <1>1, Invariant, PTL
-----------------------------------------------------------------------------
(* The refinement: every step of Gateway is one of InferenceService, or      *)
(* changes nothing that it speaks of.                                        *)

\* The refinement mapping of Promise, of one thread's record and of all threads.
Shown(r) == IF r.pc \in {"wait", "work"} THEN "open" ELSE r.pc
State == [t \in Thread |-> Shown(req[t])]
Made == [t \in Thread |-> req[t].made]

\* The mapping of a step of one thread, to the record r.
LEMMA OneShown ==
  ASSUME IInv, NEW t \in Thread, NEW r, req' = [req EXCEPT ![t] = r], UNCHANGED proc
  PROVE  /\ State' = [State EXCEPT ![t] = Shown(r)]
         /\ Made' = [Made EXCEPT ![t] = r.made]
  <1>1. req'[t] = r /\ \A u \in Thread : u # t => req'[u] = req[u]
    BY DEF IInv
  <1>2. \A u \in Thread : State'[u] = [State EXCEPT ![t] = Shown(r)][u]
    BY <1>1 DEF State, Shown
  <1>3. \A u \in Thread : Made'[u] = [Made EXCEPT ![t] = r.made][u]
    BY <1>1 DEF Made
  <1> QED
    BY <1>2, <1>3 DEF State, Made

LEMMA DieLoses ==
  ASSUME Die, UNCHANGED proc
  PROVE  Promise!Lose
  <1>1. State' = [t \in Thread |-> "idle"] /\ Made' = [t \in Thread |-> {}] /\ UNCHANGED (Kind # "grpc")
    BY DEF Die, State, Made, Shown, Idle, Kind
  <1>2. answer' = [t \in Thread |-> IF State[t] = "idle" THEN "none" ELSE "lost"]
    BY DEF Die, State, Shown
  <1> QED
    BY <1>1, <1>2 DEF Promise!Lose, State, Made, Shown

\* A handler that answers, or goes on, with these results.
LEMMA AnswerProceeds ==
  ASSUME IInv, NEW t \in Thread, NEW results, NEW a \in Promise!Allowed(results), Answer(t, a), UNCHANGED proc
  PROVE  Promise!Proceed(t, results)
  <1>1. State' = [State EXCEPT ![t] = Shown(Idle)] /\ Made' = [Made EXCEPT ![t] = Idle.made]
    BY OneShown DEF Answer
  <1>2. Shown(Idle) = "idle" /\ Idle.made = {}
    BY DEF Shown, Idle
  <1>3. answer' = Promise!Says(t, a)
    BY DEF Answer, Says, Silence, Promise!Says, Promise!Silence
  <1> QED
    BY <1>1, <1>2, <1>3 DEF Promise!Proceed, State, Made, Shown

LEMMA ThrowsProceeds ==
  ASSUME IInv, NEW t \in Thread, NEW results, Throws(t), UNCHANGED proc
  PROVE  Promise!Proceed(t, results)
  <1>1. State' = [State EXCEPT ![t] = Shown(Idle)] /\ Made' = [Made EXCEPT ![t] = Idle.made]
    BY OneShown DEF Throws
  <1>2. Shown(Idle) = "idle" /\ Idle.made = {}
    BY DEF Shown, Idle
  <1>3. answer' = Promise!Says(t, "raise") /\ "raise" \in Promise!Allowed(results)
    BY DEF Throws, Says, Silence, Promise!Says, Promise!Silence, Promise!Allowed
  <1> QED
    BY <1>1, <1>2, <1>3 DEF Promise!Proceed, State, Made, Shown

LEMMA GoingOnProceeds ==
  ASSUME IInv, NEW t \in Thread, NEW r, req' = [req EXCEPT ![t] = r], r.pc = "work", answer' = Silence,
         UNCHANGED proc
  PROVE  Promise!Proceed(t, r.made)
  <1>1. State' = [State EXCEPT ![t] = "open"] /\ Made' = [Made EXCEPT ![t] = r.made]
    BY OneShown DEF Shown
  <1>2. answer' = Promise!Silence
    BY DEF Silence, Promise!Silence
  <1> QED
    BY <1>1, <1>2 DEF Promise!Proceed, State, Made, Shown

LEMMA AdvanceProceeds ==
  ASSUME IInv, NEW t \in Thread, NEW n, NEW res, NEW results,
         results = req[t].made \cup {res}, req[t].pc \in {"work", "infer"},
         Kind # "grpc" => req[t].k # 1 \/ res = "ok", Advance(t, n, res), UNCHANGED proc
  PROVE  Promise!Proceed(t, results)
  <1> DEFINE r == [req[t] EXCEPT !.pc = "work", !.call = NoCall, !.made = @ \cup {res}]
  <1>1. Doing(req[t]) /\ Fields(req[t])
    BY Working
  <1>2. Fields(r) /\ r.pc = "work" /\ r.made = results
    <2>0. r = [req[t] EXCEPT !.pc = "work", !.call = NoCall, !.made = @ \cup {res}]
      OBVIOUS
    <2> HIDE DEF r
    <2> QED
      BY <1>1, <2>0 DEF Fields
  <1>3. "error" \in Promise!Allowed(results)
    BY DEF Promise!Allowed
  <1>4. "ok" \in Promise!Allowed(results)
    BY <1>1 DEF Promise!Allowed, Doing
  <1>5. CASE Answer(t, "error") \/ Answer(t, "ok")
    BY <1>3, <1>4, <1>5, AnswerProceeds
  <1>6. ASSUME NEW q, req' = [req EXCEPT ![t] = q], q.pc = "work", q.made = r.made, answer' = Silence
        PROVE  Promise!Proceed(t, results)
    <2>1. Promise!Proceed(t, q.made)
      BY <1>6, GoingOnProceeds
    <2> QED
      BY <1>2, <1>6, <2>1
  <1>7. CASE req' = [req EXCEPT ![t] = [r EXCEPT !.left = @ - 1]] /\ answer' = Silence
    <2>1. [r EXCEPT !.left = @ - 1].pc = "work" /\ [r EXCEPT !.left = @ - 1].made = r.made
      BY <1>2 DEF Fields
    <2> QED
      BY <1>6, <1>7, <2>1
  <1>8. ASSUME NEW k, NEW c, answer' = Silence,
               req' = [req EXCEPT ![t] = [r EXCEPT !.k = k, !.left = c, !.n = n, !.empty = FALSE]]
        PROVE  Promise!Proceed(t, results)
    <2> DEFINE q == [r EXCEPT !.k = k, !.left = c, !.n = n, !.empty = FALSE]
    <2>1. q.pc = "work" /\ q.made = r.made
      BY <1>2 DEF Fields
    <2> QED
      BY <1>6, <1>8, <2>1
  <1> QED
    BY <1>5, <1>7, <1>8 DEF Advance

LEMMA ReactProceeds ==
  ASSUME IInv, NEW t \in Thread, NEW res \in {"ok", "fail", "remote"}, NEW results,
         results = req[t].made \cup {res}, req[t].pc \in {"work", "infer"},
         React(t, res), UNCHANGED proc
  PROVE  Promise!Lose \/ Promise!Proceed(t, results)
  <1>1. HandlerOK(req[t].job, Kind) /\ req[t].k \in DOMAIN req[t].job.stages
    BY Working
  <1>2. PICK a \in Reactions(StageOf(req[t]), res) :
           CASE a = "go" -> \E n \in Regions(req[t], res) : Advance(t, n, res)
             [] a = "die" -> Die
             [] a = "throw" -> Throws(t)
             [] OTHER -> Answer(t, a)
    BY DEF React
  <1>3. CASE a = "go"
    <2>1. Kind # "grpc" => req[t].k # 1 \/ res = "ok"
      BY <1>1, <1>3 DEF HandlerOK, Reactions, StageOf
    <2> QED
      BY <1>2, <1>3, <2>1, AdvanceProceeds
  <1>4. CASE a = "die"
    BY <1>2, <1>4, DieLoses
  <1>6. CASE a = "throw"
    BY <1>2, <1>6, ThrowsProceeds
  <1>5. CASE a \notin {"go", "die", "throw"}
    <2>1. a \in {"error", "raise"} \/ (res = "remote" /\ a \in {"relay", "unsupported"})
      BY <1>1, <1>5 DEF HandlerOK, Reactions, StageOf, Harm
    <2>2. a \in Promise!Allowed(results)
      BY <2>1 DEF Promise!Allowed
    <2> QED
      BY <1>2, <1>5, <2>2, AnswerProceeds
  <1> QED
    BY <1>3, <1>4, <1>5, <1>6

\* A step that leaves the requests alone and says nothing.
LEMMA NoneWaits ==
  ASSUME UNCHANGED <<proc, req>>, answer' = Silence
  PROVE  Promise!Wait
  BY DEF Promise!Wait, Promise!Silence, Silence, Kind

LEMMA AcceptOpens ==
  ASSUME IInv, NEW t \in Thread, Accept(t)
  PROVE  Promise!Refuse(t) \/ Promise!Open(t)
  <1>1. req[t].pc = "idle" /\ req[t].made = {} /\ State[t] = "idle" /\ UNCHANGED proc
    BY DEF Accept, fixedVars, IInv, Doing, State, Shown
  <1>2. CASE answer' = Says(t, "refused") /\ UNCHANGED req
    BY <1>1, <1>2 DEF Promise!Refuse, Promise!Says, Promise!Silence, Says, Silence, State, Shown, Kind
  <1>3. ASSUME NEW h, NEW e, NEW c, NEW pc \in {"wait", "work"}, answer' = Silence,
               req' = [req EXCEPT ![t] = [Idle EXCEPT !.pc = pc, !.job = h, !.k = 1, !.left = c, !.empty = e]]
        PROVE  Promise!Open(t)
    <2>0. PICK r : r = [Idle EXCEPT !.pc = pc, !.job = h, !.k = 1, !.left = c, !.empty = e]
      OBVIOUS
    <2>1. Shown(r) = "open" /\ r.made = {}
      BY <2>0 DEF Idle, Shown
    <2>2. State' = [State EXCEPT ![t] = "open"] /\ Made' = [Made EXCEPT ![t] = {}]
      <3>1. State' = [State EXCEPT ![t] = Shown(r)] /\ Made' = [Made EXCEPT ![t] = r.made]
        BY <1>1, <1>3, <2>0, <2>1, OneShown
      <3> QED
        BY <2>1, <3>1
    <2>3. Made' = Made
      BY <1>1, <2>2 DEF Made
    <2> QED
      BY <1>1, <1>3, <2>2, <2>3 DEF Promise!Open, Promise!Silence, Silence, State, Made, Shown, Kind
  <1> QED
    BY <1>2, <1>3 DEF Accept

LEMMA HealthCheckProbes ==
  ASSUME IInv, NEW t \in Thread, HealthCheck(t)
  PROVE  Promise!Probe(t)
  <1>0. PICK r : r = [Idle EXCEPT !.pc = "health"]
    OBVIOUS
  <1>1. req[t].made = {} /\ State[t] = "idle" /\ UNCHANGED proc
    BY DEF HealthCheck, fixedVars, IInv, Doing, State, Shown
  <1>2. Shown(r) = "health" /\ r.made = {}
    BY <1>0 DEF Idle, Shown
  <1>3. State' = [State EXCEPT ![t] = "health"] /\ Made' = [Made EXCEPT ![t] = {}]
    <2>1. State' = [State EXCEPT ![t] = Shown(r)] /\ Made' = [Made EXCEPT ![t] = r.made]
      BY <1>0, <1>1, <1>2, OneShown DEF HealthCheck
    <2> QED
      BY <1>2, <2>1
  <1>4. Made' = Made
    BY <1>1, <1>3 DEF Made
  <1> QED
    BY <1>1, <1>3, <1>4 DEF HealthCheck, Promise!Probe, Promise!Silence, Silence, State, Made, Shown, Kind

\* The mutex is free only when no thread infers.
LEMMA HealthAnswerReports ==
  ASSUME IInv, NEW t \in Thread, HealthAnswer(t)
  PROVE  Promise!Report(t)
  <1>1. /\ req[t].pc = "health" /\ req[t].made = {} /\ State[t] = "health" /\ Kind = "grpc" /\ UNCHANGED proc
        /\ Answer(t, IF holder = Nobody THEN "SUCCESS" ELSE "TIMEOUT")
    BY DEF HealthAnswer, fixedVars, IInv, Doing, State, Shown
  <1>2. PICK a \in {"SUCCESS", "TIMEOUT"} : Answer(t, a) /\ (a = "SUCCESS" => holder = Nobody)
    BY <1>1
  <1>3. State' = [State EXCEPT ![t] = Shown(Idle)] /\ Made' = [Made EXCEPT ![t] = Idle.made]
    BY <1>1, <1>2, OneShown DEF Answer
  <1>4. Shown(Idle) = "idle" /\ Idle.made = {}
    BY DEF Shown, Idle
  <1>5. Made' = Made
    BY <1>1, <1>3, <1>4 DEF Made
  <1>6. a = "SUCCESS" => Promise!Quiet
    BY <1>1, <1>2 DEF Promise!Quiet, IInv, Locked, Nobody
  <1>7. answer' = Promise!Says(t, a)
    BY <1>2 DEF Answer, Says, Silence, Promise!Says, Promise!Silence
  <1> QED
    BY <1>1, <1>3, <1>4, <1>5, <1>6, <1>7 DEF Promise!Report, State, Made, Shown, Kind

LEMMA LockWaits ==
  ASSUME IInv, NEW t \in Thread, Lock(t)
  PROVE  Promise!Wait
  <1>0. PICK r : r = [req[t] EXCEPT !.pc = "work"]
    OBVIOUS
  <1>1. Fields(req[t]) /\ req[t].pc = "wait" /\ UNCHANGED proc /\ answer' = Silence
    BY DEF Lock, fixedVars, IInv, Doing
  <1>2. Shown(r) = "open" /\ r.made = req[t].made
    BY <1>0, <1>1 DEF Fields, Shown
  <1>3. req' = [req EXCEPT ![t] = r]
    BY <1>0 DEF Lock, IInv
  <1>4. State' = [State EXCEPT ![t] = "open"] /\ Made' = [Made EXCEPT ![t] = req[t].made]
    <2>1. State' = [State EXCEPT ![t] = Shown(r)] /\ Made' = [Made EXCEPT ![t] = r.made]
      BY <1>1, <1>2, <1>3, OneShown
    <2> QED
      BY <1>2, <2>1
  <1>5. State' = State /\ Made' = Made
    BY <1>1, <1>4 DEF State, Made, Shown
  <1> QED
    BY <1>1, <1>5 DEF Promise!Wait, Promise!Silence, Silence, State, Made, Shown, Kind

LEMMA BadFrameSkips ==
  ASSUME IInv, NEW t \in Thread, BadFrame(t)
  PROVE  Promise!Lose \/ Promise!Skip(t)
  <1>1. req[t].pc = "work" /\ req[t].k = 1 /\ req[t].empty /\ UNCHANGED proc
    BY DEF BadFrame, fixedVars
  <1>2. HandlerOK(req[t].job, Kind) /\ Doing(req[t])
    BY <1>1, Working
  <1>3. PICK a \in req[t].job.frame \ {"go"} :
           CASE a = "die" -> Die [] a = "fail" -> React(t, "fail") [] OTHER -> Answer(t, a)
    BY DEF BadFrame
  <1>4. State[t] = "open" /\ Made[t] = {} /\ req[t].made = {}
    BY <1>1, <1>2, <1>3 DEF HandlerOK, Doing, State, Made, Shown
  <1>5. CASE a = "die"
    BY <1>1, <1>3, <1>5, DieLoses
  <1>6. ASSUME NEW results \in SUBSET {"fail"}, Promise!Proceed(t, results)
        PROVE  Promise!Skip(t)
    BY <1>1, <1>4, <1>6 DEF Promise!Skip, State, Made, Shown, Kind
  <1>7. CASE a = "fail"
    <2>1. {"fail"} = req[t].made \cup {"fail"}
      BY <1>4
    <2>2. Promise!Lose \/ Promise!Proceed(t, {"fail"})
      BY <1>1, <1>3, <1>7, <2>1, ReactProceeds
    <2> QED
      BY <1>6, <2>2
  <1>8. CASE a \in {"error", "raise"}
    <2>1. a \in Promise!Allowed({})
      BY <1>8 DEF Promise!Allowed
    <2>2. Answer(t, a)
      BY <1>3, <1>8
    <2>3. Promise!Proceed(t, {})
      BY <1>1, <2>1, <2>2, AnswerProceeds
    <2> QED
      BY <1>6, <2>3
  <1> QED
    BY <1>2, <1>3, <1>5, <1>7, <1>8 DEF HandlerOK

LEMMA InferBeginBegins ==
  ASSUME IInv, NEW t \in Thread, InferBegin(t)
  PROVE  Promise!Lose \/ Promise!Begin(t)
  <1>1. req[t].pc = "work" /\ State[t] = "open" /\ UNCHANGED proc
    BY DEF InferBegin, fixedVars, State, Shown
  <1>2. Fields(req[t])
    BY DEF IInv, Doing
  <1>3. ASSUME NEW call, req' = [req EXCEPT ![t].pc = "infer", ![t].call = call], answer' = Silence
        PROVE  Promise!Begin(t)
    <2>0. PICK r : r = [req[t] EXCEPT !.pc = "infer", !.call = call]
      OBVIOUS
    <2>1. Shown(r) = "infer" /\ r.made = req[t].made
      BY <1>2, <2>0 DEF Fields, Shown
    <2>2. req' = [req EXCEPT ![t] = r]
      BY <1>3, <2>0 DEF IInv
    <2>3. State' = [State EXCEPT ![t] = "infer"] /\ Made' = [Made EXCEPT ![t] = req[t].made]
      <3>1. State' = [State EXCEPT ![t] = Shown(r)] /\ Made' = [Made EXCEPT ![t] = r.made]
        BY <1>1, <2>1, <2>2, OneShown
      <3> QED
        BY <2>1, <3>1
    <2>4. Made' = Made
      BY <2>3 DEF Made
    <2> QED
      BY <1>1, <1>3, <2>3, <2>4 DEF Promise!Begin, Promise!Silence, Silence, State, Made, Shown, Kind
  <1>4. CASE Die
    BY <1>1, <1>4, DieLoses
  <1> QED
    BY <1>3, <1>4 DEF InferBegin

LEMMA InferEndEnds ==
  ASSUME IInv, NEW t \in Thread, InferEnd(t)
  PROVE  Promise!Lose \/ Promise!End(t)
  <1>1. req[t].pc = "infer" /\ State[t] = "infer" /\ UNCHANGED proc
    BY DEF InferEnd, fixedVars, State, Shown
  <1>2. Doing(req[t])
    BY <1>1, Working
  <1>3. PICK res \in {"ok", "fail", "remote"} : React(t, res)
    BY <1>1, <1>2 DEF InferEnd, HttpPost, Doing
  <1>4. PICK results : results = req[t].made \cup {res}
    OBVIOUS
  <1>5. CASE Promise!Proceed(t, results)
    BY <1>1, <1>4, <1>5 DEF Promise!End, Promise!Proceed, Promise!Result, State, Made, Shown, Kind
  <1> QED
    BY <1>1, <1>3, <1>4, <1>5, ReactProceeds

LEMMA NextImplements == IInv /\ [Next]_vars => [Promise!Next]_(Promise!vars)
  <1> SUFFICES ASSUME IInv, [Next]_vars PROVE Promise!Next \/ UNCHANGED Promise!vars
    OBVIOUS
  <1>1. CASE UNCHANGED vars
    BY <1>1 DEF vars, Promise!vars, Kind
  <1>2. CASE Setup \/ Restart \/ PolicyChange \/ Library
    BY <1>2, NoneWaits DEF Setup, Restart, PolicyChange, Library, fixedVars, Promise!Next
  <1>3. CASE SetupFails \/ Kill
    BY <1>3, DieLoses DEF SetupFails, Kill, fixedVars, Promise!Next
  <1>4. ASSUME NEW t \in Thread, Accept(t) \/ HealthCheck(t) \/ Lock(t) \/ Work(t)
        PROVE  Promise!Next
    BY <1>4, AcceptOpens, HealthCheckProbes, HealthAnswerReports, LockWaits, BadFrameSkips, InferBeginBegins,
       InferEndEnds DEF Work, Promise!Next
  <1> QED
    BY <1>1, <1>2, <1>3, <1>4 DEF Next

LEMMA InitImplements == Init => Promise!Init
  BY DEF Init, Promise!Init, Promise!Silence, Silence, Idle, Kind

\* Whatever its service, the number of its threads and what its inferences return, a process
\* of the gateway answers with a result only after an inference made for that request, says
\* that it is healthy only between inferences, and loses open requests only by ending.
THEOREM PromiseProved == Spec => KeepsPromise
  <1>1. Spec => []IInv
    BY Invariant
  <1> QED
    BY <1>1, InitImplements, NextImplements, PTL DEF Spec, KeepsPromise, Promise!Spec

-----------------------------------------------------------------------------
(* The caches of engines and networks.                                     *)

\* A model that only simulate_lib_init has used, without a failure: the engine holds the
\* network of a file with the digest it keeps, and there is no network without an engine.
Simulated(m) ==
    \/ eng[m] = NoEngine /\ net[m] = "none"
    \/ eng[m].net \in Version /\ eng[m].md5 = Digest[eng[m].net]

\* Only the application calls the library for others than a handler; what main() loads is
\* reported as "buffer" or "throw".
CacheInv ==
    /\ proc \in Process
    /\ file \in [Model -> Version \cup {"none"}]
    /\ eng = [m \in Model |-> eng[m]] /\ net = [m \in Model |-> net[m]]
    /\ temp = [m \in Model |-> temp[m]]
    /\ buffered \subseteq Model
    /\ said[1] \in {"infer", "simulate"} => Kind = "library" /\ said[2] \in Model
    /\ Kind = "library" => \A m \in Model \ mixed : Simulated(m)
    /\ DeviceFollowed /\ SimulateFresh /\ BufferKept

LEMMA CacheInit == Init => CacheInv
  <1> SUFFICES ASSUME Init PROVE CacheInv
    OBVIOUS
  <1>1. (CHOOSE v \in Version : TRUE) \in Version
    BY RuntimeAssumption
  <1>2. file \in [Model -> Version \cup {"none"}] /\ proc \in Process
    BY <1>1 DEF Init, RuntimeInit
  <1>3. eng = [m \in Model |-> NoEngine] /\ net = [m \in Model |-> "none"] /\ temp = [m \in Model |-> "none"]
    BY DEF Init, RuntimeInit
  <1>4. said[1] = "none" /\ buffered = {}
    BY DEF Init, RuntimeInit, NothingSaid
  <1>5. eng = [m \in Model |-> eng[m]] /\ net = [m \in Model |-> net[m]] /\ temp = [m \in Model |-> temp[m]]
    BY <1>3
  <1>6. \A m \in Model : Simulated(m)
    BY <1>3 DEF Simulated
  <1> QED
    BY <1>2, <1>4, <1>5, <1>6 DEF CacheInv, DeviceFollowed, SimulateFresh, BufferKept

\* A step that changes nothing of the library.
LEMMA CacheStill ==
  ASSUME CacheInv, UNCHANGED <<libraryVars, proc>>
  PROVE  CacheInv'
  BY DEF CacheInv, libraryVars, Kind, Simulated, DeviceFollowed, SimulateFresh, BufferKept, InferDevice

\* A step that leaves the engines and networks alone, after which nothing is claimed of the
\* call that was made last.
LEMMA CacheQuiet ==
  ASSUME CacheInv, UNCHANGED <<proc, eng, net, mixed, buffered>>, said'[1] \notin {"infer", "simulate"},
         file' \in [Model -> Version \cup {"none"}], temp' = [m \in Model |-> temp'[m]]
  PROVE  CacheInv'
  BY DEF CacheInv, Kind, Simulated, DeviceFollowed, SimulateFresh, BufferKept

\* A call for the model m, which leaves it with the engine w and the network v.
LEMMA CacheCall ==
  ASSUME CacheInv, NEW m \in Model, NEW w, NEW v, NEW call, Said(call, m),
         UNCHANGED <<proc, policy, temp, file>>,
         eng' = [eng EXCEPT ![m] = w], net' = [net EXCEPT ![m] = v],
         mixed \subseteq mixed', mixed' \subseteq mixed \cup {m}, buffered' \subseteq buffered \cup {m},
         call \in {"infer", "simulate"} => Kind = "library",
         call = "infer" => w.dev = InferDevice(m),
         call = "simulate" /\ m \notin mixed' => DigestOf(w.net) = DigestOf(file[m]),
         Kind = "library" /\ m \notin mixed' =>
            (w = NoEngine /\ v = "none") \/ (w.net \in Version /\ w.md5 = Digest[w.net]),
         m \in buffered' => v = "buffer" /\ w.net \in {"none", "buffer"}
  PROVE  CacheInv'
  <1>1. eng'[m] = w /\ net'[m] = v /\ said'[1] = call /\ said'[2] = m
    BY DEF CacheInv, Said
  <1>2. \A u \in Model : u # m => eng'[u] = eng[u] /\ net'[u] = net[u]
    BY DEF CacheInv
  <1>3. Kind' = Kind /\ InferDevice(m)' = InferDevice(m)
    BY DEF Kind, InferDevice
  <1>4. eng' = [u \in Model |-> eng'[u]] /\ net' = [u \in Model |-> net'[u]]
    BY DEF CacheInv
  <1>5. Kind = "library" => \A u \in Model \ mixed' : Simulated(u)'
    <2> SUFFICES ASSUME Kind = "library", NEW u \in Model \ mixed' PROVE Simulated(u)'
      OBVIOUS
    <2>1. CASE u = m
      BY <2>1, <1>1 DEF Simulated
    <2>2. CASE u # m
      BY <2>2, <1>2 DEF Simulated, CacheInv
    <2> QED
      BY <2>1, <2>2
  <1>6. DeviceFollowed' /\ SimulateFresh'
    BY <1>1, <1>3 DEF DeviceFollowed, SimulateFresh, DigestOf
  <1>7. BufferKept'
    BY <1>1, <1>2 DEF BufferKept, CacheInv
  <1> QED
    BY <1>1, <1>3, <1>4, <1>5, <1>6, <1>7 DEF CacheInv

\* A handler's inference with the model m.
LEMMA CacheServed ==
  ASSUME CacheInv, Kind # "library", NEW m, NEW w, NEW v,
         UNCHANGED <<proc, policy, temp, file, said, mixed, buffered>>,
         eng' = [eng EXCEPT ![m] = w], net' = [net EXCEPT ![m] = v],
         m \in buffered => v = "buffer" /\ w.net \in {"none", "buffer"}
  PROVE  CacheInv'
  <1>1. \A u \in Model : /\ u = m => eng'[u] = w /\ net'[u] = v
                         /\ u # m => eng'[u] = eng[u] /\ net'[u] = net[u]
    BY DEF CacheInv
  <1>2. eng' = [u \in Model |-> eng'[u]] /\ net' = [u \in Model |-> net'[u]]
    BY DEF CacheInv
  <1>3. Kind' = Kind /\ said'[1] \notin {"infer", "simulate"}
    BY DEF CacheInv, Kind
  <1>4. BufferKept'
    BY <1>1 DEF CacheInv, BufferKept
  <1> QED
    BY <1>2, <1>3, <1>4 DEF CacheInv, DeviceFollowed, SimulateFresh

-----------------------------------------------------------------------------
\* What the constructors of an engine leave behind for m.
LEMMA BuildOkLeaves ==
  ASSUME NEW m, NEW d, NEW n, BuildOk(m, d, n)
  PROVE  \E w, v : /\ eng' = [eng EXCEPT ![m] = w] /\ net' = [net EXCEPT ![m] = v]
                   /\ w.dev = d /\ w.md5 = DigestOf(file[m])
                   /\ w.net = v /\ v # "none"
                   /\ v = IF net[m] # "none" THEN net[m] ELSE file[m]
  <1>1. Wrapper(m, d, n).dev = d /\ Wrapper(m, d, n).md5 = DigestOf(file[m]) /\ Wrapper(m, d, n).net = Network(m)
    BY DEF Wrapper
  <1> QED
    BY <1>1 DEF BuildOk, Network

LEMMA BuildThrowsLeaves ==
  ASSUME CacheInv, NEW m, BuildThrows(m)
  PROVE  \E v : /\ eng' = [eng EXCEPT ![m] = NoEngine] /\ net' = [net EXCEPT ![m] = v]
                /\ net[m] # "none" => v = net[m]
  <1>1. net = [net EXCEPT ![m] = net[m]]
    BY DEF CacheInv
  <1>2. CASE UNCHANGED net
    BY <1>1, <1>2 DEF BuildThrows
  <1>3. CASE net' = [net EXCEPT ![m] = Network(m)]
    BY <1>3 DEF BuildThrows, Network
  <1> QED
    BY <1>2, <1>3 DEF BuildThrows

LEMMA Untouched ==
  ASSUME CacheInv, NEW m, UNCHANGED <<eng, net>>
  PROVE  eng' = [eng EXCEPT ![m] = eng[m]] /\ net' = [net EXCEPT ![m] = net[m]]
  BY DEF CacheInv

\* The OpenVINO entity keeps a network that was given as a buffer, and an engine for an
\* inference that ends well is on the device of the policy.
LEMMA OpenVinoLeaves ==
  ASSUME CacheInv, NEW m, NEW n, NEW empty, NEW out, OpenVino(m, n, empty, out)
  PROVE  \E w, v : /\ eng' = [eng EXCEPT ![m] = w] /\ net' = [net EXCEPT ![m] = v]
                   /\ out = "ok" => w.dev = InferDevice(m)
                   /\ m \in buffered => v = "buffer" /\ w.net \in {"none", "buffer"}
  <1>1. NoEngine.net = "none"
    BY DEF NoEngine
  <1>2. m \in buffered => net[m] = "buffer" /\ eng[m].net \in {"none", "buffer"}
    BY DEF CacheInv, BufferKept
  <1>3. CASE UNCHANGED <<eng, net>> /\ out # "ok"
    BY <1>2, <1>3, Untouched
  <1>4. CASE Prepared(m, InferDevice(m), n)
    <2>1. CASE Unfit(m, InferDevice(m))
      <3>1. BuildOk(m, InferDevice(m), Smaller(n, MaxBatch))
        BY <1>4, <2>1 DEF Prepared
      <3> QED
        BY <3>1, <1>2, BuildOkLeaves
    <2>2. CASE ~Unfit(m, InferDevice(m))
      <3>1. UNCHANGED <<eng, net>> /\ eng[m].dev = InferDevice(m)
        BY <1>4, <2>2 DEF Prepared, Unfit
      <3> QED
        BY <3>1, <1>2, Untouched
    <2> QED
      BY <2>1, <2>2
  <1>5. CASE BuildThrows(m) /\ out # "ok"
    BY <1>1, <1>2, <1>5, BuildThrowsLeaves
  <1> QED
    BY <1>3, <1>4, <1>5 DEF OpenVino, Terminates
-----------------------------------------------------------------------------
(* The calls of an application.                                            *)

LEMMA LibInferCaches ==
  ASSUME CacheInv, Kind = "library", NEW m \in Model, NEW n, LibInfer(m, n), UNCHANGED proc
  PROVE  CacheInv'
  <1>1. PICK out \in {"ok", "fail", "die"} :
           OpenVino(m, n, FALSE, out) /\ Said(IF out = "ok" THEN "infer" ELSE "error", m)
    BY DEF LibInfer
  <1>2. UNCHANGED <<policy, temp, file, buffered>> /\ mixed' = mixed \cup {m}
    BY DEF LibInfer
  <1>3. PICK w, v : /\ eng' = [eng EXCEPT ![m] = w] /\ net' = [net EXCEPT ![m] = v]
                    /\ out = "ok" => w.dev = InferDevice(m)
                    /\ m \in buffered => v = "buffer" /\ w.net \in {"none", "buffer"}
    BY <1>1, OpenVinoLeaves
  <1>4. CASE out = "ok"
    BY <1>1, <1>2, <1>3, <1>4, CacheCall
  <1>5. CASE out # "ok"
    BY <1>1, <1>2, <1>3, <1>5, CacheCall
  <1> QED
    BY <1>4, <1>5

LEMMA LibVideoInitCaches ==
  ASSUME CacheInv, NEW m \in Model, NEW d, LibVideoInit(m, d), UNCHANGED proc
  PROVE  CacheInv'
  <1>1. UNCHANGED <<policy, temp, file, buffered>> /\ mixed' = mixed \cup {m}
    BY DEF LibVideoInit
  <1>2. m \in buffered => net[m] = "buffer" /\ eng[m].net \in {"none", "buffer"}
    BY DEF CacheInv, BufferKept
  <1>3. NoEngine.net = "none"
    BY DEF NoEngine
  <1>4. CASE UNCHANGED <<eng, net>> /\ Said("video", m)
    BY <1>1, <1>2, <1>4, Untouched, CacheCall
  <1>5. CASE BuildOk(m, d, 1) /\ Said("video", m)
    <2>1. PICK w, v : /\ eng' = [eng EXCEPT ![m] = w] /\ net' = [net EXCEPT ![m] = v]
                      /\ w.net = v /\ (net[m] # "none" => v = net[m])
      BY <1>5, BuildOkLeaves
    <2> QED
      BY <1>1, <1>2, <1>5, <2>1, CacheCall
  <1>6. CASE BuildThrows(m) /\ Said("throw", m)
    <2>1. PICK v : /\ eng' = [eng EXCEPT ![m] = NoEngine] /\ net' = [net EXCEPT ![m] = v]
                   /\ net[m] # "none" => v = net[m]
      BY <1>6, BuildThrowsLeaves
    <2> QED
      BY <1>1, <1>2, <1>3, <1>6, <2>1, CacheCall
  <1> QED
    BY <1>4, <1>5, <1>6 DEF LibVideoInit

LEMMA LibInitFromBufferCaches ==
  ASSUME CacheInv, NEW m \in Model, NEW n, LibInitFromBuffer(m, n), UNCHANGED proc
  PROVE  CacheInv'
  <1> DEFINE d == InferDevice(m)
             w == BufferWrapper(m, d, n)
  <1>1. UNCHANGED <<policy, temp, file>> /\ mixed' = mixed \cup {m}
    BY DEF LibInitFromBuffer
  <1>2. m \in buffered => net[m] = "buffer" /\ eng[m].net \in {"none", "buffer"}
    BY DEF CacheInv, BufferKept
  <1>3. NoEngine.net = "none"
    BY DEF NoEngine
  <1>4. w.net = IF net[m] # "none" THEN net[m] ELSE "buffer"
    BY DEF BufferWrapper
  <1>5. \/ UNCHANGED <<eng, net, buffered>> /\ Said("buffer", m)
        \/ /\ eng' = [eng EXCEPT ![m] = w] /\ net' = [net EXCEPT ![m] = w.net] /\ Said("buffer", m)
           /\ buffered' = IF w.net = "buffer" THEN buffered \cup {m} ELSE buffered
        \/ /\ eng' = [eng EXCEPT ![m] = NoEngine] /\ net' = [net EXCEPT ![m] = w.net] /\ Said("throw", m)
           /\ UNCHANGED buffered
    BY DEF LibInitFromBuffer
  <1> HIDE DEF w, d
  <1>6. CASE UNCHANGED <<eng, net, buffered>> /\ Said("buffer", m)
    BY <1>1, <1>2, <1>6, Untouched, CacheCall
  <1>7. CASE /\ eng' = [eng EXCEPT ![m] = w] /\ net' = [net EXCEPT ![m] = w.net] /\ Said("buffer", m)
             /\ buffered' = IF w.net = "buffer" THEN buffered \cup {m} ELSE buffered
    BY <1>1, <1>2, <1>4, <1>7, CacheCall
  <1>8. CASE /\ eng' = [eng EXCEPT ![m] = NoEngine] /\ net' = [net EXCEPT ![m] = w.net] /\ Said("throw", m)
             /\ UNCHANGED buffered
    BY <1>1, <1>2, <1>3, <1>4, <1>8, CacheCall
  <1> QED
    BY <1>5, <1>6, <1>7, <1>8

LEMMA LibSimulateInitCaches ==
  ASSUME CacheInv, Kind = "library", NEW m \in Model, NEW d, NEW n, LibSimulateInit(m, d, n), UNCHANGED proc
  PROVE  CacheInv'
  <1>1. UNCHANGED <<policy, temp, file>> /\ buffered' = buffered \ {m}
    BY DEF LibSimulateInit
  <1>2. /\ file[m] \in Version \cup {"none"} /\ {"none", "unset"} \cap Version = {}
        /\ \A v \in Version : Digest[v] \notin {"none", "unset"} /\ DigestOf(v) = Digest[v]
        /\ DigestOf("none") = "none"
    BY RuntimeAssumption DEF CacheInv, DigestOf
  <1>3. m \notin mixed => Simulated(m)
    BY DEF CacheInv
  <1>4. PICK fails \in BOOLEAN :
          /\ \/ eng[m] = NoEngine /\ IF fails THEN BuildThrows(m) ELSE BuildOk(m, d, n)
             \/ eng[m] # NoEngine /\ IF fails THEN RenewalThrows(m) ELSE Renewed(m, d, n)
             \/ eng[m] # NoEngine /\ FALSE \in ChangedModel(m) /\ ~fails /\ UNCHANGED <<eng, net>>
          /\ Said(IF fails THEN "throw" ELSE "simulate", m)
          /\ mixed' = IF fails THEN mixed \cup {m} ELSE mixed
    BY DEF LibSimulateInit
  <1>5. NoEngine.md5 = "none"
    BY DEF NoEngine
  <1>6. CASE fails
    <2>1. Said("throw", m) /\ mixed' = mixed \cup {m}
      BY <1>4, <1>6
    <2>2. \E v : eng' = [eng EXCEPT ![m] = NoEngine] /\ net' = [net EXCEPT ![m] = v]
      BY <1>4, <1>6, BuildThrowsLeaves DEF RenewalThrows
    <2> QED
      BY <1>1, <2>1, <2>2, CacheCall
  <1>7. CASE ~fails
    <2>1. Said("simulate", m) /\ mixed' = mixed
      BY <1>4, <1>7
    <2>2. CASE eng[m] = NoEngine /\ BuildOk(m, d, n)
      <3>1. PICK w, v : /\ eng' = [eng EXCEPT ![m] = w] /\ net' = [net EXCEPT ![m] = v]
                        /\ w.md5 = DigestOf(file[m]) /\ w.net = v /\ v # "none"
                        /\ v = IF net[m] # "none" THEN net[m] ELSE file[m]
        BY <2>2, BuildOkLeaves
      <3>2. m \notin mixed => net[m] = "none"
        BY <1>2, <1>3, <1>5, <2>2 DEF Simulated
      <3>3. m \notin mixed => w.net = file[m] /\ file[m] \in Version /\ w.md5 = Digest[w.net]
        BY <1>2, <3>1, <3>2
      <3> QED
        BY <1>1, <2>1, <3>1, <3>3, CacheCall
    <2>3. CASE Renewed(m, d, n)
      <3> DEFINE w == [dev |-> d, batch |-> n, net |-> file[m], md5 |-> DigestOf(file[m])]
      <3>1. eng' = [eng EXCEPT ![m] = w] /\ net' = [net EXCEPT ![m] = file[m]] /\ file[m] \in Version
        BY <1>2, <2>3 DEF Renewed
      <3>2. w.net = file[m] /\ w.md5 = Digest[file[m]]
        BY <1>2, <3>1
      <3> HIDE DEF w
      <3> QED
        BY <1>1, <2>1, <3>1, <3>2, CacheCall
    <2>4. CASE eng[m] # NoEngine /\ FALSE \in ChangedModel(m) /\ UNCHANGED <<eng, net>>
      <3>1. m \notin mixed => eng[m].net \in Version /\ eng[m].md5 = Digest[eng[m].net]
        BY <1>3, <2>4 DEF Simulated
      <3>2. m \notin mixed => eng[m].md5 = DigestOf(file[m])
        BY <1>2, <2>4, <3>1 DEF ChangedModel
      <3>4. m \notin mixed => DigestOf(eng[m].net) = DigestOf(file[m])
        BY <1>2, <3>1, <3>2
      <3>3. eng' = [eng EXCEPT ![m] = eng[m]] /\ net' = [net EXCEPT ![m] = net[m]]
        BY <2>4, Untouched
      <3> QED
        BY <1>1, <2>1, <3>1, <3>3, <3>4, CacheCall
    <2> QED
      BY <1>4, <1>7, <2>2, <2>3, <2>4
  <1> QED
    BY <1>6, <1>7

LEMMA LibraryCaches ==
  ASSUME CacheInv, Library
  PROVE  CacheInv'
  <1>1. Kind = "library" /\ UNCHANGED proc
    BY DEF Library, fixedVars
  <1>2. PICK m \in AppModel : LibraryCall(m) \/ \E v \in Version \cup {"none"} : ReplaceFile(m, v)
    BY DEF Library
  <1>3. m \in Model
    BY <1>2
  <1>4. CASE \E v \in Version \cup {"none"} : ReplaceFile(m, v)
    <2>1. PICK v \in Version \cup {"none"} : ReplaceFile(m, v)
      BY <1>4
    <2>2. file' \in [Model -> Version \cup {"none"}] /\ said'[1] = "none"
      BY <2>1 DEF ReplaceFile, CacheInv, NothingSaid
    <2> QED
      BY <1>1, <2>1, <2>2, CacheQuiet DEF ReplaceFile, CacheInv
  <1>5. ASSUME NEW d, LibSetDevice(m, d) PROVE CacheInv'
    <2>1. said'[1] = "device" /\ temp' = [u \in Model |-> temp'[u]]
      BY <1>5 DEF LibSetDevice, Said, CacheInv
    <2> QED
      BY <1>1, <1>5, <2>1, CacheQuiet DEF LibSetDevice, CacheInv
  <1>6. CASE LibUse(m)
    <2>1. said'[1] \in {"error", "use"}
      BY <1>6 DEF LibUse, Said
    <2> QED
      BY <1>1, <1>6, <2>1, CacheQuiet DEF LibUse, CacheInv
  <1>7. CASE LibraryCall(m)
    BY <1>1, <1>3, <1>5, <1>6, <1>7, LibInferCaches, LibVideoInitCaches, LibInitFromBufferCaches,
       LibSimulateInitCaches DEF LibraryCall
  <1> QED
    BY <1>2, <1>4, <1>7

-----------------------------------------------------------------------------
(* The services.                                                           *)

LEMMA SetupCaches ==
  ASSUME CacheInv, Setup
  PROVE  CacheInv'
  <1>1. UNCHANGED <<proc, policy>> /\ proc \in Process
    BY DEF Setup, fixedVars, CacheInv
  <1>2. CASE Main[proc].setup = "none"
    BY <1>1, <1>2, CacheStill DEF Setup, libraryVars
  <1>3. CASE Main[proc].setup # "none"
    BY <1>1, <1>3, SetupAssumption, LibInitFromBufferCaches DEF Setup
  <1> QED
    BY <1>2, <1>3

LEMMA InferBeginCaches ==
  ASSUME IInv, CacheInv, NEW t \in Thread, InferBegin(t)
  PROVE  CacheInv'
  <1> DEFINE s == StageOf(req[t])
  <1>1. req[t].pc = "work" /\ UNCHANGED <<proc, policy, temp, file, said, mixed, buffered>>
    BY DEF InferBegin, fixedVars
  <1>2. Kind # "library"
    BY <1>1 DEF IInv, Served, Serving
  <1>3. \/ UNCHANGED <<eng, net>>
        \/ \E n, out : Backend(s.backend, s.model, n, req[t].empty, out)
    BY DEF InferBegin
  <1>4. CASE UNCHANGED <<eng, net>>
    BY <1>1, <1>4, CacheStill DEF libraryVars
  <1>5. ASSUME NEW n, NEW out, OpenVino(s.model, n, req[t].empty, out) PROVE CacheInv'
    BY <1>1, <1>2, <1>5, OpenVinoLeaves, CacheServed
  <1> QED
    BY <1>3, <1>4, <1>5 DEF Backend

LEMMA NextCaches == IInv /\ CacheInv /\ [Next]_vars => CacheInv'
  <1> SUFFICES ASSUME IInv, CacheInv, [Next]_vars PROVE CacheInv'
    OBVIOUS
  <1>1. CASE UNCHANGED vars \/ SetupFails \/ Kill
    BY <1>1, CacheStill DEF vars, runtimeVars, libraryVars, fixedVars, SetupFails, Kill
  <1>2. CASE PolicyChange
    <2>1. UNCHANGED <<proc, eng, net, mixed, buffered, temp, file>> /\ said'[1] = "none"
      BY <1>2 DEF PolicyChange, SetPolicy, fixedVars, NothingSaid
    <2> QED
      BY <2>1, CacheQuiet DEF CacheInv
  <1>3. CASE Restart
    <2>1. /\ eng' = [m \in Model |-> NoEngine] /\ net' = [m \in Model |-> "none"]
          /\ temp' = [m \in Model |-> "none"]
      BY <1>3 DEF Restart
    <2>2. UNCHANGED <<proc, file>> /\ said'[1] = "none" /\ mixed' = {} /\ buffered' = {}
      BY <1>3 DEF Restart, fixedVars, NothingSaid
    <2>3. eng' = [m \in Model |-> eng'[m]] /\ net' = [m \in Model |-> net'[m]]
          /\ temp' = [m \in Model |-> temp'[m]]
      BY <2>1
    <2>4. \A m \in Model : Simulated(m)'
      BY <2>1 DEF Simulated
    <2> QED
      BY <2>2, <2>3, <2>4 DEF CacheInv, DeviceFollowed, SimulateFresh, BufferKept
  <1>4. ASSUME NEW t \in Thread, Accept(t) \/ HealthCheck(t) \/ Lock(t) \/ Work(t) PROVE CacheInv'
    <2>1. CASE Accept(t) \/ HealthCheck(t) \/ Lock(t)
      BY <2>1, CacheStill DEF Accept, HealthCheck, Lock, runtimeVars, libraryVars, fixedVars
    <2>2. CASE BadFrame(t) \/ InferEnd(t) \/ HealthAnswer(t)
      BY <2>2, CacheStill DEF BadFrame, InferEnd, HealthAnswer, fixedVars
    <2> QED
      BY <1>4, <2>1, <2>2, InferBeginCaches DEF Work
  <1> QED
    BY <1>1, <1>2, <1>3, <1>4, SetupCaches, LibraryCaches DEF Next

\* For any models, devices, contents of the files, and any order of the library's calls with
\* changes of the policy and of the files: an inference that has ended well ran on the device
\* asked for, simulate_lib_init leaves for a model that only it uses an engine with the digest
\* of the file as it is, and a network given as a buffer stays.
THEOREM CachesProved == Spec => []CachesFollow
  <1>1. CacheInv => CachesFollow
    BY DEF CacheInv, CachesFollow
  <1> QED
    BY <1>1, Invariant, CacheInit, NextCaches, PTL DEF Spec

-----------------------------------------------------------------------------
(* The mutex of the gRPC server.                                           *)

\* Besides who may hold it: a process without threads of gRPC has no mutex.
HeldInv == MutexReleased /\ (Kind # "grpc" => holder = Nobody)

LEMMA HeldMoves ==
  ASSUME IInv, HeldInv, NEW t \in Thread, NEW r, req' = [req EXCEPT ![t] = r], UNCHANGED proc,
         \A u \in Thread : u # t /\ holder' = u => holder = u,
         holder' = t => r.pc \in {"work", "infer"},
         Kind # "grpc" => holder' = Nobody
  PROVE  HeldInv'
  <1>1. req'[t] = r /\ \A u \in Thread : u # t => req'[u] = req[u]
    BY DEF IInv
  <1>2. Kind' = Kind
    BY DEF Kind
  <1>3. MutexReleased'
    BY <1>1 DEF HeldInv, MutexReleased
  <1> QED
    BY <1>2, <1>3 DEF HeldInv

LEMMA NoThread == \A t \in Thread : t # Nobody /\ t # Thrown
  BY DEF Nobody, Thrown

LEMMA DieHeld ==
  ASSUME Die, UNCHANGED proc
  PROVE  HeldInv'
  <1>1. holder' = Nobody
    BY DEF Die
  <1> QED
    BY <1>1, NoThread DEF HeldInv, MutexReleased, Nobody

LEMMA AnswerHeld ==
  ASSUME IInv, HeldInv, NEW t \in Thread, NEW a, Answer(t, a), UNCHANGED proc
  PROVE  HeldInv'
  <1>1. holder' # t /\ \A u \in Thread : u # t /\ holder' = u => holder = u
    BY NoThread DEF Answer
  <1>2. Kind # "grpc" => holder' = Nobody
    BY NoThread DEF Answer, HeldInv
  <1> QED
    BY <1>1, <1>2, HeldMoves DEF Answer

LEMMA ReactHeld ==
  ASSUME IInv, HeldInv, NEW t \in Thread, NEW res \in {"ok", "fail", "remote"}, req[t].pc \in {"work", "infer"},
         React(t, res), UNCHANGED proc
  PROVE  HeldInv'
  <1>1. HandlerOK(req[t].job, Kind) /\ req[t].k \in DOMAIN req[t].job.stages /\ Fields(req[t])
    BY Working
  <1>2. PICK a \in Reactions(StageOf(req[t]), res) :
           CASE a = "go" -> \E n \in Regions(req[t], res) : Advance(t, n, res)
             [] a = "die" -> Die
             [] a = "throw" -> Throws(t)
             [] OTHER -> Answer(t, a)
    BY DEF React
  <1>3. ASSUME NEW n, Advance(t, n, res) PROVE HeldInv'
    <2> DEFINE r == [req[t] EXCEPT !.pc = "work", !.call = NoCall, !.made = @ \cup {res}]
    <2>1. Fields(r) /\ r.pc = "work"
      <3>0. r = [req[t] EXCEPT !.pc = "work", !.call = NoCall, !.made = @ \cup {res}]
        OBVIOUS
      <3> HIDE DEF r
      <3> QED
        BY <1>1, <3>0 DEF Fields
    <2>2. ASSUME NEW q, q.pc = "work", req' = [req EXCEPT ![t] = q], UNCHANGED holder
          PROVE  HeldInv'
      BY <2>2, HeldMoves DEF HeldInv
    <2>3. [r EXCEPT !.left = @ - 1].pc = "work"
      BY <2>1 DEF Fields
    <2>4. \A k, c : [r EXCEPT !.k = k, !.left = c, !.n = n, !.empty = FALSE].pc = "work"
      BY <2>1 DEF Fields
    <2>5. \/ \E b : Answer(t, b)
          \/ req' = [req EXCEPT ![t] = [r EXCEPT !.left = @ - 1]] /\ UNCHANGED holder
          \/ \E k, c : /\ req' = [req EXCEPT ![t] = [r EXCEPT !.k = k, !.left = c, !.n = n, !.empty = FALSE]]
                       /\ UNCHANGED holder
      BY <1>3 DEF Advance
    <2> HIDE DEF r
    <2> QED
      BY <2>2, <2>3, <2>4, <2>5, AnswerHeld
  <1>4. CASE a = "die"
    BY <1>2, <1>4, DieHeld
  <1>5. CASE a = "throw"
    <2>1. Kind = "grpc"
      BY <1>1, <1>5 DEF HandlerOK, Reactions, StageOf, Harm
    <2>2. Throws(t)
      BY <1>2, <1>5
    <2> QED
      BY <2>1, <2>2, NoThread, HeldMoves DEF Throws
  <1>6. CASE a \notin {"go", "die", "throw"}
    BY <1>2, <1>6, AnswerHeld
  <1> QED
    BY <1>2, <1>3, <1>4, <1>5, <1>6

\* A thread that holds the mutex does not accept, or begin to wait.
LEMMA AcceptHeld ==
  ASSUME IInv, HeldInv, NEW t \in Thread, Accept(t) \/ HealthCheck(t)
  PROVE  HeldInv'
  <1>1. req[t].pc = "idle" /\ UNCHANGED <<proc, holder>>
    BY DEF Accept, HealthCheck, fixedVars
  <1>2. holder # t
    BY <1>1 DEF HeldInv, MutexReleased
  <1>3. UNCHANGED req \/ \E r : req' = [req EXCEPT ![t] = r]
    BY DEF Accept, HealthCheck
  <1>4. CASE UNCHANGED req
    BY <1>1, <1>4 DEF HeldInv, MutexReleased, Kind
  <1>5. CASE \E r : req' = [req EXCEPT ![t] = r]
    BY <1>1, <1>2, <1>5, HeldMoves DEF HeldInv
  <1> QED
    BY <1>3, <1>4, <1>5

LEMMA LockHeld ==
  ASSUME IInv, HeldInv, NEW t \in Thread, Lock(t)
  PROVE  HeldInv'
  <1>1. req[t].pc = "wait" /\ holder = Nobody /\ holder' = t /\ UNCHANGED proc
    BY DEF Lock, fixedVars
  <1>2. Fields(req[t]) /\ Kind = "grpc"
    BY <1>1 DEF IInv, Doing
  <1>3. PICK r : r = [req[t] EXCEPT !.pc = "work"] /\ req' = [req EXCEPT ![t] = r]
    BY DEF Lock
  <1>4. r.pc = "work"
    BY <1>2, <1>3 DEF Fields
  <1> QED
    BY <1>1, <1>2, <1>3, <1>4, HeldMoves

LEMMA InferBeginHeld ==
  ASSUME IInv, HeldInv, NEW t \in Thread, InferBegin(t)
  PROVE  HeldInv'
  <1>1. req[t].pc = "work" /\ UNCHANGED proc
    BY DEF InferBegin, fixedVars
  <1>2. Fields(req[t])
    BY DEF IInv, Doing
  <1>3. ASSUME NEW call, req' = [req EXCEPT ![t].pc = "infer", ![t].call = call], UNCHANGED holder
        PROVE  HeldInv'
    <2>1. PICK r : r = [req[t] EXCEPT !.pc = "infer", !.call = call]
      OBVIOUS
    <2>2. r.pc = "infer"
      BY <1>2, <2>1 DEF Fields
    <2>3. req' = [req EXCEPT ![t] = r]
      BY <1>3, <2>1 DEF IInv
    <2> QED
      BY <1>1, <1>3, <2>2, <2>3, HeldMoves DEF HeldInv
  <1>4. CASE Die
    BY <1>1, <1>4, DieHeld
  <1> QED
    BY <1>3, <1>4 DEF InferBegin

LEMMA WorkHeld ==
  ASSUME IInv, HeldInv, NEW t \in Thread, Work(t)
  PROVE  HeldInv'
  <1>1. CASE BadFrame(t)
    <2>1. req[t].pc = "work" /\ UNCHANGED proc
      BY <1>1 DEF BadFrame, fixedVars
    <2>2. PICK a : CASE a = "die" -> Die [] a = "fail" -> React(t, "fail") [] OTHER -> Answer(t, a)
      BY <1>1 DEF BadFrame
    <2>3. CASE a = "die"
      BY <2>1, <2>2, <2>3, DieHeld
    <2>4. CASE a = "fail"
      BY <2>1, <2>2, <2>4, ReactHeld
    <2>5. CASE a \notin {"die", "fail"}
      BY <2>1, <2>2, <2>5, AnswerHeld
    <2> QED
      BY <2>3, <2>4, <2>5
  <1>2. CASE InferEnd(t)
    <2>1. req[t].pc = "infer" /\ UNCHANGED proc
      BY <1>2 DEF InferEnd, fixedVars
    <2>2. Doing(req[t])
      BY <2>1, Working
    <2>3. PICK res \in {"ok", "fail", "remote"} : React(t, res)
      BY <1>2, <2>1, <2>2 DEF InferEnd, HttpPost, Doing
    <2> QED
      BY <2>1, <2>3, ReactHeld
  <1>3. CASE HealthAnswer(t)
    BY <1>3, AnswerHeld DEF HealthAnswer, fixedVars
  <1> QED
    BY <1>1, <1>2, <1>3, InferBeginHeld DEF Work

LEMMA NextHeld == IInv /\ HeldInv /\ [Next]_vars => HeldInv'
  <1> SUFFICES ASSUME IInv, HeldInv, [Next]_vars PROVE HeldInv'
    OBVIOUS
  <1>1. CASE UNCHANGED vars \/ Setup \/ Restart \/ PolicyChange \/ Library
    <2>1. UNCHANGED <<proc, req, holder>>
      BY <1>1 DEF vars, Setup, Restart, PolicyChange, Library, fixedVars
    <2> QED
      BY <2>1 DEF HeldInv, MutexReleased, Kind
  <1>2. CASE SetupFails \/ Kill
    BY <1>2, DieHeld DEF SetupFails, Kill, fixedVars
  <1> QED
    BY <1>1, <1>2, AcceptHeld, LockHeld, WorkHeld DEF Next

LEMMA InitHeld == Init => HeldInv
  BY NoThread DEF Init, HeldInv, MutexReleased

\* With any number of threads and methods: only a thread that works on a request has the mutex
\* of the gRPC server locked; whatever its method returns, no other way out of it but an
\* exception leaves it locked.
THEOREM MutexProved == Spec => []MutexReleased
  <1>1. HeldInv => MutexReleased
    BY DEF HeldInv
  <1> QED
    BY <1>1, Invariant, InitHeld, NextHeld, PTL DEF Spec

\* While a method that has thrown keeps the mutex, no thread is between lock and unlock.
LEMMA StrandedStep ==
  ASSUME IInv, HeldInv, [Next]_vars, holder = Thrown, up', ~UNCHANGED vars
  PROVE  holder' = Thrown /\ \A t \in Thread : answer'[t] \in {"none", "refused", "TIMEOUT"}
  <1>1. Kind = "grpc" /\ holder # Nobody
    BY DEF HeldInv, Nobody, Thrown
  <1>2. \A t \in Thread : req[t].pc \notin {"work", "infer"}
    BY <1>1, NoThread DEF IInv, Locked
  <1>3. \A t \in Thread : Silence[t] = "none"
    BY DEF Silence
  <1>4. ASSUME NEW t \in Thread, NEW a \in {"refused", "TIMEOUT"}, answer' = Says(t, a)
        PROVE  \A u \in Thread : answer'[u] \in {"none", "refused", "TIMEOUT"}
    BY <1>4 DEF Says, Silence
  <1>5. CASE Setup \/ Restart \/ PolicyChange \/ Library
    BY <1>3, <1>5 DEF Setup, Restart, PolicyChange, Library
  <1>6. CASE SetupFails \/ Kill
    BY <1>6 DEF SetupFails, Kill, Die
  <1>7. ASSUME NEW t \in Thread, Accept(t) \/ HealthCheck(t)
        PROVE  holder' = Thrown /\ \A u \in Thread : answer'[u] \in {"none", "refused", "TIMEOUT"}
    BY <1>3, <1>4, <1>7 DEF Accept, HealthCheck
  <1>8. ASSUME NEW t \in Thread, Lock(t) \/ BadFrame(t) \/ InferBegin(t) \/ InferEnd(t) PROVE FALSE
    BY <1>1, <1>2, <1>8 DEF Lock, BadFrame, InferBegin, InferEnd
  <1>9. ASSUME NEW t \in Thread, HealthAnswer(t)
        PROVE  holder' = Thrown /\ \A u \in Thread : answer'[u] \in {"none", "refused", "TIMEOUT"}
    <2>1. Answer(t, "TIMEOUT")
      BY <1>1, <1>9 DEF HealthAnswer
    <2> QED
      BY <1>4, <2>1, NoThread DEF Answer
  <1> QED
    BY <1>5, <1>6, <1>7, <1>8, <1>9 DEF Next, Work

\* With any number of threads and methods: once a method has thrown, the server serves nobody
\* and fails every health check until it is ended.
THEOREM StrandedProved == Spec => StrandedSeen
  <1>1. IInv /\ HeldInv /\ [Next]_vars =>
           [holder = Thrown /\ up' =>
               holder' = Thrown /\ \A t \in Thread : answer'[t] \in {"none", "refused", "TIMEOUT"}]_vars
    BY StrandedStep
  <1> QED
    BY <1>1, Invariant, InitHeld, NextHeld, PTL DEF Spec, StrandedSeen
=============================================================================
