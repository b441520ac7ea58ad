--------------------------- MODULE InferenceRuntime ---------------------------
(***************************************************************************)
(* The inference library in one process: the choice of the place of an      *)
(* inference (vino_ie_pipe.cpp), the engines that the OpenVINO entity keeps  *)
(* by model (gEngines), and the networks its wrapper keeps by file name      *)
(* (mNetworkSet). The calls of one process never overlap here; who keeps     *)
(* them apart is the business of the module Gateway.                         *)
(***************************************************************************)
EXTENDS Integers, Sequences, FiniteSets

CONSTANTS
    Model,       \* the model files used by the process
    Device,      \* the devices IsAvailableDevice knows
    Version,     \* contents that a model can have: its .xml and its .bin
    Digest,      \* what isModelChaged compares of the MD5 of the .xml of each content
    MaxBatch     \* 16 in infer_image

ASSUME RuntimeAssumption ==
    /\ {"none", "buffer", "unset"} \cap Version = {} /\ Version # {}
    /\ \A v \in Version : Digest[v] \notin {"none", "unset"}
    /\ "CPU" \in Device /\ "none" \notin Device
    /\ MaxBatch \in Nat \ {0}

VARIABLES
    up,          \* the process lives
    policy,      \* what ReadShareMemory finds: to the server, and the device
    temp,        \* gIrtTempInferDevice, "none" where there is no entry
    file,        \* the model files, "none" for one that cannot be read
    net,         \* mNetworkSet
    eng,         \* gEngines
    said,        \* what the last call of a library user has returned: <<call, model>>
    mixed,       \* history: models not used by simulate_ie alone, or whose build has failed
    buffered     \* history: models whose network was given as a buffer

runtimeVars == <<up, policy, temp, file, net, eng, said, mixed, buffered>>

NoEngine == [dev |-> "none", batch |-> 0, net |-> "none", md5 |-> "none"]

NothingSaid == <<"none", "none">>

RuntimeInit ==
    /\ up = TRUE
    /\ policy = [server |-> FALSE, dev |-> "CPU"]
    /\ temp = [m \in Model |-> "none"]
    /\ file = [m \in Model |-> CHOOSE v \in Version : TRUE]
    /\ net = [m \in Model |-> "none"] /\ eng = [m \in Model |-> NoEngine]
    /\ said = NothingSaid /\ mixed = {} /\ buffered = {}

-----------------------------------------------------------------------------
\* The common beginning of every inference of vino_ie_pipe.cpp, for a caller that has
\* named a remote server. The load is left to PolicyRouting: here it is not busy.
toServer == policy.server

\* check_temporary_infer_device
InferDevice(m) == IF temp[m] # "none" THEN temp[m] ELSE policy.dev

\* modelFileMd5, as far as strncmp looks at it: contents that differ in the .bin alone have
\* the same, as have those whose sums agree up to a zero byte. Without an .xml it is that of
\* no bytes.
DigestOf(f) == IF f \in Version THEN Digest[f] ELSE f

\* IEWrapper's constructor: the network is read from the file only when none is kept
\* under its name; the digest is always that of the file.
Network(m) == IF net[m] # "none" THEN net[m] ELSE file[m]

Wrapper(m, d, n) == [dev |-> d, batch |-> n, net |-> Network(m), md5 |-> DigestOf(file[m])]

\* The constructor of an engine: reading, setBatchSize and LoadNetwork may throw, the last
\* two with the network already kept. A batch of no image is given to OpenVINO as well.
BuildOk(m, d, n) ==
    /\ Network(m) # "none"
    /\ eng' = [eng EXCEPT ![m] = Wrapper(m, d, n)]
    /\ net' = [net EXCEPT ![m] = Network(m)]

BuildThrows(m) ==
    /\ eng' = [eng EXCEPT ![m] = NoEngine]
    /\ \/ UNCHANGED net
       \/ Network(m) # "none" /\ net' = [net EXCEPT ![m] = Network(m)]

\* infer_image, infer_common and init_from_buffer: an engine for another device is erased.
Unfit(m, d) == eng[m] = NoEngine \/ eng[m].dev # d

Smaller(a, b) == IF a < b THEN a ELSE b

\* An engine for n images on d is at hand. Only a new engine takes its batch from n.
Prepared(m, d, n) ==
    IF Unfit(m, d) THEN BuildOk(m, d, Smaller(n, MaxBatch)) ELSE UNCHANGED <<eng, net>>

\* infer_image and infer_common are noexcept: a build that throws, and an image that
\* cannot be resized, end the process. An engine that was built for fewer images is written
\* and read past the end of its blobs, which may end it or not.
Terminates(m, d, n, empty) ==
    \/ Unfit(m, d) /\ BuildThrows(m)
    \/ empty /\ UNCHANGED <<eng, net>>
    \/ n > (IF Unfit(m, d) THEN MaxBatch ELSE eng[m].batch) /\ UNCHANGED <<eng, net>>

\* The OpenVINO entity: "fail" is -1, for no backend library or for the wrong number of pins.
OpenVino(m, n, empty, out) ==
    \/ out = "ok" /\ ~empty /\ Prepared(m, InferDevice(m), n)
    \/ out = "fail" /\ (UNCHANGED <<eng, net>> \/ Prepared(m, InferDevice(m), n))
    \/ out = "die" /\ Terminates(m, InferDevice(m), n, empty)

\* The other backends keep nothing that the next call finds. ONNX Runtime counts the pins
\* and lets exceptions end the process; TensorFlow answers -1 for what fails; PyTorch and
\* Paddle answer 0 or throw. Without the library of the backend the answer is -1.
OrtSession == {"ok", "die"}
OnnxOutcomes == {"fail"} \cup OrtSession
TfSession == {"ok", "fail"}
TensorflowOutcomes == TfSession
TorchOutcomes == {"ok", "die"}
PaddleOutcomes == {"ok", "die"}
NoEntity == {"fail"}

\* infer_speech of every entity returns 0 and leaves the buffer as it is.
SpeechOutcomes == {"ok"}

BackendOutcomes(b) ==
    NoEntity \cup CASE b = "ONNXRT" -> OnnxOutcomes [] b = "TENSORFLOW" -> TensorflowOutcomes
                    [] b = "PYTORCH" -> TorchOutcomes [] b = "PADDLE" -> PaddleOutcomes
                    [] b = "SPEECH" -> SpeechOutcomes

\* irt_infer_from_image with the name of a backend.
Backend(b, m, n, empty, out) ==
    IF b = "OPENVINO" THEN OpenVino(m, n, empty, out)
    ELSE out \in BackendOutcomes(b) /\ UNCHANGED <<eng, net>>

-----------------------------------------------------------------------------
(* The calls of an application that uses the library itself, one at a time. *)

Said(call, m) == said' = <<call, m>>

\* vino_ie_pipeline_infer_image, _infer_common and irt_infer_from_image.
LibInfer(m, n) ==
    /\ up /\ n > 0
    /\ \E out \in {"ok", "fail", "die"} :
          /\ OpenVino(m, n, FALSE, out)
          /\ up' = (out # "die")
          /\ Said(IF out = "ok" THEN "infer" ELSE "error", m)
    /\ mixed' = mixed \cup {m}
    /\ UNCHANGED <<policy, temp, file, buffered>>

\* irt_set_infer_device, whose device must be available.
LibSetDevice(m, d) ==
    /\ up /\ d \in Device \cup {"none"}
    /\ temp' = [temp EXCEPT ![m] = d]
    /\ Said("device", m)
    /\ UNCHANGED <<up, policy, file, net, eng, mixed, buffered>>

\* video_infer_init: only a model without engine gets one; exceptions reach the caller.
LibVideoInit(m, d) ==
    /\ up
    /\ \/ eng[m] # NoEngine /\ UNCHANGED <<eng, net>> /\ Said("video", m)
       \/ eng[m] = NoEngine /\ BuildOk(m, d, 1) /\ Said("video", m)
       \/ eng[m] = NoEngine /\ BuildThrows(m) /\ Said("throw", m)
    /\ mixed' = mixed \cup {m}
    /\ UNCHANGED <<up, policy, temp, file, buffered>>

\* init_from_buffer: the second constructor of IEWrapper, which leaves the digest unset.
BufferWrapper(m, d, n) ==
    [dev |-> d, batch |-> n, net |-> IF net[m] # "none" THEN net[m] ELSE "buffer", md5 |-> "unset"]

LibInitFromBuffer(m, n) ==
    /\ up
    /\ LET d == InferDevice(m)
           w == BufferWrapper(m, d, n)
       IN  \/ ~Unfit(m, d) /\ UNCHANGED <<eng, net, buffered>> /\ Said("buffer", m)
           \/ /\ Unfit(m, d)
              /\ eng' = [eng EXCEPT ![m] = w]
              /\ net' = [net EXCEPT ![m] = w.net]
              /\ buffered' = IF w.net = "buffer" THEN buffered \cup {m} ELSE buffered
              /\ Said("buffer", m)
           \/ /\ Unfit(m, d)
              /\ eng' = [eng EXCEPT ![m] = NoEngine]
              /\ net' = [net EXCEPT ![m] = w.net]
              /\ UNCHANGED buffered
              /\ Said("throw", m)
    /\ mixed' = mixed \cup {m}
    /\ UNCHANGED <<up, policy, temp, file>>

\* isModelChaged: a digest that was never set may look like any other.
ChangedModel(m) ==
    IF eng[m].md5 = "unset" THEN {TRUE, FALSE} ELSE {eng[m].md5 # DigestOf(file[m])}

\* Mutant of Renewed: the network of the old file is kept.
RenewedEngine(m, d, n) ==
    /\ eng' = [eng EXCEPT ![m] = Wrapper(m, d, n)]
    /\ net' = [net EXCEPT ![m] = Network(m)]

\* removeNetworkFromMap, and the engine of the new file.
Renewed(m, d, n) ==
    /\ file[m] # "none"
    /\ eng' = [eng EXCEPT ![m] = [dev |-> d, batch |-> n, net |-> file[m],
                                     md5 |-> DigestOf(file[m])]]
    /\ net' = [net EXCEPT ![m] = file[m]]

RenewalThrows(m) ==
    /\ eng' = [eng EXCEPT ![m] = NoEngine]
    /\ net' \in {[net EXCEPT ![m] = v] : v \in {file[m], "none"}}

\* simulate_lib_init: an engine of a changed file is replaced; configExecPart does nothing
\* for an engine that is loaded, whatever the device.
LibSimulateInit(m, d, n) ==
    /\ up
    /\ \E fails \in BOOLEAN :
          /\ \/ eng[m] = NoEngine /\ IF fails THEN BuildThrows(m) ELSE BuildOk(m, d, n)
             \/ /\ eng[m] # NoEngine /\ TRUE \in ChangedModel(m)
                /\ IF fails THEN RenewalThrows(m) ELSE Renewed(m, d, n)
             \/ eng[m] # NoEngine /\ FALSE \in ChangedModel(m) /\ ~fails /\ UNCHANGED <<eng, net>>
          /\ Said(IF fails THEN "throw" ELSE "simulate", m)
          /\ mixed' = IF fails THEN mixed \cup {m} ELSE mixed
    /\ buffered' = buffered \ {m}
    /\ UNCHANGED <<up, policy, temp, file>>

\* video_infer_frame and simulate_lib_infer: -1 for a model that was not initialised.
LibUse(m) ==
    /\ up
    /\ Said(IF eng[m] = NoEngine THEN "error" ELSE "use", m)
    /\ UNCHANGED <<up, policy, temp, file, net, eng, mixed, buffered>>

\* A new model is installed, or one is removed.
ReplaceFile(m, v) ==
    /\ up /\ v # file[m]
    /\ file' = [file EXCEPT ![m] = v]
    /\ said' = NothingSaid
    /\ UNCHANGED <<up, policy, temp, net, eng, mixed, buffered>>

\* Another process sets the policy.
SetPolicy(p) ==
    /\ up /\ policy' = p
    /\ said' = NothingSaid
    /\ UNCHANGED <<up, temp, file, net, eng, mixed, buffered>>

LibraryCall(m) ==
    \E d \in Device, n \in 1 .. MaxBatch :
        \/ LibInfer(m, n) \/ LibSetDevice(m, d) \/ LibSetDevice(m, "none")
        \/ LibVideoInit(m, d) \/ LibInitFromBuffer(m, n) \/ LibSimulateInit(m, d, n)
        \/ LibUse(m)

-----------------------------------------------------------------------------
\* infer_openvino_entity.cpp: an inference that has ended well was made by an engine on the
\* device that the policy and irt_set_infer_device ask for, though both change between
\* calls and other calls build engines for the same model.
DeviceFollowed ==
    said[1] = "infer" => eng[said[2]].dev = InferDevice(said[2])

\* simulate_lib_init: when it has returned for a model that only it uses, and whose builds
\* have not failed, the network of the engine is that of a file with the digest of the file
\* as it is now: a new .xml has been taken, new weights under the same .xml maybe not. Of a
\* model that other calls use as well nothing is said: their engine may keep an old network
\* under the digest of the new file.
SimulateFresh ==
    said[1] = "simulate" /\ said[2] \notin mixed =>
        DigestOf(eng[said[2]].net) = DigestOf(file[said[2]])

\* init_from_buffer: a model whose network was given as a buffer is never read from the
\* file by a later engine for another device.
BufferKept ==
    \A m \in buffered : net[m] = "buffer" /\ eng[m].net \in {"none", "buffer"}

\* The caches of engines and networks follow what they were made from, whatever the order of
\* the library's calls, the policy and the model files: the device, the file (as far as its
\* digest tells) and the buffer.
CachesFollow == DeviceFollowed /\ SimulateFresh /\ BufferKept
=============================================================================
