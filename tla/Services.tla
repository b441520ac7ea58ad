------------------------------- MODULE Services -------------------------------
(***************************************************************************)
(* What each service does with a request, as data: the inferences it makes  *)
(* in order, and how it reacts to an image it cannot decode, to an inference *)
(* that has failed (-1) and to one that was made by the remote server (1).   *)
(*                                                                           *)
(* Reactions: "go" on with what there is, answer an "error", answer that     *)
(* remote inference is "unsupported", "relay" the remote answer, "raise" an   *)
(* exception that loses the request, "throw" one that leaves infer_mutex       *)
(* locked as well, "die" with the whole process, and treat an image as an      *)
(* inference that has failed ("fail").                                         *)
(***************************************************************************)
EXTENDS Integers, Sequences

Reaction == {"go", "error", "unsupported", "relay", "raise", "throw", "die", "fail"}

\* work: "one" call, one call with a "batch" of the regions found before, one call for
\* "each" of them, a call for each of the "tokens" of a text, or for those of "all" regions.
\* good: how the handler goes on after a call that was good.
Stage(model, backend, work, error, remote) ==
    [model |-> model, backend |-> backend, work |-> work, good |-> {"go"}, error |-> error,
     remote |-> remote]

\* frame: an image that cannot be decoded; none: no region was found.
Handler(frame, none, stages) == [frame |-> frame, none |-> none, stages |-> stages]

Single(frame, model, backend, error, remote) ==
    Handler(frame, {"go"}, <<Stage(model, backend, "one", error, remote)>>)

\* The remote answer is searched for its first brace: in C++ substr throws when there is
\* none, which ends the process; in Python the index error loses the request.
RelayCpp == {"relay", "die"}
RelayPy == {"relay", "raise"}

\* The result of the call is not looked at, and its missing output is read past its end.
UnreadCpp == {"go", "die"}

-----------------------------------------------------------------------------
(* The FastCGI services in C++. *)

face_detection_cpp == Single({"error"}, "face", "OPENVINO", {"error"}, RelayCpp)

\* A label without a quote throws, which ends the process.
classification_cpp ==
    Handler({"error"}, {"go"},
            <<[Stage("class", "OPENVINO", "one", {"error"}, RelayCpp) EXCEPT !.good = {"go", "die"}]>>)

segmentation_cpp == Single({"error"}, "deeplab", "OPENVINO", {"error"}, {"unsupported"})

super_resolution_cpp == Single({"error"}, "super", "OPENVINO", {"error"}, {"unsupported"})

\* A frame is resized before anyone looks whether it is empty.
classification_pd == Single({"die"}, "class", "PADDLE", {"error"}, {"error"})

classification_torch == Single({"die"}, "class", "PYTORCH", {"error"}, {"error"})

classification_tf == Single({"die"}, "class", "TENSORFLOW", {"error"}, {"error"})

face_detection_torch == Single({"die"}, "face", "PYTORCH", {"error"}, {"error"})

face_detection_onnx == Single({"die"}, "face", "ONNXRT", {"error"}, RelayCpp)

\* The landmarks of all faces in one call, whose result is not looked at.
facial_landmark_cpp ==
    Handler({"error"}, {"error"},
            <<Stage("face", "OPENVINO", "one", {"error"}, RelayCpp),
              Stage("landmark", "OPENVINO", "batch", UnreadCpp, UnreadCpp)>>)

\* One call for each rectangle; one that fails gives an empty text.
ocr_cpp ==
    Handler({"error"}, {"go"},
            <<Stage("detect", "OPENVINO", "one", {"error"}, RelayCpp),
              Stage("recognize", "OPENVINO", "each", {"go"}, {"go"})>>)

-----------------------------------------------------------------------------
(* The FastCGI services in Python. The image is decoded by the library. *)

face_detection_py == Single({"go"}, "face", "OPENVINO", {"error"}, RelayPy)

classification_py == Single({"go"}, "class", "OPENVINO", {"error"}, RelayPy)

segmentation_py == Single({"go"}, "deeplab", "OPENVINO", {"error"}, {"unsupported"})

super_resolution_py == Single({"go"}, "super", "OPENVINO", {"error"}, {"unsupported"})

facial_landmark_py ==
    Handler({"go"}, {"go"},
            <<Stage("face", "OPENVINO", "one", {"error"}, RelayPy),
              Stage("landmark", "OPENVINO", "batch", {"raise"}, {"raise"})>>)

ocr_py ==
    Handler({"go"}, {"go"},
            <<Stage("detect", "OPENVINO", "one", {"error"}, RelayPy),
              Stage("recognize", "OPENVINO", "each", {"go"}, {"go"})>>)

handwritten == Single({"raise"}, "handwritten", "OPENVINO", {"error"}, {"unsupported"})

\* The decoder runs for every token; the output that is missing cannot be reshaped.
formula ==
    Handler({"raise"}, {"go"},
            <<Stage("encoder", "OPENVINO", "one", {"error"}, {"unsupported"}),
              Stage("decoder", "OPENVINO", "tokens", {"raise"}, {"raise"})>>)

\* text_detection of ppocr.
TextDetection == Stage("detect", "OPENVINO", "one", {"error"}, {"unsupported"})

\* text_recognizer of ppocr.
TextRecognizer == Stage("recognize", "OPENVINO", "each", {"raise"}, {"raise"})

ppocr == Handler({"go"}, {"go"}, <<TextDetection, TextRecognizer>>)

\* choose_crop_img of digitalnote: all crops in one call.
ChooseCrop == Stage("word", "OPENVINO", "batch", {"raise"}, {"raise"})

\* latex_recognizer: a crop whose encoding fails has no result, which get_result misses.
LatexEncoder == Stage("encoder", "OPENVINO", "each", {"raise"}, {"raise"})

\* Its decoder runs for every token of every crop. The result is not looked at, but an output
\* that is missing cannot be reshaped.
LatexDecoder == Stage("decoder", "OPENVINO", "all", {"raise"}, {"raise"})

\* The two recognizers run in threads of their own, and meet in no variable but the lock of
\* the interpreter; they are taken one after the other, and every crop is given to both.
digitalnote == Handler({"raise"}, {"go"}, <<TextDetection, ChooseCrop, LatexEncoder, LatexDecoder, TextRecognizer>>)

\* The output is copied before the result is looked at: at the first call it is empty.
tts ==
    Handler({"raise"}, {"go"},
            <<Stage("encoder", "OPENVINO", "tokens", {"raise", "error"}, RelayPy),
              Stage("decoder", "OPENVINO", "one", {"error"}, RelayPy)>>)

-----------------------------------------------------------------------------
(* The methods of the gRPC server. *)

\* infer() answers -1 for an empty image. The result of face_detection_ex is not looked at:
\* no inference and no face give the same answer.
FaceDetectionMethod == Single({"fail"}, "face", "OPENVINO", {"go"}, {"go"})

\* A label without a quote, or one that is missing, is cut or read past its end: the first
\* throws between lock and unlock. Whether gRPC catches what a method throws depends on how
\* it was built.
ClassificationMethod ==
    Handler({"fail"}, {"go"},
            <<[Stage("class", "OPENVINO", "one", {"error"}, {"unsupported"})
               EXCEPT !.good = {"go", "throw", "die"}]>>)

\* Without faces, or without having looked for any, the landmarks are inferred for a
\* batch of no image.
FacialLandmarkMethod ==
    Handler({"fail"}, {"go"},
            <<Stage("face", "OPENVINO", "one", {"go"}, {"go"}),
              Stage("landmark", "OPENVINO", "batch", {"error"}, {"error"})>>)

OcrMethod ==
    Handler({"fail"}, {"go"},
            <<Stage("detect", "OPENVINO", "one", {"error"}, {"error"}),
              Stage("recognize", "OPENVINO", "each", {"go"}, {"go"})>>)

\* infer_speech of the OpenVINO entity does nothing; get_wave_data refuses other data.
AsrMethod == Handler({"error"}, {"go"}, <<Stage("speech", "SPEECH", "one", {"error"}, {"error"})>>)
=============================================================================
