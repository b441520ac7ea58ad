------------------------------ MODULE Streaming ------------------------------
(***************************************************************************)
(* The FastCGI streaming service: the request loop of fcgi_streaming.cpp,   *)
(* its polling thread, the callbacks that GStreamer runs on every frame     *)
(* (pose.cpp, backgroundblur.cpp) and the timer that stops a pose pipeline  *)
(* nobody is in front of. Sections under gMtx are single steps.              *)
(***************************************************************************)
EXTENDS StreamLib, Limbs

CONSTANTS
    Served,        \* the pipelines that clients name in their requests
    MaxPeople,     \* MAX_PEOPLE
    Status,        \* the states of a limb
    Delay          \* DELAY_TIME, in ticks of the clock

ASSUME StreamingAssumption ==
    /\ Served \subseteq Pipeline
    /\ MaxPeople \in Nat \ {0} /\ Delay \in Nat \ {0}
    /\ Status \subseteq Int /\ INVALID \in Status /\ 0 \in Status

VARIABLES
    pc,            \* where the request loop is; "stuck" in a wait of GStreamer's that does
                   \* not end, "dead" when the process has ended
    req,           \* the request it works on: <<method, pipeline, argument>>
    pipelines,     \* the map pipelines: the pipelines that are started
    elems,         \* the elements of the library, see StreamLib
    pooling,       \* the flag of the polling thread
    thread,        \* where the polling thread is, "none" when not joinable
    torn,          \* the map has changed while the thread looks into it
    gHumans,       \* what the polling thread has gathered
    gReadResult,   \* what the callback of the pose pipeline has found
    gDelayTimer,   \* enableTimer and the ticks since startTime
    blur,          \* blur_type, bg_img and the callback of backgroundblur
    polled,        \* the thread has polled in this tick
    seen,          \* history: what was polled since the thread has started
    person         \* history: somebody was polled since the timer has started

serviceVars == <<pc, req, pipelines, elems, pooling, thread, torn, gHumans,
                 gReadResult, gDelayTimer, blur, polled, seen, person>>

vars == <<libVars, serviceVars>>

People == 1 .. MaxPeople
NoRequest == <<"none", "none", "none">>
Nothing == [number |-> 0, limb |-> [i \in People |-> INVALID]]

\* Bound: clients give the names of methods and pipelines in full. The code compares the
\* first letters only, so a longer name with one of these in front would do as well.
\* The config of a request: absent, refused (not JSON, no image_file, or one that cannot
\* be read), without blur_type, with an image, or "blur".
BlurConfigs == {"none", "bad", "notype", "image", "blur"}

Requests ==
    {<<k, "none", "none">> : k \in {"refused", "healthcheck", "notjson"}}
        \cup ({"start", "config"} \X (Served \cap {"backgroundblur"}) \X BlurConfigs)
        \cup ({"start", "stop", "read", "config"} \X Served \X {"none"})

TimerOff == [on |-> FALSE, ticks |-> 0]

-----------------------------------------------------------------------------
\* main(): accept; without CONTENT_TYPE, CONTENT_LENGTH or memory the answer is
\* 404, and healthcheck is answered at once. do_streaming refuses what is not JSON.
Accept ==
    /\ pc = "idle" /\ Loaded
    /\ \E r \in Requests :
          IF r[1] \in {"refused", "healthcheck", "notjson"}
          THEN UNCHANGED <<pc, req>>
          ELSE pc' = "do" /\ req' = r
    /\ UNCHANGED <<libVars, pipelines, elems, pooling, thread, torn, gHumans, gReadResult,
                   gDelayTimer, blur, polled, seen, person>>

\* The answer is written and the buffer freed.
Reply == pc' = "idle" /\ req' = NoRequest

\* std::terminate, or a read through a null pointer or past the end of a buffer.
Die == pc' = "dead" /\ req' = NoRequest

\* A write to the map while the thread is in pipelines.find.
Torn(ps) == torn' = (torn \/ (thread = "find" /\ ps # pipelines))

\* config_backgroundblur and config_pipe: blur_type must be given; config_pipe reads
\* the image file for either type, and bc.image_file is not set for "blur".
ConfigOutcomes(c) ==
    CASE c = "bad" -> {"refused"}
      [] c = "notype" -> {"crash"}
      [] c = "image" -> {"image"}
      [] c = "blur" -> {"refused", "blur"}
      [] OTHER -> {"none"}

\* Mutant of Configured: it takes the type before it has read the image.
ConfiguredEarly(b, o) ==
    IF o = "image" THEN [b EXCEPT !.image = TRUE, !.bg_img = @]
    ELSE IF o = "blur" THEN [b EXCEPT !.image = FALSE] ELSE b

Configured(b, o) ==
    IF o \in {"image", "blur"} THEN [b EXCEPT !.image = (o = "image"), !.bg_img = TRUE] ELSE b

\* What creating p's element leaves of the callback: a new private record for
\* backgroundblur, an element without callback for launcher.video.
Blurred(p, how) ==
    IF p = "backgroundblur" /\ CreateOk(p, how)
    THEN [image |-> FALSE, bg_img |-> FALSE, callback |-> TRUE]
    ELSE IF Under(p) = "video" /\ how # "param" THEN [blur EXCEPT !.callback = FALSE] ELSE blur

\* pose.cpp create(): the results are cleared when the probe is on the pipeline.
ProbeCreated(p, how) ==
    IF p = "pose" /\ CreateOk(p, how) /\ "pose" \in probes["pose"] THEN Nothing ELSE gReadResult

\* start_pipeline of a pipeline that is not in the map.
StartNew(p, c) ==
    \E how \in CreateOutcomes(p), plays \in BOOLEAN :
        LET made == PipelineCreate(elems, p, how)
            ok == CreateOk(p, how) /\ StartOk(p, plays)
        IN  /\ elems' = IF CreateOk(p, how) THEN LaunchStart(made, Under(p), plays) ELSE made
            /\ gReadResult' = ProbeCreated(p, how)
            /\ IF ~ok
               THEN /\ Reply /\ blur' = Blurred(p, how)
                    /\ UNCHANGED <<pipelines, torn>>
               ELSE \E o \in ConfigOutcomes(c) :
                        /\ blur' = Configured(Blurred(p, how), o)
                        /\ IF o = "crash"
                           THEN Die /\ UNCHANGED <<pipelines, torn>>
                           ELSE /\ pipelines' = pipelines \cup {p}
                                /\ Torn(pipelines')
                                /\ IF p = "pose" THEN pc' = "spawn" /\ UNCHANGED req ELSE Reply

\* do_streaming, "start": a pipeline in the map is ignored with 0.
Start ==
    /\ pc = "do" /\ req[1] = "start"
    /\ gDelayTimer' = TimerOff /\ person' = FALSE
    /\ \/ /\ req[2] \in pipelines
          /\ IF req[2] = "pose" THEN pc' = "spawn" /\ UNCHANGED req ELSE Reply
          /\ UNCHANGED <<elems, gReadResult, blur, pipelines, torn>>
       \/ req[2] \notin pipelines /\ StartNew(req[2], req[3])
    /\ UNCHANGED <<libVars, pooling, thread, gHumans, polled, seen>>

\* start_pipeline when gst_element_get_state, which has no time limit, does not return.
StartHangs ==
    /\ pc = "do" /\ req[1] = "start" /\ req[2] \notin pipelines
    /\ gDelayTimer' = TimerOff /\ person' = FALSE
    /\ \E how \in CreateOutcomes(req[2]) :
          /\ CreateOk(req[2], how)
          /\ elems' = LaunchStart(PipelineCreate(elems, req[2], how), Under(req[2]), TRUE)
          /\ gReadResult' = ProbeCreated(req[2], how)
          /\ blur' = Blurred(req[2], how)
    /\ pc' = "stuck"
    /\ UNCHANGED <<libVars, req, pipelines, pooling, thread, torn, gHumans, polled, seen>>

\* pooling = true; thread_fun = std::thread(...): assigning to a thread that is
\* joinable ends the process.
Spawn ==
    /\ pc = "spawn"
    /\ pooling' = TRUE
    /\ IF thread # "none"
       THEN Die /\ UNCHANGED <<thread, seen, torn, polled>>
       ELSE Reply /\ thread' = "find" /\ seen' = {} /\ torn' = FALSE /\ polled' = FALSE
    /\ UNCHANGED <<libVars, pipelines, elems, gHumans, gReadResult, gDelayTimer, blur, person>>

-----------------------------------------------------------------------------
\* do_streaming, "stop"; stop_thread is for pose only.
Stop ==
    /\ pc = "do" /\ req[1] = "stop"
    /\ gDelayTimer' = TimerOff /\ person' = FALSE
    /\ pc' = IF req[2] = "pose" THEN "stop_thread" ELSE "stop_pipeline"
    /\ UNCHANGED <<libVars, req, pipelines, elems, pooling, thread, torn, gHumans, gReadResult,
                   blur, polled, seen>>

\* stop_thread clears the flag under gMtx.
StopThread ==
    /\ pc = "stop_thread"
    /\ pooling' = FALSE /\ pc' = "join"
    /\ UNCHANGED <<libVars, req, pipelines, elems, thread, torn, gHumans, gReadResult,
                   gDelayTimer, blur, polled, seen, person>>

\* Mutant of Join: it does not wait for the thread.
JoinDetached ==
    /\ pc = "join"
    /\ pc' = "stop_pipeline"
    /\ UNCHANGED <<libVars, req, pipelines, elems, pooling, thread, torn, gHumans, gReadResult,
                   gDelayTimer, blur, polled, seen, person>>

\* The join of stop_thread.
Join ==
    /\ pc = "join" /\ thread \in {"none", "ended"}
    /\ thread' = "none" /\ pc' = "stop_pipeline"
    /\ UNCHANGED <<libVars, req, pipelines, elems, pooling, torn, gHumans, gReadResult,
                   gDelayTimer, blur, polled, seen, person>>

\* stop_pipeline: a pipeline that is not in the map answers 0; one that cannot be
\* stopped stays in the map.
StopPipeline ==
    /\ pc = "stop_pipeline" /\ Reply
    /\ LET p == req[2]
           stopped == p \in pipelines /\ StopOk(elems, p)
       IN  /\ elems' = IF stopped THEN PipelineStopRemove(elems, p) ELSE elems
           /\ pipelines' = IF stopped THEN pipelines \ {p} ELSE pipelines
           /\ Torn(pipelines')
    /\ UNCHANGED <<libVars, pooling, thread, gHumans, gReadResult, gDelayTimer, blur, polled,
                   seen, person>>

-----------------------------------------------------------------------------
\* stop_pipeline when the wait for the element to stop does not end.
StopHangs ==
    /\ pc = "stop_pipeline"
    /\ req[2] \in pipelines /\ elems.gst[Under(req[2])] # "none"
    /\ elems' = LaunchStop(elems, Under(req[2]))
    /\ pc' = "stuck"
    /\ UNCHANGED <<libVars, req, pipelines, pooling, thread, torn, gHumans, gReadResult,
                   gDelayTimer, blur, polled, seen, person>>

\* The health monitor's agent kills a service that does not answer.
Killed ==
    /\ pc = "stuck" /\ Die
    /\ UNCHANGED <<libVars, pipelines, elems, pooling, thread, torn, gHumans, gReadResult,
                   gDelayTimer, blur, polled, seen, person>>

\* read_pipeline on the copy of gHumans taken under gMtx: nobody for longer than
\* DELAY_TIME since the first empty read is to stop the thread and the pipeline. The thread
\* may poll again before stop_thread has the lock.
Read ==
    /\ pc = "do" /\ req[1] = "read"
    /\ LET empty == req[2] \in pipelines \cap {"pose"} /\ gHumans.numbers = 0
           some == req[2] \in pipelines \cap {"pose"} /\ gHumans.numbers # 0
       IN  \/ /\ empty /\ gDelayTimer.on /\ gDelayTimer.ticks > Delay
              /\ gDelayTimer' = TimerOff
              /\ pc' = "stop_thread"
              /\ UNCHANGED <<req, person>>
           \/ /\ ~(empty /\ gDelayTimer.on /\ gDelayTimer.ticks > Delay)
              /\ gDelayTimer' = IF some THEN TimerOff
                                ELSE IF empty /\ ~gDelayTimer.on THEN [on |-> TRUE, ticks |-> 0]
                                ELSE gDelayTimer
              /\ person' = IF empty /\ ~gDelayTimer.on THEN FALSE ELSE person
              /\ Reply
    /\ UNCHANGED <<libVars, pipelines, elems, pooling, thread, torn, gHumans, gReadResult, blur, polled,
                   seen>>

\* do_streaming, "config", and config_pipeline.
Config ==
    /\ pc = "do" /\ req[1] = "config"
    /\ IF req[2] = "backgroundblur" /\ req[2] \in pipelines
       THEN \E o \in ConfigOutcomes(req[3]) :
                /\ blur' = Configured(blur, o)
                /\ IF o = "crash" THEN Die ELSE Reply
       ELSE Reply /\ UNCHANGED blur
    /\ UNCHANGED <<libVars, pipelines, elems, pooling, thread, torn, gHumans, gReadResult,
                   gDelayTimer, polled, seen, person>>

-----------------------------------------------------------------------------
\* pooling_human_status before its loop: the unprotected look into the map, which
\* gives anything when a request writes to the map meanwhile.
PollFind ==
    /\ thread = "find" /\ pc # "dead"
    /\ \/ /\ "pose" \in pipelines \/ torn
          /\ thread' = "reset" /\ UNCHANGED <<pc, req>>
       \/ /\ "pose" \notin pipelines \/ torn
          /\ thread' = "ended" /\ UNCHANGED <<pc, req>>
       \/ torn /\ Die /\ UNCHANGED thread
    /\ UNCHANGED <<libVars, pipelines, elems, pooling, torn, gHumans, gReadResult, gDelayTimer,
                   blur, polled, seen, person>>

\* Mutant of PollReset: the thread starts with the limbs of the last session.
PollResetForgotten ==
    /\ thread = "reset" /\ pc # "dead"
    /\ thread' = "loop"
    /\ UNCHANGED <<libVars, pc, req, pipelines, elems, pooling, torn, gHumans, gReadResult,
                   gDelayTimer, blur, polled, seen, person>>

\* The reset of all limbs, without the lock.
PollReset ==
    /\ thread = "reset" /\ pc # "dead"
    /\ gHumans' = [gHumans EXCEPT !.limb = [i \in People |-> LimbReset]]
    /\ thread' = "loop"
    /\ UNCHANGED <<libVars, pc, req, pipelines, elems, pooling, torn, gReadResult, gDelayTimer,
                   blur, polled, seen, person>>

\* update_status on a result r of the pipeline.
UpdateStatus(r) ==
    [numbers |-> r.number,
     limb |-> [i \in People |->
                  IF i <= r.number THEN LimbUpdate(gHumans.limb[i], r.limb[i])
                  ELSE IF i <= gHumans.numbers THEN LimbReset ELSE gHumans.limb[i]]]

\* Mutant of Poll: the loop does not look at the flag.
PollForever ==
    /\ thread = "loop" /\ pc # "dead"
    /\ polled' = TRUE
    /\ gHumans' = UpdateStatus(gReadResult)
    /\ seen' = seen \cup {<<i, gReadResult.limb[i]>> : i \in {j \in People : gReadResult.limb[j] # INVALID}}
    /\ person' = (person \/ gReadResult.number # 0)
    /\ UNCHANGED <<libVars, pc, req, pipelines, elems, pooling, thread, torn, gReadResult,
                   gDelayTimer, blur>>

\* One turn of the loop, under gMtx: the flag, ccai_stream_pipeline_read (without
\* the probe there is no read function) and update_status; then a second of sleep.
Poll ==
    /\ thread = "loop" /\ pc # "dead"
    /\ IF ~pooling
       THEN thread' = "ended" /\ UNCHANGED <<gHumans, polled, seen, person>>
       ELSE /\ polled' = TRUE
            /\ UNCHANGED thread
            /\ IF "pose" \in probes["pose"]
               THEN /\ gHumans' = UpdateStatus(gReadResult)
                    /\ seen' = seen \cup {<<i, gReadResult.limb[i]>> : i \in {j \in People : gReadResult.limb[j] # INVALID}}
                    /\ person' = (person \/ gReadResult.number # 0)
               ELSE UNCHANGED <<gHumans, seen, person>>
    /\ UNCHANGED <<libVars, pc, req, pipelines, elems, pooling, torn, gReadResult, gDelayTimer,
                   blur>>

-----------------------------------------------------------------------------
\* Mutant of Found: a frame without persons clears the result.
FoundCleared(poses, hits, limb) ==
    LET kept == KeepIds(poses, hits)
    IN  [number |-> Len(kept),
         limb |-> [i \in People |-> IF i <= Len(kept) THEN limb[kept[i] + 1] ELSE INVALID]]

\* pose_callback on a frame with `poses' persons and faces around the noses of
\* hits[f]: the persons kept replace the result; with none it keeps the old one.
Found(poses, hits, limb) ==
    LET kept == KeepIds(poses, hits)
    IN  IF Len(kept) = 0 THEN gReadResult
        ELSE [number |-> Len(kept),
              limb |-> [i \in People |-> IF i <= Len(kept) THEN limb[kept[i] + 1]
                                         ELSE INVALID]]   \* never read

PoseFrame ==
    /\ pc # "dead" /\ elems.gst["pose"] = "playing" /\ "pose" \in probes["pose"]
    /\ \E poses \in 0 .. MaxPeople, faces \in 0 .. MaxPeople :
       \E face \in [1 .. faces -> 0 .. poses], limb \in [(1 .. poses) \cup {1} -> Status] :
          gReadResult' = Found(poses, [f \in 1 .. faces |-> {face[f]}], limb)
    /\ UNCHANGED <<libVars, pc, req, pipelines, elems, pooling, thread, torn, gHumans,
                   gDelayTimer, blur, polled, seen, person>>

\* blur_callback when vino_ie_video_infer_frame has failed, whose result it ignores:
\* the segmentation is read from an empty vector.
BlurFrameFails ==
    /\ pc # "dead" /\ elems.gst["video"] = "playing" /\ blur.callback
    /\ Die
    /\ UNCHANGED <<libVars, pipelines, elems, pooling, thread, torn, gHumans, gReadResult,
                   gDelayTimer, blur, polled, seen, person>>

\* The clock moves on; a thread that polls does so several times in each tick.
Tick ==
    /\ pc # "dead" /\ gDelayTimer.on /\ gDelayTimer.ticks <= Delay
    /\ polled \/ thread \in {"none", "ended"}
    /\ gDelayTimer' = [gDelayTimer EXCEPT !.ticks = @ + 1]
    /\ polled' = FALSE
    /\ UNCHANGED <<libVars, pc, req, pipelines, elems, pooling, thread, torn, gHumans,
                   gReadResult, blur, seen, person>>

-----------------------------------------------------------------------------
ServiceInit ==
    /\ pc = "idle" /\ req = NoRequest
    /\ pipelines = {} /\ elems = NoElements
    /\ pooling = FALSE /\ thread = "none" /\ torn = FALSE
    /\ gHumans = [numbers |-> 0, limb |-> [i \in People |-> LimbReset]]
    /\ gReadResult = Nothing
    /\ gDelayTimer = TimerOff
    /\ blur = [image |-> FALSE, bg_img |-> FALSE, callback |-> FALSE]
    /\ polled = FALSE /\ seen = {} /\ person = FALSE

Init == LibInit /\ ServiceInit

\* The process that has ended is started again by its supervisor.
Restart ==
    /\ pc = "dead"
    /\ todo' = PluginFile /\ plugins' = <<>> /\ inits' = <<>>
    /\ registered' = {} /\ probes' = [p \in Launched |-> {}]
    /\ pc' = "idle" /\ req' = NoRequest
    /\ pipelines' = {} /\ elems' = NoElements
    /\ pooling' = FALSE /\ thread' = "none" /\ torn' = FALSE
    /\ gHumans' = [numbers |-> 0, limb |-> [i \in People |-> LimbReset]]
    /\ gReadResult' = Nothing
    /\ gDelayTimer' = TimerOff
    /\ blur' = [image |-> FALSE, bg_img |-> FALSE, callback |-> FALSE]
    /\ polled' = FALSE /\ seen' = {} /\ person' = FALSE

Handle == Start \/ StartHangs \/ Spawn \/ Stop \/ StopThread \/ Join \/ StopPipeline \/ StopHangs \/ Read \/ Config
PollThread == PollFind \/ PollReset \/ Poll
LoadPlugins == (LoadPlugin \/ InitPlugin) /\ UNCHANGED serviceVars

Next ==
    \/ LoadPlugins \/ Accept \/ Handle \/ PollThread
    \/ PoseFrame \/ BlurFrameFails \/ Tick \/ Killed \/ Restart

Spec == Init /\ [][Next]_vars

\* The request loop and the polling thread are scheduled; requests, frames and
\* the clock need not come.
FairSpec == Spec /\ WF_vars(LoadPlugins) /\ WF_vars(Handle) /\ WF_vars(PollThread)

-----------------------------------------------------------------------------
\* do_streaming(): between two requests the polling thread exists exactly when
\* the pose pipeline is in the map, which then has a playing element and is polled.
PolledWhileStarted ==
    pc = "idle" =>
        /\ ("pose" \in pipelines) = (thread # "none")
        /\ ("pose" \in pipelines) = pooling
        /\ "pose" \in pipelines => elems.gst["pose"] = "playing"

\* pooling_human_status(): once a thread polls, every status it has gathered for a
\* person comes from a sample it has taken itself, none from an earlier session.
FreshStatus ==
    thread = "loop" =>
        \A i \in People : LET s == gHumans.limb[i].current
                          IN  s # INVALID => <<i, s>> \in seen

\* read_pipeline(): it finds a pose pipeline to be stopped for want of a face only when
\* nobody was in any result polled from the start of the timer to its copy of gHumans, though
\* no request may have read those results.
StoppedOnlyUnseen ==
    [][pc = "do" /\ req[1] = "read" /\ pc' = "stop_thread" => ~person]_vars

\* config_pipe(): blur_callback finds a background image whenever it is to use one.
BackgroundReady == blur.image => blur.bg_img

\* stop_thread(): the join returns, unless a frame ends the process: the thread, wherever it
\* is when the flag is cleared, comes to look at it.
PollingJoined == pc = "join" ~> pc \in {"stop_pipeline", "dead"}
=============================================================================
