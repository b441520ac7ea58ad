------------------------------ MODULE StreamLib ------------------------------
(***************************************************************************)
(* The stream library (src/video-streamer): the loading of the plugins, the *)
(* list of pipelines with their probes, and the life of the GStreamer        *)
(* element behind a pipeline of the launcher. A library call is an operator  *)
(* on the record of the elements; what GStreamer answers is a parameter.     *)
(***************************************************************************)
EXTENDS Integers, Sequences, FiniteSets, SequencesExt

CONSTANTS
    PluginFile,    \* the .so files: pairs <<directory, plugin>>, directory 1 or 2
    Unloadable     \* plugins whose dlopen or dlsym may fail

VARIABLES
    todo,          \* the files of the plugin directories not read yet
    plugins,       \* the plugins loaded, by priority
    inits,         \* the ones whose init has not run yet
    registered,    \* ccai_stream.pipelines
    probes         \* the probes of each pipeline

libVars == <<todo, plugins, inits, registered, probes>>

Plugin == {"launcher", "pose", "emotion", "backgroundblur"}

ASSUME PluginAssumption == PluginFile \subseteq (1 .. 2) \X Plugin /\ Unloadable \subseteq Plugin

\* The lines of the launcher's configuration file: launcher.pose_estimation,
\* launcher.emotion2 and launcher.video.
Launched == {"pose", "emotion2", "video"}

Pipeline == Launched \cup {"backgroundblur"}

\* CCAI_STREAM_PLUGIN_DEFINE of each plugin.
Priority == [p \in Plugin |-> IF p = "launcher" THEN 0 ELSE -10]

\* The pipeline a plugin's probe is for (struct ccai_stream_probe_desc).
ProbeOf == [pose |-> "pose", emotion |-> "emotion2"]

-----------------------------------------------------------------------------
\* Mutant of AddPlugin: the comparison puts the plugins of low priority first.
AddPluginAscending(p) ==
    IF p \in ToSet(plugins) THEN plugins
    ELSE InsertAt(plugins, Min({i \in DOMAIN plugins : Priority[plugins[i]] >= Priority[p]} \cup {Len(plugins) + 1}), p)

\* add_plugin: a name that is loaded is refused, the others are inserted before
\* the first plugin of no higher priority (priority_compare).
AddPlugin(p) ==
    IF p \in ToSet(plugins) THEN plugins
    ELSE InsertAt(plugins, Min({i \in DOMAIN plugins : Priority[plugins[i]] <= Priority[p]} \cup {Len(plugins) + 1}), p)

\* One turn of the loop of plugin_init over the files of a directory.
LoadPlugin ==
    \E f \in todo :
        /\ \A g \in todo : f[1] <= g[1]
        /\ todo' = todo \ {f}
        /\ \/ f[2] \in Unloadable /\ UNCHANGED plugins
           \/ plugins' = AddPlugin(f[2])
        /\ inits' = plugins'
        /\ UNCHANGED <<registered, probes>>

\* launcher_init: load_conf adds a pipeline for each line it can read, or finds no file.
LauncherInit ==
    /\ \E found \in {{}, Launched} : registered' = registered \cup found
    /\ UNCHANGED probes

\* bb_init of backgroundblur: ccai_stream_add_pipeline.
BlurInit ==
    /\ registered' = registered \cup {"backgroundblur"}
    /\ UNCHANGED probes

\* pose_init and emot_init: ccai_stream_add_probe, which fails for a pipeline
\* that is not in the list.
ProbeInit(p) ==
    /\ probes' = IF ProbeOf[p] \in registered
                 THEN [probes EXCEPT ![ProbeOf[p]] = @ \cup {p}] ELSE probes
    /\ UNCHANGED registered

\* The second loop of plugin_init: each plugin's init, failures only logged.
InitPlugin ==
    /\ todo = {} /\ inits # <<>>
    /\ inits' = Tail(inits)
    /\ CASE Head(inits) = "launcher" -> LauncherInit
         [] Head(inits) = "backgroundblur" -> BlurInit
         [] OTHER -> ProbeInit(Head(inits))
    /\ UNCHANGED <<todo, plugins>>

Loaded == todo = {} /\ inits = <<>>

-----------------------------------------------------------------------------
\* The element private->gst_pipe of each launched pipeline, and the pipelines
\* an element of which went on playing after the pointer was overwritten.
NoElements == [gst |-> [p \in Launched |-> "none"], lost |-> {}]

\* create_pipe of general_launcher.c. "param": generate_gst_pipeline_desc has no
\* source or sink; "parse": gst_parse_launch gives an error; else a new element.
LaunchCreate(e, p, how) ==
    IF how = "param" THEN e
    ELSE [gst |-> [e.gst EXCEPT ![p] = IF how = "parse" THEN "none" ELSE "made"],
          lost |-> IF e.gst[p] = "playing" THEN e.lost \cup {p} ELSE e.lost]

\* start_pipe and ccai_gst_start_pipeline: set_state may fail at once or after the
\* wait; a wait that does not end is a step of the service.
LaunchStart(e, p, plays) == IF plays THEN [e EXCEPT !.gst[p] = "playing"] ELSE e

\* stop_pipe and ccai_gst_stop_pipeline.
LaunchStop(e, p) == IF e.gst[p] = "none" THEN e ELSE [e EXCEPT !.gst[p] = "made"]

LaunchStopOk(e, p) == e.gst[p] # "none"

\* remove_pipe: the last reference is dropped.
LaunchRemove(e, p) == [e EXCEPT !.gst[p] = "none"]

\* backgroundblur works on the element of launcher.video.
Under(p) == IF p = "backgroundblur" THEN "video" ELSE p

\* ccai_stream_pipeline_create: the first registered pipeline of that name;
\* backgroundblur's create_pipe also adds its callback, and takes the element
\* away again when that fails. The results of the probes' create are ignored.
CreateOk(p, how) == p \in registered /\ Under(p) \in registered /\ how = "ok"

PipelineCreate(e, p, how) ==
    IF ~(p \in registered /\ Under(p) \in registered) THEN e
    ELSE IF how = "callback"
         THEN LaunchRemove(LaunchCreate(e, Under(p), "ok"), Under(p))
         ELSE LaunchCreate(e, Under(p), how)

CreateOutcomes(p) ==
    {"param", "parse", "ok"} \cup IF p = "backgroundblur" THEN {"callback"} ELSE {}

\* ccai_stream_pipeline_start: backgroundblur ignores what the launcher answers.
StartOk(p, plays) == p = "backgroundblur" \/ plays

\* ccai_stream_pipeline_stop and _remove: backgroundblur's answer 0 always.
StopOk(e, p) == p = "backgroundblur" \/ LaunchStopOk(e, p)

PipelineStopRemove(e, p) == LaunchRemove(LaunchStop(e, Under(p)), Under(p))

-----------------------------------------------------------------------------
LibInit ==
    /\ todo = PluginFile
    /\ plugins = <<>> /\ inits = <<>>
    /\ registered = {}
    /\ probes = [p \in Launched |-> {}]

\* plugin_init(): whatever the order in which the directories list the plugins,
\* a probe whose plugin is loaded is on its pipeline when the launcher knows it.
ProbesAttached ==
    Loaded => \A p \in ToSet(plugins) \cap DOMAIN ProbeOf :
                  ProbeOf[p] \in registered => p \in probes[ProbeOf[p]]
=============================================================================
