# Verification of the Cloud-Client AI Service Framework

TLA+ models of the framework's services, libraries and daemons, checked with TLC, and proofs
checked with TLAPS.  `PROJECT.json` lists the components, the runs, the mutants, the map from
definitions to source lines, the hazards, the finding and the theorems.

## 1. The system

The framework is a docker container of AI services on a client machine.  Applications call
the services over HTTP (lighttpd and FastCGI) or gRPC; a service runs its inference on one of
several engines, on a local device or on a remote server.

| component | state | operations | hard part |
|---|---|---|---|
| smart-photo library (`smart-photo/`) | a handle: mutex, scan flag, scan thread, list of photos, one SQLite connection | add, remove, move, scan, stop, wait, release | a thread that gives up the mutex inside an open transaction; kills |
| FastCGI smart-photo service | the request in progress | the methods of a JSON interface | requests against the thread |
| photo monitor (external) | notifications | add, delete, move of files | changes during a scan |
| health monitor (host) | count of unhealthy reports, watchdog | `notify`, timeout, restart | three threads restart one container |
| health agent (container) | targets found dead | check, treat, report | deadlines, its container going away under it |
| `service_runtime.sh` | the container | restart | scripts that collide |
| policy daemon | sampling interval, promise, intel_gpu_top | sample, back off, wake up, end | signal handlers on the only thread |
| policy segment and API | a shared memory segment | set, read, route an inference | no lock; the segment goes and comes back |
| inference library and engines | engines by model, networks by file, devices tried | load from a file or a buffer, infer, simulate | two caches that must agree; no lock |
| gRPC inference server | a mutex around the inferences of a request | five methods, health check | health check against a long inference; every early return |
| 22 FastCGI services of pictures, text and speech output | none between requests | one to three kinds of inferences per request | the second inference fails, or goes to another place than the first |
| speech recognition service | a session of two threads, two queues, two flags | OFFLINE, ONLINE_READ, ONLINE_STOP | globals without a lock, threads that outlive requests |
| speech pipeline (`asr_utils/`) | the buffers of two stages, the network's memory, the decoder | a chunk of audio, the last one or not; the end | windows and contexts across chunks, what is left for the next utterance |
| streaming service | the map of started pipelines, a polling thread, a timer | start, stop, read, config | life of the thread, globals of the last session |
| stream library, plugins, filters | plugins by priority, pipelines with probes, what a probe keeps between frames | load, init, create, start, stop, configure | the order of files in a directory; callbacks against requests |
| log library | one connection for all threads | open, send, reconnect, close | descriptor numbers that others reuse; a server that comes and goes |
| computations around inferences | none | base64 and forms, text detection, three text decoders, tags, suppression of boxes | boundaries, order |
| speech decoder (`ctcdecode-numpy`) | beams of an utterance, a trie of texts, a dictionary, an n-gram model in a file | start, append frames, decode; batches | arrays laid out by bits, words that end at a chunk, backoff |
| information services, DNS interceptor, encryption, API users, OTA | none that outlives a call | | pure input and output |

How they interact: every service calls the inference library in its own process; each
inference reads the policy segment and sends SIGUSR1 to the policy daemon, which publishes
the load there; the policy service writes the segment; the agent kills and restarts
services in the container and reports to the monitor, which restarts the container by the
script.  The streaming service calls the stream library, which runs its probes in threads of
GStreamer.

What makes them correct: a photo is waiting or indexed, never lost; one scan at a time; a handle
is freed when nobody uses it; answers are true when given and follow inferences made for that
request; every request is answered.  A broken container is replaced and a healthy one is left
alone.  The daemon backs off and wakes up; an inference goes where a setting allows, on the engine
of the present device, file or buffer, which stays while it is used.  A stopped session is
stopped, and a new one knows nothing of the last.  A message to a running log server arrives,
unless the kernel rejects it.

## 2. Modules

| module | models | extends |
|---|---|---|
| `PhotoDb` | `smart-photo/db.cpp`: statements on ChangedPhoto and Photo, the connection and its transactions | |
| `SmartPhoto` | `smart-photo/smart_photo.cpp`: every state-changing call, the scan thread, kills | `PhotoDb` |
| `PhotoIndex` | what the library promises of its tables: a call is one step, a kill goes back to the file | |
| `SmartPhotoService` | `fcgi_smartphoto.cpp` and the photo monitor | `SmartPhoto` |
| `ServiceRuntime` | `service_runtime.sh restart` by several callers, docker | |
| `HealthMonitor` | monitor, watchdog and agent | `ServiceRuntime` |
| `PolicyShm` | the segment: create, remove, abandon, publish, write | |
| `PolicyDaemon` | `daemon_policy.cpp` | `PolicyShm` |
| `PolicyRouting` | `policy.cpp` and the choice in `vino_ie_pipe.cpp` | `PolicyShm` |
| `PolicyHistory` | what was asked of the policy API, for one property | `PolicyRouting` |
| `InferenceRuntime` | `vino_ie_pipe.cpp` and the engines: caches, devices, loading, outcomes | |
| `Services` | each service's inferences and reactions, as data | |
| `Gateway` | one process of the gateway: FastCGI in C++ or Python, gRPC, or an application with the library | `InferenceRuntime`, `Services` |
| `InferenceService` | abstract: what a process of the gateway promises | |
| `Limbs` | `limbs_status.cpp` and the choice of persons in `pose.cpp` | |
| `StreamLib` | `ccai_stream.c`, `plugin.c`, `general_launcher.c`, the plugins | |
| `Streaming` | `fcgi_streaming.cpp`, its polling thread, the probes of pose and background blur | `StreamLib`, `Limbs` |
| `Asr` | `fcgi_asr.py`: requests, sessions, queues | |
| `SpeechPipeline` | `DeepSpeechSeqPipeline` and its three stages | |
| `Log` | `log.c`, `ccai_log.c` | |
| `Algorithms` | computations of `fcgi_utils.cpp`, OCR, ppocr, handwriting, classification, face detection; a run of all of these and of the speech pipeline | `PhotoPeople`, `SpeechDecoder`, `SpeechPipeline`, `Ngrams` |
| `SpeechDecoder` | `ctc_beam_search_decoder.cpp`, `path_trie.cpp`, the scorer and the bindings | `WordPrefixes` |
| `WordPrefixes` | `word_prefix_set.cpp`: the dictionary as layers of sorted arrays | |
| `Ngrams` | `yoklm`: the file of a language model, the searches in it, the probability of a word | |
| `PhotoPeople` | what `smart_photo.cpp` and `db.cpp` store of a photo's faces and classes, and their list calls | |
| `SmartPhotoProofs`, `SmartPhotoServiceProofs`, `HealthProofs`, `PolicyRoutingProofs`, `GatewayProofs`, `StreamingProofs`, `LogProofs` | theorems (section 4) | the module they name |
| `SpeechProofs` | theorems (section 4) | `Asr`, `SpeechPipeline` |

Modules named `MC...` give constants their values.  A definition whose comment begins with
"Mutant" is not part of any specification: it is a plausible mistake, put in the place of the
definition it names to see that a property notices.

### Smart photo

`mutex`, `scan_runing`, `scan_thread` and `changed_photos` are the fields of
`struct smart_photo`; `work` and `durable` are the database as the connection sees it and as it
is in the file, `inTxn` an open transaction.  Code under the mutex is atomic for other threads
but not for a kill, so its holder keeps the statements it has yet to run in `stmts` and runs
one per step (`ClientExec`, `ScanExec`).  The scan thread is `ScanLock`, `ScanCollect` (the
list, BEGIN), `ScanNext` (one photo, unlock), `ScanInfer` (imread and inference, with no
lock), `ScanRelock`, `ScanExec`, `ScanEnd` (END) and `ScanExit`.  `Crash` is a kill at any
step; SQLite rolls back.  A file is one of a few contents, and the rows of objects and persons
of a photo are the content they were computed from, so a stale index shows.

`PhotoIndex` is what a caller may count on: the waiting names and the rows change by whole calls
(`Wait`, `Forget`, `ForgetAll`, `Rename`) and whole photos (`Store`, `Skip`), whoever else calls or
scans; some of that reaches the file (`Save`), and a kill goes back to the file (`Lose`).  It
promises of the file only what the code keeps: a photo killed while it is being stored may be
without its row or its tags.

What is stored of a picture is `PhotoPeople`: from the answers of the networks to faces and
classes, from those to rows of `Person`, `Object` and their links, with SQLite's ids and cascade,
and from the rows to the lists by person, by class and by photo.  An embedding is an angle, so
that resembling (60 degrees) is not transitive, as it is not for the library's distance.  The
task `people` of `Algorithms` runs every history of up to two calls with all pictures, and of
four with three pictures, and compares the lists with an index that only remembers the picture
last scanned under each name.  Two persons for one face, and a photo counted twice for one
person, do happen; `PeopleIndexed` says that only faces of one picture cause them.

Calls that change nothing are not actions of `SmartPhoto`; in the service they occupy the loop
(`HandleQuery`).  A directory given to `ccai_sp_add_dir` is a set of files.  Pthread ids are
the finite set `Thread`: a thread that ended and was not joined keeps its id.  `pthread_create` can
fail at any call, not only when no id is left, and then leaves any id in `scan_thread`, since POSIX
says nothing of it; the code does not look at the result.  `failed` is history: the last
`pthread_create` failed.  After that the flag may be set without a thread, and what the code joins is
anybody's guess, so `JoinFindsThread` and `NoLostAdd` except it.

### Health

Time passes in ticks, and three times are counted in them: docker's interval between two runs of
the agent (`Interval`), the time after which docker ends one (`CmdLimit`) and the watchdog's timeout
(`Timeout`); 60, 30 and 120 seconds.  docker counts the interval from the end of the last run, so the
first report of a container comes an interval after its start at the earliest.  An agent may be
ended at any point, by docker's limit or by an exception (`AgentEnds`), also before its first report;
`missed` remembers that.  `Settled` says what is done at one instant: the calls, the watchdog's
wake-up.  A restart is none of these: `system()` has no limit, so it takes any number of ticks, and
any of the callers run theirs at the same time, command by command under `set -e`.  It can so be a
predecessor's report that restarts a container, and nothing claims the contrary.
`unhealthy_count` has no lock: when two handlers are at it, an update may be lost.  The agent's
call ends after two seconds; the handler goes on.
Spurious wakeups of the condition variable are left out: they would only feed the watchdog.

### Policy

Signal handlers run between any two steps of the daemon's thread, so the two critical
sections of the loop are steps of their own ("arm", "disarm"): a SIGUSR1 in one of them finds
the mutex held by its own thread (`dpc = "hung"`).  Time is a multiple of the default interval.
The measured load is a choice; whether the services used the CPU decides between going back to
the default interval and the next sample of `stateTransfer`.

In `PolicyRouting` the segment is written and read one field at a time by the policy service,
an inference and a daemon that starts, with nothing between them.  A new segment is zero: no
idle time, no offloading, no device.  A segment that was removed stays for those attached to
it; `shmat` of one that is gone fails, which the code does not look at, and the process ends.
The setter, an inference and the daemon can be killed between any two of their steps, as the agent
does with `kill -9`: a setter killed between memset and memcpy leaves a segment without a device.
`inForce`, `clean`, `cut`, `seen` and `torn` are history: which settings an inference may have seen,
and whether a kill has cut off the last writing (`cut`).
`PolicyDaemon` takes the start of a daemon as one step, since there only its own loop reads
what it wrote.  `CHECK_CFG_FILE` is not defined in the build, so a change of the configuration
file is not noticed while the daemon runs.

### Inference and the gateway

`InferenceRuntime` has the two caches of the OpenVINO entity, `eng` (`gEngines`, by model) and
`net` (`mNetworkSet`, by file name), `temp` (`gIrtTempInferDevice`) and the policy an inference
reads.  An engine is its device, batch, network and the checksum of its file; `Backend` is one
inference of an engine, with an outcome "ok", "fail" or "die" (an exception that nobody catches).
What tells whether a model has changed is the MD5 of its .xml file: `DigestOf` gives two contents
that differ only in their weights the same digest (`v1` and `w1` in the run), and a change from
one to the other is not noticed, in the model as in the code.  Which outcomes an engine has, and
whether it keeps a half-made engine, is read off each entity.

`Services` describes every handler by its stages: the model, the engine, one call, one for each
region found or one for each token of a formula, and the set of things it does when the call
succeeds, fails or was made by the remote server.  An action of `Gateway` looks these up, so the
request loop is written once: `Accept`, `InferBegin` (policy read, engine ready), `InferEnd`,
`BadFrame`, `Kill`, `Restart`.  What differs between the processes is the scheduling: `Serving`
(one thread in C++), `MayInfer` (the Python binding holds the interpreter's lock), `Lock` and
`HealthCheck` (the gRPC server's mutex).  A method of the gRPC server that throws between lock and
unlock (a missing label file, a picture that cannot be scaled: `Throws`) leaves the mutex locked.
`HealthAnswer` takes the try_lock with its time limit, the unlock and the answer as one step:
nobody can tell whether the health check holds the mutex for a moment, since it calls nothing
meanwhile.  Contents of pictures are left out; a picture can be undecodable (`empty`), and has
some number of regions.

`InferenceService` says what all of them promise: an answer with a result follows an inference
made for that request, a remote answer a remote inference, a health check succeeds only
between inferences, and requests are lost only when the process ends, and then all.  The mapping
merges waiting and working ("open") and forgets stages, models and engines.  The gRPC server does not look
at the result of its first inference, so of it (`careful = FALSE`) the promise allows "ok" always.

### Streaming

Sections under `gMtx` are single steps.  A request is taken apart where the polling thread can
get in between: `Start` then `Spawn`; `Stop`, `Join`, `StopPipeline`; a `Read` copies `gHumans`, and
the clearing of the flag (`StopThread`) is another section, before which a poll can see somebody.
`gst_element_get_state` without a time limit may never return (`StartHangs`, `StopHangs`): the process
is then stuck until it is killed.  The thread is `PollFind` (the look-up in
the map, which a request may change under it: `torn`), `PollReset` and `Poll`.  `PoseFrame` and
`BlurFrameFails` are the callbacks of GStreamer, whose elements are external.  The clock ticks
(`Tick`) only when the thread has polled since the last tick, its interval being shorter.
Plugins are read from two directories in any order; `StreamLib` keeps the order of priorities
and what each plugin's init registers.  Pipelines are told apart by the first 24 characters of their
names (`strncmp`); the model has one name for each, a bound: names that merely begin like another
are not tried.

### Speech

Every request of `Asr` is a thread; the two threads of each session take frames and texts
through the queues, each of which is marked with the session it was recorded for.  Every global
is read and written in steps of its own, and the two threads are started one after the other;
`Thread.start` may raise (`StartRaises`, `StartMicRaises`).  `astray` becomes true when two requests
set up or stop a session at a time, which nothing in `fcgi_asr.py` prevents, or when the second
start raises, which leaves a recognizer that no flag tells of: after that only the answers of
ONLINE_STOP are followed, and the properties say nothing more.  The properties are thus about
everything else that runs concurrently: reads and offline requests beside the threads, threads that die,
and what the last session has left.

`SpeechPipeline` is what the recognizing thread calls: `recognize_audio` for a chunk, the last
of its utterance or not, or for the end of the utterance alone.  Each of the first two stages
is the same `BlockedSeqPipelineStage` with other numbers (`Mfcc`, `Rnn`): new data goes behind
the buffer (`Accepted`), the end adds padding and what the last block lacks (`Ready`, `Align`),
whole blocks are processed and the rest is kept (`Rest`).  A feature stands for the window it was
computed from, and an answer of the network for the features it saw and for how many blocks its memory
had seen, so a window of the wrong audio or a memory of the last utterance shows.  `audio`,
`features` and `transcription` are history.

### Log

`log_vsend` is `Call`, `Send`, `Reconnect` (close), `Dial` (socket and connect; the assignment of
`log->fd`), `Resend`, `Copy`.  Numbers of descriptors are taken from a table that the rest of the
process uses too, the lowest free one first.  `raced` says that a thread used `log->fd` between
close and assignment of another; `crossed`, that a message or a close hit a socket that is not
the log's.  A send over a good connection can still be rejected (EMSGSIZE for a long message on a
local socket, ENOBUFS), and then so can the retry.  The load of `log->fd` and its use by a send or a
close are one step: a thread that loaded the number before another's close would use it after it,
which the model has as the use in the window between close and assignment; and the rest of the
process always leaves a number free, so that socket() does not fail for want of one.

### Algorithms

Each task takes one input and computes one output with the operators translated from the code, and
an invariant compares it with a definition of what it is for; the task `pipeline` takes the steps
of `SpeechPipeline` instead.  The invariants: `FormsDecoded` (base64, unquoting, form values; of
an image whose size is a multiple of three the encoder reads the byte behind it, and what is
claimed is that the image comes first, whatever that byte is), `PictureReported` (of the text
detector: transposition, components of linked pixels, the upper left corner; of the recognizers:
three decoders agree, and each picture has its own text, read by the network of the length nearest
to its width, after the batches in the order of the ratios; of labels and boxes: the best tags,
and non-maximum suppression, in which a box without area, whose overlap with another such is 0/0,
never costs a face), `SpeechDecoded` (the speech decoder, below), `FramesInContext` (the speech
pipeline) and `PeopleIndexed` (persons and classes of photos).

`FramesInContext` says of every transcription, however the utterance was cut into chunks and
whatever was heard before: the windows follow each other by the stride and are no more than the audio needs;
there is one answer for each window, computed from the windows around it, with silence
or zeros only where the utterance has none, and with a memory of just the blocks before it.

`SpeechDecoded` says: the dictionary accepts exactly the prefixes of its words; the texts of the
beam search, with their probabilities and times, are those of a definition that sums over all
alignments, whatever the chunks; a batch decodes each utterance as if it were alone; the sections of a
language model's file do not overlap and no read of a record passes the end; and the probability
of a word is that of the longest n-gram present with the backoffs of the contexts that are not.
Probabilities are whole numbers that are multiplied, their logarithms whole numbers that are
added.  `add_words` needs that no word is the beginning of another, which its callers see to: a
word ends with a space, or is one character of UTF-8.  Of what the code does and the definition
states as it is: texts of probability zero are among the candidates, times need not ascend, and
the n-gram of a text by characters is padded with one start token fewer.

## 3. Runs

| run | module | bounds | what it shows |
|---|---|---|---|
| `PhotoService` | `MCSmartPhoto` | 1 client, 2 names, 2 threads, kills | one scanner, safe release, nothing left uncommitted at rest, joins find a thread |
| `PhotoLive` | `MCSmartPhoto` | 1 client, 2 names, 2 threads, kills | a late photo is scanned; joins return; a scan killed between its statements keeps the photo |
| `ServiceRequests` | `MCSmartPhotoService` | all methods, names linked to one file, 1 event under way, kills | `scan_stop` and `add_file` answer truly; requests are answered; the library implements `PhotoIndex` |
| `HealthRestart` | `MCHealthMonitor` | 1 service, 2 handlers, 2 tries, ticks of 15 seconds | the watchdog leaves a reporting container alone; a lost or broken container is replaced, though restarts fail, last and collide |
| `PolicySampling` | `MCPolicyDaemon` | 2 and 1 samples, longest 10, 1 SIGTERM | waking up and backing off |
| `PolicyRoute` | `MCPolicyRouting` | 1 setter, 1 inference, 2 devices, 1 SIGTERM, kills | torn and cut-off settings route no inference where none allows it, but to the CPU |
| `Gateway` | `MCGateway` | all 23 processes and an application, 2 threads, 2 devices, 3 contents with 2 digests, 2 regions, 2 methods | engines stay while used, caches follow their sources, the refinement of `InferenceService`, the mutex is kept only at work, a stranded one is told by the health check |
| `Streaming` | `MCStreaming` | pose and blur, 4 plugin files, 1 person, 2 states of a limb | the thread lives with its pipeline, no status of an earlier session, no stop of a pipeline that saw somebody before the copy, the background is there when used, probes are attached, the polling thread is joined |
| `Asr` | `MCAsr` | 2 requests, 2 sessions, queues of 2 | stopped means stopped, texts of the present session, the flag tells the session, requests are answered |
| `Log` | `MCLog` | 2 threads, 2 descriptors, 4 kinds of targets | messages are lost only while the server is down or rejected by the kernel, no foreign descriptor, type and framing kept |
| `Algorithms` | `MCAlgorithms` | listed in the module | the computations do what they are for |
| `PolicySetting` | `MCPolicyHistory` | 1 setter, 2 devices | violation: a new daemon overwrites the setting |

Why the bounds are enough.  Two names, with one a link to the other or not, give every way in
which two photos, or two names of one photo, can meet; two scan threads are needed for one to run
while the other was not joined.  Two handlers and the watchdog are all pairs of callers of a
restart; a tick of 15 seconds divides all three times, the interval being 4, the limit 2 and the
timeout 8, and a second try is one that follows a failed one.  The daemon's limits of 120 and 29
samples are 2 and 1 and its longest interval, 1280, is 10: the default, twice the default, a step
by four and the cap, which no step hits exactly in the model or in the code (2, 8, 32, 128, 512,
then 1280).  One SIGTERM gives a second segment. Two threads of a process are enough for one to
change an engine under the other, two devices for a change, two regions for a call that is neither
the first nor the last; the batch limit of 16 is 1, so that two regions exceed it.  Up to two
methods of the gRPC server are used in a behaviour, since methods meet only in the mutex and in a
model's engine.  Two sessions give a last one and a present one.  Two descriptors let the log's
number be taken by another socket and one be left.  In `Algorithms` the lengths pass the
boundaries: base64 texts of all remainders and of more than one line (57 bytes), audio of up to 8
samples in chunks of up to 3, with windows of 3, strides of 2, and blocks of 2 with a context of
2: chunks that are shorter than a window, a block and its context, and utterances of several
blocks.  Counters are capped where only a threshold matters (`unhealthy_count` at 3, `gpuTops` at
2, `upFor` at the timeout).

The runs reach, in distinct states: `PhotoService` 5,419,440, `PhotoLive` 345,168, `ServiceRequests`
829,187, `HealthRestart` 444,880, `PolicyRoute` 4,328,189, `Gateway` 1,420,640, `Streaming` 548,839,
`Asr` 126,265, `Algorithms` about 169,000.

Symmetry is used for scan threads, in the run that checks only invariants.  `PolicyRoute` has a VIEW
(`LiveMem`), which leaves out the contents of segments that are gone and that nobody is attached to:
no step reads them.

Fairness.  Threads of a running process are scheduled (weak fairness of each), and an inference
returns: locally it computes, remotely `HttpPost` gives up after a hundred seconds.  Nobody has to
call, to kill, to restart a service, or to fail, and no frame has to come.  `PhotoLive` assumes
that clients pause at some time (`ClientsPause`), since `pthread_mutex` is not fair and a client
could take it for ever.  Nothing is assumed of the gateway's processes: what is said of them is
safety.  For the health monitor, `docker run` is strongly fair: it may fail any number of times
but not always.  runit starts a daemon that has ended, and signals are delivered.

Deadlock is checked in every run but `Algorithms`, whose tasks end.

### What the violation says

`PolicySetting`: the documentation says a setting "will always take effect before you explicitly
change it"; a daemon that is started again writes its configuration file over it.

### Limits that the models show

The code does not claim these, so no property does; the models reach each of them.

* The scan's transaction is open while its thread infers without the mutex.  `ccai_sp_add_dir`
  then cannot BEGIN, and its END commits what the scan has written so far; a kill can then lose a
  photo (`ScanKeepsPhoto` is checked without `ccai_sp_add_dir`).
* With two clients of one handle, `ccai_sp_scan` between the two halves of
  `ccai_sp_stop_scan` starts a second scan thread.  A FastCGI process is a single client.
* A photo that changes while it is being scanned is not scanned again: its row of ChangedPhoto
  stays during inference, so the second notification is a duplicate, and then the row goes.
* When intel_gpu_top has ended by itself, `closeGpuTop` returns -1 and its caller keeps the flag.
* Two requests that set up or stop a speech session at a time can leave threads that nobody
  stops, or a stop that waits for ever.  A second `Thread.start` that raises leaves the recognizer
  running with the flag unset.
* A restart that lasts until the new container reports is followed by another, of the successor: the
  count of unhealthy reports is not cleared.  A restart of about a minute lets the watchdog find a
  container that has not reported yet, and restart it.
* A setter killed between memset and memcpy leaves no device: inferences go to the CPU until the next
  setting.
* New weights under an unchanged .xml file are not noticed.  Where a model is also inferred with, or
  its build has failed, `simulate_lib_init` can build an engine from the network of the old file.
* A method of the gRPC server that throws leaves the mutex locked; only the health check tells.
* A poll that sees somebody between a read's copy of `gHumans` and the clearing of the flag does
  not keep the pipeline from being stopped; a second start of the pose pipeline ends the process.
* A message that the kernel rejects over a good connection is lost with the server up.
* Two threads inside `log_reconnect` can close a socket of the rest of the process.  After a
  refused reconnection a server given as `tcp://` is spoken to with datagrams.

## 4. Proofs

Every safety property of the runs is a theorem, for every value of the constants that the named
assumptions allow; but for the four of `Algorithms` about recursive computations.  Each rests on
an inductive invariant that TLC had checked on an instance before it was proved.

`SmartPhotoProofs`, for every set of names, contents and threads, every set of calls and with or
without kills:

* `TypeCorrect`: `Spec => []TypeOK`;
* `AllCommitted`: `Spec => []QuiescentDurable`, for any number of clients;
* `SingleScanner`: `Spec => []OneScanner`, for one client (`OnlyClient`);
* `SafeRelease`: `Spec => []NoUseAfterFree`, for one client;
* `JoinsOnce`: `Spec => []JoinFindsThread`, for one client and every call, `ccai_sp_wait_scan` too;
* `ScanKeeps`: `Spec => ScanKeepsPhoto`, for one client that does not call `ccai_sp_add_dir`;
* `CallsImplementIndex`: `Spec => CallsAtomic`, the refinement of `PhotoIndex`, for any number of
  clients and every call.

The inductive invariant has parts.  `TypeInv` adds to the types who holds the mutex and that
`stmts` is nonempty exactly for a holder that executes (`MutexInv`); without it a step of
`ClientExec` could take the head of an empty sequence.  `TxnInv` says who will end an open
transaction: the batch of a scan thread, or the END at the end of the holder's program; and that
without one `work = durable`.  It is preserved although `ccai_sp_add_dir` may end the scan's
transaction, since a thread in its batch then merely has no transaction to end.  `ScanInv` ties a
running thread whose flag is cleared to the client that stops it: that client waits in its join
and can call nothing else, so no other thread can be started.  With two clients that is false,
hence `OnlyClient`. `JoinInv` says that, unless the last `pthread_create` failed, a flag that is
set has its thread at work, which clears it before it ends, and a client on its way to the join a
thread that nobody has joined; a later `pthread_create` that succeeds restores it.  `BatchInv`
says that a batch is inside its transaction from its BEGIN to its END; the END of
`ccai_sp_add_dir` would end it in the middle.

For the refinement, what the index shows is `After(stmts, work)`: the tables as they will be once
the holder of the mutex has run its statements.  Taking the mutex is then the step of the call,
and each statement leaves the index as it is (`ExecSaves`); `AheadInv` lists the programs that can
be ahead.  What a statement does to the file is `Saves`: nothing inside a transaction, the whole
index at its END, and outside of one what `PhotoIndex` allows, where the row of the photo that
is being stored is for two statements neither the old nor the new one.

`SmartPhotoServiceProofs`, for any photos, threads and requests:

* `ServiceImplementsLibrary`: `ServiceSpec => Spec`: a step of the request loop or of the monitor is
  a call of the library's only client or changes nothing of the library, so what is proved of
  `Spec` with one client holds in the service;
* `StopAnswered`: `ServiceSpec => []StopAnswerTrue`;
* `AddsKept`: `ServiceSpec => []NoLostAdd`.

The invariant `ServiceInv` says where the library call is at each stage of a request
(`StageInv`), that a stop has yet to join or finds no thread (`StopInv`), that the flag is set only
while a thread scans or because the last `pthread_create` failed (`FlagInv`), and that a scan thread puts
nothing on the waiting list (`ProgramInv`).  `NoLostAdd` needs the last two: between an add and
its start of a scan the list can only get shorter, and a flag that hides a missing thread is
there only after a failure.

`HealthProofs`, for any number of threads in notify, targets and tries, and any times of which the
interval and twice docker's limit are no more than the timeout (`TimesAssumption`):

* `WatchdogProved`: `Spec => WatchdogPatient`, with restarts of any length.

`Owed` says how far a container that has made every report it owes is from the timeout: where its
next report is (to be waited for, before the call, in the call before the feed) and how long ago, at
the most, the watchdog was fed or the container run.  A report can be at the beginning of one run of
the agent and the next at the end of another, so that the interval and both runs lie between two
feeds; hence the assumption, which the numbers in the code just meet.

`PolicyRoutingProofs`, for any number of processes that infer:

* `Routed`: `Spec => []RoutedAsSet`.

Its invariant follows a value through the segment: the segment holds what is in force or being
set (`Published`), exactly that when nothing overlapped (`Exact`); what is being written has been
offered to every process in a call (`Offered`); and what such a process can read or has read was
offered to it (`ReadSeen`), also from a segment that was removed under it.  A segment without a
device is being written, or a kill has cut that off (`cut`).  The numbers of
segments and the types (`Bounds`) are needed since a process may keep the number of a segment
that is gone.

`GatewayProofs`, for any number of threads, models, devices, contents, batches and regions:

* `EngineProved`: `Spec => []EngineStable`;
* `PromiseProved`: `Spec => KeepsPromise`, the refinement of `InferenceService`;
* `CachesProved`: `Spec => []CachesFollow`;
* `MutexProved`: `Spec => []MutexReleased`;
* `StrandedProved`: `Spec => StrandedSeen`.

What the handlers have in common is the operator `HandlerOK`, proved for each of them from
`Services` (`CppOK`, `PyOK`, `GrpcOK`, `MainOK`); the rest of the proof knows no single service.
Its invariant says what a thread can be working on (`Doing`: the stage exists, and past the
first stage of a careful process "ok" is among the results), that only a process that is up and
ready serves (`Served`), and who may infer (`Locked`: the holder of the mutex in the gRPC
server, one thread at a time in Python, the only thread in C++).  `EngineStable` follows from
`Locked`; a health check that finds the mutex free finds no inference for the same reason.  The
refinement has one lemma for each action, which names the step of `InferenceService` it is.
`CacheInv` adds that only an application's call is reported as an inference or a
`simulate_lib_init`, and `Simulated`: of a model that nothing but the latter has used, the engine
holds a network with the digest it keeps, and without an engine there is no network
that a new one could take instead of the file's.

`StreamingProofs`, for any number of persons and states of a limb, and every order of the
plugin files:

* `ProbesProved`, `PolledProved`, `FreshProved`, `UnseenProved`, `BackgroundProved`:
  `ProbesAttached`, `PolledWhileStarted`, `FreshStatus` and `BackgroundReady` are invariants of `Spec`,
  and every step that decides to stop the pipeline is as `StoppedOnlyUnseen` says.

`LibInv` says that the launcher is initialised before the plugins whose probes need what it
registers, which follows from the order that `StreamLib` keeps by priority.  `Together` says that
the pose pipeline, its thread and its flag come and go together but for what a request has done so far,
and `PersonKept` that who was polled since the timer started is still in the results.

`SpeechProofs`, for any number of requests, sessions and frames:

* `StopProved`: `Spec => []StopMeansStopped`;
* `SessionProved`: `Spec => []OwnSession`;
* `FlagProved`: `Spec => []FlagTellsSession`.

Its invariant is `Shape`, which always holds, and `Calm`, which holds until the session goes
astray: one request at a time changes the session (`OneChanges`), only the last session has
threads (`LastOnly`), the flag and the pool belong together but for the moment between the first
start of a thread and the setting of the flag (`FlagAndPool`), a request that joins has only dead
threads behind it (`JoinedDead`), and the queues and the recognizer hold only frames of the last
session (`OwnFrames`).  The last needs the others: the flush of the queues suffices only because
the threads that could put something afterwards are dead.

and of the pipeline, for any samples, any stride and window (the window no shorter than the stride),
any block and any even context, any chunks and any number of utterances:

* `FramesInContextAlways`: `PipelineSpec => []FramesInContext`.

The invariant `PipelineInv` relates each buffer to the history.  A stage that has done n blocks of
its data holds the rest of the padded data (`Holds`), with less than a block and its context in it
between two calls (`Waits`); the features are the windows of the audio so far (`MfccHas`), and the
answers are those for the padded features so far, n blocks of them (`RnnHas`).  `DecoderOk` says which
frames of the decoder belong to the utterance: none before the first answer, when the decoder is
new or was finalized.  The lemmas about a stage are proved once for both (`AcceptedHolds`,
`RestWaits`, `FinishedBlocks`): taking data keeps `Holds`, taking blocks away restores `Waits`, and at
the end padding makes the data whole blocks.  What makes the theorem true for all chunks is that
a window or a context that lies in the data is not changed by data behind it (`WindowKept`,
`AnswersKept`), and zeros behind the last one do not matter (`WindowZeroed`, `AnswerZeroed`).

`LogProofs`, for any number of threads and descriptors:

* `LostProved`: `Spec => []LostOnlyWhileDown`;
* `DescriptorProved`: `Spec => []OwnDescriptor`;
* `TypeProved`: `Spec => []TypeKept`.

What is connected and alive has the type of a server that is up (`LiveLocal`, `InTouch`).  Until
threads have raced in `log_reconnect`, one thread at a time is between the close and the
assignment of `log->fd` and finds a free number (`OneDials`), what it dials with includes the
server's type (`Redialled`), and the framing of a message is that of the connection it will go over
(`FramedLocal`, `FramedRemote`, `Framed`).  A thread that sends again may do so over a connection
that a later one has made, so these speak of pairs of threads.

The assumptions are those named in the modules, which TLC evaluates in the runs: sizes that are
positive, sets that are not empty, markers that are no values.  `MethodAssumption` says that the
requests are of methods the service has, `RoutingAssumption` that no device is called like one
of the other places of an inference, `SetupAssumption` that the model a process loads first is one
of its models.

Only model-checked: everything about liveness and fairness, which the prover does not do
(`PendingScanned`, `JoinReturns`, `RequestAnswered`, `ContainerRestored`, `BrokenReplaced`,
`WakeupEndsSleep`, `IdleBacksOff`, `PollingJoined`, `AsrAnswers`), and what the recursive
computations of `Algorithms` return (`FormsDecoded`, `PictureReported`, `SpeechDecoded`,
`PeopleIndexed`), since the prover has no induction over data.

## 5. Not modelled

The components marked `not_modelled` in `PROJECT.json`: programs without state of their own
(information services, DNS interceptor, API users, encryption, OTA).  Of the speech decoder: the
bindings that SWIG generates, the hash of a word, the cutoffs that prune characters (the service's
values prune none), and the scores of whole sentences in the batched interface.  Of the modelled
ones: the numbers of an inference (pictures, keypoints, spectra), the tables `Classification` and
`PhotoClass`, which no call writes, wording and formats of answers, authentication, the options of
`docker run`, the pid in the segment beyond whether its daemon runs, the calls of the library for
video pipelines and live speech, GStreamer itself, the sample plugin, and the header text and
options of RFC 5424 in the log. The text detector of the Python OCR service is not among the
algorithms: it looks at 24 neighbours with 8 links, so what it returns depends on what lies behind
the array.

## 6. Plan

1. Proofs of what the daemon's ladder of intervals never does (a safety part of `IdleBacksOff`), and of
   the single steps of `Algorithms` that need no recursion.
2. Live speech and the video pipelines of the inference library.
