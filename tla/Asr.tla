--------------------------------- MODULE Asr ---------------------------------
(***************************************************************************)
(* The speech recognition service, fcgi_asr.py: flup runs every request in a *)
(* thread of its own; ONLINE_READ starts a session of two threads, one that   *)
(* records and one that recognizes, which live on between the requests and    *)
(* are stopped by ONLINE_STOP or by an OFFLINE request. All of them share the  *)
(* globals of the module, without a lock. Bounds: once the session is astray  *)
(* only ONLINE_STOP requests are followed, and no more frames.                 *)
(***************************************************************************)
EXTENDS Integers, Sequences, FiniteSets

CONSTANTS
    Request,       \* requests that may be open at a time
    MaxSessions,   \* sessions that are started
    MaxQueue       \* frames or results that wait in a queue

ASSUME AsrAssumption == {MaxSessions, MaxQueue} \subseteq Nat \ {0} /\ IsFiniteSet(Request)

Session == 1 .. MaxSessions
Life == {"none", "made", "run", "busy", "done"}

VARIABLES
    gAsrStop, gOnlineThreadRunning,
    gThreadPool,   \* threads, each a record of its role and its session
    gAudioBuffer,  \* frames, each the session it was recorded for
    gResultBuffer, \* texts: the session that recognized it, and those it was recorded for
    life,          \* of the threads of each session
    heard,         \* what the recognizer of a session has of the present utterance
    sessions,      \* how many were started
    req,           \* the open requests
    answer,        \* what is answered in this step
    astray         \* history: two requests were setting up or stopping a session at a time, or
                   \* one of a session's threads was started and the other could not be

vars == <<gAsrStop, gOnlineThreadRunning, gThreadPool, gAudioBuffer, gResultBuffer, life, heard,
          sessions, req, answer, astray>>
queues == <<gAudioBuffer, gResultBuffer>>
threads == <<life, heard, sessions>>
globals == <<gAsrStop, gOnlineThreadRunning, gThreadPool>>

Idle == [pc |-> "idle", kind |-> "none", i |-> 0]
Nothing == [what |-> "none", by |-> 0, from |-> {}]
Text(r) == [what |-> "text", by |-> r.by, from |-> r.from]

Alive(s) == {life[s].mic, life[s].ctc} \cap {"run", "busy"} # {}
Exclusive == {"setup", "flush", "start", "start_mic", "mark", "set", "join"}

Init ==
    /\ gAsrStop = FALSE /\ gOnlineThreadRunning = FALSE /\ gThreadPool = <<>>
    /\ gAudioBuffer = <<>> /\ gResultBuffer = <<>>
    /\ life = [s \in Session |-> [mic |-> "none", ctc |-> "none"]]
    /\ heard = [s \in Session |-> {}] /\ sessions = 0
    /\ req = [t \in Request |-> Idle] /\ answer = Nothing /\ astray = FALSE

At(t, pc) == req[t].pc = pc
Moves(t, r, a) ==
    /\ req' = [req EXCEPT ![t] = r] /\ answer' = a
    /\ astray' = (astray \/ (r.pc \in Exclusive /\ \E u \in Request \ {t} : req[u].pc \in Exclusive))
Goto(t, pc) == Moves(t, [req[t] EXCEPT !.pc = pc, !.i = 0], Nothing)
Reply(t, a) == Moves(t, Idle, a)
Plain(what) == [Nothing EXCEPT !.what = what]

-----------------------------------------------------------------------------
Entry == [OFFLINE |-> "offline", ONLINE_READ |-> "check", ONLINE_STOP |-> "set"]

\* get_result up to the parameter realtime. The health check and a wrong parameter are
\* answered at once; a missing one raises.
Accept(t, kind) ==
    /\ At(t, "idle") /\ (astray => kind = "ONLINE_STOP")
    /\ \/ Moves(t, [pc |-> Entry[kind], kind |-> kind, i |-> 0], Nothing)
       \/ \E a \in {"healthcheck", "error", "raise"} : Reply(t, Plain(a))
    /\ UNCHANGED <<globals, queues, threads>>

\* OFFLINE: a session that runs is closed first.
Offline(t) ==
    /\ At(t, "offline")
    /\ Goto(t, IF gOnlineThreadRunning THEN "set" ELSE "recognize")
    /\ UNCHANGED <<globals, queues, threads>>

\* It recognizes with a pipeline of its own, or raises.
Recognize(t) ==
    /\ At(t, "recognize")
    /\ \E a \in {"ok", "error", "raise"} : Reply(t, Plain(a))
    /\ UNCHANGED <<globals, queues, threads>>

\* ONLINE_READ: without a session one is set up; a microphone needs the address of a pulse
\* server, which the health monitor is asked for.
Check(t) ==
    /\ At(t, "check")
    /\ IF gOnlineThreadRunning THEN Goto(t, "read")
       ELSE (sessions < MaxSessions /\ Goto(t, "setup")) \/ \E a \in {"error", "raise"} : Reply(t, Plain(a))
    /\ UNCHANGED <<globals, queues, threads>>

Clear(t) ==
    /\ At(t, "setup")
    /\ gAsrStop' = FALSE
    /\ Goto(t, "flush")
    /\ UNCHANGED <<gOnlineThreadRunning, gThreadPool, queues, threads>>

\* Mutant of Flush: the results of the last session are kept.
FlushAudio(t) ==
    /\ At(t, "flush") /\ sessions < MaxSessions
    /\ LET s == sessions + 1
       IN  /\ gThreadPool' = <<[role |-> "mic", of |-> s], [role |-> "ctc", of |-> s]>>
           /\ life' = [life EXCEPT ![s] = [mic |-> "made", ctc |-> "made"]]
           /\ sessions' = s
    /\ gAudioBuffer' = <<>>
    /\ Moves(t, [req[t] EXCEPT !.pc = "start", !.i = sessions + 1], Nothing)
    /\ UNCHANGED <<gAsrStop, gOnlineThreadRunning, gResultBuffer, heard>>

\* The queues and the pool are cleared, and two new threads are put into the pool.
Flush(t) ==
    /\ At(t, "flush") /\ sessions < MaxSessions
    /\ LET s == sessions + 1
       IN  /\ gThreadPool' = <<[role |-> "mic", of |-> s], [role |-> "ctc", of |-> s]>>
           /\ life' = [life EXCEPT ![s] = [mic |-> "made", ctc |-> "made"]]
           /\ sessions' = s
    /\ gAudioBuffer' = <<>> /\ gResultBuffer' = <<>>
    /\ Moves(t, [req[t] EXCEPT !.pc = "start", !.i = sessions + 1], Nothing)
    /\ UNCHANGED <<gAsrStop, gOnlineThreadRunning, heard>>

\* p_ctc.start(), then p_mic.start().
Start(t) ==
    /\ At(t, "start")
    /\ life' = [life EXCEPT ![req[t].i].ctc = "run"]
    /\ Moves(t, [req[t] EXCEPT !.pc = "start_mic"], Nothing)
    /\ UNCHANGED <<globals, queues, heard, sessions>>

StartMic(t) ==
    /\ At(t, "start_mic")
    /\ life' = [life EXCEPT ![req[t].i].mic = "run"]
    /\ Goto(t, "mark")
    /\ UNCHANGED <<globals, queues, heard, sessions>>

\* Thread.start raises when the system has no thread left: the pool keeps a thread that was
\* not started, and after the second start the recognizer runs without the flag.
StartRaises(t) ==
    /\ At(t, "start")
    /\ Reply(t, Plain("raise"))
    /\ UNCHANGED <<globals, queues, threads>>

StartMicRaises(t) ==
    /\ At(t, "start_mic")
    /\ req' = [req EXCEPT ![t] = Idle] /\ answer' = Plain("raise")
    /\ astray' = TRUE
    /\ UNCHANGED <<globals, queues, threads>>

\* Mutant of Mark: the flag is left.
MarkNot(t) ==
    /\ At(t, "mark")
    /\ Goto(t, "read")
    /\ UNCHANGED <<globals, queues, threads>>

Mark(t) ==
    /\ At(t, "mark")
    /\ gOnlineThreadRunning' = TRUE
    /\ Goto(t, "read")
    /\ UNCHANGED <<gAsrStop, gThreadPool, queues, threads>>

\* gResultBuffer.get with two seconds' time.
Read(t) ==
    /\ At(t, "read")
    /\ IF gResultBuffer = <<>>
       THEN Reply(t, Plain("silence")) /\ UNCHANGED gResultBuffer
       ELSE Reply(t, Text(Head(gResultBuffer))) /\ gResultBuffer' = Tail(gResultBuffer)
    /\ UNCHANGED <<globals, gAudioBuffer, threads>>

Set(t) ==
    /\ At(t, "set")
    /\ gAsrStop' = TRUE
    /\ Moves(t, [req[t] EXCEPT !.pc = "join", !.i = 1], Nothing)
    /\ UNCHANGED <<gOnlineThreadRunning, gThreadPool, queues, threads>>

State(p) == IF p.role = "mic" THEN life[p.of].mic ELSE life[p.of].ctc
NextThread(t) == Moves(t, [req[t] EXCEPT !.i = @ + 1], Nothing)

\* Mutant of Join: a thread is not waited for.
JoinNot(t) ==
    /\ At(t, "join") /\ req[t].i <= Len(gThreadPool)
    /\ NextThread(t)
    /\ UNCHANGED <<globals, queues, threads>>

\* for p in gThreadPool: p.join(), which raises for a thread that was not started.
Join(t) ==
    /\ At(t, "join") /\ req[t].i <= Len(gThreadPool)
    /\ LET its == State(gThreadPool[req[t].i])
       IN  (its = "done" /\ NextThread(t)) \/ (its = "made" /\ Reply(t, Plain("raise")))
    /\ UNCHANGED <<globals, queues, threads>>

Joined(t) ==
    /\ At(t, "join") /\ req[t].i > Len(gThreadPool)
    /\ gThreadPool' = <<>> /\ gOnlineThreadRunning' = FALSE
    /\ IF req[t].kind = "OFFLINE" THEN Goto(t, "recognize") ELSE Reply(t, Plain("stopped"))
    /\ UNCHANGED <<gAsrStop, queues, threads>>

-----------------------------------------------------------------------------
Quiet == answer' = Nothing /\ UNCHANGED <<globals, sessions, req, astray>>
MicIs(s, what) == life' = [life EXCEPT ![s].mic = what]

\* asr_mic_thread: while it is not stopped it records a frame, of 20 ms,
MicTakes(s) ==
    /\ life[s].mic = "run" /\ ~gAsrStop /\ Len(gAudioBuffer) < MaxQueue /\ ~astray
    /\ MicIs(s, "busy")
    /\ Quiet /\ UNCHANGED <<queues, heard>>

\* and puts it, also when it was stopped in between.
MicPuts(s) ==
    /\ life[s].mic = "busy"
    /\ gAudioBuffer' = Append(gAudioBuffer, s)
    /\ MicIs(s, "run")
    /\ Quiet /\ UNCHANGED <<gResultBuffer, heard>>

\* It ends when it is stopped, or at once without a sound library or without data.
MicEnds(s) ==
    /\ life[s].mic = "run"
    /\ MicIs(s, "done")
    /\ Quiet /\ UNCHANGED <<queues, heard>>

\* vad_collector takes a frame: it is outside of speech, or belongs to the utterance, which
\* it may end.
Collect(s) ==
    /\ life[s].ctc = "run" /\ gAudioBuffer # <<>> /\ ~gAsrStop
    /\ gAudioBuffer' = Tail(gAudioBuffer)
    /\ \/ heard[s] = {} /\ UNCHANGED <<heard, life>>
       \/ /\ heard' = [heard EXCEPT ![s] = @ \cup {Head(gAudioBuffer)}]
          /\ \/ UNCHANGED life
             \/ heard[s] # {} /\ Len(gResultBuffer) < MaxQueue /\ life' = [life EXCEPT ![s].ctc = "busy"]
    /\ Quiet /\ UNCHANGED gResultBuffer

CtcEnds(s) == life' = [life EXCEPT ![s].ctc = "done"] /\ heard' = [heard EXCEPT ![s] = {}]

\* asr_ctc_thread puts the text of the utterance, also when it is stopped while it
\* recognizes.
Finish(s) ==
    /\ life[s].ctc = "busy"
    /\ gResultBuffer' = Append(gResultBuffer, [by |-> s, from |-> heard[s]])
    /\ life' = [life EXCEPT ![s].ctc = "run"] /\ heard' = [heard EXCEPT ![s] = {}]
    /\ Quiet /\ UNCHANGED gAudioBuffer

\* Mutant of Stops: without a time limit the recognizer waits for a frame.
StopsOnFrame(s) ==
    /\ life[s].ctc = "run" /\ gAsrStop /\ gAudioBuffer # <<>>
    /\ gAudioBuffer' = Tail(gAudioBuffer)
    /\ CtcEnds(s)
    /\ Quiet /\ UNCHANGED gResultBuffer

\* With a frame, or after five seconds without one, the recognizer sees the event.
Stops(s) ==
    /\ life[s].ctc = "run" /\ gAsrStop
    /\ gAudioBuffer' = IF gAudioBuffer = <<>> THEN <<>> ELSE Tail(gAudioBuffer)
    /\ CtcEnds(s)
    /\ Quiet /\ UNCHANGED gResultBuffer

\* An inference that fails leaves an output that cannot be reshaped, and an utterance
\* without a text has no first candidate: the exception ends the thread. So does the second
\* look at the event, before an utterance is finished.
CtcLeaves(s) ==
    /\ life[s].ctc \in {"run", "busy"}
    /\ CtcEnds(s)
    /\ Quiet /\ UNCHANGED queues

Serve(t) ==
    \/ Offline(t) \/ Recognize(t) \/ Check(t) \/ Clear(t) \/ Flush(t) \/ Start(t) \/ StartMic(t) \/ Mark(t)
    \/ Read(t) \/ Set(t) \/ Join(t) \/ Joined(t)

MicThread(s) == MicTakes(s) \/ MicPuts(s) \/ MicEnds(s)
CtcThread(s) == Collect(s) \/ Finish(s) \/ Stops(s)

Next ==
    \/ \E t \in Request : Serve(t) \/ StartRaises(t) \/ StartMicRaises(t)
    \/ \E t \in Request : \E kind \in {"OFFLINE", "ONLINE_READ", "ONLINE_STOP"} : Accept(t, kind)
    \/ \E s \in Session : MicThread(s) \/ CtcThread(s) \/ CtcLeaves(s)

\* Every thread of the process runs on; a blocking get ends with its timeout.
Spec ==
    /\ Init /\ [][Next]_vars
    /\ \A t \in Request : WF_vars(Serve(t))
    /\ \A s \in Session : WF_vars(MicThread(s)) /\ WF_vars(CtcThread(s))

-----------------------------------------------------------------------------
\* ONLINE_STOP: after "Stop online mode successfully" no thread of any session records or
\* recognizes, whatever other requests read or recognize meanwhile, unless two requests set
\* up or stopped a session at a time or a start raised between the two threads.
StopMeansStopped ==
    answer.what = "stopped" /\ ~astray => \A s \in Session : ~Alive(s)

\* ONLINE_READ: a text was recognized by the present session from nothing but what was
\* recorded for it, though both queues outlive the sessions and a read of the last session
\* may still wait.
OwnSession ==
    answer.what = "text" /\ ~astray => answer.by = sessions /\ answer.from = {sessions}

\* The flag says that there is a session whenever one lives and no request is about to
\* change that, and no other session lives beside it. Two requests that start one at the same
\* time are excluded, and a start that raises between the two threads.
FlagTellsSession ==
    ~astray /\ (\A t \in Request : req[t].pc \notin Exclusive) =>
        /\ Cardinality({s \in Session : Alive(s)}) <= 1
        /\ (\E s \in Session : Alive(s)) => gOnlineThreadRunning

\* Every request is answered: the two threads of a session end when they are told to, also
\* with an empty queue and when one of them has died. Where the session is astray, one may
\* wait for ever for a thread that the other told to go on.
AsrAnswers ==
    \A t \in Request : (~At(t, "idle")) ~> (At(t, "idle") \/ astray)
=============================================================================
