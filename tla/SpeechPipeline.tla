---------------------------- MODULE SpeechPipeline ----------------------------
(***************************************************************************)
(* DeepSpeechSeqPipeline: the audio of an utterance comes in chunks and goes *)
(* through three stages, each a BlockedSeqPipelineStage: windows of audio    *)
(* become features, blocks of features with their context are given to the   *)
(* network, and what it answers for each frame goes to the decoder.          *)
(*                                                                           *)
(* A feature stands for its window, an answer for the features around its    *)
(* frame and for how many blocks the network's memory has seen. No data is   *)
(* <<>>: a chunk is never empty, and a stage returns None or something.      *)
(* Bounds: MaxChunk samples in a chunk, MaxAudio in an utterance.            *)
(***************************************************************************)
EXTENDS Integers, Sequences

CONSTANTS
    Sample,                 \* samples; 0 is silence
    StrideLen, WindowLen,   \* samples from one window to the next, and in a window
    BlockLen,               \* 16 frames in a block of the network
    ContextLen,             \* frames around one frame, an even number
    MaxChunk, MaxAudio

ASSUME PipelineAssumption ==
    /\ 0 \in Sample
    /\ {StrideLen, BlockLen} \subseteq Nat \ {0}
    /\ WindowLen \in Nat /\ WindowLen >= StrideLen
    /\ ContextLen \in Nat /\ ContextLen % 2 = 0
    /\ {MaxChunk, MaxAudio} \subseteq Nat

VARIABLES
    mfcc_stage, rnn_stage,  \* their buffers, which begin with the left padding
    rnn_state,              \* blocks that the network's memory has seen, 0 for none
    ctc_begun, decoder,     \* the third stage has had data; the frames its decoder has
    audio, features,        \* history: of the present utterance
    transcription           \* what the last call returned, with the utterance it is of

pipelineVars == <<mfcc_stage, rnn_stage, rnn_state, ctc_begun, decoder, audio, features, transcription>>

Mfcc == [block |-> StrideLen, context |-> WindowLen - StrideLen, padding |-> 0, zero |-> 0]
Rnn == [block |-> BlockLen, context |-> ContextLen, padding |-> ContextLen \div 2, zero |-> <<>>]

Empty == [begun |-> FALSE, buffer |-> <<>>]

PipelineInit ==
    /\ mfcc_stage = Empty /\ rnn_stage = Empty /\ rnn_state = 0
    /\ ctc_begun = FALSE /\ decoder = [frames |-> <<>>, finalized |-> FALSE]
    /\ audio = <<>> /\ features = <<>> /\ transcription = <<>>

-----------------------------------------------------------------------------
Zeros(n, zero) == [i \in 1 .. n |-> zero]

\* New data is put behind the buffer.
Accepted(p, st, data) ==
    IF data = <<>> THEN st
    ELSE [begun |-> TRUE, buffer |-> (IF st.begun THEN st.buffer ELSE Zeros(p.padding, p.zero)) \o data]

\* With finish, the zeros that the last block lacks.
Align(p, n) == (-(n + p.padding - p.context)) % p.block

\* What is processed: with finish the right padding as well.
Ready(p, st, finish) ==
    IF finish /\ st.begun THEN st.buffer \o Zeros(p.padding + Align(p, Len(st.buffer)), p.zero) ELSE st.buffer

\* As many blocks as there are, each with its context.
Blocks(p, n) == IF n < p.block + p.context THEN 0 ELSE (n - p.context) \div p.block

\* Mutant of Rest: the end of an utterance does not reset the stage.
RestKept(p, st, finish) ==
    [st EXCEPT !.buffer = SubSeq(st.buffer, Blocks(p, Len(st.buffer)) * p.block + 1, Len(st.buffer))]

\* The buffer after the call.
Rest(p, st, finish) ==
    IF finish THEN Empty
    ELSE [st EXCEPT !.buffer = SubSeq(st.buffer, Blocks(p, Len(st.buffer)) * p.block + 1, Len(st.buffer))]

\* AudioFeaturesSeqPipelineStage: a feature for each window.
Windows(ready) ==
    [k \in 1 .. Blocks(Mfcc, Len(ready)) |-> SubSeq(ready, (k - 1) * StrideLen + 1, (k - 1) * StrideLen + WindowLen)]

\* RnnSeqPipelineStage: an answer for each frame of each block, but for the last cut ones.
Answers(ready, seen, cut) ==
    LET n == Blocks(Rnn, Len(ready))
    IN  [i \in 1 .. (IF n = 0 THEN 0 ELSE n * BlockLen - cut) |->
            [context |-> SubSeq(ready, i, i + ContextLen), memory |-> seen + (i - 1) \div BlockLen]]

\* SeqCtcLmDecoder.append_data: a decoder that was finalized begins a new sequence.
Decoding(probs) ==
    IF probs = <<>> THEN decoder
    ELSE [frames |-> (IF decoder.finalized THEN <<>> ELSE decoder.frames) \o probs, finalized |-> FALSE]

\* recognize_audio; with finish, a third stage that never had data returns None.
recognize_audio(data, finish) ==
    LET m == Accepted(Mfcc, mfcc_stage, data)
        new == Windows(Ready(Mfcc, m, finish))
        r == Accepted(Rnn, rnn_stage, new)
        ready == Ready(Rnn, r, finish)
        probs == Answers(ready, rnn_state, IF finish THEN Align(Rnn, Len(r.buffer)) ELSE 0)
        begun == ctc_begun \/ probs # <<>>
    IN  /\ mfcc_stage' = Rest(Mfcc, m, finish)
        /\ rnn_stage' = Rest(Rnn, r, finish)
        /\ rnn_state' = IF finish THEN 0 ELSE rnn_state + Blocks(Rnn, Len(ready))
        /\ ctc_begun' = (begun /\ ~finish)
        /\ decoder' = [Decoding(probs) EXCEPT !.finalized = @ \/ (finish /\ begun)]
        /\ audio' = IF finish THEN <<>> ELSE audio \o data
        /\ features' = IF finish THEN <<>> ELSE features \o new
        /\ transcription' =
               IF ~finish THEN <<>>
               ELSE <<[audio |-> audio \o data, features |-> features \o new,
                       frames |-> IF begun THEN Decoding(probs).frames ELSE <<>>]>>

Samples(n) == [1 .. n -> Sample]

\* A chunk of audio, the last of the utterance or not, or the end of the utterance alone.
PipelineNext ==
    \/ \E n \in 1 .. MaxChunk :
          /\ Len(audio) + n <= MaxAudio
          /\ \E data \in Samples(n), finish \in BOOLEAN : recognize_audio(data, finish)
    \/ recognize_audio(<<>>, TRUE)

PipelineSpec == PipelineInit /\ [][PipelineNext]_pipelineVars

-----------------------------------------------------------------------------
\* However an utterance was cut into chunks, and whatever was heard before: its windows
\* follow each other by the stride, are no more than its audio needs, and silence fills the
\* last one; there is one answer for each window, made from the windows around it, of this
\* utterance only, and with a memory of just the blocks before it.
FramesInContext ==
    transcription # <<>> =>
        LET t == transcription[1]
            heard == t.audio \o Zeros(StrideLen, 0)
            around == Zeros(ContextLen \div 2, <<>>) \o t.features \o Zeros(ContextLen \div 2, <<>>)
            n == Len(t.features)
        IN  /\ IF Len(t.audio) + StrideLen <= WindowLen THEN n = 0
               ELSE (n - 1) * StrideLen + WindowLen \in Len(t.audio) .. Len(heard) - 1
            /\ \A k \in 1 .. n : t.features[k] = SubSeq(heard, (k - 1) * StrideLen + 1, (k - 1) * StrideLen + WindowLen)
            /\ Len(t.frames) = n
            /\ \A i \in 1 .. n : t.frames[i] = [context |-> SubSeq(around, i, i + ContextLen), memory |-> (i - 1) \div BlockLen]
=============================================================================
