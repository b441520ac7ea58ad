----------------------------- MODULE SpeechProofs -----------------------------
(***************************************************************************)
(* Proofs about the speech recognition service. The pipeline, for every     *)
(* length of windows, blocks and contexts and for all chunks of audio; and  *)
(* the sessions, for every number of requests, sessions and frames.         *)
(***************************************************************************)
EXTENDS Asr, SpeechPipeline, FiniteSetTheorems, SequenceTheorems, TLAPS

-----------------------------------------------------------------------------
(* The pipeline of the recognizer: its inductive invariant.                *)

Feature == Seq(Sample)
Frame == [context : Seq(Feature), memory : Nat]

Suffix(s, n) == SubSeq(s, n + 1, Len(s))

\* All that a stage has had of an utterance, with the left padding.
Padded(p, data) == Zeros(p.padding, p.zero) \o data

\* A stage that has done n blocks of the data keeps the rest of it.
Holds(p, st, data, n) ==
    /\ n \in Nat
    /\ st.begun = (data # <<>>)
    /\ ~st.begun => n = 0 /\ st.buffer = <<>>
    /\ st.begun => /\ n = 0 \/ n * p.block + p.context <= Len(Padded(p, data))
                   /\ st.buffer = Suffix(Padded(p, data), n * p.block)

\* Between two calls there is no block left in it.
Waits(p, st, data, n) == Holds(p, st, data, n) /\ Len(st.buffer) < p.block + p.context

Window(s, k) == SubSeq(s, (k - 1) * StrideLen + 1, (k - 1) * StrideLen + WindowLen)
Answer(s, i) == [context |-> SubSeq(s, i, i + ContextLen), memory |-> (i - 1) \div BlockLen]

StageState(S) == [begun : BOOLEAN, buffer : Seq(S)]

\* The windows made so far are those of the audio heard so far.
MfccHas(st, said, made) ==
    /\ st \in StageState(Sample) /\ said \in Seq(Sample) /\ made \in Seq(Feature)
    /\ Waits(Mfcc, st, said, Len(made))
    /\ \A k \in 1 .. Len(made) : made[k] = Window(said, k)

\* The answers of n blocks are those for the windows made so far.
RnnHas(st, made, n, answers) ==
    /\ st \in StageState(Feature) /\ made \in Seq(Feature) /\ answers \in Seq(Frame)
    /\ Waits(Rnn, st, made, n)
    /\ Len(answers) = n * BlockLen
    /\ \A i \in 1 .. Len(answers) : answers[i] = Answer(Padded(Rnn, made), i)

\* The frames of the present utterance.
Current == IF ctc_begun THEN decoder.frames ELSE <<>>

\* A decoder that has nothing of this utterance is new, or begins again with the next data.
DecoderOk ==
    /\ decoder \in [frames : Seq(Frame), finalized : BOOLEAN]
    /\ ctc_begun \in BOOLEAN
    /\ ctc_begun <=> rnn_state > 0
    /\ ctc_begun => ~decoder.finalized
    /\ ~ctc_begun => decoder.finalized \/ decoder.frames = <<>>

PipelineInv ==
    /\ MfccHas(mfcc_stage, audio, features)
    /\ RnnHas(rnn_stage, features, rnn_state, Current)
    /\ DecoderOk
    /\ FramesInContext

-----------------------------------------------------------------------------
(* Blocks and their lengths.                                               *)

LEMMA Quotient ==
  ASSUME NEW x \in Int, NEW b \in Nat \ {0}
  PROVE  /\ x \div b \in Int /\ x % b \in 0 .. b - 1
         /\ x = (x \div b) * b + (x % b)
  OBVIOUS

LEMMA ProductGrows ==
  ASSUME NEW m \in Int, NEW n \in Int, NEW b \in Nat, m <= n
  PROVE  m * b <= n * b
  OBVIOUS

LEMMA ProductIsNat ==
  ASSUME NEW n \in Nat, NEW b \in Nat
  PROVE  n * b \in Nat
  OBVIOUS

LEMMA ProductDistributes ==
  ASSUME NEW m \in Int, NEW n \in Int, NEW b \in Int
  PROVE  (m + n) * b = m * b + n * b
  OBVIOUS

\* The quotient is what a number between two multiples determines.
LEMMA QuotientIs ==
  ASSUME NEW x \in Int, NEW q \in Int, NEW b \in Nat \ {0}, q * b <= x, x < q * b + b
  PROVE  x \div b = q
  OBVIOUS

\* What a stage is made with.
Stage(p) == p.block \in Nat \ {0} /\ p.context \in Nat /\ p.padding \in Nat

LEMMA Stages == Stage(Mfcc) /\ Stage(Rnn)
  <1>1. ContextLen \div 2 \in Nat
    BY PipelineAssumption
  <1>. QED
    BY PipelineAssumption, <1>1 DEF Stage, Mfcc, Rnn

LEMMA BlocksAre ==
  ASSUME NEW p, Stage(p), NEW n \in Nat
  PROVE  /\ Blocks(p, n) \in Nat
         /\ Blocks(p, n) * p.block \in Nat
         /\ Blocks(p, n) = 0 <=> n < p.block + p.context
         /\ Blocks(p, n) > 0 => Blocks(p, n) * p.block + p.context <= n
         /\ n < Blocks(p, n) * p.block + p.block + p.context
  <1>1. PICK b \in Nat \ {0} : b = p.block
    BY DEF Stage
  <1>9. PICK c \in Nat : c = p.context
    BY DEF Stage
  <1>2. CASE n < b + c
    <2>1. Blocks(p, n) = 0
      BY <1>1, <1>9, <1>2 DEF Blocks
    <2>. QED
      BY <1>1, <1>9, <1>2, <2>1
  <1>3. CASE ~(n < b + c)
    <2>1. PICK k : k = (n - c) \div b
      OBVIOUS
    <2>2. Blocks(p, n) = k
      BY <1>1, <1>9, <1>3, <2>1 DEF Blocks
    <2>3. k \in Int /\ (n - c) % b \in 0 .. b - 1 /\ n - c = k * b + ((n - c) % b)
      BY <2>1, Quotient
    <2>4. PICK r \in 0 .. b - 1 : n - c = k * b + r
      BY <2>3
    <2>5. k * b \in Int /\ k * b > 0
      BY <1>3, <2>3, <2>4
    <2>6. k > 0
      <3>1. SUFFICES ASSUME k <= 0 PROVE FALSE
        BY <2>3
      <3>2. k * b <= 0 * b
        BY <2>3, <3>1, ProductGrows
      <3>. QED
        BY <2>5, <3>2
    <2>. QED
      BY <1>1, <1>9, <1>3, <2>2, <2>3, <2>4, <2>5, <2>6
  <1>. QED
    BY <1>2, <1>3

\* With the padding of the end there are only whole blocks.
LEMMA AlignIs ==
  ASSUME NEW p, Stage(p), NEW n \in Nat
  PROVE  /\ Align(p, n) \in 0 .. p.block - 1
         /\ \E q \in Int : n + p.padding + Align(p, n) = p.context + q * p.block
  <1>1. PICK b \in Nat \ {0} : b = p.block
    BY DEF Stage
  <1>2. PICK x \in Int : x = n + p.padding - p.context
    BY DEF Stage
  <1>3. PICK q \in Int : q = (-x) \div b
    BY Quotient
  <1>4. Align(p, n) = (-x) % b /\ (-x) % b \in 0 .. b - 1 /\ -x = q * b + ((-x) % b)
    <2>1. Align(p, n) = (-x) % b
      BY <1>1, <1>2 DEF Align
    <2>2. -x \in Int
      OBVIOUS
    <2>. QED
      BY <1>3, <2>1, <2>2, Quotient
  <1>5. PICK a \in 0 .. b - 1 : Align(p, n) = a /\ -x = q * b + a
    BY <1>4
  <1>6. (-q) * b = -(q * b)
    OBVIOUS
  <1>7. x + a = (-q) * b
    BY <1>5, <1>6
  <1>8. n + p.padding + a = p.context + (-q) * b
    BY <1>2, <1>7 DEF Stage
  <1>. QED
    BY <1>1, <1>5, <1>8

LEMMA BlocksExact ==
  ASSUME NEW p, Stage(p), NEW q \in Int, NEW n \in Nat, n = p.context + q * p.block
  PROVE  /\ q > 0 => Blocks(p, n) = q
         /\ q <= 0 => Blocks(p, n) = 0
  <1>0. PICK b \in Nat \ {0} : b = p.block
    BY DEF Stage
  <1>9. PICK c \in Nat : c = p.context
    BY DEF Stage
  <1>1. q * b \in Int /\ n = c + q * b
    BY <1>0, <1>9
  <1>2. CASE q > 0
    <2>1. 1 * b <= q * b
      BY <1>1, <1>2, ProductGrows
    <2>2. ~(n < b + c)
      <3>. QED
        BY <1>1, <2>1
    <2>3. (n - c) \div b = q
      <3>1. n - c = q * b
        BY <1>1
      <3>. QED
        BY <1>1, <3>1, QuotientIs
    <2>. QED
      BY <1>2, <2>2, <2>3, <1>0, <1>9 DEF Blocks
  <1>3. CASE q <= 0
    <2>1. q * b <= 0 * b
      BY <1>1, <1>3, ProductGrows
    <2>2. n < b + c
      <3>. QED
        BY <1>1, <2>1
    <2>. QED
      BY <1>3, <2>2, <1>0, <1>9 DEF Blocks
  <1>. QED
    BY <1>2, <1>3

-----------------------------------------------------------------------------
(* What is left of a sequence, and what is cut out of it.                  *)

LEMMA CutIs ==
  ASSUME NEW S, NEW s \in Seq(S), NEW i \in Nat \ {0}, NEW j \in Nat, j <= Len(s), i <= j + 1
  PROVE  /\ SubSeq(s, i, j) \in Seq(S)
         /\ Len(SubSeq(s, i, j)) = j - i + 1
         /\ \A k \in 1 .. j - i + 1 : SubSeq(s, i, j)[k] = s[i + k - 1]
  OBVIOUS

LEMMA SuffixIs ==
  ASSUME NEW S, NEW s \in Seq(S), NEW n \in 0 .. Len(s)
  PROVE  /\ Suffix(s, n) \in Seq(S)
         /\ Len(Suffix(s, n)) = Len(s) - n
         /\ \A k \in 1 .. Len(s) - n : Suffix(s, n)[k] = s[n + k]
  BY CutIs DEF Suffix

LEMMA Same ==
  ASSUME NEW S, NEW s \in Seq(S), NEW t \in Seq(S), Len(s) = Len(t), \A k \in 1 .. Len(s) : s[k] = t[k]
  PROVE  s = t
  OBVIOUS

LEMMA FunctionIsSeq ==
  ASSUME NEW S, NEW n \in Nat, NEW f \in [1 .. n -> S]
  PROVE  f \in Seq(S) /\ Len(f) = n
  OBVIOUS

LEMMA SuffixOfSuffix ==
  ASSUME NEW S, NEW s \in Seq(S), NEW m \in Nat, NEW n \in Nat, m + n <= Len(s)
  PROVE  Suffix(Suffix(s, m), n) = Suffix(s, m + n)
  <1>0. Len(s) \in Nat /\ m \in 0 .. Len(s) /\ m + n \in 0 .. Len(s)
    BY LenProperties
  <1>1. PICK r : r = Suffix(s, m)
    OBVIOUS
  <1>2. r \in Seq(S) /\ Len(r) = Len(s) - m /\ \A k \in 1 .. Len(s) - m : r[k] = s[m + k]
    BY <1>0, <1>1, SuffixIs
  <1>3. PICK u : u = Suffix(s, m + n)
    OBVIOUS
  <1>4. u \in Seq(S) /\ Len(u) = Len(s) - (m + n) /\ \A k \in 1 .. Len(s) - (m + n) : u[k] = s[m + n + k]
    BY <1>0, <1>3, SuffixIs
  <1>5. PICK v : v = Suffix(r, n)
    OBVIOUS
  <1>6. v \in Seq(S) /\ Len(v) = Len(r) - n /\ \A k \in 1 .. Len(r) - n : v[k] = r[n + k]
    <2>1. n \in 0 .. Len(r)
      BY <1>0, <1>2
    <2>. QED
      BY <1>2, <1>5, <2>1, SuffixIs
  <1>7. Len(v) = Len(u)
    BY <1>0, <1>2, <1>4, <1>6
  <1>8. ASSUME NEW k \in 1 .. Len(v) PROVE v[k] = u[k]
    <2>1. /\ k \in 1 .. Len(r) - n /\ n + k \in 1 .. Len(s) - m /\ k \in 1 .. Len(s) - (m + n)
          /\ m + (n + k) = m + n + k
      BY <1>0, <1>2, <1>6
    <2>. QED
      BY <2>1, <1>2, <1>4, <1>6
  <1>. QED
    BY <1>1, <1>3, <1>4, <1>5, <1>6, <1>7, <1>8, Same

LEMMA ConcatIs ==
  ASSUME NEW S, NEW s \in Seq(S), NEW t \in Seq(S)
  PROVE  /\ s \o t \in Seq(S) /\ Len(s \o t) = Len(s) + Len(t)
         /\ \A k \in 1 .. Len(s) : (s \o t)[k] = s[k]
         /\ \A k \in 1 .. Len(t) : (s \o t)[Len(s) + k] = t[k]
  BY ConcatProperties

LEMMA SuffixThen ==
  ASSUME NEW S, NEW s \in Seq(S), NEW t \in Seq(S), NEW n \in 0 .. Len(s)
  PROVE  Suffix(s, n) \o t = Suffix(s \o t, n)
  <1>0. Len(s) \in Nat /\ Len(t) \in Nat
    BY LenProperties
  <1>1. PICK r : r = Suffix(s, n)
    OBVIOUS
  <1>2. r \in Seq(S) /\ Len(r) = Len(s) - n /\ \A k \in 1 .. Len(s) - n : r[k] = s[n + k]
    BY <1>1, SuffixIs
  <1>3. PICK u : u = s \o t
    OBVIOUS
  <1>4. /\ u \in Seq(S) /\ Len(u) = Len(s) + Len(t)
        /\ \A k \in 1 .. Len(s) : u[k] = s[k]
        /\ \A k \in 1 .. Len(t) : u[Len(s) + k] = t[k]
    BY <1>3, ConcatIs
  <1>5. PICK v : v = r \o t
    OBVIOUS
  <1>6. /\ v \in Seq(S) /\ Len(v) = Len(r) + Len(t)
        /\ \A k \in 1 .. Len(r) : v[k] = r[k]
        /\ \A k \in 1 .. Len(t) : v[Len(r) + k] = t[k]
    <2>1. r \in Seq(S)
      BY <1>2
    <2>2. r \o t \in Seq(S) /\ Len(r \o t) = Len(r) + Len(t)
      BY <2>1, ConcatIs
    <2>3. \A k \in 1 .. Len(r) : (r \o t)[k] = r[k]
      BY <2>1, ConcatIs
    <2>4. \A k \in 1 .. Len(t) : (r \o t)[Len(r) + k] = t[k]
      BY <2>1, ConcatIs
    <2>. QED
      BY <1>5, <2>2, <2>3, <2>4
  <1>7. PICK w : w = Suffix(u, n)
    OBVIOUS
  <1>8. w \in Seq(S) /\ Len(w) = Len(u) - n /\ \A k \in 1 .. Len(u) - n : w[k] = u[n + k]
    <2>1. n \in 0 .. Len(u)
      BY <1>0, <1>4
    <2>. QED
      BY <2>1, <1>4, <1>7, SuffixIs
  <1>9. ASSUME NEW k \in 1 .. Len(v) PROVE v[k] = w[k]
    <2>0. k \in 1 .. Len(u) - n /\ w[k] = u[n + k]
      BY <1>0, <1>2, <1>4, <1>6, <1>8
    <2>1. CASE k <= Len(r)
      <3>1. k \in 1 .. Len(r) /\ k \in 1 .. Len(s) - n /\ n + k \in 1 .. Len(s)
        BY <2>1, <1>0, <1>2
      <3>. QED
        BY <2>0, <3>1, <1>2, <1>4, <1>6
    <2>2. CASE ~(k <= Len(r))
      <3>1. PICK i : i = k - Len(r)
        OBVIOUS
      <3>2. i \in 1 .. Len(t) /\ k = Len(r) + i /\ n + k = Len(s) + i
        BY <2>2, <3>1, <1>0, <1>2, <1>6
      <3>. QED
        BY <2>0, <3>2, <1>4, <1>6
    <2>. QED
      BY <2>1, <2>2
  <1>10. Len(v) = Len(w)
    BY <1>0, <1>2, <1>4, <1>6, <1>8
  <1>. QED
    BY <1>1, <1>3, <1>5, <1>6, <1>7, <1>8, <1>9, <1>10, Same

LEMMA CutOfSuffix ==
  ASSUME NEW S, NEW s \in Seq(S), NEW n \in 0 .. Len(s),
         NEW i \in Nat \ {0}, NEW j \in Nat, n + j <= Len(s), i <= j + 1
  PROVE  SubSeq(Suffix(s, n), i, j) = SubSeq(s, n + i, n + j)
  <1>1. /\ Suffix(s, n) \in Seq(S) /\ Len(Suffix(s, n)) = Len(s) - n
        /\ \A k \in 1 .. Len(s) - n : Suffix(s, n)[k] = s[n + k]
    BY SuffixIs
  <1>2. /\ SubSeq(Suffix(s, n), i, j) \in Seq(S) /\ Len(SubSeq(Suffix(s, n), i, j)) = j - i + 1
        /\ \A k \in 1 .. j - i + 1 : SubSeq(Suffix(s, n), i, j)[k] = Suffix(s, n)[i + k - 1]
    BY <1>1, CutIs
  <1>3. /\ SubSeq(s, n + i, n + j) \in Seq(S) /\ Len(SubSeq(s, n + i, n + j)) = (n + j) - (n + i) + 1
        /\ \A k \in 1 .. (n + j) - (n + i) + 1 : SubSeq(s, n + i, n + j)[k] = s[n + i + k - 1]
    BY CutIs
  <1>. QED
    BY <1>1, <1>2, <1>3, Same

\* What is cut out depends on the elements in its range only.
LEMMA CutSame ==
  ASSUME NEW S, NEW s \in Seq(S), NEW t \in Seq(S), NEW i \in Nat \ {0}, NEW j \in Nat, i <= j + 1,
         j <= Len(s), j <= Len(t), \A k \in 1 .. j : s[k] = t[k]
  PROVE  SubSeq(s, i, j) = SubSeq(t, i, j)
  <1>1. /\ SubSeq(s, i, j) \in Seq(S) /\ Len(SubSeq(s, i, j)) = j - i + 1
        /\ \A k \in 1 .. j - i + 1 : SubSeq(s, i, j)[k] = s[i + k - 1]
    BY CutIs
  <1>2. /\ SubSeq(t, i, j) \in Seq(S) /\ Len(SubSeq(t, i, j)) = j - i + 1
        /\ \A k \in 1 .. j - i + 1 : SubSeq(t, i, j)[k] = t[i + k - 1]
    BY CutIs
  <1>. QED
    BY <1>1, <1>2, Same

LEMMA CutOfFront ==
  ASSUME NEW S, NEW s \in Seq(S), NEW t \in Seq(S), NEW i \in Nat \ {0}, NEW j \in Nat, i <= j + 1, j <= Len(s)
  PROVE  SubSeq(s \o t, i, j) = SubSeq(s, i, j)
  <1>1. /\ s \o t \in Seq(S) /\ Len(s \o t) = Len(s) + Len(t)
        /\ \A k \in 1 .. Len(s) : (s \o t)[k] = s[k]
    BY ConcatProperties
  <1>. QED
    BY <1>1, CutSame

LEMMA ZerosAre ==
  ASSUME NEW S, NEW n \in Nat, NEW z \in S
  PROVE  Zeros(n, z) \in Seq(S) /\ Len(Zeros(n, z)) = n /\ \A k \in 1 .. n : Zeros(n, z)[k] = z
  BY DEF Zeros

LEMMA Concatenated ==
  ASSUME NEW S, NEW s \in Seq(S), NEW t \in Seq(S), NEW n, n = Len(s), NEW k, k = Len(t)
  PROVE  /\ n \in Nat /\ k \in Nat /\ Len(s \o t) = n + k
         /\ \A i \in 1 .. n : (s \o t)[i] = s[i]
         /\ \A i \in 1 .. n + k : ~(i <= n) => i - n \in 1 .. k /\ i = n + (i - n) /\ (s \o t)[i] = t[i - n]
  <1>1. n \in Nat /\ k \in Nat
    BY LenProperties
  <1>2. Len(s \o t) = Len(s) + Len(t)
    BY ConcatIs
  <1>3. \A i \in 1 .. Len(s) : (s \o t)[i] = s[i]
    BY ConcatIs
  <1>4. \A i \in 1 .. Len(t) : (s \o t)[Len(s) + i] = t[i]
    BY ConcatIs
  <1>5. ASSUME NEW i \in 1 .. n + k, ~(i <= n)
        PROVE  i - n \in 1 .. k /\ i = n + (i - n) /\ (s \o t)[i] = t[i - n]
    <2>1. PICK j : j = i - n
      OBVIOUS
    <2>2. j \in 1 .. k /\ i = n + j
      BY <1>1, <1>5, <2>1
    <2>3. (s \o t)[n + j] = t[j]
      BY <1>4, <2>2, Zenon
    <2>. QED
      BY <2>1, <2>2, <2>3, Zenon
  <1>. QED
    BY <1>1, <1>2, <1>3, <1>5, Zenon

\* t is s with zeros behind it.
Zeroed(S, s, z, m, t) ==
    /\ t \in Seq(S) /\ Len(t) = Len(s) + m
    /\ \A k \in 1 .. Len(s) + m : t[k] = IF k <= Len(s) THEN s[k] ELSE z

LEMMA ZerosBehind ==
  ASSUME NEW S, NEW s \in Seq(S), NEW z \in S, NEW m \in Nat
  PROVE  Zeroed(S, s, z, m, s \o Zeros(m, z))
  <1>1. PICK y : y = Zeros(m, z)
    OBVIOUS
  <1>2. y \in Seq(S) /\ Len(y) = m /\ \A k \in 1 .. m : y[k] = z
    BY <1>1, ZerosAre
  <1>3. y \in Seq(S)
    BY <1>2
  <1>4. Len(s) \in Nat /\ s \o y \in Seq(S) /\ Len(s \o y) = Len(s) + m
    BY <1>2, <1>3, ConcatIs, LenProperties
  <1>5. PICK l : l = Len(s)
    OBVIOUS
  <1>6. /\ l \in Nat
        /\ \A i \in 1 .. l : (s \o y)[i] = s[i]
        /\ \A i \in 1 .. l + m : ~(i <= l) => i - l \in 1 .. m /\ (s \o y)[i] = y[i - l]
    <2>1. y \in Seq(S) /\ m = Len(y)
      BY <1>2
    <2>. QED
      BY ONLY <1>5, <2>1, s \in Seq(S), Concatenated
  <1>7. ASSUME NEW k \in 1 .. l + m PROVE (s \o y)[k] = IF k <= l THEN s[k] ELSE z
    <2>1. CASE k <= l
      <3>1. k \in 1 .. l
        BY <2>1, <1>6
      <3>. QED
        BY <2>1, <3>1, <1>6, Zenon
    <2>2. CASE ~(k <= l)
      BY <2>2, <1>2, <1>6, Zenon
    <2>. QED
      BY <2>1, <2>2
  <1>. QED
    BY <1>1, <1>4, <1>5, <1>7, Zenon DEF Zeroed

\* More zeros do not change what is cut out.
LEMMA CutZeroed ==
  ASSUME NEW S, NEW s \in Seq(S), NEW z \in S, NEW m \in Nat, NEW n \in Nat, NEW x, NEW y,
         Zeroed(S, s, z, m, x), Zeroed(S, s, z, n, y),
         NEW i \in Nat \ {0}, NEW j \in Nat, i <= j + 1, j <= Len(s) + m, j <= Len(s) + n
  PROVE  SubSeq(x, i, j) = SubSeq(y, i, j)
  <1>1. x \in Seq(S) /\ Len(x) = Len(s) + m /\ \A k \in 1 .. Len(s) + m : x[k] = IF k <= Len(s) THEN s[k] ELSE z
    BY DEF Zeroed
  <1>2. y \in Seq(S) /\ Len(y) = Len(s) + n /\ \A k \in 1 .. Len(s) + n : y[k] = IF k <= Len(s) THEN s[k] ELSE z
    BY DEF Zeroed
  <1>3. Len(s) \in Nat
    BY LenProperties
  <1>4. ASSUME NEW k \in 1 .. j PROVE x[k] = y[k]
    <2>1. k \in 1 .. Len(s) + m /\ k \in 1 .. Len(s) + n
      BY <1>3
    <2>. QED
      BY <2>1, <1>1, <1>2, Zenon
  <1>5. x \in Seq(S) /\ y \in Seq(S) /\ j <= Len(x) /\ j <= Len(y)
    BY <1>1, <1>2
  <1>. QED
    BY <1>4, <1>5, CutSame

-----------------------------------------------------------------------------
(* One stage.                                                              *)

LEMMA PaddedIs ==
  ASSUME NEW S, NEW p, Stage(p), p.zero \in S, NEW data \in Seq(S)
  PROVE  /\ Padded(p, data) \in Seq(S)
         /\ Len(Padded(p, data)) = p.padding + Len(data)
         /\ \A new \in Seq(S) : Padded(p, data \o new) = Padded(p, data) \o new
  <1>1. PICK z : z = Zeros(p.padding, p.zero)
    OBVIOUS
  <1>2. z \in Seq(S) /\ Len(z) = p.padding
    BY <1>1, ZerosAre DEF Stage
  <1>3. z \in Seq(S)
    BY <1>2
  <1>4. z \o data \in Seq(S) /\ Len(z \o data) = p.padding + Len(data)
    BY <1>2, <1>3, ConcatIs
  <1>5. ASSUME NEW new \in Seq(S) PROVE z \o (data \o new) = (z \o data) \o new
    BY <1>3, ConcatAssociative
  <1>. QED
    BY <1>1, <1>4, <1>5 DEF Padded

\* The blocks that are done are part of the data.
LEMMA DoneWithin ==
  ASSUME NEW S, NEW p, Stage(p), p.zero \in S, NEW st, NEW data \in Seq(S), NEW n,
         Holds(p, st, data, n)
  PROVE  n * p.block \in 0 .. Len(Padded(p, data))
  <1>1. Len(Padded(p, data)) \in Nat /\ p.block \in Nat /\ p.context \in Nat /\ n \in Nat
    BY PaddedIs, LenProperties DEF Stage, Holds
  <1>2. n * p.block \in Nat
    BY <1>1, ProductIsNat
  <1>3. CASE n = 0
    BY <1>1, <1>3
  <1>4. CASE n # 0
    <2>1. st.begun
      BY <1>4 DEF Holds
    <2>2. n * p.block + p.context <= Len(Padded(p, data))
      BY <1>4, <2>1 DEF Holds
    <2>. QED
      BY <1>1, <1>2, <2>2
  <1>. QED
    BY <1>3, <1>4

LEMMA AcceptedHolds ==
  ASSUME NEW S, NEW p, Stage(p), p.zero \in S, NEW st \in StageState(S), NEW data \in Seq(S), NEW n,
         Holds(p, st, data, n), NEW new \in Seq(S)
  PROVE  /\ Accepted(p, st, new) \in StageState(S)
         /\ Holds(p, Accepted(p, st, new), data \o new, n)
  <1>1. CASE new = <<>>
    <2>1. data \o new = data
      BY <1>1, ConcatEmptySeq
    <2>. QED
      BY <1>1, <2>1 DEF Accepted
  <1>2. CASE new # <<>>
    <2>1. PICK t : t = Accepted(p, st, new)
      OBVIOUS
    <2>2. t = [begun |-> TRUE, buffer |-> (IF st.begun THEN st.buffer ELSE Zeros(p.padding, p.zero)) \o new]
      BY <1>2, <2>1 DEF Accepted
    <2>3. data \o new # <<>> /\ data \o new \in Seq(S)
      BY <1>2
    <2>4. PICK q : q = n * p.block
      OBVIOUS
    <2>5. PICK d : d = Padded(p, data)
      OBVIOUS
    <2>6. d \in Seq(S) /\ q \in 0 .. Len(d)
      BY <2>4, <2>5, DoneWithin, PaddedIs
    <2>7. d \in Seq(S)
      BY <2>6
    <2>8. Padded(p, data \o new) = d \o new /\ Len(d \o new) = Len(d) + Len(new)
      <3>1. Padded(p, data \o new) = Padded(p, data) \o new
        BY PaddedIs
      <3>2. Len(d \o new) = Len(d) + Len(new)
        BY <2>7, ConcatIs
      <3>. QED
        BY <2>5, <3>1, <3>2
    <2>9. t.buffer = Suffix(d, q) \o new
      <3>1. CASE st.begun
        BY <2>2, <2>4, <2>5, <3>1 DEF Holds
      <3>2. CASE ~st.begun
        <4>1. n = 0 /\ data = <<>>
          BY <3>2 DEF Holds
        <4>2. q = 0
          BY <4>1, <2>4 DEF Stage
        <4>3. PICK z : z = Zeros(p.padding, p.zero)
          OBVIOUS
        <4>4. z \in Seq(S)
          BY <4>3, ZerosAre DEF Stage
        <4>5. d = z
          BY <2>5, <4>1, <4>3, <4>4, ConcatEmptySeq DEF Padded
        <4>6. Suffix(z, 0) = z
          BY <4>4 DEF Suffix
        <4>. QED
          BY <2>2, <3>2, <4>2, <4>3, <4>5, <4>6
      <3>. QED
        BY <3>1, <3>2
    <2>10. t.buffer = Suffix(d \o new, q)
      BY <2>6, <2>7, <2>9, SuffixThen
    <2>11. d \o new \in Seq(S) /\ q \in 0 .. Len(d \o new)
      <3>1. Len(d) \in Nat /\ Len(new) \in Nat
        BY <2>7, LenProperties
      <3>. QED
        BY <2>6, <2>7, <2>8, <3>1, ConcatIs
    <2>12. t.buffer \in Seq(S)
      <3>1. d \o new \in Seq(S)
        BY <2>11
      <3>. QED
        BY <2>10, <2>11, <3>1, SuffixIs
    <2>13. t \in StageState(S) /\ t.begun
      BY <2>2, <2>12 DEF StageState
    <2>14. n = 0 \/ q + p.context <= Len(d \o new)
      <3>1. n = 0 \/ q + p.context <= Len(d)
        BY <2>4, <2>5 DEF Holds
      <3>2. Len(d) \in Nat /\ Len(new) \in Nat /\ q \in Int /\ p.context \in Int
        BY <2>6, <2>7, LenProperties DEF Stage
      <3>. QED
        BY <2>8, <3>1, <3>2
    <2>15. n \in Nat
      BY DEF Holds
    <2>16. Holds(p, t, data \o new, n)
      BY <2>3, <2>4, <2>8, <2>10, <2>13, <2>14, <2>15 DEF Holds
    <2>. QED
      BY <2>1, <2>13, <2>16
  <1>. QED
    BY <1>1, <1>2

\* The blocks that are there are done, and what is left has none.
LEMMA RestWaits ==
  ASSUME NEW S, NEW p, Stage(p), p.zero \in S, NEW st \in StageState(S), NEW data \in Seq(S), NEW n,
         Holds(p, st, data, n)
  PROVE  /\ Rest(p, st, FALSE) \in StageState(S)
         /\ Waits(p, Rest(p, st, FALSE), data, n + Blocks(p, Len(st.buffer)))
  <1>1. PICK k : k = Blocks(p, Len(st.buffer))
    OBVIOUS
  <1>2. PICK b : b = p.block
    OBVIOUS
  <1>3. PICK t : t = Rest(p, st, FALSE)
    OBVIOUS
  <1>4. PICK s : s = st.buffer
    OBVIOUS
  <1>5. s \in Seq(S) /\ st.begun \in BOOLEAN
    BY <1>4 DEF StageState
  <1>6. s \in Seq(S) /\ Len(s) \in Nat
    BY <1>5, LenProperties
  <1>7. b \in Nat \ {0} /\ p.context \in Nat /\ n \in Nat
    BY <1>2 DEF Stage, Holds
  <1>8. /\ k \in Nat /\ k * b \in Nat
        /\ k = 0 <=> Len(s) < b + p.context
        /\ k > 0 => k * b + p.context <= Len(s)
        /\ Len(s) < k * b + b + p.context
    BY <1>1, <1>2, <1>4, <1>6, BlocksAre
  <1>9. k * b <= Len(s)
    <2>1. CASE k = 0
      BY <2>1, <1>6, <1>7
    <2>2. CASE k > 0
      BY <2>2, <1>6, <1>7, <1>8
    <2>. QED
      BY <2>1, <2>2, <1>8
  <1>10. t = [st EXCEPT !.buffer = Suffix(s, k * b)]
    BY <1>1, <1>2, <1>3, <1>4 DEF Rest, Suffix
  <1>11. Suffix(s, k * b) \in Seq(S) /\ Len(Suffix(s, k * b)) = Len(s) - k * b
    <2>1. s \in Seq(S) /\ k * b \in 0 .. Len(s)
      BY <1>6, <1>8, <1>9
    <2>2. s \in Seq(S)
      BY <1>6
    <2>. QED
      BY <2>1, <2>2, SuffixIs
  <1>12. t \in StageState(S) /\ t.begun = st.begun /\ t.buffer = Suffix(s, k * b)
    BY <1>10, <1>11 DEF StageState
  <1>13. Len(t.buffer) < b + p.context
    BY <1>6, <1>7, <1>8, <1>11, <1>12
  <1>14. Holds(p, t, data, n + k)
    <2>0. n + k \in Nat /\ t.begun = (data # <<>>)
      BY <1>7, <1>8, <1>12 DEF Holds
    <2>1. CASE ~st.begun
      <3>1. s = <<>> /\ n = 0
        BY <1>4, <2>1 DEF Holds
      <3>2. k = 0
        BY <3>1, <1>7, <1>8
      <3>3. Suffix(s, k * b) = <<>>
        <4>1. PICK e : e = Suffix(s, k * b)
          OBVIOUS
        <4>2. k * b = 0 /\ Len(s) = 0
          BY <3>1, <3>2, <1>7
        <4>3. e \in Seq(S) /\ Len(e) = 0
          BY <4>1, <4>2, <1>11
        <4>. QED
          BY <4>1, <4>3
      <3>. QED
        BY <2>0, <2>1, <3>1, <3>2, <3>3, <1>12 DEF Holds
    <2>2. CASE st.begun
      <3>1. PICK d : d = Padded(p, data)
        OBVIOUS
      <3>2. d \in Seq(S)
        BY <3>1, PaddedIs
      <3>3. PICK q : q = n * b
        OBVIOUS
      <3>4. s = Suffix(d, q) /\ (n = 0 \/ q + p.context <= Len(d))
        BY <1>2, <1>4, <2>2, <3>1, <3>3 DEF Holds
      <3>5. q \in 0 .. Len(d)
        BY <1>2, <3>1, <3>3, DoneWithin
      <3>6. Len(s) = Len(d) - q /\ Len(d) \in Nat
        BY <3>2, <3>4, <3>5, SuffixIs, LenProperties
      <3>7. (n + k) * b = q + k * b
        BY <1>7, <1>8, <3>3, ProductDistributes
      <3>8. Suffix(s, k * b) = Suffix(d, q + k * b)
        <4>1. q \in Nat /\ k * b \in Nat /\ q + k * b <= Len(d)
          BY <1>8, <1>9, <3>5, <3>6
        <4>. QED
          BY <3>2, <3>4, <4>1, SuffixOfSuffix
      <3>9. n + k = 0 \/ q + k * b + p.context <= Len(d)
        <4>1. CASE k = 0
          <5>1. k * b = 0
            BY <1>7, <4>1
          <5>. QED
            BY <1>7, <3>4, <3>5, <4>1, <5>1
        <4>2. CASE k > 0
          BY <1>6, <1>7, <1>8, <3>5, <3>6, <4>2
        <4>. QED
          BY <1>8, <4>1, <4>2
      <3>. QED
        BY <2>0, <2>2, <3>1, <3>7, <3>8, <3>9, <1>2, <1>12 DEF Holds
    <2>. QED
      BY <2>1, <2>2, <1>5
  <1>. QED
    BY <1>1, <1>2, <1>3, <1>12, <1>13, <1>14 DEF Waits

\* At the end the data and its padding are whole blocks, which are done.
Ended(S, p, st, data, n, a, all, ready) ==
    /\ a \in 0 .. p.block - 1
    /\ all \in Seq(S) /\ Len(all) = p.padding + Len(data) + p.padding + a
    /\ n * p.block \in 0 .. Len(all) /\ ready = Suffix(all, n * p.block)
    /\ Blocks(p, Len(ready)) = 0 /\ n > 0 => a = 0
    /\ \E q \in Int : /\ Len(all) = p.context + q * p.block
                      /\ n + Blocks(p, Len(ready)) = IF q > 0 THEN q ELSE 0

LEMMA FinishedBlocks ==
  ASSUME NEW S, NEW p, Stage(p), p.zero \in S, NEW st \in StageState(S), NEW data \in Seq(S), NEW n,
         Holds(p, st, data, n), st.begun
  PROVE  Ended(S, p, st, data, n, Align(p, Len(st.buffer)),
               Padded(p, data) \o Zeros(p.padding + Align(p, Len(st.buffer)), p.zero), Ready(p, st, TRUE))
  <1>33. PICK a : a = Align(p, Len(st.buffer))
    OBVIOUS
  <1>34. PICK all : all = Padded(p, data) \o Zeros(p.padding + a, p.zero)
    OBVIOUS
  <1>35. PICK ready : ready = Ready(p, st, TRUE)
    OBVIOUS
  <1>1. PICK b : b = p.block
    OBVIOUS
  <1>2. PICK c : c = p.context
    OBVIOUS
  <1>3. PICK h : h = p.padding
    OBVIOUS
  <1>4. b \in Nat \ {0} /\ c \in Nat /\ h \in Nat /\ n \in Nat
    BY <1>1, <1>2, <1>3 DEF Stage, Holds
  <1>5. PICK d : d = Padded(p, data)
    OBVIOUS
  <1>6. d \in Seq(S)
    BY <1>5, PaddedIs
  <1>7. Len(d) = h + Len(data) /\ Len(d) \in Nat /\ Len(data) \in Nat
    BY <1>3, <1>5, <1>6, PaddedIs, LenProperties
  <1>8. PICK o \in Nat : o = n * b
    BY <1>4, ProductIsNat
  <1>9. o \in 0 .. Len(d)
    BY <1>1, <1>5, <1>8, DoneWithin
  <1>10. st.buffer = Suffix(d, o) /\ (n = 0 \/ o + c <= Len(d))
    BY <1>1, <1>2, <1>5, <1>8 DEF Holds
  <1>11. st.buffer \in Seq(S) /\ Len(st.buffer) = Len(d) - o
    BY <1>6, <1>9, <1>10, SuffixIs
  <1>12. PICK l \in Nat : l = Len(st.buffer) /\ l = Len(d) - o
    BY <1>7, <1>9, <1>11
  <1>13. a \in 0 .. b - 1 /\ \E r \in Int : l + h + a = c + r * b
    BY <1>1, <1>2, <1>3, <1>12, <1>33, AlignIs
  <1>14. a \in Nat
    BY <1>4, <1>13
  <1>15. PICK r \in Int : l + h + a = c + r * b
    BY <1>13
  <1>16. PICK z : z = Zeros(h + a, p.zero)
    OBVIOUS
  <1>17. z \in Seq(S) /\ Len(z) = h + a
    <2>1. h + a \in Nat
      BY <1>4, <1>14
    <2>. QED
      BY <1>16, <2>1, ZerosAre
  <1>18. z \in Seq(S)
    BY <1>17
  <1>19. all = d \o z
    BY <1>3, <1>5, <1>16, <1>34
  <1>20. all \in Seq(S) /\ Len(all) = Len(d) + (h + a)
    <2>1. d \o z \in Seq(S) /\ Len(d \o z) = Len(d) + Len(z)
      BY <1>6, <1>18, ConcatIs
    <2>. QED
      BY <1>17, <1>19, <2>1
  <1>21. ready = Suffix(all, o)
    <2>1. ready = st.buffer \o z
      BY <1>3, <1>16, <1>33, <1>35 DEF Ready
    <2>2. Suffix(d, o) \o z = Suffix(d \o z, o)
      BY <1>6, <1>9, <1>18, SuffixThen
    <2>. QED
      BY <1>10, <1>19, <2>1, <2>2
  <1>22. o \in 0 .. Len(all)
    BY <1>4, <1>7, <1>9, <1>14, <1>20
  <1>23. Len(ready) = Len(all) - o
    <2>1. all \in Seq(S)
      BY <1>20
    <2>. QED
      BY <1>21, <1>22, <2>1, SuffixIs
  <1>24. r * b \in Int
    BY <1>4
  <1>25. Len(ready) = c + r * b /\ Len(ready) = l + h + a /\ Len(ready) \in Nat
    <2>1. PICK x \in Nat : x = Len(d)
      BY <1>7
    <2>2. PICK y : y = Len(all)
      OBVIOUS
    <2>3. PICK e : e = Len(ready)
      OBVIOUS
    <2>4. y = x + (h + a) /\ e = y - o /\ l = x - o
      BY <1>12, <1>20, <1>23, <2>1, <2>2, <2>3, Zenon
    <2>5. e = l + h + a /\ e \in Nat
      BY <1>4, <1>14, <2>4
    <2>. QED
      BY <1>15, <2>3, <2>5, Zenon
  <1>26. /\ r > 0 => Blocks(p, Len(ready)) = r
         /\ r <= 0 => Blocks(p, Len(ready)) = 0
    BY <1>1, <1>2, <1>25, BlocksExact
  <1>27. PICK q \in Int : q = n + r
    BY <1>4
  <1>28. q * b = o + r * b
    BY <1>4, <1>8, <1>27, ProductDistributes
  <1>29. Len(all) = c + q * b
    <2>1. PICK y \in Nat : y = Len(all)
      BY <1>4, <1>7, <1>14, <1>20
    <2>2. PICK u \in Int : u = r * b
      BY <1>24
    <2>3. y - o = c + u /\ q * b = o + u
      BY <1>23, <1>25, <1>28, <2>1, <2>2, Zenon
    <2>4. PICK v \in Int : v = q * b
      BY <1>4
    <2>5. y = c + v
      BY <1>4, <2>3, <2>4
    <2>. QED
      BY <2>1, <2>4, <2>5, Zenon
  <1>30. n > 0 /\ r <= 0 => r = 0 /\ a = 0
    <2>1. SUFFICES ASSUME n > 0, r <= 0 PROVE r = 0 /\ a = 0
      OBVIOUS
    <2>2. l >= c
      BY <1>4, <1>7, <1>9, <1>10, <1>12, <2>1
    <2>3. r * b <= 0 * b
      BY <1>4, <2>1, ProductGrows
    <2>4. r * b <= 0
      BY <1>4, <2>3
    <2>5. a = 0 /\ r * b = 0
      BY <1>4, <1>14, <1>15, <1>24, <2>2, <2>4
    <2>6. r = 0
      <3>1. SUFFICES ASSUME r < 0 PROVE FALSE
        BY <2>1
      <3>2. r * b <= (-1) * b
        BY <1>4, <3>1, ProductGrows
      <3>. QED
        BY <1>4, <2>5, <3>2
    <2>. QED
      BY <2>5, <2>6
  <1>31. /\ n + Blocks(p, Len(ready)) = IF q > 0 THEN q ELSE 0
         /\ Blocks(p, Len(ready)) = 0 /\ n > 0 => a = 0
    <2>1. PICK k : k = Blocks(p, Len(ready))
      OBVIOUS
    <2>2. (r > 0 => k = r) /\ (r <= 0 => k = 0)
      BY <1>26, <2>1, Zenon
    <2>3. n + k = (IF q > 0 THEN q ELSE 0) /\ (k = 0 /\ n > 0 => a = 0)
      BY <1>4, <1>27, <1>30, <2>2
    <2>. QED
      BY <2>1, <2>3, Zenon
  <1>32. Len(all) = p.padding + Len(data) + p.padding + a
    BY <1>3, <1>4, <1>7, <1>14, <1>20
  <1>36. Ended(S, p, st, data, n, a, all, ready)
    BY <1>1, <1>2, <1>8, <1>13, <1>20, <1>21, <1>22, <1>29, <1>31, <1>32 DEF Ended
  <1>. QED
    BY <1>33, <1>34, <1>35, <1>36, Zenon

-----------------------------------------------------------------------------
(* The two stages that do blocks.                                          *)

LEMMA MfccIs ==
  /\ Mfcc.block = StrideLen /\ Mfcc.context = WindowLen - StrideLen /\ Mfcc.padding = 0 /\ Mfcc.zero = 0
  /\ StrideLen \in Nat \ {0} /\ WindowLen \in Nat /\ WindowLen - StrideLen \in Nat /\ 0 \in Sample
  BY PipelineAssumption DEF Mfcc

LEMMA RnnIs ==
  /\ Rnn.block = BlockLen /\ Rnn.context = ContextLen /\ Rnn.padding = ContextLen \div 2 /\ Rnn.zero = <<>>
  /\ BlockLen \in Nat \ {0} /\ ContextLen \in Nat /\ ContextLen \div 2 \in Nat
  /\ ContextLen \div 2 + ContextLen \div 2 = ContextLen
  /\ <<>> \in Feature
  BY PipelineAssumption DEF Rnn, Feature

LEMMA PaddedMfcc ==
  ASSUME NEW data \in Seq(Sample)
  PROVE  Padded(Mfcc, data) = data
  <1>1. Zeros(0, 0) = <<>>
    BY DEF Zeros
  <1>. QED
    BY <1>1, MfccIs, ConcatEmptySeq DEF Padded

\* The windows of what is left are the next windows of all.
LEMMA WindowsAre ==
  ASSUME NEW all \in Seq(Sample), NEW n \in Nat, n * StrideLen \in 0 .. Len(all),
         NEW ready, ready = Suffix(all, n * StrideLen)
  PROVE  /\ Windows(ready) \in Seq(Feature)
         /\ Len(Windows(ready)) = Blocks(Mfcc, Len(ready))
         /\ \A k \in 1 .. Len(Windows(ready)) : Windows(ready)[k] = Window(all, n + k)
  <1>1. PICK c \in Nat : c = WindowLen - StrideLen
    BY MfccIs
  <1>2. PICK o \in Nat : o = n * StrideLen
    BY MfccIs, ProductIsNat
  <1>3. ready \in Seq(Sample) /\ Len(ready) = Len(all) - o /\ Len(all) \in Nat /\ o \in 0 .. Len(all)
    BY <1>2, SuffixIs, LenProperties
  <1>4. Len(ready) \in Nat
    BY <1>3
  <1>5. PICK m : m = Blocks(Mfcc, Len(ready))
    OBVIOUS
  <1>6. m \in Nat /\ m * StrideLen \in Nat /\ (m > 0 => m * StrideLen + c <= Len(ready))
    BY <1>1, <1>4, <1>5, BlocksAre, MfccIs, Stages
  <1>7. ASSUME NEW k \in 1 .. m
        PROVE  /\ SubSeq(ready, (k - 1) * StrideLen + 1, (k - 1) * StrideLen + WindowLen) = Window(all, n + k)
               /\ Window(all, n + k) \in Feature
    <2>1. PICK i \in Nat : i = (k - 1) * StrideLen
      BY MfccIs, ProductIsNat
    <2>2. k * StrideLen = i + StrideLen
      BY <2>1, MfccIs
    <2>3. k * StrideLen <= m * StrideLen
      BY <1>6, MfccIs, ProductGrows
    <2>4. k * StrideLen \in Int
      BY MfccIs
    <2>5. i + WindowLen <= Len(ready)
      BY <1>1, <1>4, <1>6, <2>2, <2>3, <2>4, MfccIs
    <2>6. ((n + k) - 1) * StrideLen = o + i
      <3>1. (n + k) - 1 = n + (k - 1)
        OBVIOUS
      <3>. QED
        BY <1>2, <2>1, <3>1, MfccIs, ProductDistributes
    <2>7. /\ i + 1 \in Nat \ {0} /\ i + WindowLen \in Nat /\ o + (i + WindowLen) <= Len(all)
          /\ i + 1 <= i + WindowLen + 1
      BY <1>3, <2>5, MfccIs
    <2>8. SubSeq(ready, i + 1, i + WindowLen) = SubSeq(all, o + (i + 1), o + (i + WindowLen))
      <3>1. PICK x \in Nat \ {0}, y \in Nat : x = i + 1 /\ y = i + WindowLen
        BY <2>7
      <3>2. o \in 0 .. Len(all) /\ o + y <= Len(all) /\ x <= y + 1
        BY <1>3, <2>7, <3>1
      <3>3. SubSeq(Suffix(all, o), x, y) = SubSeq(all, o + x, o + y)
        BY <3>2, CutOfSuffix
      <3>. QED
        BY <1>2, <3>1, <3>3
    <2>9. o + (i + 1) = o + i + 1 /\ o + (i + WindowLen) = o + i + WindowLen
      BY <1>3, MfccIs
    <2>10. Window(all, n + k) = SubSeq(all, o + i + 1, o + i + WindowLen)
      <3>1. PICK j : j = n + k
        OBVIOUS
      <3>2. (j - 1) * StrideLen = o + i
        BY <2>6, <3>1, Zenon
      <3>3. Window(all, j) = SubSeq(all, o + i + 1, o + i + WindowLen)
        BY <3>2, Zenon DEF Window
      <3>. QED
        BY <3>1, <3>3, Zenon
    <2>11. SubSeq(all, o + i + 1, o + i + WindowLen) \in Feature
      <3>1. o + i + 1 \in Nat \ {0} /\ o + i + WindowLen \in Nat /\ o + i + WindowLen <= Len(all)
        BY <1>3, <2>7, <2>9, MfccIs
      <3>2. o + i + 1 <= o + i + WindowLen + 1
        BY <1>3, MfccIs
      <3>. QED
        BY <3>1, <3>2, CutIs DEF Feature
    <2>. QED
      BY <2>1, <2>8, <2>9, <2>10, <2>11
  <1>8. Windows(ready) = [k \in 1 .. m |-> SubSeq(ready, (k - 1) * StrideLen + 1, (k - 1) * StrideLen + WindowLen)]
    BY <1>5 DEF Windows
  <1>9. Windows(ready) = [k \in 1 .. m |-> Window(all, n + k)]
    BY <1>7, <1>8
  <1>10. \A k \in 1 .. m : Window(all, n + k) \in Feature
    BY <1>7
  <1>11. Windows(ready) \in Seq(Feature) /\ Len(Windows(ready)) = m
    <2>1. Windows(ready) \in [1 .. m -> Feature]
      BY <1>9, <1>10
    <2>2. m \in Nat
      BY <1>6
    <2>. QED
      BY <2>1, <2>2, FunctionIsSeq
  <1>12. \A k \in 1 .. m : Windows(ready)[k] = Window(all, n + k)
    BY <1>9
  <1>. QED
    BY <1>5, <1>11, <1>12

LEMMA AnswersAre ==
  ASSUME NEW all \in Seq(Feature), NEW n \in Nat, n * BlockLen \in 0 .. Len(all),
         NEW ready, ready = Suffix(all, n * BlockLen), NEW cut \in 0 .. BlockLen - 1
  PROVE  /\ Answers(ready, n, cut) \in Seq(Frame)
         /\ Len(Answers(ready, n, cut)) =
               IF Blocks(Rnn, Len(ready)) = 0 THEN 0 ELSE Blocks(Rnn, Len(ready)) * BlockLen - cut
         /\ \A i \in 1 .. Len(Answers(ready, n, cut)) : Answers(ready, n, cut)[i] = Answer(all, n * BlockLen + i)
  <1>1. PICK o \in Nat : o = n * BlockLen
    BY RnnIs, ProductIsNat
  <1>2. ready \in Seq(Feature) /\ Len(ready) = Len(all) - o /\ Len(all) \in Nat /\ o \in 0 .. Len(all)
    BY <1>1, SuffixIs, LenProperties
  <1>3. Len(ready) \in Nat
    BY <1>2
  <1>4. PICK m : m = Blocks(Rnn, Len(ready))
    OBVIOUS
  <1>5. m \in Nat /\ m * BlockLen \in Nat /\ (m > 0 => m * BlockLen + ContextLen <= Len(ready))
    BY <1>3, <1>4, BlocksAre, RnnIs, Stages
  <1>6. PICK l : l = IF m = 0 THEN 0 ELSE m * BlockLen - cut
    OBVIOUS
  <1>7. l \in Nat /\ (l > 0 => l + ContextLen <= Len(ready))
    <2>1. CASE m = 0
      BY <1>6, <2>1
    <2>2. CASE m > 0
      <3>1. 1 * BlockLen <= m * BlockLen
        BY <1>5, <2>2, RnnIs, ProductGrows
      <3>. QED
        BY <1>3, <1>5, <1>6, <2>2, <3>1, RnnIs
    <2>. QED
      BY <1>5, <2>1, <2>2
  <1>8. ASSUME NEW i \in 1 .. l
        PROVE  /\ [context |-> SubSeq(ready, i, i + ContextLen), memory |-> n + (i - 1) \div BlockLen] = Answer(all, o + i)
               /\ Answer(all, o + i) \in Frame
    <2>0. i \in Nat \ {0} /\ i <= l /\ l > 0 /\ l \in Nat /\ ContextLen \in Nat
      BY <1>7, RnnIs
    <2>1. PICK y \in Nat : y = i + ContextLen /\ y <= Len(ready)
      <3>1. l + ContextLen <= Len(ready)
        BY <1>7, <2>0
      <3>. QED
        BY <1>3, <2>0, <3>1
    <2>2. SubSeq(ready, i, i + ContextLen) = SubSeq(all, o + i, o + i + ContextLen)
      <3>1. o \in 0 .. Len(all) /\ o + y <= Len(all) /\ i <= y + 1
        BY <1>2, <2>0, <2>1
      <3>2. SubSeq(Suffix(all, o), i, y) = SubSeq(all, o + i, o + y)
        BY <2>0, <3>1, CutOfSuffix
      <3>3. o + y = o + i + ContextLen
        BY <2>0, <2>1
      <3>. QED
        BY <1>1, <2>1, <3>2, <3>3
    <2>3. PICK q : q = (i - 1) \div BlockLen
      OBVIOUS
    <2>4. q \in Int /\ (i - 1) % BlockLen \in 0 .. BlockLen - 1 /\ i - 1 = q * BlockLen + ((i - 1) % BlockLen)
      <3>1. i - 1 \in Int /\ BlockLen \in Nat \ {0}
        BY <2>0, RnnIs
      <3>. QED
        BY <2>3, <3>1, Quotient
    <2>5. PICK x \in 0 .. BlockLen - 1 : i - 1 = q * BlockLen + x
      BY <2>4
    <2>6. q * BlockLen \in Int /\ (n + q) * BlockLen = o + q * BlockLen /\ n + q \in Int
      BY <1>1, <2>4, RnnIs, ProductDistributes
    <2>7. PICK f \in Int : f = o + i - 1
      BY <2>0
    <2>8. (n + q) * BlockLen <= f /\ f < (n + q) * BlockLen + BlockLen
      BY <2>0, <2>5, <2>6, <2>7, RnnIs
    <2>9. f \div BlockLen = n + q
      BY <2>6, <2>8, RnnIs, QuotientIs
    <2>10. q >= 0
      <3>1. SUFFICES ASSUME q <= -1 PROVE FALSE
        BY <2>4
      <3>2. q * BlockLen <= (-1) * BlockLen
        BY <2>4, <3>1, RnnIs, ProductGrows
      <3>. QED
        BY <2>5, <2>6, <3>2, RnnIs
    <2>11. SubSeq(all, o + i, o + i + ContextLen) \in Seq(Feature)
      <3>1. o + i \in Nat \ {0} /\ o + i + ContextLen \in Nat /\ o + i + ContextLen <= Len(all)
        BY <1>2, <2>0, <2>1
      <3>2. o + i <= o + i + ContextLen + 1
        BY <2>0
      <3>. QED
        BY <3>1, <3>2, CutIs
    <2>12. Answer(all, o + i) = [context |-> SubSeq(all, o + i, o + i + ContextLen), memory |-> n + q]
      <3>1. Answer(all, o + i) = [context |-> SubSeq(all, o + i, o + i + ContextLen), memory |-> (o + i - 1) \div BlockLen]
        BY DEF Answer
      <3>. QED
        BY <2>7, <2>9, <3>1
    <2>13. n + q \in Nat
      BY <2>4, <2>10
    <2>14. Answer(all, o + i) \in Frame
      <3>1. PICK c : c = SubSeq(all, o + i, o + i + ContextLen)
        OBVIOUS
      <3>2. PICK e : e = n + q
        OBVIOUS
      <3>3. c \in Seq(Feature) /\ e \in Nat
        BY <2>11, <2>13, <3>1, <3>2, Zenon
      <3>4. [context |-> c, memory |-> e] \in Frame
        BY <3>3 DEF Frame
      <3>. QED
        BY <2>12, <3>1, <3>2, <3>4, Zenon
    <2>. QED
      BY <2>2, <2>3, <2>12, <2>14, Zenon
  <1>9. Answers(ready, n, cut) =
          [i \in 1 .. l |-> [context |-> SubSeq(ready, i, i + ContextLen), memory |-> n + (i - 1) \div BlockLen]]
    BY <1>4, <1>6 DEF Answers
  <1>10. Answers(ready, n, cut) = [i \in 1 .. l |-> Answer(all, o + i)]
    BY <1>8, <1>9
  <1>11. \A i \in 1 .. l : Answer(all, o + i) \in Frame
    BY <1>8
  <1>12. Answers(ready, n, cut) \in Seq(Frame) /\ Len(Answers(ready, n, cut)) = l
    <2>1. l \in Nat
      BY <1>7
    <2>2. Answers(ready, n, cut) \in [1 .. l -> Frame]
      BY <1>10, <1>11
    <2>. QED
      BY <2>1, <2>2, FunctionIsSeq
  <1>13. \A i \in 1 .. l : Answers(ready, n, cut)[i] = Answer(all, o + i)
    BY <1>10
  <1>. QED
    BY <1>1, <1>4, <1>6, <1>12, <1>13

\* What was made stays right when more data comes.
LEMMA WindowEnds ==
  ASSUME NEW l \in Nat, NEW n \in Nat, n * StrideLen + (WindowLen - StrideLen) <= l, NEW k \in 1 .. n
  PROVE  /\ (k - 1) * StrideLen + 1 \in Nat \ {0} /\ (k - 1) * StrideLen + WindowLen \in Nat
         /\ (k - 1) * StrideLen + 1 <= (k - 1) * StrideLen + WindowLen + 1
         /\ (k - 1) * StrideLen + WindowLen <= l
  <1>1. PICK i \in Nat : i = (k - 1) * StrideLen
    BY MfccIs, ProductIsNat
  <1>2. k * StrideLen = i + StrideLen
    BY <1>1, MfccIs
  <1>3. k * StrideLen <= n * StrideLen
    BY MfccIs, ProductGrows
  <1>4. PICK x \in Nat : x = n * StrideLen
    BY MfccIs, ProductIsNat
  <1>5. i + StrideLen <= x /\ x + (WindowLen - StrideLen) <= l
    BY <1>2, <1>3, <1>4
  <1>6. i + 1 \in Nat \ {0} /\ i + WindowLen \in Nat /\ i + 1 <= i + WindowLen + 1 /\ i + WindowLen <= l
    BY <1>5, MfccIs
  <1>. QED
    BY <1>1, <1>6, Zenon

LEMMA WindowKept ==
  ASSUME NEW s \in Seq(Sample), NEW t \in Seq(Sample), NEW n \in Nat,
         n * StrideLen + (WindowLen - StrideLen) <= Len(s), NEW k \in 1 .. n
  PROVE  Window(s \o t, k) = Window(s, k)
  <1>1. PICK i : i = (k - 1) * StrideLen + 1
    OBVIOUS
  <1>2. PICK j : j = (k - 1) * StrideLen + WindowLen
    OBVIOUS
  <1>3. Len(s) \in Nat
    BY LenProperties
  <1>4. i \in Nat \ {0} /\ j \in Nat /\ i <= j + 1 /\ j <= Len(s)
    BY <1>1, <1>2, <1>3, WindowEnds
  <1>5. SubSeq(s \o t, i, j) = SubSeq(s, i, j)
    BY <1>4, CutOfFront
  <1>. QED
    BY <1>1, <1>2, <1>5, Zenon DEF Window

LEMMA AnswerKept ==
  ASSUME NEW s \in Seq(Feature), NEW t \in Seq(Feature), NEW i \in Nat \ {0}, i + ContextLen <= Len(s)
  PROVE  Answer(s \o t, i) = Answer(s, i)
  <1>1. PICK j \in Nat : j = i + ContextLen
    BY RnnIs
  <1>2. i <= j + 1 /\ j <= Len(s)
    BY <1>1, RnnIs
  <1>3. SubSeq(s \o t, i, j) = SubSeq(s, i, j)
    BY <1>2, CutOfFront
  <1>. QED
    BY <1>1, <1>3, Zenon DEF Answer

LEMMA NothingReady ==
  ASSUME NEW n, NEW cut
  PROVE  Windows(<<>>) = <<>> /\ Answers(<<>>, n, cut) = <<>> /\ Blocks(Mfcc, 0) = 0 /\ Blocks(Rnn, 0) = 0
  <1>1. Blocks(Mfcc, 0) = 0 /\ Blocks(Rnn, 0) = 0
    BY MfccIs, RnnIs DEF Blocks
  <1>2. Len(<<>>) = 0
    OBVIOUS
  <1>3. Windows(<<>>) = <<>>
    BY <1>1, <1>2 DEF Windows
  <1>4. Answers(<<>>, n, cut) = <<>>
    BY <1>1, <1>2 DEF Answers
  <1>. QED
    BY <1>1, <1>3, <1>4

\* The first stage, for a chunk that is not the last.
LEMMA MfccGoesOn ==
  ASSUME NEW st, NEW said, NEW made, MfccHas(st, said, made), NEW data \in Seq(Sample),
         NEW m, m = Accepted(Mfcc, st, data), NEW new, new = Windows(Ready(Mfcc, m, FALSE))
  PROVE  new \in Seq(Feature) /\ MfccHas(Rest(Mfcc, m, FALSE), said \o data, made \o new)
  <1>0. /\ st \in StageState(Sample) /\ said \in Seq(Sample) /\ made \in Seq(Feature)
        /\ Waits(Mfcc, st, said, Len(made)) /\ \A k \in 1 .. Len(made) : made[k] = Window(said, k)
    BY DEF MfccHas
  <1>. USE <1>0
  <1>1. PICK n : n = Len(made)
    OBVIOUS
  <1>2. n \in Nat /\ Holds(Mfcc, st, said, n)
    BY <1>1 DEF Waits, Holds
  <1>3. Stage(Mfcc) /\ Mfcc.zero \in Sample
    BY Stages, MfccIs
  <1>4. m \in StageState(Sample) /\ Holds(Mfcc, m, said \o data, n)
    BY <1>2, <1>3, AcceptedHolds
  <1>5. PICK all : all = said \o data
    OBVIOUS
  <1>6. all \in Seq(Sample)
    BY <1>5
  <1>7. Padded(Mfcc, all) = all
    BY <1>6, PaddedMfcc
  <1>8. PICK o : o = n * StrideLen
    OBVIOUS
  <1>9. o \in 0 .. Len(all)
    <2>1. n * Mfcc.block \in 0 .. Len(Padded(Mfcc, all))
      BY <1>3, <1>4, <1>5, <1>6, DoneWithin
    <2>. QED
      BY <1>7, <1>8, <2>1, MfccIs
  <1>10. m.buffer = Suffix(all, o)
    <2>1. CASE m.begun
      BY <2>1, <1>4, <1>5, <1>7, <1>8, MfccIs DEF Holds
    <2>2. CASE ~m.begun
      <3>1. m.buffer = <<>> /\ all = <<>> /\ n = 0
        BY <2>2, <1>4, <1>5 DEF Holds
      <3>2. o = 0
        BY <3>1, <1>8, MfccIs
      <3>3. Suffix(<<>>, 0) = <<>>
        BY DEF Suffix
      <3>. QED
        BY <3>1, <3>2, <3>3
    <2>. QED
      BY <2>1, <2>2
  <1>11. PICK k : k = Blocks(Mfcc, Len(m.buffer))
    OBVIOUS
  <1>12. /\ new \in Seq(Feature) /\ Len(new) = k
         /\ \A i \in 1 .. Len(new) : new[i] = Window(all, n + i)
    <2>1. new = Windows(m.buffer)
      BY DEF Ready
    <2>2. n * StrideLen \in 0 .. Len(all) /\ m.buffer = Suffix(all, n * StrideLen) /\ n \in Nat
      BY <1>2, <1>8, <1>9, <1>10, Zenon
    <2>3. /\ Windows(m.buffer) \in Seq(Feature)
          /\ Len(Windows(m.buffer)) = Blocks(Mfcc, Len(m.buffer))
          /\ \A i \in 1 .. Len(Windows(m.buffer)) : Windows(m.buffer)[i] = Window(all, n + i)
      BY <1>6, <2>2, WindowsAre, Zenon
    <2>. QED
      BY <2>1, <2>3, <1>11, Zenon
  <1>13. new \in Seq(Feature)
    BY <1>12
  <1>14. /\ Len(made \o new) = n + k
         /\ \A i \in 1 .. Len(made) : (made \o new)[i] = made[i]
         /\ \A i \in 1 .. Len(new) : (made \o new)[Len(made) + i] = new[i]
    <2>1. Len(made \o new) = Len(made) + Len(new)
      BY <1>13, ConcatIs
    <2>2. \A i \in 1 .. Len(made) : (made \o new)[i] = made[i]
      BY <1>13, ConcatIs
    <2>3. \A i \in 1 .. Len(new) : (made \o new)[Len(made) + i] = new[i]
      BY ONLY <1>13, made \in Seq(Feature), ConcatIs
    <2>. QED
      BY <1>1, <1>12, <2>1, <2>2, <2>3, Zenon
  <1>15. Rest(Mfcc, m, FALSE) \in StageState(Sample) /\ Waits(Mfcc, Rest(Mfcc, m, FALSE), all, n + k)
    <2>1. Holds(Mfcc, m, all, n)
      BY <1>4, <1>5
    <2>. QED
      BY <1>3, <1>4, <1>6, <1>11, <2>1, RestWaits
  <1>16. k \in Nat
    BY <1>12, <1>13, LenProperties
  <1>17. ASSUME NEW i \in 1 .. n + k PROVE (made \o new)[i] = Window(all, i)
    <2>1. CASE i <= n
      <3>1. i \in 1 .. Len(made) /\ i \in 1 .. n
        BY <2>1, <1>1, <1>2
      <3>2. (made \o new)[i] = Window(said, i)
        BY <3>1, <1>14
      <3>3. st.begun
        BY <3>1, <1>2 DEF Holds
      <3>4. n * StrideLen + (WindowLen - StrideLen) <= Len(said)
        BY <1>2, <3>1, <3>3, PaddedMfcc, MfccIs DEF Holds
      <3>5. Window(said \o data, i) = Window(said, i)
        BY <1>2, <3>1, <3>4, WindowKept
      <3>. QED
        BY <1>5, <3>2, <3>5
    <2>2. CASE ~(i <= n)
      <3>1. PICK j : j = i - n
        OBVIOUS
      <3>2. j \in 1 .. k /\ i = n + j
        BY <2>2, <3>1, <1>2, <1>16
      <3>. QED
        BY <3>2, <1>1, <1>12, <1>14
    <2>. QED
      BY <2>1, <2>2
  <1>18. made \o new \in Seq(Feature)
    BY <1>13, ConcatIs
  <1>. QED
    BY <1>5, <1>6, <1>13, <1>14, <1>15, <1>17, <1>18, Zenon DEF MfccHas

\* x and y are s with zeros behind it, and n windows fit into x, the shorter one.
BothZeroed(s, z, a, b, x, y, n) ==
    /\ s \in Seq(Sample) /\ z \in Sample /\ a \in Nat /\ b \in Nat /\ a <= b /\ n \in Nat
    /\ Zeroed(Sample, s, z, a, x) /\ Zeroed(Sample, s, z, b, y)
    /\ n * StrideLen + (WindowLen - StrideLen) <= Len(s) + a

LEMMA WindowZeroed ==
  ASSUME NEW s, NEW z, NEW a, NEW b, NEW x, NEW y, NEW n, BothZeroed(s, z, a, b, x, y, n)
  PROVE  \A k \in 1 .. n : Window(x, k) = Window(y, k)
  <1>1. s \in Seq(Sample) /\ z \in Sample /\ a \in Nat /\ b \in Nat /\ a <= b /\ n \in Nat
    BY DEF BothZeroed
  <1>2. SUFFICES ASSUME NEW k \in 1 .. n PROVE Window(x, k) = Window(y, k)
    OBVIOUS
  <1>3. PICK i : i = (k - 1) * StrideLen + 1
    OBVIOUS
  <1>4. PICK j : j = (k - 1) * StrideLen + WindowLen
    OBVIOUS
  <1>5. Len(s) \in Nat /\ Len(s) + a \in Nat
    BY <1>1, LenProperties
  <1>6. i \in Nat \ {0} /\ j \in Nat /\ i <= j + 1 /\ j <= Len(s) + a
    BY <1>1, <1>3, <1>4, <1>5, WindowEnds DEF BothZeroed
  <1>7. j <= Len(s) + b
    BY <1>1, <1>5, <1>6
  <1>8. Zeroed(Sample, s, z, a, x) /\ Zeroed(Sample, s, z, b, y)
    BY DEF BothZeroed
  <1>9. SubSeq(x, i, j) = SubSeq(y, i, j)
    BY <1>1, <1>6, <1>7, <1>8, CutZeroed
  <1>. QED
    BY <1>3, <1>4, <1>9, Zenon DEF Window

\* The first stage, for the end of an utterance.
MfccTakesLast(st, said, made, data, m, new, all) ==
    /\ MfccHas(st, said, made) /\ data \in Seq(Sample)
    /\ m = Accepted(Mfcc, st, data) /\ new = Windows(Ready(Mfcc, m, TRUE))
    /\ all = said \o data

LEMMA MfccEnds ==
  ASSUME NEW st, NEW said, NEW made, NEW data, NEW m, NEW new, NEW all,
         MfccTakesLast(st, said, made, data, m, new, all)
  PROVE  /\ new \in Seq(Feature)
         /\ IF Len(all) + StrideLen <= WindowLen THEN Len(made \o new) = 0
            ELSE (Len(made \o new) - 1) * StrideLen + WindowLen \in Len(all) .. Len(all) + StrideLen - 1
         /\ \A k \in 1 .. Len(made \o new) : (made \o new)[k] = Window(all \o Zeros(StrideLen, 0), k)
  <1>h. /\ MfccHas(st, said, made) /\ data \in Seq(Sample)
        /\ m = Accepted(Mfcc, st, data) /\ new = Windows(Ready(Mfcc, m, TRUE))
        /\ all = said \o data
    BY DEF MfccTakesLast
  <1>. USE <1>h
  <1>0. /\ st \in StageState(Sample) /\ said \in Seq(Sample) /\ made \in Seq(Feature)
        /\ Waits(Mfcc, st, said, Len(made)) /\ \A k \in 1 .. Len(made) : made[k] = Window(said, k)
    BY DEF MfccHas
  <1>. USE <1>0
  <1>1. PICK n : n = Len(made)
    OBVIOUS
  <1>2. n \in Nat /\ Holds(Mfcc, st, said, n)
    BY <1>1 DEF Waits, Holds
  <1>3. Stage(Mfcc) /\ Mfcc.zero \in Sample
    BY Stages, MfccIs
  <1>4. m \in StageState(Sample) /\ Holds(Mfcc, m, all, n)
    BY <1>2, <1>3, AcceptedHolds
  <1>5. all \in Seq(Sample) /\ Len(all) \in Nat
    BY LenProperties
  <1>6. all \in Seq(Sample)
    BY <1>5
  <1>7. CASE ~m.begun
    <2>1. m.buffer = <<>> /\ all = <<>> /\ n = 0
      BY <1>4, <1>7 DEF Holds
    <2>2. Ready(Mfcc, m, TRUE) = <<>>
      BY <1>7, <2>1 DEF Ready
    <2>3. new = <<>>
      BY <2>2, NothingReady
    <2>4. made = <<>>
      BY ONLY made \in Seq(Feature), <1>1, <2>1, EmptySeq
    <2>5. <<>> \o <<>> = <<>> /\ Len(<<>>) = 0 /\ <<>> \in Seq(Feature)
      BY ONLY TRUE
    <2>6. 0 + StrideLen <= WindowLen
      BY MfccIs
    <2>7. \A k \in 1 .. 0 : (made \o new)[k] = Window(all \o Zeros(StrideLen, 0), k)
      BY ONLY TRUE
    <2>8. made \o new = <<>> /\ Len(made \o new) = 0 /\ Len(all) = 0 /\ new \in Seq(Feature)
      BY <2>1, <2>3, <2>4, <2>5, Zenon
    <2>. QED
      BY <2>6, <2>7, <2>8, Zenon
  <1>8. CASE m.begun
    <2>1. PICK a : a = Align(Mfcc, Len(m.buffer))
      OBVIOUS
    <2>2. PICK z : z = all \o Zeros(a, 0)
      OBVIOUS
    <2>3. PICK ready : ready = Ready(Mfcc, m, TRUE)
      OBVIOUS
    <2>4. PICK c \in Nat : c = WindowLen - StrideLen
      BY MfccIs
    <2>5. a \in 0 .. StrideLen - 1
      <3>1. Stage(Mfcc) /\ Mfcc.block = StrideLen /\ Len(m.buffer) \in Nat
        BY <1>3, <1>4, LenProperties, MfccIs DEF StageState
      <3>. QED
        BY <2>1, <3>1, AlignIs
    <2>6. 0 + a = a /\ a \in Nat
      BY <2>5, MfccIs
    <2>7. z = Padded(Mfcc, all) \o Zeros(Mfcc.padding + a, Mfcc.zero)
      BY <1>6, <2>2, <2>6, PaddedMfcc, MfccIs
    <2>8. /\ z \in Seq(Sample) /\ Len(z) = Mfcc.padding + Len(all) + Mfcc.padding + a
          /\ n * Mfcc.block \in 0 .. Len(z) /\ ready = Suffix(z, n * Mfcc.block)
          /\ \E q \in Int : /\ Len(z) = Mfcc.context + q * Mfcc.block
                            /\ n + Blocks(Mfcc, Len(ready)) = IF q > 0 THEN q ELSE 0
      <3>1. /\ Stage(Mfcc) /\ Mfcc.zero \in Sample /\ m \in StageState(Sample) /\ all \in Seq(Sample)
            /\ Holds(Mfcc, m, all, n) /\ m.begun
        BY <1>3, <1>4, <1>6, <1>8, Zenon
      <3>2. Ended(Sample, Mfcc, m, all, n, a, z, ready)
        BY <2>1, <2>3, <2>7, <3>1, FinishedBlocks, Zenon
      <3>. QED
        BY <3>2, Zenon DEF Ended
    <2>9. z \in Seq(Sample)
      BY <2>8
    <2>10. Len(z) = Len(all) + a
      <3>1. PICK e \in Nat : e = Len(all)
        BY <1>5
      <3>2. Len(z) = 0 + e + 0 + a
        BY <2>8, <3>1, MfccIs, Zenon
      <3>3. 0 + e + 0 + a = e + a
        BY ONLY e \in Nat, <2>6
      <3>. QED
        BY <3>1, <3>2, <3>3, Zenon
    <2>11. n * StrideLen \in 0 .. Len(z) /\ ready = Suffix(z, n * StrideLen)
      BY <2>8, MfccIs
    <2>12. PICK k : k = Blocks(Mfcc, Len(ready))
      OBVIOUS
    <2>13. PICK q \in Int : Len(z) = c + q * StrideLen /\ n + k = IF q > 0 THEN q ELSE 0
      BY <2>4, <2>8, <2>12, MfccIs
    <2>14. /\ new \in Seq(Feature) /\ Len(new) = k
           /\ \A i \in 1 .. Len(new) : new[i] = Window(z, n + i)
      <3>1. /\ Windows(ready) \in Seq(Feature)
            /\ Len(Windows(ready)) = Blocks(Mfcc, Len(ready))
            /\ \A i \in 1 .. Len(Windows(ready)) : Windows(ready)[i] = Window(z, n + i)
        BY <1>2, <2>9, <2>11, WindowsAre
      <3>. QED
        BY <2>3, <2>12, <3>1, Zenon
    <2>15. new \in Seq(Feature)
      BY <2>14
    <2>16. /\ k \in Nat /\ Len(made \o new) = n + k
           /\ \A i \in 1 .. n : (made \o new)[i] = made[i]
           /\ \A i \in 1 .. n + k : ~(i <= n) => i - n \in 1 .. k /\ i = n + (i - n) /\ (made \o new)[i] = new[i - n]
      <3>1. new \in Seq(Feature) /\ made \in Seq(Feature) /\ n = Len(made) /\ k = Len(new)
        BY <1>1, <2>14, <2>15, Zenon
      <3>. QED
        BY ONLY <3>1, Concatenated
    <2>17. PICK u \in Int : u = q * StrideLen
      BY MfccIs
    <2>18. PICK l \in Nat : l = Len(all)
      BY <1>5
    <2>19. l + a = c + u
      BY <2>10, <2>13, <2>17, <2>18, Zenon
    <2>20. q > 0 <=> l + StrideLen > WindowLen
      <3>1. CASE q > 0
        <4>1. 1 * StrideLen <= q * StrideLen
          BY <3>1, MfccIs, ProductGrows
        <4>2. StrideLen <= u
          BY <4>1, <2>17, MfccIs
        <4>. QED
          BY <3>1, <4>2, <2>4, <2>5, <2>6, <2>19, MfccIs
      <3>2. CASE q <= 0
        <4>1. q * StrideLen <= 0 * StrideLen
          BY <3>2, MfccIs, ProductGrows
        <4>2. u <= 0
          BY <4>1, <2>17, MfccIs
        <4>. QED
          BY <3>2, <4>2, <2>4, <2>6, <2>19, MfccIs
      <3>. QED
        BY <3>1, <3>2
    <2>21. IF Len(all) + StrideLen <= WindowLen THEN Len(made \o new) = 0
           ELSE (Len(made \o new) - 1) * StrideLen + WindowLen \in Len(all) .. Len(all) + StrideLen - 1
      <3>1. CASE q <= 0
        <4>1. n + k = 0
          BY <2>13, <3>1
        <4>2. l + StrideLen <= WindowLen
          BY <2>20, <3>1, MfccIs
        <4>. QED
          BY <2>16, <2>18, <4>1, <4>2, Zenon
      <3>2. CASE q > 0
        <4>1. n + k = q
          BY <2>13, <3>2
        <4>2. ~(l + StrideLen <= WindowLen)
          BY <2>20, <3>2, MfccIs
        <4>3. (q - 1) * StrideLen = u - StrideLen
          BY <2>17, MfccIs
        <4>4. u - StrideLen + WindowLen \in l .. l + StrideLen - 1
          BY <2>4, <2>5, <2>6, <2>19, MfccIs
        <4>5. Len(made \o new) = q /\ (q - 1) * StrideLen + WindowLen \in l .. l + StrideLen - 1
          BY <2>16, <4>1, <4>3, <4>4, Zenon
        <4>. QED
          BY <2>18, <4>2, <4>5, Zenon
      <3>3. q <= 0 \/ q > 0
        OBVIOUS
      <3>. QED
        BY <3>1, <3>2, <3>3, Zenon
    <2>22. ASSUME NEW i \in 1 .. n + k PROVE (made \o new)[i] = Window(all \o Zeros(StrideLen, 0), i)
      <3>1. PICK f \in Nat : f = n + k
        BY <1>2, <2>16
      <3>2. f = q
        BY <2>13, <3>1
      <3>3. f * StrideLen + (WindowLen - StrideLen) <= Len(all) + a
        BY <2>4, <2>17, <2>18, <2>19, <2>6, <3>2
      <3>4. Window(z, i) = Window(all \o Zeros(StrideLen, 0), i)
        <4>1. a <= StrideLen /\ StrideLen \in Nat /\ i \in 1 .. f /\ f \in Nat
          BY <2>5, <3>1, MfccIs
        <4>. QED
          <5>1. PICK y : y = all \o Zeros(StrideLen, 0)
            OBVIOUS
          <5>2. PICK w : w = 0
            OBVIOUS
          <5>3. w \in Sample /\ a \in Nat /\ StrideLen \in Nat
            BY <5>2, <2>6, MfccIs
          <5>4. Zeroed(Sample, all, w, a, z)
            BY <1>6, <2>2, <5>2, <5>3, ZerosBehind, Zenon
          <5>5. Zeroed(Sample, all, w, StrideLen, y)
            BY <1>6, <5>1, <5>2, <5>3, ZerosBehind, Zenon
          <5>6. Window(z, i) = Window(y, i)
            <6>1. BothZeroed(all, w, a, StrideLen, z, y, f)
              BY <1>6, <3>3, <4>1, <5>3, <5>4, <5>5, Zenon DEF BothZeroed
            <6>2. \A g \in 1 .. f : Window(z, g) = Window(y, g)
              BY ONLY <6>1, WindowZeroed
            <6>3. i \in 1 .. f
              BY <4>1
            <6>. QED
              BY ONLY <6>2, <6>3
          <5>. QED
            BY <5>1, <5>6, Zenon
      <3>5. CASE i <= n
        <4>1. i \in 1 .. n
          BY <1>2, <3>5
        <4>2. (made \o new)[i] = Window(said, i)
          BY <1>1, <2>16, <4>1
        <4>3. st.begun
          BY <1>2, <4>1 DEF Holds
        <4>4. n * StrideLen + (WindowLen - StrideLen) <= Len(said)
          BY <1>2, <4>1, <4>3, PaddedMfcc, MfccIs DEF Holds
        <4>5. Window(all, i) = Window(said, i)
          BY <1>2, <4>1, <4>4, WindowKept
        <4>6. Zeros(a, 0) \in Seq(Sample)
          BY <2>6, MfccIs, ZerosAre
        <4>7. n * StrideLen + (WindowLen - StrideLen) <= Len(all)
          <5>1. Len(said) \in Nat /\ Len(data) \in Nat /\ Len(all) = Len(said) + Len(data)
            BY LenProperties, ConcatIs
          <5>2. PICK x \in Nat : x = n * StrideLen
            BY <1>2, MfccIs, ProductIsNat
          <5>. QED
            BY <4>4, <5>1, <5>2, MfccIs
        <4>8. Window(all \o Zeros(a, 0), i) = Window(all, i)
          BY <1>2, <1>6, <4>1, <4>6, <4>7, WindowKept
        <4>. QED
          BY <2>2, <3>4, <4>2, <4>5, <4>8, Zenon
      <3>6. CASE ~(i <= n)
        <4>1. (made \o new)[i] = new[i - n] /\ i - n \in 1 .. k /\ i = n + (i - n)
          BY <2>16, <3>6, Zenon
        <4>2. new[i - n] = Window(z, n + (i - n))
          BY <2>14, <4>1, Zenon
        <4>. QED
          BY <3>4, <4>1, <4>2, Zenon
      <3>. QED
        BY <3>5, <3>6
    <2>. QED
      BY <2>15, <2>16, <2>21, <2>22, Zenon
  <1>. QED
    BY <1>7, <1>8

\* An answer that is there stays the same when more windows are made.
LEMMA AnswersKept ==
  ASSUME NEW st, NEW made, NEW n, NEW answers, RnnHas(st, made, n, answers), NEW new \in Seq(Feature)
  PROVE  \A i \in 1 .. n * BlockLen : answers[i] = Answer(Padded(Rnn, made \o new), i)
  <1>0. /\ st \in StageState(Feature) /\ made \in Seq(Feature) /\ answers \in Seq(Frame)
        /\ Waits(Rnn, st, made, n) /\ Len(answers) = n * BlockLen
        /\ \A i \in 1 .. Len(answers) : answers[i] = Answer(Padded(Rnn, made), i)
    BY DEF RnnHas
  <1>1. n \in Nat /\ Holds(Rnn, st, made, n)
    BY <1>0 DEF Waits, Holds
  <1>2. PICK o \in Nat : o = n * BlockLen
    BY <1>1, RnnIs, ProductIsNat
  <1>3. SUFFICES ASSUME NEW i \in 1 .. o PROVE answers[i] = Answer(Padded(Rnn, made \o new), i)
    BY <1>2, Zenon
  <1>4. Stage(Rnn) /\ Rnn.zero \in Feature
    BY Stages, RnnIs
  <1>5. n # 0
    <2>1. n = 0 => o = 0
      BY <1>2, RnnIs
    <2>. QED
      BY <1>2, <2>1
  <1>6. n * Rnn.block + Rnn.context <= Len(Padded(Rnn, made))
    BY <1>1, <1>5, Zenon DEF Holds
  <1>7. o + ContextLen <= Len(Padded(Rnn, made))
    BY <1>2, <1>6, RnnIs, Zenon
  <1>8. /\ Padded(Rnn, made) \in Seq(Feature)
        /\ Padded(Rnn, made \o new) = Padded(Rnn, made) \o new
    BY <1>0, <1>4, PaddedIs
  <1>9. i \in Nat \ {0} /\ i + ContextLen <= Len(Padded(Rnn, made))
    <2>1. Len(Padded(Rnn, made)) \in Nat
      BY <1>8, LenProperties
    <2>. QED
      BY <1>2, <1>7, <2>1, RnnIs
  <1>10. Answer(Padded(Rnn, made) \o new, i) = Answer(Padded(Rnn, made), i)
    BY <1>8, <1>9, AnswerKept
  <1>11. i \in 1 .. Len(answers)
    BY <1>0, <1>2, Zenon
  <1>. QED
    BY <1>0, <1>8, <1>10, <1>11, Zenon

\* The second stage, while the utterance goes on.
RnnTakes(st, made, n, answers, new, r, k, probs) ==
    /\ RnnHas(st, made, n, answers) /\ new \in Seq(Feature)
    /\ r = Accepted(Rnn, st, new) /\ k = Blocks(Rnn, Len(r.buffer))
    /\ probs = Answers(Ready(Rnn, r, FALSE), n, 0)

LEMMA RnnGoesOn ==
  ASSUME NEW st, NEW made, NEW n, NEW answers, NEW new, NEW r, NEW k, NEW probs,
         RnnTakes(st, made, n, answers, new, r, k, probs)
  PROVE  /\ k \in Nat /\ probs \in Seq(Frame) /\ (probs = <<>> <=> k = 0)
         /\ RnnHas(Rest(Rnn, r, FALSE), made \o new, n + k, answers \o probs)
  <1>h. /\ RnnHas(st, made, n, answers) /\ new \in Seq(Feature)
        /\ r = Accepted(Rnn, st, new) /\ k = Blocks(Rnn, Len(r.buffer))
        /\ probs = Answers(Ready(Rnn, r, FALSE), n, 0)
    BY DEF RnnTakes
  <1>. USE <1>h
  <1>0. /\ st \in StageState(Feature) /\ made \in Seq(Feature) /\ answers \in Seq(Frame)
        /\ Waits(Rnn, st, made, n) /\ Len(answers) = n * BlockLen
    BY DEF RnnHas
  <1>1. n \in Nat /\ Holds(Rnn, st, made, n)
    BY <1>0 DEF Waits, Holds
  <1>2. Stage(Rnn) /\ Rnn.zero \in Feature
    BY Stages, RnnIs
  <1>3. PICK all : all = made \o new
    OBVIOUS
  <1>4. all \in Seq(Feature)
    BY <1>0, <1>3, ConcatIs
  <1>5. r \in StageState(Feature) /\ Holds(Rnn, r, all, n)
    BY <1>0, <1>1, <1>2, <1>3, AcceptedHolds
  <1>6. PICK o \in Nat : o = n * BlockLen
    BY <1>1, RnnIs, ProductIsNat
  <1>7. k \in Nat
    <2>1. Len(r.buffer) \in Nat
      BY <1>5, LenProperties DEF StageState
    <2>. QED
      BY <1>2, <2>1, BlocksAre
  <1>8. PICK l \in Nat : l = k * BlockLen
    BY <1>7, RnnIs, ProductIsNat
  <1>9. PICK p : p = Padded(Rnn, all)
    OBVIOUS
  <1>10. probs = Answers(r.buffer, n, 0)
    BY DEF Ready
  <1>11. /\ probs \in Seq(Frame) /\ Len(probs) = l
         /\ \A i \in 1 .. l : probs[i] = Answer(p, o + i)
    <2>1. CASE r.begun
      <3>1. p \in Seq(Feature)
        BY <1>2, <1>4, <1>9, PaddedIs
      <3>2. n * BlockLen \in 0 .. Len(p)
        <4>1. n * Rnn.block \in 0 .. Len(Padded(Rnn, all))
          BY <1>2, <1>4, <1>5, DoneWithin
        <4>. QED
          BY <1>9, <4>1, RnnIs, Zenon
      <3>3. r.buffer = Suffix(p, n * BlockLen)
        BY <2>1, <1>5, <1>9, RnnIs, Zenon DEF Holds
      <3>4. PICK c \in 0 .. BlockLen - 1 : c = 0
        BY RnnIs
      <3>5. /\ Answers(r.buffer, n, c) \in Seq(Frame)
            /\ Len(Answers(r.buffer, n, c)) = IF k = 0 THEN 0 ELSE l - c
            /\ \A i \in 1 .. Len(Answers(r.buffer, n, c)) : Answers(r.buffer, n, c)[i] = Answer(p, o + i)
        <4>1. /\ Answers(r.buffer, n, c) \in Seq(Frame)
              /\ Len(Answers(r.buffer, n, c)) =
                    IF Blocks(Rnn, Len(r.buffer)) = 0 THEN 0 ELSE Blocks(Rnn, Len(r.buffer)) * BlockLen - c
              /\ \A i \in 1 .. Len(Answers(r.buffer, n, c)) :
                    Answers(r.buffer, n, c)[i] = Answer(p, n * BlockLen + i)
          BY ONLY <1>1, <3>1, <3>2, <3>3, c \in 0 .. BlockLen - 1, AnswersAre
        <4>. QED
          BY <1>6, <1>8, <4>1, Zenon
      <3>6. (IF k = 0 THEN 0 ELSE l - c) = l
        <4>1. l - 0 = l
          BY ONLY l \in Nat
        <4>2. k = 0 => l = 0
          BY <1>8, RnnIs
        <4>. QED
          BY <3>4, <4>1, <4>2, Zenon
      <3>. QED
        BY <1>10, <3>4, <3>5, <3>6, Zenon
    <2>2. CASE ~r.begun
      <3>1. r.buffer = <<>>
        BY <1>5, <2>2 DEF Holds
      <3>2. probs = <<>> /\ Blocks(Rnn, 0) = 0
        BY <1>10, <3>1, NothingReady
      <3>3. k = 0
        BY <3>1, <3>2
      <3>4. l = 0
        BY <1>8, <3>3, RnnIs
      <3>5. <<>> \in Seq(Frame) /\ Len(<<>>) = 0 /\ \A i \in 1 .. 0 : probs[i] = Answer(p, o + i)
        OBVIOUS
      <3>. QED
        BY <3>2, <3>4, <3>5, Zenon
    <2>. QED
      BY <2>1, <2>2
  <1>12. k > 0 => l > 0
    <2>1. ASSUME k > 0 PROVE 1 * BlockLen <= k * BlockLen
      BY <2>1, <1>7, RnnIs, ProductGrows
    <2>. QED
      BY <2>1, <1>7, <1>8, RnnIs
  <1>13. probs = <<>> <=> k = 0
    <2>1. k = 0 => l = 0
      BY <1>8, RnnIs
    <2>2. probs = <<>> <=> l = 0
      BY ONLY <1>11, EmptySeq
    <2>3. (k = 0 \/ k > 0) /\ (l > 0 => l # 0)
      BY <1>7, <1>8
    <2>. QED
      BY <1>12, <2>1, <2>2, <2>3, Zenon
  <1>14. Rest(Rnn, r, FALSE) \in StageState(Feature) /\ Waits(Rnn, Rest(Rnn, r, FALSE), all, n + k)
    BY <1>2, <1>4, <1>5, RestWaits
  <1>15. PICK frames : frames = answers \o probs
    OBVIOUS
  <1>16. /\ frames \in Seq(Frame) /\ Len(frames) = o + l
         /\ \A i \in 1 .. o : frames[i] = answers[i]
         /\ \A i \in 1 .. o + l : ~(i <= o) => i - o \in 1 .. l /\ i = o + (i - o) /\ frames[i] = probs[i - o]
    <2>1. answers \in Seq(Frame) /\ probs \in Seq(Frame) /\ o = Len(answers) /\ l = Len(probs)
      BY <1>0, <1>6, <1>11, Zenon
    <2>2. answers \o probs \in Seq(Frame)
      BY ONLY <2>1, ConcatIs
    <2>3. /\ Len(answers \o probs) = o + l
          /\ \A i \in 1 .. o : (answers \o probs)[i] = answers[i]
          /\ \A i \in 1 .. o + l : ~(i <= o) => i - o \in 1 .. l /\ i = o + (i - o) /\ (answers \o probs)[i] = probs[i - o]
      BY ONLY <2>1, Concatenated
    <2>. QED
      BY <1>15, <2>2, <2>3, Zenon
  <1>17. ASSUME NEW i \in 1 .. o + l PROVE frames[i] = Answer(p, i)
    <2>1. CASE i <= o
      <3>1. i \in 1 .. o
        BY <2>1
      <3>2. answers[i] = Answer(Padded(Rnn, made \o new), i)
        <4>1. \A g \in 1 .. n * BlockLen : answers[g] = Answer(Padded(Rnn, made \o new), g)
          BY ONLY RnnHas(st, made, n, answers), new \in Seq(Feature), AnswersKept
        <4>. QED
          BY <1>6, <3>1, <4>1, Zenon
      <3>. QED
        BY <1>3, <1>9, <1>16, <3>1, <3>2, Zenon
    <2>2. CASE ~(i <= o)
      <3>1. i - o \in 1 .. l /\ i = o + (i - o) /\ frames[i] = probs[i - o]
        BY <1>16, <2>2, Zenon
      <3>2. probs[i - o] = Answer(p, o + (i - o))
        BY <1>11, <3>1, Zenon
      <3>. QED
        BY <3>1, <3>2, Zenon
    <2>. QED
      BY <2>1, <2>2
  <1>18. (n + k) * BlockLen = o + l
    BY <1>1, <1>6, <1>7, <1>8, RnnIs, ProductDistributes
  <1>19. RnnHas(Rest(Rnn, r, FALSE), all, n + k, frames)
    BY <1>4, <1>9, <1>14, <1>16, <1>17, <1>18, Zenon DEF RnnHas
  <1>. QED
    BY <1>3, <1>7, <1>11, <1>13, <1>15, <1>19, Zenon

\* x and y are s with zeros behind it, and the context of frame i fits into both.
ContextZeroed(s, z, a, b, x, y, i) ==
    /\ s \in Seq(Feature) /\ z \in Feature /\ a \in Nat /\ b \in Nat /\ i \in Nat \ {0}
    /\ Zeroed(Feature, s, z, a, x) /\ Zeroed(Feature, s, z, b, y)
    /\ i + ContextLen <= Len(s) + a /\ i + ContextLen <= Len(s) + b

LEMMA AnswerZeroed ==
  ASSUME NEW s, NEW z, NEW a, NEW b, NEW x, NEW y, NEW i, ContextZeroed(s, z, a, b, x, y, i)
  PROVE  Answer(x, i) = Answer(y, i)
  <1>0. /\ s \in Seq(Feature) /\ z \in Feature /\ a \in Nat /\ b \in Nat /\ i \in Nat \ {0}
        /\ Zeroed(Feature, s, z, a, x) /\ Zeroed(Feature, s, z, b, y)
        /\ i + ContextLen <= Len(s) + a /\ i + ContextLen <= Len(s) + b
    BY DEF ContextZeroed
  <1>. USE <1>0
  <1>1. PICK j \in Nat : j = i + ContextLen
    BY RnnIs
  <1>2. i <= j + 1 /\ j <= Len(s) + a /\ j <= Len(s) + b
    BY <1>1, RnnIs
  <1>3. SubSeq(x, i, j) = SubSeq(y, i, j)
    BY <1>2, CutZeroed
  <1>. QED
    BY <1>1, <1>3, Zenon DEF Answer

\* The second stage, for the end of an utterance.
RnnTakesLast(st, made, n, answers, new, r, a, probs, all, frames) ==
    /\ RnnHas(st, made, n, answers) /\ new \in Seq(Feature)
    /\ r = Accepted(Rnn, st, new) /\ a = Align(Rnn, Len(r.buffer))
    /\ probs = Answers(Ready(Rnn, r, TRUE), n, a)
    /\ all = made \o new /\ frames = answers \o probs

LEMMA RnnEnds ==
  ASSUME NEW st, NEW made, NEW n, NEW answers, NEW new, NEW r, NEW a, NEW probs, NEW all, NEW frames,
         RnnTakesLast(st, made, n, answers, new, r, a, probs, all, frames)
  PROVE  /\ probs \in Seq(Frame) /\ Len(frames) = Len(all)
         /\ \A i \in 1 .. Len(all) : frames[i] = Answer(Padded(Rnn, all) \o Zeros(ContextLen \div 2, <<>>), i)
  <1>h. /\ RnnHas(st, made, n, answers) /\ new \in Seq(Feature)
        /\ r = Accepted(Rnn, st, new) /\ a = Align(Rnn, Len(r.buffer))
        /\ probs = Answers(Ready(Rnn, r, TRUE), n, a)
        /\ all = made \o new /\ frames = answers \o probs
    BY DEF RnnTakesLast
  <1>. USE <1>h
  <1>0. /\ st \in StageState(Feature) /\ made \in Seq(Feature) /\ answers \in Seq(Frame)
        /\ Waits(Rnn, st, made, n) /\ Len(answers) = n * BlockLen
    BY DEF RnnHas
  <1>1. n \in Nat /\ Holds(Rnn, st, made, n)
    BY <1>0 DEF Waits, Holds
  <1>2. Stage(Rnn) /\ Rnn.zero \in Feature
    BY Stages, RnnIs
  <1>3. all \in Seq(Feature)
    BY <1>0, ConcatIs
  <1>4. r \in StageState(Feature) /\ Holds(Rnn, r, all, n)
    BY <1>0, <1>1, <1>2, AcceptedHolds
  <1>5. PICK o \in Nat : o = n * BlockLen
    BY <1>1, RnnIs, ProductIsNat
  <1>6. PICK l \in Nat : l = Len(all)
    BY <1>3, LenProperties
  <1>7. CASE ~r.begun
    <2>1. r.buffer = <<>> /\ all = <<>> /\ n = 0
      BY <1>4, <1>7 DEF Holds
    <2>2. probs = <<>>
      <3>1. Ready(Rnn, r, TRUE) = <<>>
        BY <1>7, <2>1 DEF Ready
      <3>. QED
        BY <3>1, NothingReady
    <2>3. o = 0
      BY <1>5, <2>1, RnnIs
    <2>4. answers = <<>>
      BY ONLY <1>0, <1>5, <2>3, EmptySeq
    <2>5. <<>> \o <<>> = <<>> /\ Len(<<>>) = 0 /\ <<>> \in Seq(Frame)
      BY ONLY TRUE
    <2>6. \A i \in 1 .. 0 : frames[i] = Answer(Padded(Rnn, all) \o Zeros(ContextLen \div 2, <<>>), i)
      BY ONLY TRUE
    <2>. QED
      BY <2>1, <2>2, <2>4, <2>5, <2>6, Zenon
  <1>8. CASE r.begun
    <2>1. PICK h \in Nat : h = ContextLen \div 2
      BY RnnIs
    <2>2. PICK p : p = Padded(Rnn, all)
      OBVIOUS
    <2>3. PICK e : e = <<>>
      OBVIOUS
    <2>4. e \in Feature /\ Rnn.zero = e /\ Rnn.padding = h /\ Rnn.block = BlockLen /\ Rnn.context = ContextLen
      BY <2>1, <2>3, RnnIs, Zenon
    <2>5. PICK z : z = p \o Zeros(h + a, e)
      OBVIOUS
    <2>6. PICK ready : ready = Ready(Rnn, r, TRUE)
      OBVIOUS
    <2>7. Ended(Feature, Rnn, r, all, n, a, z, ready)
      <3>1. z = Padded(Rnn, all) \o Zeros(Rnn.padding + a, Rnn.zero)
        BY <2>2, <2>4, <2>5, Zenon
      <3>2. Ended(Feature, Rnn, r, all, n, Align(Rnn, Len(r.buffer)),
                  Padded(Rnn, all) \o Zeros(Rnn.padding + Align(Rnn, Len(r.buffer)), Rnn.zero), Ready(Rnn, r, TRUE))
        BY ONLY <1>2, <1>3, <1>4, <1>8, FinishedBlocks
      <3>. QED
        BY <2>6, <3>1, <3>2, Zenon
    <2>8. PICK k : k = Blocks(Rnn, Len(ready))
      OBVIOUS
    <2>9. /\ a \in 0 .. BlockLen - 1
          /\ z \in Seq(Feature) /\ Len(z) = h + l + h + a
          /\ n * BlockLen \in 0 .. Len(z) /\ ready = Suffix(z, n * BlockLen)
          /\ k = 0 /\ n > 0 => a = 0
          /\ \E q \in Int : Len(z) = ContextLen + q * BlockLen /\ n + k = IF q > 0 THEN q ELSE 0
      BY <1>6, <2>4, <2>7, <2>8, Zenon DEF Ended
    <2>10. PICK q \in Int : Len(z) = ContextLen + q * BlockLen /\ n + k = IF q > 0 THEN q ELSE 0
      BY <2>9, Zenon
    <2>11. a \in Nat /\ a < BlockLen
      BY <2>9, RnnIs
    <2>12. PICK u \in Int : u = q * BlockLen
      BY RnnIs
    <2>13. h + h = ContextLen
      BY <2>1, RnnIs, Zenon
    <2>14. l + a = u
      <3>1. h + l + h + a = h + h + u
        BY <2>9, <2>10, <2>12, <2>13, Zenon
      <3>. QED
        BY ONLY h \in Nat, l \in Nat, u \in Int, <2>11, <3>1
    <2>15. l > 0
      <3>1. all # <<>>
        BY <1>4, <1>8 DEF Holds
      <3>2. l # 0
        BY ONLY <1>3, <1>6, <3>1, EmptySeq
      <3>. QED
        BY <3>2
    <2>16. q > 0
      <3>1. SUFFICES ASSUME q <= 0 PROVE FALSE
        OBVIOUS
      <3>2. q * BlockLen <= 0 * BlockLen
        BY <3>1, RnnIs, ProductGrows
      <3>3. u <= 0
        BY <2>12, <3>2, RnnIs
      <3>. QED
        BY <2>11, <2>14, <2>15, <3>3
    <2>17. k \in Int /\ n + k = q
      <3>1. Len(ready) \in Nat
        BY <2>9, SuffixIs, LenProperties
      <3>2. k \in Nat
        BY <1>2, <2>8, <3>1, BlocksAre
      <3>. QED
        BY <2>10, <2>16, <3>2
    <2>18. PICK w \in Int : w = k * BlockLen
      BY <2>17, RnnIs
    <2>19. o + w = u
      <3>1. (n + k) * BlockLen = o + w
        BY <1>1, <1>5, <2>17, <2>18, RnnIs, ProductDistributes
      <3>. QED
        BY <2>12, <2>17, <3>1, Zenon
    <2>20. PICK t : t = Len(probs)
      OBVIOUS
    <2>21. /\ probs \in Seq(Frame) /\ t = IF k = 0 THEN 0 ELSE w - a
           /\ \A i \in 1 .. t : probs[i] = Answer(z, o + i)
      <3>1. /\ Answers(ready, n, a) \in Seq(Frame)
            /\ Len(Answers(ready, n, a)) =
                  IF Blocks(Rnn, Len(ready)) = 0 THEN 0 ELSE Blocks(Rnn, Len(ready)) * BlockLen - a
            /\ \A i \in 1 .. Len(Answers(ready, n, a)) :
                  Answers(ready, n, a)[i] = Answer(z, n * BlockLen + i)
        BY ONLY <1>1, <2>9, AnswersAre
      <3>. QED
        BY <1>5, <2>6, <2>8, <2>18, <2>20, <3>1, Zenon
    <2>22. t \in Nat
      BY <2>20, <2>21, LenProperties
    <2>23. o + t = l
      <3>1. CASE k = 0
        <4>1. w = 0 /\ n > 0
          BY <1>1, <2>16, <2>17, <2>18, <3>1, RnnIs
        <4>2. a = 0 /\ t = 0
          BY <2>9, <2>21, <3>1, <4>1, Zenon
        <4>3. l + 0 = u /\ o + 0 = u
          BY <2>14, <2>19, <4>1, <4>2, Zenon
        <4>4. o + 0 = l
          BY ONLY o \in Nat, l \in Nat, u \in Int, <4>3
        <4>. QED
          BY <4>2, <4>4, Zenon
      <3>2. CASE k # 0
        <4>1. t = w - a
          BY <2>21, <3>2, Zenon
        <4>. QED
          BY ONLY o \in Nat, l \in Nat, u \in Int, w \in Int, <2>11, <2>14, <2>19, <4>1
      <3>. QED
        BY <3>1, <3>2
    <2>24. /\ Len(frames) = l
           /\ \A i \in 1 .. o : frames[i] = answers[i]
           /\ \A i \in 1 .. l : ~(i <= o) => i - o \in 1 .. t /\ i = o + (i - o) /\ frames[i] = probs[i - o]
      <3>1. answers \in Seq(Frame) /\ probs \in Seq(Frame) /\ o = Len(answers) /\ t = Len(probs)
        BY <1>0, <1>5, <2>20, <2>21, Zenon
      <3>2. /\ Len(answers \o probs) = o + t
            /\ \A i \in 1 .. o : (answers \o probs)[i] = answers[i]
            /\ \A i \in 1 .. o + t : ~(i <= o) => i - o \in 1 .. t /\ i = o + (i - o) /\ (answers \o probs)[i] = probs[i - o]
        BY ONLY <3>1, Concatenated
      <3>. QED
        BY <2>23, <3>2, Zenon
    <2>25. p \in Seq(Feature) /\ Len(p) = h + l
      <3>1. /\ Padded(Rnn, all) \in Seq(Feature) /\ Len(Padded(Rnn, all)) = Rnn.padding + Len(all)
        BY <1>2, <1>3, PaddedIs
      <3>. QED
        BY <1>6, <2>2, <2>4, <3>1, Zenon
    <2>26. PICK y : y = p \o Zeros(h, e)
      OBVIOUS
    <2>27. ASSUME NEW i \in 1 .. l PROVE frames[i] = Answer(y, i)
      <3>1. CASE i <= o
        <4>1. i \in 1 .. o
          BY <3>1
        <4>2. answers[i] = Answer(p, i)
          <5>1. \A g \in 1 .. n * BlockLen : answers[g] = Answer(Padded(Rnn, made \o new), g)
            BY ONLY RnnHas(st, made, n, answers), new \in Seq(Feature), AnswersKept
          <5>. QED
            BY <1>5, <2>2, <4>1, <5>1, Zenon
        <4>3. n # 0
          <5>1. n = 0 => o = 0
            BY <1>5, RnnIs
          <5>. QED
            BY <4>1, <5>1
        <4>4. o + ContextLen <= Len(p)
          <5>1. n * Rnn.block + Rnn.context <= Len(Padded(Rnn, all))
            BY <1>4, <1>8, <4>3, Zenon DEF Holds
          <5>. QED
            BY <1>5, <2>2, <2>4, <5>1, Zenon
        <4>5. i \in Nat \ {0} /\ i + ContextLen <= Len(p)
          BY <2>25, <4>1, <4>4, RnnIs
        <4>6. Zeros(h, e) \in Seq(Feature)
          BY <2>4, ZerosAre
        <4>7. Answer(p \o Zeros(h, e), i) = Answer(p, i)
          BY <2>25, <4>5, <4>6, AnswerKept
        <4>. QED
          BY <2>24, <2>26, <4>1, <4>2, <4>7, Zenon
      <3>2. CASE ~(i <= o)
        <4>1. i - o \in 1 .. t /\ i = o + (i - o) /\ frames[i] = probs[i - o]
          BY <2>24, <3>2, Zenon
        <4>2. frames[i] = Answer(z, i)
          BY <2>21, <4>1, Zenon
        <4>3. PICK b \in Nat : b = h + a
          BY <2>11
        <4>4. Zeroed(Feature, p, e, b, z)
          <5>1. Zeroed(Feature, p, e, b, p \o Zeros(b, e))
            BY ONLY <2>4, <2>25, b \in Nat, ZerosBehind
          <5>. QED
            BY <2>5, <4>3, <5>1, Zenon
        <4>5. Zeroed(Feature, p, e, h, y)
          <5>1. Zeroed(Feature, p, e, h, p \o Zeros(h, e))
            BY ONLY <2>4, <2>25, h \in Nat, ZerosBehind
          <5>. QED
            BY <2>26, <5>1, Zenon
        <4>6. i \in Nat \ {0} /\ i + ContextLen <= Len(p) + h /\ i + ContextLen <= Len(p) + b
          <5>1. i \in Nat \ {0} /\ i + (h + h) <= (h + l) + h /\ i + (h + h) <= (h + l) + b
            BY <2>11, <4>3
          <5>. QED
            BY <2>13, <2>25, <5>1, Zenon
        <4>7. Answer(z, i) = Answer(y, i)
          <5>1. ContextZeroed(p, e, b, h, z, y, i)
            BY <2>4, <2>25, <4>4, <4>5, <4>6, Zenon DEF ContextZeroed
          <5>. QED
            BY ONLY <5>1, AnswerZeroed
        <4>. QED
          BY <4>2, <4>7, Zenon
      <3>. QED
        BY <3>1, <3>2
    <2>28. y = Padded(Rnn, all) \o Zeros(ContextLen \div 2, <<>>)
      BY <2>1, <2>2, <2>3, <2>26, Zenon
    <2>. QED
      BY <1>6, <2>21, <2>24, <2>27, <2>28, Zenon
  <1>. QED
    BY <1>7, <1>8

-----------------------------------------------------------------------------
(* The steps.                                                              *)

LEMMA EmptyHas == MfccHas(Empty, <<>>, <<>>) /\ RnnHas(Empty, <<>>, 0, <<>>)
  <1>1. Empty.begun = FALSE /\ Empty.buffer = <<>> /\ Len(<<>>) = 0 /\ 0 \in Nat
    BY DEF Empty
  <1>2. Empty \in StageState(Sample) /\ Empty \in StageState(Feature)
    BY DEF Empty, StageState
  <1>3. Waits(Mfcc, Empty, <<>>, 0)
    <2>1. Holds(Mfcc, Empty, <<>>, 0)
      BY <1>1, Zenon DEF Holds
    <2>2. 0 < Mfcc.block + Mfcc.context
      BY MfccIs
    <2>. QED
      BY <1>1, <2>1, <2>2, Zenon DEF Waits
  <1>4. Waits(Rnn, Empty, <<>>, 0)
    <2>1. Holds(Rnn, Empty, <<>>, 0)
      BY <1>1, Zenon DEF Holds
    <2>2. 0 < Rnn.block + Rnn.context
      BY RnnIs
    <2>. QED
      BY <1>1, <2>1, <2>2, Zenon DEF Waits
  <1>5. MfccHas(Empty, <<>>, <<>>)
    BY <1>1, <1>2, <1>3 DEF MfccHas
  <1>6. 0 * BlockLen = 0
    BY RnnIs
  <1>7. RnnHas(Empty, <<>>, 0, <<>>)
    BY <1>1, <1>2, <1>4, <1>6 DEF RnnHas
  <1>. QED
    BY <1>5, <1>7

\* What the decoder has after new answers: those of this utterance, and no others.
LEMMA DecoderTakes ==
  ASSUME DecoderOk, NEW probs \in Seq(Frame), NEW begun, begun = (ctc_begun \/ probs # <<>>),
         NEW d, d = Decoding(probs)
  PROVE  /\ d \in [frames : Seq(Frame), finalized : BOOLEAN]
         /\ (IF begun THEN d.frames ELSE <<>>) = Current \o probs
         /\ begun => ~d.finalized
         /\ ~begun => d.finalized \/ d.frames = <<>>
  <1>1. /\ decoder \in [frames : Seq(Frame), finalized : BOOLEAN] /\ ctc_begun \in BOOLEAN
        /\ ctc_begun => ~decoder.finalized
        /\ ~ctc_begun => decoder.finalized \/ decoder.frames = <<>>
    BY DEF DecoderOk
  <1>2. decoder.frames \in Seq(Frame) /\ <<>> \in Seq(Frame)
    BY <1>1
  <1>3. CASE probs = <<>>
    <2>1. d = decoder /\ begun = ctc_begun
      BY <1>1, <1>3 DEF Decoding
    <2>2. decoder.frames \o <<>> = decoder.frames /\ <<>> \o <<>> = <<>>
      BY <1>2
    <2>3. (IF begun THEN d.frames ELSE <<>>) = Current \o probs
      BY <1>3, <2>1, <2>2, Zenon DEF Current
    <2>. QED
      BY <1>1, <2>1, <2>3
  <1>4. CASE probs # <<>>
    <2>1. PICK f : f = IF decoder.finalized THEN <<>> ELSE decoder.frames
      OBVIOUS
    <2>2. d = [frames |-> f \o probs, finalized |-> FALSE] /\ begun
      BY <1>4, <2>1, Zenon DEF Decoding
    <2>3. f \in Seq(Frame)
      BY <1>2, <2>1
    <2>4. f \o probs \in Seq(Frame)
      BY <2>3, ConcatIs
    <2>5. d.frames = f \o probs /\ d.finalized = FALSE /\ d \in [frames : Seq(Frame), finalized : BOOLEAN]
      BY <2>2, <2>4
    <2>6. f = Current
      BY <1>1, <2>1 DEF Current
    <2>. QED
      BY <2>2, <2>5, <2>6, Zenon
  <1>. QED
    BY <1>3, <1>4

\* A chunk that is not the last one.
LEMMA GoesOn ==
  ASSUME PipelineInv, NEW data \in Seq(Sample), recognize_audio(data, FALSE)
  PROVE  PipelineInv'
  <1>0. MfccHas(mfcc_stage, audio, features) /\ RnnHas(rnn_stage, features, rnn_state, Current) /\ DecoderOk
    BY DEF PipelineInv
  <1>1. PICK m : m = Accepted(Mfcc, mfcc_stage, data)
    OBVIOUS
  <1>2. PICK new : new = Windows(Ready(Mfcc, m, FALSE))
    OBVIOUS
  <1>3. PICK r : r = Accepted(Rnn, rnn_stage, new)
    OBVIOUS
  <1>4. PICK k : k = Blocks(Rnn, Len(r.buffer))
    OBVIOUS
  <1>5. PICK probs : probs = Answers(Ready(Rnn, r, FALSE), rnn_state, 0)
    OBVIOUS
  <1>6. PICK begun : begun = (ctc_begun \/ probs # <<>>)
    OBVIOUS
  <1>7. PICK d : d = Decoding(probs)
    OBVIOUS
  <1>8. Ready(Rnn, r, FALSE) = r.buffer
    BY DEF Ready
  <1>9. /\ mfcc_stage' = Rest(Mfcc, m, FALSE) /\ rnn_stage' = Rest(Rnn, r, FALSE)
        /\ rnn_state' = rnn_state + k /\ ctc_begun' = (begun /\ ~FALSE)
        /\ decoder' = [d EXCEPT !.finalized = @ \/ (FALSE /\ begun)]
        /\ audio' = audio \o data /\ features' = features \o new /\ transcription' = <<>>
    BY <1>1, <1>2, <1>3, <1>4, <1>5, <1>6, <1>7, <1>8, Zenon DEF recognize_audio
  <1>10. new \in Seq(Feature) /\ MfccHas(Rest(Mfcc, m, FALSE), audio \o data, features \o new)
    BY ONLY <1>0, <1>1, <1>2, data \in Seq(Sample), MfccGoesOn
  <1>11. /\ k \in Nat /\ probs \in Seq(Frame) /\ (probs = <<>> <=> k = 0)
         /\ RnnHas(Rest(Rnn, r, FALSE), features \o new, rnn_state + k, Current \o probs)
    <2>1. PICK cur : cur = Current
      OBVIOUS
    <2>2. RnnHas(rnn_stage, features, rnn_state, cur) /\ new \in Seq(Feature)
      BY <1>0, <1>10, <2>1, Zenon
    <2>3. /\ k \in Nat /\ probs \in Seq(Frame) /\ (probs = <<>> <=> k = 0)
          /\ RnnHas(Rest(Rnn, r, FALSE), features \o new, rnn_state + k, cur \o probs)
      <3>1. RnnTakes(rnn_stage, features, rnn_state, cur, new, r, k, probs)
        BY <1>3, <1>4, <1>5, <2>2, Zenon DEF RnnTakes
      <3>. QED
        BY ONLY <3>1, RnnGoesOn
    <2>. QED
      BY <2>1, <2>3, Zenon
  <1>12. /\ d \in [frames : Seq(Frame), finalized : BOOLEAN]
         /\ (IF begun THEN d.frames ELSE <<>>) = Current \o probs
         /\ begun => ~d.finalized
         /\ ~begun => d.finalized \/ d.frames = <<>>
    BY ONLY <1>0, <1>6, <1>7, <1>11, DecoderTakes
  <1>13. decoder' = d /\ ctc_begun' = begun /\ begun \in BOOLEAN
    BY <1>6, <1>9, <1>12
  <1>14. MfccHas(mfcc_stage, audio, features)'
    BY <1>9, <1>10, Zenon DEF MfccHas, StageState
  <1>15. Current' = Current \o probs
    BY <1>12, <1>13, Zenon DEF Current
  <1>16. RnnHas(rnn_stage', features', rnn_state', Current')
    BY <1>9, <1>11, <1>15, Zenon
  <1>17. DecoderOk'
    <2>1. rnn_state \in Nat /\ (ctc_begun <=> rnn_state > 0)
      BY <1>0 DEF DecoderOk, RnnHas, Waits, Holds
    <2>2. begun <=> rnn_state + k > 0
      <3>1. rnn_state + k > 0 <=> rnn_state > 0 \/ k # 0
        BY <1>11, <2>1
      <3>. QED
        BY <1>6, <1>11, <2>1, <3>1, Zenon
    <2>3. ctc_begun' <=> rnn_state' > 0
      BY <1>9, <1>13, <2>2, Zenon
    <2>. QED
      BY <1>12, <1>13, <2>3, Zenon DEF DecoderOk
  <1>18. FramesInContext'
    BY <1>9 DEF FramesInContext
  <1>. QED
    BY <1>14, <1>16, <1>17, <1>18, Zenon DEF PipelineInv

\* What is told of an utterance: its audio a, its features f and its frames g.
Tells(a, f, g) ==
    /\ IF Len(a) + StrideLen <= WindowLen THEN Len(f) = 0
       ELSE (Len(f) - 1) * StrideLen + WindowLen \in Len(a) .. Len(a) + StrideLen - 1
    /\ \A k \in 1 .. Len(f) : f[k] = Window(a \o Zeros(StrideLen, 0), k)
    /\ Len(g) = Len(f)
    /\ \A i \in 1 .. Len(f) : g[i] = Answer(Padded(Rnn, f) \o Zeros(ContextLen \div 2, <<>>), i)

LEMMA Told ==
  ASSUME NEW a \in Seq(Sample), NEW f, NEW g, Tells(a, f, g),
         transcription' = <<[audio |-> a, features |-> f, frames |-> g]>>
  PROVE  FramesInContext'
  <1>1. PICK t : t = transcription'[1]
    OBVIOUS
  <1>2. t.audio = a /\ t.features = f /\ t.frames = g
    BY <1>1
  <1>3. Len(a \o Zeros(StrideLen, 0)) = Len(a) + StrideLen
    <2>1. Zeros(StrideLen, 0) \in Seq(Sample) /\ Len(Zeros(StrideLen, 0)) = StrideLen
      BY MfccIs, ZerosAre
    <2>. QED
      BY <2>1, ConcatIs
  <1>4. Padded(Rnn, f) = Zeros(ContextLen \div 2, <<>>) \o f
    BY RnnIs DEF Padded
  <1>5. /\ IF Len(a) + StrideLen <= WindowLen THEN Len(f) = 0
           ELSE (Len(f) - 1) * StrideLen + WindowLen \in Len(a) .. Len(a \o Zeros(StrideLen, 0)) - 1
        /\ \A k \in 1 .. Len(f) :
              f[k] = SubSeq(a \o Zeros(StrideLen, 0), (k - 1) * StrideLen + 1, (k - 1) * StrideLen + WindowLen)
        /\ Len(g) = Len(f)
        /\ \A i \in 1 .. Len(f) :
              g[i] = [context |-> SubSeq(Zeros(ContextLen \div 2, <<>>) \o f \o Zeros(ContextLen \div 2, <<>>), i, i + ContextLen),
                      memory |-> (i - 1) \div BlockLen]
    <2>1. /\ IF Len(a) + StrideLen <= WindowLen THEN Len(f) = 0
             ELSE (Len(f) - 1) * StrideLen + WindowLen \in Len(a) .. Len(a) + StrideLen - 1
          /\ \A k \in 1 .. Len(f) : f[k] = Window(a \o Zeros(StrideLen, 0), k)
          /\ Len(g) = Len(f)
          /\ \A i \in 1 .. Len(f) : g[i] = Answer(Padded(Rnn, f) \o Zeros(ContextLen \div 2, <<>>), i)
      BY DEF Tells
    <2>2. IF Len(a) + StrideLen <= WindowLen THEN Len(f) = 0
          ELSE (Len(f) - 1) * StrideLen + WindowLen \in Len(a) .. Len(a \o Zeros(StrideLen, 0)) - 1
      <3>1. Len(a) + StrideLen - 1 = (Len(a) + StrideLen) - 1
        BY MfccIs, LenProperties
      <3>. QED
        BY <1>3, <2>1, <3>1, Zenon
    <2>3. \A k \in 1 .. Len(f) :
             f[k] = SubSeq(a \o Zeros(StrideLen, 0), (k - 1) * StrideLen + 1, (k - 1) * StrideLen + WindowLen)
      BY <2>1, Zenon DEF Window
    <2>4. \A i \in 1 .. Len(f) :
             g[i] = [context |-> SubSeq(Zeros(ContextLen \div 2, <<>>) \o f \o Zeros(ContextLen \div 2, <<>>), i, i + ContextLen),
                     memory |-> (i - 1) \div BlockLen]
      BY <1>4, <2>1, Zenon DEF Answer
    <2>. QED
      BY <2>1, <2>2, <2>3, <2>4, Zenon
  <1>. QED
    BY <1>1, <1>2, <1>5, Zenon DEF FramesInContext

\* The end of an utterance, with its last chunk or without one.
LEMMA Ends ==
  ASSUME PipelineInv, NEW data \in Seq(Sample), recognize_audio(data, TRUE)
  PROVE  PipelineInv'
  <1>0. MfccHas(mfcc_stage, audio, features) /\ RnnHas(rnn_stage, features, rnn_state, Current) /\ DecoderOk
    BY DEF PipelineInv
  <1>1. PICK m : m = Accepted(Mfcc, mfcc_stage, data)
    OBVIOUS
  <1>2. PICK new : new = Windows(Ready(Mfcc, m, TRUE))
    OBVIOUS
  <1>3. PICK r : r = Accepted(Rnn, rnn_stage, new)
    OBVIOUS
  <1>4. PICK a : a = Align(Rnn, Len(r.buffer))
    OBVIOUS
  <1>5. PICK probs : probs = Answers(Ready(Rnn, r, TRUE), rnn_state, a)
    OBVIOUS
  <1>6. PICK begun : begun = (ctc_begun \/ probs # <<>>)
    OBVIOUS
  <1>7. PICK d : d = Decoding(probs)
    OBVIOUS
  <1>8. PICK g : g = IF begun THEN d.frames ELSE <<>>
    OBVIOUS
  <1>9. /\ mfcc_stage' = Empty /\ rnn_stage' = Empty /\ rnn_state' = 0 /\ ctc_begun' = (begun /\ ~TRUE)
        /\ decoder' = [d EXCEPT !.finalized = @ \/ (TRUE /\ begun)]
        /\ audio' = <<>> /\ features' = <<>>
        /\ transcription' = <<[audio |-> audio \o data, features |-> features \o new, frames |-> g]>>
    BY <1>1, <1>2, <1>3, <1>4, <1>5, <1>6, <1>7, <1>8, Zenon DEF recognize_audio, Rest
  <1>10. PICK all : all = audio \o data
    OBVIOUS
  <1>11. PICK f : f = features \o new
    OBVIOUS
  <1>12. /\ new \in Seq(Feature)
         /\ IF Len(all) + StrideLen <= WindowLen THEN Len(f) = 0
            ELSE (Len(f) - 1) * StrideLen + WindowLen \in Len(all) .. Len(all) + StrideLen - 1
         /\ \A k \in 1 .. Len(f) : f[k] = Window(all \o Zeros(StrideLen, 0), k)
    <2>1. /\ new \in Seq(Feature)
          /\ IF Len(all) + StrideLen <= WindowLen THEN Len(features \o new) = 0
             ELSE (Len(features \o new) - 1) * StrideLen + WindowLen \in Len(all) .. Len(all) + StrideLen - 1
          /\ \A k \in 1 .. Len(features \o new) : (features \o new)[k] = Window(all \o Zeros(StrideLen, 0), k)
      <3>1. MfccTakesLast(mfcc_stage, audio, features, data, m, new, all)
        BY <1>0, <1>1, <1>2, <1>10, Zenon DEF MfccTakesLast
      <3>. QED
        BY ONLY <3>1, MfccEnds
    <2>. QED
      BY <1>11, <2>1, Zenon
  <1>13. PICK frames : frames = Current \o probs
    OBVIOUS
  <1>14. /\ probs \in Seq(Frame) /\ Len(frames) = Len(f)
         /\ \A i \in 1 .. Len(f) : frames[i] = Answer(Padded(Rnn, f) \o Zeros(ContextLen \div 2, <<>>), i)
    <2>1. PICK cur : cur = Current
      OBVIOUS
    <2>2. RnnTakesLast(rnn_stage, features, rnn_state, cur, new, r, a, probs, f, frames)
      BY <1>0, <1>3, <1>4, <1>5, <1>11, <1>12, <1>13, <2>1, Zenon DEF RnnTakesLast
    <2>. QED
      BY ONLY <2>2, RnnEnds
  <1>15. /\ d \in [frames : Seq(Frame), finalized : BOOLEAN]
         /\ (IF begun THEN d.frames ELSE <<>>) = Current \o probs
         /\ begun => ~d.finalized
         /\ ~begun => d.finalized \/ d.frames = <<>>
    BY ONLY <1>0, <1>6, <1>7, <1>14, DecoderTakes
  <1>16. all \in Seq(Sample)
    BY <1>0, <1>10, ConcatIs DEF MfccHas
  <1>17. FramesInContext'
    <2>1. Tells(all, f, g)
      BY <1>8, <1>12, <1>13, <1>14, <1>15, Zenon DEF Tells
    <2>2. transcription' = <<[audio |-> all, features |-> f, frames |-> g]>>
      BY <1>9, <1>10, <1>11, Zenon
    <2>. QED
      BY ONLY <1>16, <2>1, <2>2, Told
  <1>18. begun \in BOOLEAN
    BY <1>6
  <1>19. DecoderOk'
    <2>1. ctc_begun' = FALSE /\ rnn_state' = 0
      BY <1>9
    <2>2. /\ decoder' \in [frames : Seq(Frame), finalized : BOOLEAN]
          /\ decoder'.finalized \/ decoder'.frames = <<>>
      <3>1. decoder'.frames = d.frames /\ decoder'.finalized = (d.finalized \/ begun)
        BY <1>9, <1>15, <1>18
      <3>2. decoder' \in [frames : Seq(Frame), finalized : BOOLEAN]
        BY <1>9, <1>15, <1>18
      <3>. QED
        BY <1>15, <1>18, <3>1, <3>2, Zenon
    <2>. QED
      <3>1. ~(0 > 0)
        OBVIOUS
      <3>. QED
        BY <2>1, <2>2, <3>1, Zenon DEF DecoderOk
  <1>20. Current' = <<>>
    BY <1>9 DEF Current
  <1>21. MfccHas(mfcc_stage, audio, features)'
    BY <1>9, EmptyHas, Zenon DEF MfccHas, StageState
  <1>22. RnnHas(rnn_stage', features', rnn_state', Current')
    BY <1>9, <1>20, EmptyHas, Zenon
  <1>. QED
    BY <1>17, <1>19, <1>21, <1>22, Zenon DEF PipelineInv

LEMMA StartInv == PipelineInit => PipelineInv
  <1>. SUFFICES ASSUME PipelineInit PROVE PipelineInv
    OBVIOUS
  <1>1. MfccHas(mfcc_stage, audio, features)
    BY EmptyHas, Zenon DEF PipelineInit
  <1>2. Current = <<>>
    BY DEF PipelineInit, Current
  <1>3. RnnHas(rnn_stage, features, rnn_state, Current)
    BY <1>2, EmptyHas, Zenon DEF PipelineInit
  <1>4. DecoderOk
    <2>1. ~(0 > 0) /\ <<>> \in Seq(Frame)
      OBVIOUS
    <2>2. [frames |-> <<>>, finalized |-> FALSE] \in [frames : Seq(Frame), finalized : BOOLEAN]
      BY <2>1
    <2>3. [frames |-> <<>>, finalized |-> FALSE].frames = <<>>
      OBVIOUS
    <2>. QED
      BY <2>1, <2>2, <2>3, Zenon DEF PipelineInit, DecoderOk
  <1>5. FramesInContext
    BY DEF PipelineInit, FramesInContext
  <1>. QED
    BY <1>1, <1>3, <1>4, <1>5, Zenon DEF PipelineInv

LEMMA StepInv ==
  ASSUME PipelineInv, [PipelineNext]_pipelineVars
  PROVE  PipelineInv'
  <1>1. ASSUME NEW n \in 1 .. MaxChunk, NEW data \in Samples(n), NEW finish \in BOOLEAN, recognize_audio(data, finish)
        PROVE  PipelineInv'
    <2>1. data \in Seq(Sample)
      BY PipelineAssumption, FunctionIsSeq DEF Samples
    <2>2. CASE finish = TRUE
      BY <1>1, <2>1, <2>2, Ends, Zenon
    <2>3. CASE finish = FALSE
      BY <1>1, <2>1, <2>3, GoesOn, Zenon
    <2>. QED
      BY <2>2, <2>3
  <1>2. CASE recognize_audio(<<>>, TRUE)
    <2>1. <<>> \in Seq(Sample)
      OBVIOUS
    <2>. QED
      BY <1>2, <2>1, Ends, Zenon
  <1>3. CASE UNCHANGED pipelineVars
    <2>1. Current' = Current
      BY <1>3 DEF pipelineVars, Current
    <2>2. RnnHas(rnn_stage', features', rnn_state', Current')
      BY <1>3, <2>1, Zenon DEF pipelineVars, PipelineInv
    <2>3. MfccHas(mfcc_stage, audio, features)'
      BY <1>3, Zenon DEF pipelineVars, PipelineInv
    <2>4. DecoderOk'
      BY <1>3, Zenon DEF pipelineVars, PipelineInv, DecoderOk
    <2>5. FramesInContext'
      BY <1>3, Zenon DEF pipelineVars, PipelineInv, FramesInContext
    <2>. QED
      BY <2>2, <2>3, <2>4, <2>5, Zenon DEF PipelineInv
  <1>. QED
    BY <1>1, <1>2, <1>3 DEF PipelineNext

\* For all lengths of strides, windows, blocks and contexts, for all samples and however the
\* audio of the utterances is cut into chunks by the calls of recognize_audio: each
\* transcription is decoded from one answer for each window of its own utterance, in its
\* context, and from nothing else.
THEOREM FramesInContextAlways == PipelineSpec => []FramesInContext
  <1>1. PipelineInit => PipelineInv
    BY StartInv
  <1>2. PipelineInv /\ [PipelineNext]_pipelineVars => PipelineInv'
    BY StepInv
  <1>3. PipelineInv => FramesInContext
    BY DEF PipelineInv
  <1>. QED
    BY <1>1, <1>2, <1>3, PTL DEF PipelineSpec

-----------------------------------------------------------------------------
(* The sessions of the service: their inductive invariant.                 *)

PC == {"idle", "offline", "recognize", "check", "read"} \cup Exclusive
Kinds == {"none", "OFFLINE", "ONLINE_READ", "ONLINE_STOP"}
Role == {"mic", "ctc"}

\* Where everything is, whatever the requests do.
Shape ==
    /\ gAsrStop \in BOOLEAN /\ gOnlineThreadRunning \in BOOLEAN /\ astray \in BOOLEAN
    /\ gThreadPool \in Seq([role : Role, of : Session])
    /\ gAudioBuffer \in Seq(Session)
    /\ gResultBuffer \in Seq([by : Session, from : SUBSET Session])
    /\ life \in [Session -> [mic : Life, ctc : Life]]
    /\ heard \in [Session -> SUBSET Session]
    /\ sessions \in 0 .. MaxSessions
    /\ req \in [Request -> [pc : PC, kind : Kinds, i : Nat]]
    /\ \A t \in Request : req[t].pc \in {"start", "start_mic"} => req[t].i \in Session

Living == {"run", "busy"}
NoneAlive == \A s \in Session : ~Alive(s)
Pair(s) == <<[role |-> "mic", of |-> s], [role |-> "ctc", of |-> s]>>

\* Where the session is not astray, requests change the session one at a time.
OneChanges ==
    \A t, u \in Request : t # u => ~(req[t].pc \in Exclusive /\ req[u].pc \in Exclusive)

\* Only the last session has threads.
LastOnly == \A s \in Session : Alive(s) => s = sessions

\* The flag and the pool belong together, except between the start of the threads and
\* the setting of the flag.
FlagAndPool ==
    /\ (\A t \in Request : req[t].pc \notin {"start_mic", "mark"}) =>
          (gOnlineThreadRunning => gThreadPool = Pair(sessions)) /\ (~gOnlineThreadRunning => NoneAlive)
    /\ \A t \in Request :
          /\ At(t, "mark") => gThreadPool = Pair(sessions)
          /\ req[t].pc \in {"setup", "flush", "start", "start_mic"} => ~gOnlineThreadRunning
          /\ req[t].pc \in {"start", "start_mic"} => gThreadPool = Pair(sessions) /\ req[t].i = sessions

\* The threads that a request has joined are dead.
JoinedDead ==
    \A t \in Request : At(t, "join") =>
        /\ req[t].i >= 1
        /\ gOnlineThreadRunning =>
              \A s \in Session : s = sessions =>
                  /\ req[t].i >= 2 => life[s].mic \notin Living
                  /\ req[t].i >= 3 => life[s].ctc \notin Living

\* What is in the queues, and in the recognizer, is of the last session.
OwnFrames ==
    /\ \A k \in 1 .. Len(gAudioBuffer) : gAudioBuffer[k] = sessions
    /\ \A k \in 1 .. Len(gResultBuffer) :
          gResultBuffer[k].by = sessions /\ gResultBuffer[k].from = {sessions}
    /\ \A s \in Session :
          /\ heard[s] # {} => life[s].ctc \in Living /\ heard[s] = {sessions}
          /\ life[s].ctc = "busy" => heard[s] # {}

Truthful ==
    /\ answer.what = "stopped" => NoneAlive
    /\ answer.what = "text" => answer.by = sessions /\ answer.from = {sessions}

Calm == OneChanges /\ LastOnly /\ FlagAndPool /\ JoinedDead /\ OwnFrames /\ Truthful

SessionInv == Shape /\ (~astray => Calm)

-----------------------------------------------------------------------------
USE AsrAssumption

\* The parts of the state that a step of a request leaves alone keep their shape.
LEMMA MovesShape ==
  ASSUME Shape, NEW t \in Request, NEW r \in [pc : PC, kind : Kinds, i : Nat], NEW a, Moves(t, r, a),
         r.pc \in {"start", "start_mic"} => r.i \in Session
  PROVE  /\ req' \in [Request -> [pc : PC, kind : Kinds, i : Nat]]
         /\ astray' \in BOOLEAN
         /\ \A u \in Request : req'[u].pc \in {"start", "start_mic"} => req'[u].i \in Session
  BY DEF Shape, Moves, At

\* A step of Moves that does not lead astray leaves at most one request that changes the session.
LEMMA MovesAlone ==
  ASSUME Shape, ~astray => OneChanges, NEW t \in Request, NEW r \in [pc : PC, kind : Kinds, i : Nat],
         NEW a, Moves(t, r, a), ~astray'
  PROVE  /\ ~astray /\ OneChanges' /\ req'[t] = r /\ answer' = a
         /\ \A u \in Request : u # t => req'[u] = req[u]
         /\ r.pc \in Exclusive => \A u \in Request : u # t => req[u].pc \notin Exclusive
  BY DEF Shape, Moves, OneChanges

LEMMA AliveIs ==
  ASSUME NEW s
  PROVE  Alive(s) <=> (life[s].mic \in Living \/ life[s].ctc \in Living)
  BY DEF Alive, Living

LEMMA AliveIsNext ==
  ASSUME NEW s
  PROVE  Alive(s)' <=> (life'[s].mic \in Living \/ life'[s].ctc \in Living)
  BY DEF Alive, Living

LEMMA InitInv == Init => SessionInv
  <1> SUFFICES ASSUME Init PROVE SessionInv
    OBVIOUS
  <1>1. Shape
    <2>1. req \in [Request -> [pc : PC, kind : Kinds, i : Nat]]
      BY DEF Init, PC, Kinds, Idle
    <2>2. life \in [Session -> [mic : Life, ctc : Life]]
      BY DEF Init, Life
    <2>3. gThreadPool \in Seq([role : Role, of : Session]) /\ gAudioBuffer \in Seq(Session)
          /\ gResultBuffer \in Seq([by : Session, from : SUBSET Session])
      BY DEF Init
    <2>4. sessions \in 0 .. MaxSessions /\ heard \in [Session -> SUBSET Session]
      BY DEF Init
    <2>5. \A t \in Request : req[t].pc \notin {"start", "start_mic"}
      BY DEF Init, Idle, At
    <2> QED
      BY <2>1, <2>2, <2>3, <2>4, <2>5 DEF Init, Shape
  <1>2. NoneAlive
    BY AliveIs DEF Init, NoneAlive, Living
  <1>3. Calm
    BY <1>2, AliveIs DEF Init, Calm, OneChanges, LastOnly, FlagAndPool, JoinedDead, OwnFrames, Truthful,
        NoneAlive, Idle, Nothing, At, Exclusive, Living
  <1> QED
    BY <1>1, <1>3 DEF SessionInv

-----------------------------------------------------------------------------
(* The steps of a request that change nothing but the request and the event. *)

\* What the request may become.
Harmless(r) ==
    /\ r.pc \notin {"start", "start_mic", "mark"}
    /\ ~astray /\ r.pc \in {"setup", "flush"} => ~gOnlineThreadRunning
    /\ r.pc = "join" =>
          /\ r.i >= 1
          /\ ~astray /\ Calm /\ gOnlineThreadRunning =>
                \A s \in Session : s = sessions =>
                    /\ r.i >= 2 => life[s].mic \notin Living
                    /\ r.i >= 3 => life[s].ctc \notin Living

LEMMA QuietMove ==
  ASSUME SessionInv, NEW t \in Request, req[t].pc \notin {"start_mic", "mark"},
         NEW r \in [pc : PC, kind : Kinds, i : Nat], Harmless(r),
         NEW a, a.what \notin {"stopped", "text"}, Moves(t, r, a),
         gAsrStop' \in BOOLEAN, UNCHANGED <<gOnlineThreadRunning, gThreadPool, queues, threads>>
  PROVE  SessionInv'
  <1>1. Shape'
    BY MovesShape DEF SessionInv, Shape, Harmless, At, queues, threads
  <1>2. ASSUME ~astray' PROVE Calm'
    <2>1. /\ ~astray /\ Calm /\ OneChanges' /\ req'[t] = r /\ answer' = a
          /\ \A u \in Request : u # t => req'[u] = req[u]
      BY <1>2, MovesAlone DEF SessionInv, Calm
    <2>2. LastOnly'
      BY <2>1 DEF Calm, LastOnly, Alive, threads
    <2>3. FlagAndPool'
      BY <2>1 DEF Calm, FlagAndPool, NoneAlive, Alive, Harmless, At, threads, Pair
    <2>4. JoinedDead'
      BY <2>1 DEF Calm, JoinedDead, Harmless, At, threads
    <2>5. OwnFrames'
      BY <2>1 DEF Calm, OwnFrames, queues, threads
    <2> QED
      BY <2>1, <2>2, <2>3, <2>4, <2>5 DEF Calm, Truthful
  <1> QED
    BY <1>1, <1>2 DEF SessionInv

LEMMA NothingSaid == Nothing.what \notin {"stopped", "text"}
  BY DEF Nothing

LEMMA IdleReply ==
  ASSUME SessionInv, NEW t \in Request, req[t].pc \notin {"start_mic", "mark"}, NEW what, what \notin {"stopped", "text"},
         Reply(t, Plain(what)), UNCHANGED <<globals, queues, threads>>
  PROVE  SessionInv'
  <1>1. Idle \in [pc : PC, kind : Kinds, i : Nat] /\ Harmless(Idle)
    BY DEF Idle, PC, Kinds, Harmless
  <1>2. Plain(what).what = what
    BY DEF Plain, Nothing
  <1> QED
    BY <1>1, <1>2, QuietMove DEF Reply, SessionInv, Shape, globals

LEMMA QuietGoto ==
  ASSUME SessionInv, NEW t \in Request, req[t].pc \notin {"start_mic", "mark"}, NEW pc \in PC \ {"flush", "start", "start_mic", "mark", "join"},
         pc = "setup" => ~gOnlineThreadRunning, Goto(t, pc), UNCHANGED <<globals, queues, threads>>
  PROVE  SessionInv'
  <1> DEFINE r == [req[t] EXCEPT !.pc = pc, !.i = 0]
  <1>1. r \in [pc : PC, kind : Kinds, i : Nat] /\ r.pc = pc
    BY DEF SessionInv, Shape
  <1>2. Harmless(r)
    BY <1>1 DEF Harmless
  <1> QED
    BY <1>1, <1>2, NothingSaid, QuietMove DEF Goto, SessionInv, Shape, globals

LEMMA AcceptKeeps ==
  ASSUME SessionInv, NEW t \in Request, NEW kind \in {"OFFLINE", "ONLINE_READ", "ONLINE_STOP"}, Accept(t, kind)
  PROVE  SessionInv'
  <1>1. ASSUME Moves(t, [pc |-> Entry[kind], kind |-> kind, i |-> 0], Nothing) PROVE SessionInv'
    <2>1. [pc |-> Entry[kind], kind |-> kind, i |-> 0] \in [pc : PC, kind : Kinds, i : Nat]
      BY DEF Entry, PC, Kinds, Exclusive
    <2>2. Harmless([pc |-> Entry[kind], kind |-> kind, i |-> 0])
      BY DEF Entry, Harmless
    <2> QED
      <3>1. /\ req[t].pc \notin {"start_mic", "mark"} /\ gAsrStop' \in BOOLEAN
            /\ UNCHANGED <<gOnlineThreadRunning, gThreadPool, queues, threads>>
        BY DEF Accept, At, SessionInv, Shape, globals
      <3> QED
        BY <1>1, <2>1, <2>2, <3>1, NothingSaid, QuietMove
  <1>2. ASSUME NEW a \in {"healthcheck", "error", "raise"}, Reply(t, Plain(a)) PROVE SessionInv'
    BY <1>2, IdleReply DEF Accept, At
  <1> QED
    BY <1>1, <1>2 DEF Accept

LEMMA OfflineKeeps ==
  ASSUME SessionInv, NEW t \in Request, Offline(t)
  PROVE  SessionInv'
  <1>1. {"set", "recognize"} \subseteq PC \ {"flush", "start", "start_mic", "mark", "join"}
    BY DEF PC, Exclusive
  <1> QED
    BY <1>1, QuietGoto DEF Offline, At

LEMMA RecognizeKeeps ==
  ASSUME SessionInv, NEW t \in Request, Recognize(t)
  PROVE  SessionInv'
  BY IdleReply DEF Recognize, At

LEMMA CheckKeeps ==
  ASSUME SessionInv, NEW t \in Request, Check(t)
  PROVE  SessionInv'
  <1>1. {"read", "setup"} \subseteq PC \ {"flush", "start", "start_mic", "mark", "join"}
    BY DEF PC, Exclusive
  <1>2. req[t].pc \notin {"start_mic", "mark"} /\ UNCHANGED <<globals, queues, threads>>
    BY DEF Check, At
  <1>3. ASSUME Goto(t, "read") PROVE SessionInv'
    BY <1>1, <1>2, <1>3, QuietGoto
  <1>4. ASSUME ~gOnlineThreadRunning, Goto(t, "setup") PROVE SessionInv'
    BY <1>1, <1>2, <1>4, QuietGoto
  <1>5. ASSUME NEW a \in {"error", "raise"}, Reply(t, Plain(a)) PROVE SessionInv'
    BY <1>2, <1>5, IdleReply
  <1> QED
    BY <1>3, <1>4, <1>5 DEF Check

LEMMA JoinKeeps ==
  ASSUME SessionInv, NEW t \in Request, Join(t)
  PROVE  SessionInv'
  <1> DEFINE its == State(gThreadPool[req[t].i])
             r == [req[t] EXCEPT !.i = @ + 1]
  <1> HIDE DEF its
  <1>0. /\ req[t] \in [pc : PC, kind : Kinds, i : Nat]
        /\ r \in [pc : PC, kind : Kinds, i : Nat]
    <2>1. req[t] \in [pc : PC, kind : Kinds, i : Nat]
      BY DEF SessionInv, Shape
    <2>2. req[t].i + 1 \in Nat
      BY <2>1
    <2> QED
      BY <2>1, <2>2
  <1>1. ASSUME its = "done", NextThread(t) PROVE SessionInv'
    <2>1. r.pc = "join" /\ r.i = req[t].i + 1
      BY <1>0 DEF Join, At
    <2>2. ASSUME ~astray, Calm, gOnlineThreadRunning, NEW s \in Session, s = sessions
          PROVE  (r.i >= 2 => life[s].mic \notin Living) /\ (r.i >= 3 => life[s].ctc \notin Living)
      <3>1. gThreadPool = Pair(s)
        BY <2>2 DEF Calm, FlagAndPool, OneChanges, Join, At, Exclusive
      <3>2. req[t].i \in {1, 2} /\ Len(gThreadPool) = 2
        BY <1>0, <2>2, <3>1 DEF Pair, Join, Calm, JoinedDead, At
      <3>3. req[t].i = 1 => its = life[s].mic
        BY <3>1 DEF Pair, State, its
      <3>4. req[t].i = 2 => its = life[s].ctc
        BY <3>1 DEF Pair, State, its
      <3>5. req[t].i = 2 => life[s].mic \notin Living
        BY <2>2 DEF Calm, JoinedDead, Join
      <3> QED
        BY <1>0, <1>1, <2>1, <3>2, <3>3, <3>4, <3>5 DEF Living
    <2>3. Harmless(r)
      BY <1>0, <2>1, <2>2 DEF Harmless
    <2> QED
      <3>1. /\ req[t].pc \notin {"start_mic", "mark"} /\ Moves(t, r, Nothing) /\ gAsrStop' \in BOOLEAN
            /\ UNCHANGED <<gOnlineThreadRunning, gThreadPool, queues, threads>>
        BY <1>1 DEF NextThread, Join, At, SessionInv, Shape, globals
      <3> QED
        BY <1>0, <2>3, <3>1, NothingSaid, QuietMove
  <1>2. ASSUME Reply(t, Plain("raise")) PROVE SessionInv'
    BY <1>2, IdleReply DEF Join, At
  <1> QED
    BY <1>1, <1>2 DEF Join, its

LEMMA ClearKeeps ==
  ASSUME SessionInv, NEW t \in Request, Clear(t)
  PROVE  SessionInv'
  <1> DEFINE r == [req[t] EXCEPT !.pc = "flush", !.i = 0]
  <1>1. r \in [pc : PC, kind : Kinds, i : Nat] /\ r.pc = "flush"
    BY DEF SessionInv, Shape, PC, Exclusive
  <1>2. Harmless(r)
    BY <1>1 DEF Harmless, SessionInv, Calm, FlagAndPool, Clear, At
  <1>3. /\ req[t].pc \notin {"start_mic", "mark"} /\ Moves(t, r, Nothing) /\ gAsrStop' \in BOOLEAN
        /\ UNCHANGED <<gOnlineThreadRunning, gThreadPool, queues, threads>>
    BY DEF Clear, Goto, At
  <1> QED
    BY <1>1, <1>2, <1>3, NothingSaid, QuietMove

LEMMA SetKeeps ==
  ASSUME SessionInv, NEW t \in Request, Set(t)
  PROVE  SessionInv'
  <1> DEFINE r == [req[t] EXCEPT !.pc = "join", !.i = 1]
  <1>1. r \in [pc : PC, kind : Kinds, i : Nat] /\ r.pc = "join" /\ r.i = 1
    BY DEF SessionInv, Shape, PC, Exclusive
  <1>2. Harmless(r)
    BY <1>1 DEF Harmless
  <1> QED
    <2>1. /\ req[t].pc \notin {"start_mic", "mark"} /\ Moves(t, r, Nothing) /\ gAsrStop' \in BOOLEAN
          /\ UNCHANGED <<gOnlineThreadRunning, gThreadPool, queues, threads>>
      BY DEF Set, At
    <2> QED
      BY <1>1, <1>2, <2>1, NothingSaid, QuietMove

-----------------------------------------------------------------------------
(* The other steps of a request.                                           *)

\* Whoever sets up or stops a session is the only one, and before the threads are started
\* there are none.
LEMMA NoneBefore ==
  ASSUME SessionInv, ~astray, NEW t \in Request, req[t].pc \in {"flush", "start"}
  PROVE  NoneAlive
  BY DEF SessionInv, Calm, FlagAndPool, OneChanges, At, Exclusive

LEMMA FlushKeeps ==
  ASSUME SessionInv, NEW t \in Request, Flush(t)
  PROVE  SessionInv'
  <1> DEFINE s == sessions + 1
             r == [req[t] EXCEPT !.pc = "start", !.i = s]
  <1>1. s \in Session /\ s \in Nat
    BY DEF Flush, SessionInv, Shape, Session
  <1>2. r \in [pc : PC, kind : Kinds, i : Nat] /\ r.pc = "start" /\ r.i = s
    BY <1>1 DEF SessionInv, Shape, PC, Exclusive
  <1>3. Moves(t, r, Nothing)
    BY DEF Flush
  <1>4. life' \in [Session -> [mic : Life, ctc : Life]]
    BY <1>1 DEF Flush, SessionInv, Shape, Life
  <1>5. Shape'
    <2>1. gThreadPool' \in Seq([role : Role, of : Session])
      BY <1>1 DEF Flush, Role
    <2> QED
      <3>1. sessions' \in 0 .. MaxSessions
        BY <1>1 DEF Flush, Session
      <3>2. gAudioBuffer' = <<>> /\ gResultBuffer' = <<>> /\ Shape
            /\ UNCHANGED <<gAsrStop, gOnlineThreadRunning, heard>>
        BY DEF Flush, SessionInv
      <3>3. /\ req' \in [Request -> [pc : PC, kind : Kinds, i : Nat]] /\ astray' \in BOOLEAN
            /\ \A u \in Request : req'[u].pc \in {"start", "start_mic"} => req'[u].i \in Session
        BY <1>1, <1>2, <1>3, <3>2, MovesShape
      <3> QED
        BY <1>4, <2>1, <3>1, <3>2, <3>3 DEF Shape, At
  <1>6. ASSUME ~astray' PROVE Calm'
    <2>1. /\ ~astray /\ Calm /\ OneChanges' /\ req'[t] = r /\ answer' = Nothing
          /\ \A u \in Request : u # t => req'[u] = req[u] /\ req[u].pc \notin Exclusive
      BY <1>2, <1>3, <1>6, MovesAlone DEF SessionInv, Calm, Exclusive
    <2>2. NoneAlive
      BY <2>1, NoneBefore DEF Flush, At
    <2>3. NoneAlive'
      BY <1>1, <2>2, AliveIs, AliveIsNext DEF Flush, NoneAlive, Living, SessionInv, Shape
    <2>4. FlagAndPool'
      BY <1>2, <2>1, <2>3 DEF FlagAndPool, Flush, Pair, At, Exclusive, Calm
    <2>5. JoinedDead'
      BY <1>2, <2>1 DEF JoinedDead, At, Exclusive
    <2>6. OwnFrames'
      BY <1>1, <2>1, <2>2, AliveIs DEF Flush, OwnFrames, Calm, NoneAlive, Living, SessionInv, Shape
    <2> QED
      BY <2>1, <2>3, <2>4, <2>5, <2>6 DEF Calm, LastOnly, NoneAlive, Truthful, Nothing
  <1> QED
    BY <1>5, <1>6 DEF SessionInv

LEMMA StartKeeps ==
  ASSUME SessionInv, NEW t \in Request, Start(t)
  PROVE  SessionInv'
  <1> DEFINE s == req[t].i
             r == [req[t] EXCEPT !.pc = "start_mic"]
  <1>1. s \in Session
    BY DEF Start, SessionInv, Shape, At
  <1>2. r \in [pc : PC, kind : Kinds, i : Nat] /\ r.pc = "start_mic" /\ r.i = s
    BY DEF SessionInv, Shape, PC, Exclusive
  <1>3. Moves(t, r, Nothing)
    BY DEF Start
  <1>4. /\ life' \in [Session -> [mic : Life, ctc : Life]]
        /\ life'[s] = [life[s] EXCEPT !.ctc = "run"]
        /\ \A x \in Session : x # s => life'[x] = life[x]
    BY <1>1 DEF Start, SessionInv, Shape, Life
  <1>5. Shape'
    BY <1>1, <1>2, <1>3, <1>4, MovesShape DEF Start, SessionInv, Shape, At, globals, queues
  <1>6. ASSUME ~astray' PROVE Calm'
    <2>1. /\ ~astray /\ Calm /\ OneChanges' /\ req'[t] = r /\ answer' = Nothing
          /\ \A u \in Request : u # t => req'[u] = req[u] /\ req[u].pc \notin Exclusive
      BY <1>2, <1>3, <1>6, MovesAlone DEF SessionInv, Calm, Exclusive
    <2>2. NoneAlive /\ s = sessions /\ gThreadPool = Pair(sessions) /\ ~gOnlineThreadRunning
      BY <2>1, NoneBefore DEF Start, At, Calm, FlagAndPool
    <2>3. LastOnly'
      BY <1>4, <2>2, AliveIs, AliveIsNext DEF LastOnly, NoneAlive, Start
    <2>4. FlagAndPool'
      BY ZenonT(40), <1>2, <2>1, <2>2 DEF FlagAndPool, Start, Pair, At, Exclusive, globals
    <2>5. JoinedDead'
      BY <1>2, <2>1 DEF JoinedDead, At, Exclusive
    <2>6. OwnFrames'
      BY <1>4, <2>1, <2>2, AliveIs DEF Start, OwnFrames, Calm, NoneAlive, Living, queues
    <2> QED
      BY <2>1, <2>3, <2>4, <2>5, <2>6 DEF Calm, Truthful, Nothing
  <1> QED
    BY <1>5, <1>6 DEF SessionInv

LEMMA StartMicKeeps ==
  ASSUME SessionInv, NEW t \in Request, StartMic(t)
  PROVE  SessionInv'
  <1> DEFINE s == req[t].i
             r == [req[t] EXCEPT !.pc = "mark", !.i = 0]
  <1>1. s \in Session
    BY DEF StartMic, SessionInv, Shape, At
  <1>2. r \in [pc : PC, kind : Kinds, i : Nat] /\ r.pc = "mark"
    BY DEF SessionInv, Shape, PC, Exclusive
  <1>3. Moves(t, r, Nothing)
    BY DEF StartMic, Goto
  <1>4. /\ life' \in [Session -> [mic : Life, ctc : Life]]
        /\ life'[s] = [life[s] EXCEPT !.mic = "run"]
        /\ \A x \in Session : x # s => life'[x] = life[x]
    BY <1>1 DEF StartMic, SessionInv, Shape, Life
  <1>5. Shape'
    BY <1>2, <1>3, <1>4, MovesShape DEF StartMic, SessionInv, Shape, At, globals, queues
  <1>6. ASSUME ~astray' PROVE Calm'
    <2>1. /\ ~astray /\ Calm /\ OneChanges' /\ req'[t] = r /\ answer' = Nothing
          /\ \A u \in Request : u # t => req'[u] = req[u] /\ req[u].pc \notin Exclusive
      BY <1>2, <1>3, <1>6, MovesAlone DEF SessionInv, Calm, Exclusive
    <2>2. s = sessions /\ gThreadPool = Pair(sessions) /\ ~gOnlineThreadRunning
      BY <2>1 DEF StartMic, At, Calm, FlagAndPool
    <2>3. LastOnly'
      BY <1>4, <2>1, <2>2, AliveIs, AliveIsNext DEF Calm, LastOnly, StartMic
    <2>4. FlagAndPool'
      BY ZenonT(40), <1>2, <2>1, <2>2 DEF FlagAndPool, StartMic, Pair, At, Exclusive, globals
    <2>5. JoinedDead'
      BY <1>2, <2>1 DEF JoinedDead, At, Exclusive
    <2>6. OwnFrames'
      <3>1. life[s] \in [mic : Life, ctc : Life]
        BY <1>1 DEF SessionInv, Shape
      <3>2. \A x \in Session : life'[x].ctc = life[x].ctc
        BY <1>4, <3>1
      <3> QED
        BY <2>1, <3>2 DEF StartMic, OwnFrames, Calm, queues
    <2> QED
      BY <2>1, <2>3, <2>4, <2>5, <2>6 DEF Calm, Truthful, Nothing
  <1> QED
    BY <1>5, <1>6 DEF SessionInv

\* A start that raises at once leaves no thread, one that raises later leads astray.
LEMMA StartRaisesKeeps ==
  ASSUME SessionInv, NEW t \in Request, StartRaises(t) \/ StartMicRaises(t)
  PROVE  SessionInv'
  <1>1. CASE StartRaises(t)
    BY <1>1, IdleReply DEF StartRaises, At
  <1>2. CASE StartMicRaises(t)
    <2>1. Idle \in [pc : PC, kind : Kinds, i : Nat] /\ Idle.pc = "idle"
      BY DEF Idle, PC, Kinds
    <2> QED
      BY <1>2, <2>1 DEF StartMicRaises, SessionInv, Shape, At, globals, queues, threads
  <1> QED
    BY <1>1, <1>2

LEMMA MarkKeeps ==
  ASSUME SessionInv, NEW t \in Request, Mark(t)
  PROVE  SessionInv'
  <1> DEFINE r == [req[t] EXCEPT !.pc = "read", !.i = 0]
  <1>1. r \in [pc : PC, kind : Kinds, i : Nat] /\ r.pc = "read"
    BY DEF SessionInv, Shape, PC
  <1>2. Moves(t, r, Nothing)
    BY DEF Mark, Goto
  <1>3. Shape'
    BY <1>1, <1>2, MovesShape DEF Mark, SessionInv, Shape, At, queues, threads
  <1>4. ASSUME ~astray' PROVE Calm'
    <2>1. /\ ~astray /\ Calm /\ OneChanges' /\ req'[t] = r /\ answer' = Nothing
          /\ \A u \in Request : u # t => req'[u] = req[u] /\ req[u].pc \notin Exclusive
      BY <1>1, <1>2, <1>4, MovesAlone DEF SessionInv, Calm, Exclusive, OneChanges, Mark, At
    <2>2. LastOnly'
      BY <2>1 DEF Calm, LastOnly, Alive, Mark, threads
    <2>3. FlagAndPool'
      BY ZenonT(40), <1>1, <2>1 DEF Calm, FlagAndPool, Mark, Pair, At, Exclusive, threads
    <2>4. JoinedDead'
      BY <1>1, <2>1 DEF JoinedDead, At, Exclusive
    <2>5. OwnFrames'
      BY <2>1 DEF Calm, OwnFrames, Mark, queues, threads
    <2> QED
      BY <2>1, <2>2, <2>3, <2>4, <2>5 DEF Calm, Truthful, Nothing
  <1> QED
    BY <1>3, <1>4 DEF SessionInv

LEMMA ReadKeeps ==
  ASSUME SessionInv, NEW t \in Request, Read(t)
  PROVE  SessionInv'
  <1>1. CASE gResultBuffer = <<>>
    BY <1>1, IdleReply DEF Read, At, queues
  <1>2. CASE gResultBuffer # <<>>
    <2>1. Idle \in [pc : PC, kind : Kinds, i : Nat] /\ Idle.pc = "idle"
      BY DEF Idle, PC, Kinds
    <2>2. Moves(t, Idle, Text(Head(gResultBuffer)))
      BY <1>2 DEF Read, Reply
    <2>3. /\ gResultBuffer \in Seq([by : Session, from : SUBSET Session])
          /\ gResultBuffer' = Tail(gResultBuffer)
          /\ UNCHANGED <<globals, gAudioBuffer, threads>>
      BY <1>2 DEF Read, SessionInv, Shape
    <2>4. /\ Len(gResultBuffer) \in Nat \ {0}
          /\ gResultBuffer' \in Seq([by : Session, from : SUBSET Session])
          /\ Len(gResultBuffer') = Len(gResultBuffer) - 1
          /\ \A k \in 1 .. Len(gResultBuffer') : gResultBuffer'[k] = gResultBuffer[k + 1]
          /\ Head(gResultBuffer) = gResultBuffer[1]
      BY <1>2, <2>3
    <2>5. Shape'
      BY <2>1, <2>2, <2>3, <2>4, MovesShape DEF SessionInv, Shape, At, globals, threads
    <2>6. ASSUME ~astray' PROVE Calm'
      <3>1. /\ ~astray /\ Calm /\ OneChanges' /\ req'[t] = Idle /\ answer' = Text(gResultBuffer[1])
            /\ \A u \in Request : u # t => req'[u] = req[u]
        BY <2>1, <2>2, <2>4, <2>6, MovesAlone DEF SessionInv, Calm
      <3>2. LastOnly'
        BY <2>3, <3>1 DEF Calm, LastOnly, Alive, threads
      <3>3. FlagAndPool'
        <4>1. req[t].pc = "read"
          BY DEF Read, At
        <4> QED
          BY <2>1, <2>3, <3>1, <4>1 DEF Calm, FlagAndPool, NoneAlive, Alive, At, globals, threads, Pair
      <3>4. JoinedDead'
        BY <2>1, <2>3, <3>1 DEF Calm, JoinedDead, At, globals, threads
      <3>5. OwnFrames'
        BY <2>3, <2>4, <3>1 DEF Calm, OwnFrames, threads
      <3>6. Truthful'
        BY <2>3, <2>4, <3>1 DEF Calm, OwnFrames, Truthful, Text, threads
      <3> QED
        BY <3>1, <3>2, <3>3, <3>4, <3>5, <3>6 DEF Calm
    <2> QED
      BY <2>5, <2>6 DEF SessionInv
  <1> QED
    BY <1>1, <1>2

LEMMA JoinedKeeps ==
  ASSUME SessionInv, NEW t \in Request, Joined(t)
  PROVE  SessionInv'
  <1>1. PICK r \in [pc : PC, kind : Kinds, i : Nat], a \in {Nothing, Plain("stopped")} :
           /\ Moves(t, r, a) /\ r.pc \in {"idle", "recognize"} /\ a.what # "text"
    <2>1. Idle \in [pc : PC, kind : Kinds, i : Nat] /\ Idle.pc = "idle"
      BY DEF Idle, PC, Kinds
    <2>2. /\ [req[t] EXCEPT !.pc = "recognize", !.i = 0] \in [pc : PC, kind : Kinds, i : Nat]
          /\ [req[t] EXCEPT !.pc = "recognize", !.i = 0].pc = "recognize"
      BY DEF SessionInv, Shape, PC
    <2>3. Plain("stopped").what # "text" /\ Nothing.what # "text"
      BY DEF Plain, Nothing
    <2> QED
      BY <2>1, <2>2, <2>3 DEF Joined, Goto, Reply
  <1>2. gThreadPool' = <<>> /\ gOnlineThreadRunning' = FALSE /\ UNCHANGED <<gAsrStop, queues, threads>>
    BY DEF Joined
  <1>3. Shape'
    <2>1. gThreadPool' \in Seq([role : Role, of : Session])
      BY <1>2
    <2> QED
      BY <1>1, <1>2, <2>1, MovesShape DEF SessionInv, Shape, At, queues, threads
  <1>4. ASSUME ~astray' PROVE Calm'
    <2>1. /\ ~astray /\ Calm /\ OneChanges' /\ req'[t] = r
          /\ \A u \in Request : u # t => req'[u] = req[u] /\ req[u].pc \notin Exclusive
      BY <1>1, <1>4, MovesAlone DEF SessionInv, Calm, Exclusive, OneChanges, Joined, At
    <2>2. NoneAlive
      <3>1. \A u \in Request : req[u].pc \notin {"start_mic", "mark"}
        BY <2>1 DEF At, Exclusive, Joined
      <3>2. CASE gOnlineThreadRunning
        <4>1. gThreadPool = Pair(sessions)
          BY <2>1, <3>1, <3>2 DEF Calm, FlagAndPool
        <4>2. req[t].i >= 3
          <5>1. Len(gThreadPool) = 2
            BY <4>1 DEF Pair
          <5> QED
            BY <5>1 DEF Joined, SessionInv, Shape
        <4>3. req[t].i >= 2
          BY <4>2 DEF SessionInv, Shape
        <4> QED
          BY <2>1, <3>2, <4>2, <4>3, AliveIs DEF Calm, JoinedDead, LastOnly, NoneAlive, Joined
      <3>3. CASE ~gOnlineThreadRunning
        BY <2>1, <3>1, <3>3 DEF Calm, FlagAndPool
      <3> QED
        BY <3>2, <3>3
    <2>3. NoneAlive'
      BY <1>2, <2>2 DEF NoneAlive, Alive, threads
    <2>4. FlagAndPool'
      BY <1>1, <1>2, <2>1, <2>3 DEF FlagAndPool, At, Exclusive
    <2>5. JoinedDead'
      BY <1>1, <2>1 DEF JoinedDead, At, Exclusive
    <2>6. OwnFrames'
      BY <1>2, <2>1 DEF Calm, OwnFrames, queues, threads
    <2>7. Truthful'
      BY <1>1, <2>3 DEF Truthful, Moves
    <2> QED
      BY <2>1, <2>3, <2>4, <2>5, <2>6, <2>7 DEF Calm, LastOnly, NoneAlive
  <1> QED
    BY <1>3, <1>4 DEF SessionInv

-----------------------------------------------------------------------------
(* The steps of a session's threads.                                       *)

\* A thread that goes on or ends brings no session to life.
LEMMA ThreadStep ==
  ASSUME SessionInv, NEW s \in Session, Quiet, Alive(s),
         life' \in [Session -> [mic : Life, ctc : Life]],
         \A x \in Session : x # s => life'[x] = life[x],
         life'[s].mic \in Living => life[s].mic \in Living,
         life'[s].ctc \in Living => life[s].ctc \in Living,
         heard' \in [Session -> SUBSET Session],
         gAudioBuffer' \in Seq(Session), gResultBuffer' \in Seq([by : Session, from : SUBSET Session]),
         ~astray /\ Calm /\ s = sessions => OwnFrames'
  PROVE  SessionInv'
  <1>1. Shape'
    BY DEF SessionInv, Shape, Quiet, At, globals
  <1>2. ASSUME ~astray' PROVE Calm'
    <2>1. ~astray /\ Calm /\ answer' = Nothing /\ UNCHANGED <<globals, sessions, req>>
      BY <1>2 DEF Quiet, SessionInv
    <2>2. s = sessions
      BY <2>1 DEF Calm, LastOnly
    <2>3. \A x \in Session : Alive(x)' => Alive(x)
      BY AliveIs, AliveIsNext
    <2>4. LastOnly'
      BY <2>1, <2>3 DEF Calm, LastOnly
    <2>5. FlagAndPool'
      BY <2>1, <2>3 DEF Calm, FlagAndPool, NoneAlive, At, globals, Pair
    <2>6. JoinedDead'
      BY <2>1 DEF Calm, JoinedDead, At, globals
    <2>7. OneChanges' /\ Truthful'
      BY <2>1 DEF Calm, OneChanges, Truthful, Nothing
    <2> QED
      BY <2>1, <2>2, <2>4, <2>5, <2>6, <2>7 DEF Calm
  <1> QED
    BY <1>1, <1>2 DEF SessionInv

LEMMA MicKeeps ==
  ASSUME SessionInv, NEW s \in Session, MicThread(s)
  PROVE  SessionInv'
  <1>1. PICK what \in {"busy", "run", "done"} : MicIs(s, what)
    BY DEF MicThread, MicTakes, MicPuts, MicEnds
  <1>2. /\ life' \in [Session -> [mic : Life, ctc : Life]]
        /\ \A x \in Session : x # s => life'[x] = life[x]
        /\ life'[s].ctc = life[s].ctc
    BY ZenonT(40), <1>1 DEF MicIs, SessionInv, Shape, Life
  <1>3. /\ life[s].mic \in Living /\ Quiet /\ UNCHANGED <<heard, gResultBuffer>>
        /\ gAudioBuffer' \in {gAudioBuffer, Append(gAudioBuffer, s)}
    BY DEF MicThread, MicTakes, MicPuts, MicEnds, Living, queues
  <1>4. gAudioBuffer' \in Seq(Session)
    <2>1. gAudioBuffer \in Seq(Session)
      BY DEF SessionInv, Shape
    <2> QED
      BY <1>3, <2>1, AppendProperties
  <1>5. ASSUME ~astray, Calm, s = sessions PROVE OwnFrames'
    <2>1. \A k \in 1 .. Len(gAudioBuffer') : gAudioBuffer'[k] = sessions
      <3>1. gAudioBuffer \in Seq(Session) /\ \A k \in 1 .. Len(gAudioBuffer) : gAudioBuffer[k] = sessions
        BY <1>5 DEF SessionInv, Shape, Calm, OwnFrames
      <3>2. CASE gAudioBuffer' = gAudioBuffer
        BY <3>1, <3>2
      <3>3. CASE gAudioBuffer' = Append(gAudioBuffer, s)
        <4>1. /\ Len(gAudioBuffer) \in Nat /\ Len(gAudioBuffer') = Len(gAudioBuffer) + 1
              /\ gAudioBuffer'[Len(gAudioBuffer) + 1] = s
              /\ \A k \in 1 .. Len(gAudioBuffer) : gAudioBuffer'[k] = gAudioBuffer[k]
          BY <3>1, <3>3, AppendProperties
        <4> QED
          BY <1>5, <3>1, <4>1
      <3> QED
        BY <1>3, <3>2, <3>3
    <2>2. sessions' = sessions /\ \A x \in Session : life'[x].ctc = life[x].ctc
      BY <1>2, <1>3 DEF Quiet
    <2> QED
      BY <1>3, <1>5, <2>1, <2>2 DEF Calm, OwnFrames
  <1> QED
    BY <1>2, <1>3, <1>4, <1>5, AliveIs, ThreadStep DEF SessionInv, Shape

\* A recognizer that ends: its utterance is dropped, and what it took from the queue is gone.
LEMMA CtcEndsKeeps ==
  ASSUME SessionInv, NEW s \in Session, life[s].ctc \in Living, CtcEnds(s), Quiet, UNCHANGED gResultBuffer,
         gAudioBuffer' = gAudioBuffer \/ (gAudioBuffer # <<>> /\ gAudioBuffer' = Tail(gAudioBuffer))
  PROVE  SessionInv'
  <1>1. /\ life' \in [Session -> [mic : Life, ctc : Life]]
        /\ \A x \in Session : x # s => life'[x] = life[x] /\ heard'[x] = heard[x]
        /\ life'[s].mic = life[s].mic /\ life'[s].ctc = "done" /\ heard'[s] = {}
        /\ heard' \in [Session -> SUBSET Session]
    BY ZenonT(40) DEF CtcEnds, SessionInv, Shape, Life
  <1>2. /\ gAudioBuffer \in Seq(Session) /\ gAudioBuffer' \in Seq(Session)
        /\ \A k \in 1 .. Len(gAudioBuffer') : \E l \in 1 .. Len(gAudioBuffer) : gAudioBuffer'[k] = gAudioBuffer[l]
    <2>1. gAudioBuffer \in Seq(Session)
      BY DEF SessionInv, Shape
    <2>2. CASE gAudioBuffer' = gAudioBuffer
      BY <2>1, <2>2
    <2>3. CASE gAudioBuffer # <<>> /\ gAudioBuffer' = Tail(gAudioBuffer)
      <3>1. /\ Len(gAudioBuffer) \in Nat \ {0} /\ gAudioBuffer' \in Seq(Session)
            /\ Len(gAudioBuffer') = Len(gAudioBuffer) - 1
            /\ \A k \in 1 .. Len(gAudioBuffer') :
                  gAudioBuffer'[k] = gAudioBuffer[k + 1] /\ k + 1 \in 1 .. Len(gAudioBuffer)
        BY <2>1, <2>3
      <3> QED
        BY <2>1, <3>1
    <2> QED
      BY <2>2, <2>3
  <1>3. ASSUME ~astray, Calm, s = sessions PROVE OwnFrames'
    BY <1>1, <1>2, <1>3 DEF Calm, OwnFrames, Quiet
  <1> QED
    BY <1>1, <1>2, <1>3, AliveIs, ThreadStep DEF SessionInv, Shape, Living

LEMMA CollectKeeps ==
  ASSUME SessionInv, NEW s \in Session, Collect(s)
  PROVE  SessionInv'
  <1>1. gAudioBuffer \in Seq(Session) /\ gAudioBuffer # <<>> /\ gAudioBuffer' = Tail(gAudioBuffer)
    BY DEF Collect, SessionInv, Shape
  <1>2. /\ Len(gAudioBuffer) \in Nat \ {0} /\ gAudioBuffer' \in Seq(Session)
        /\ Len(gAudioBuffer') = Len(gAudioBuffer) - 1
        /\ \A k \in 1 .. Len(gAudioBuffer') :
              gAudioBuffer'[k] = gAudioBuffer[k + 1] /\ k + 1 \in 1 .. Len(gAudioBuffer)
        /\ Head(gAudioBuffer) = gAudioBuffer[1] /\ gAudioBuffer[1] \in Session
    BY <1>1
  <1>3. \/ UNCHANGED <<heard, life>>
        \/ heard' = [heard EXCEPT ![s] = @ \cup {Head(gAudioBuffer)}]
           /\ life' \in {life, [life EXCEPT ![s].ctc = "busy"]}
    BY DEF Collect
  <1>4. /\ life' \in [Session -> [mic : Life, ctc : Life]]
        /\ \A x \in Session : x # s => life'[x] = life[x]
        /\ life'[s].mic = life[s].mic /\ life[s].ctc = "run" /\ life'[s].ctc \in {"run", "busy"}
    <2>1. life \in [Session -> [mic : Life, ctc : Life]] /\ life[s].ctc = "run"
      BY DEF Collect, SessionInv, Shape
    <2>2. CASE life' = life
      BY <2>1, <2>2
    <2>3. CASE life' = [life EXCEPT ![s].ctc = "busy"]
      BY <2>1, <2>3 DEF Life
    <2> QED
      BY <1>3, <2>2, <2>3
  <1>5. /\ heard' \in [Session -> SUBSET Session]
        /\ \A x \in Session : x # s => heard'[x] = heard[x]
        /\ heard'[s] \in {heard[s], heard[s] \cup {Head(gAudioBuffer)}}
    <2>1. heard \in [Session -> SUBSET Session] /\ Head(gAudioBuffer) \in Session
      BY <1>2 DEF SessionInv, Shape
    <2>2. CASE heard' = heard
      BY <2>1, <2>2
    <2>3. CASE heard' = [heard EXCEPT ![s] = @ \cup {Head(gAudioBuffer)}]
      BY <2>1, <2>3
    <2> QED
      BY <1>3, <2>2, <2>3
  <1>6. life'[s].ctc = "busy" => heard'[s] # {}
    BY ZenonT(40), <1>3, <1>4 DEF SessionInv, Shape
  <1>7. ASSUME ~astray, Calm, s = sessions PROVE OwnFrames'
    <2>1. gAudioBuffer[1] = sessions /\ (heard[s] # {} => heard[s] = {sessions})
      BY <1>2, <1>7 DEF Calm, OwnFrames
    <2>2. heard'[s] # {} => heard'[s] = {sessions}
      BY <1>2, <1>5, <2>1
    <2>3. \A k \in 1 .. Len(gAudioBuffer') : gAudioBuffer'[k] = sessions
      BY <1>2, <1>7 DEF Calm, OwnFrames
    <2>4. sessions' = sessions /\ gResultBuffer' = gResultBuffer
      BY DEF Collect, Quiet
    <2> QED
      BY <1>4, <1>5, <1>6, <1>7, <2>2, <2>3, <2>4 DEF Calm, OwnFrames, Living
  <1> QED
    BY <1>2, <1>4, <1>5, <1>7, AliveIs, ThreadStep DEF SessionInv, Shape, Living, Collect

LEMMA FinishKeeps ==
  ASSUME SessionInv, NEW s \in Session, Finish(s)
  PROVE  SessionInv'
  <1> DEFINE text == [by |-> s, from |-> heard[s]]
  <1>1. /\ life' \in [Session -> [mic : Life, ctc : Life]]
        /\ \A x \in Session : x # s => life'[x] = life[x] /\ heard'[x] = heard[x]
        /\ life'[s].mic = life[s].mic /\ life[s].ctc = "busy" /\ life'[s].ctc = "run" /\ heard'[s] = {}
        /\ heard' \in [Session -> SUBSET Session]
    BY ZenonT(40) DEF Finish, SessionInv, Shape, Life
  <1>2. /\ gResultBuffer \in Seq([by : Session, from : SUBSET Session])
        /\ text \in [by : Session, from : SUBSET Session]
        /\ gResultBuffer' = Append(gResultBuffer, text)
    BY DEF Finish, SessionInv, Shape
  <1>3. /\ gResultBuffer' \in Seq([by : Session, from : SUBSET Session])
        /\ Len(gResultBuffer') = Len(gResultBuffer) + 1
        /\ \A k \in 1 .. Len(gResultBuffer) : gResultBuffer'[k] = gResultBuffer[k]
        /\ gResultBuffer'[Len(gResultBuffer) + 1] = text
        /\ Len(gResultBuffer) \in Nat
    BY <1>2, AppendProperties
  <1>4. ASSUME ~astray, Calm, s = sessions PROVE OwnFrames'
    <2>1. heard[s] = {sessions}
      BY <1>1, <1>4 DEF Calm, OwnFrames
    <2>2. \A k \in 1 .. Len(gResultBuffer') : gResultBuffer'[k].by = sessions /\ gResultBuffer'[k].from = {sessions}
      BY <1>3, <1>4, <2>1 DEF Calm, OwnFrames
    <2>3. sessions' = sessions /\ gAudioBuffer' = gAudioBuffer
      BY DEF Finish, Quiet
    <2> QED
      BY <1>1, <1>4, <2>2, <2>3 DEF Calm, OwnFrames, Living
  <1> QED
    BY <1>1, <1>3, <1>4, AliveIs, ThreadStep DEF SessionInv, Shape, Living, Finish

LEMMA NextKeeps == SessionInv /\ [Next]_vars => SessionInv'
  <1> SUFFICES ASSUME SessionInv, [Next]_vars PROVE SessionInv'
    OBVIOUS
  <1>1. ASSUME NEW t \in Request, Serve(t) PROVE SessionInv'
    BY <1>1, OfflineKeeps, RecognizeKeeps, CheckKeeps, ClearKeeps, FlushKeeps, StartKeeps, StartMicKeeps, MarkKeeps,
       ReadKeeps, SetKeeps, JoinKeeps, JoinedKeeps DEF Serve
  <1>2. ASSUME NEW s \in Session, CtcThread(s) \/ CtcLeaves(s) PROVE SessionInv'
    <2>1. CASE Collect(s)
      BY <2>1, CollectKeeps
    <2>2. CASE Finish(s)
      BY <2>2, FinishKeeps
    <2>3. CASE Stops(s)
      BY <2>3, CtcEndsKeeps DEF Stops, Living
    <2>4. CASE CtcLeaves(s)
      BY <2>4, CtcEndsKeeps DEF CtcLeaves, Living, queues
    <2> QED
      BY <1>2, <2>1, <2>2, <2>3, <2>4 DEF CtcThread
  <1>3. CASE UNCHANGED vars
    BY <1>3 DEF vars, SessionInv, Shape, Calm, OneChanges, LastOnly, FlagAndPool, JoinedDead, OwnFrames, Truthful,
                NoneAlive, Alive, At, Pair
  <1> QED
    BY <1>1, <1>2, <1>3, AcceptKeeps, StartRaisesKeeps, MicKeeps DEF Next

-----------------------------------------------------------------------------
\* The inductive invariant of fcgi_asr.py: the shape of its globals, and, as long as the
\* session is not astray, whose threads live and whose frames wait.
THEOREM Invariant == Spec => []SessionInv
  BY InitInv, NextKeeps, PTL DEF Spec

\* ONLINE_STOP, for every number of requests and sessions: when it answers that it has stopped
\* no thread of a session lives, unless the session went astray.
THEOREM StopProved == Spec => []StopMeansStopped
  <1>1. SessionInv => StopMeansStopped
    BY DEF SessionInv, Calm, Truthful, NoneAlive, StopMeansStopped
  <1> QED
    BY <1>1, Invariant, PTL

\* ONLINE_READ: a text that is answered is the present session's.
THEOREM SessionProved == Spec => []OwnSession
  <1>1. SessionInv => OwnSession
    BY DEF SessionInv, Calm, Truthful, OwnSession
  <1> QED
    BY <1>1, Invariant, PTL

\* While no request changes the session, the flag tells whether one lives, and there is no
\* other one beside it; requests that change it at the same time are excluded.
THEOREM FlagProved == Spec => []FlagTellsSession
  <1>1. ASSUME SessionInv, ~astray, \A t \in Request : req[t].pc \notin Exclusive
        PROVE  /\ Cardinality({s \in Session : Alive(s)}) <= 1
               /\ (\E s \in Session : Alive(s)) => gOnlineThreadRunning
    <2>1. {s \in Session : Alive(s)} \subseteq {sessions}
      BY <1>1 DEF SessionInv, Calm, LastOnly
    <2>2. Cardinality({s \in Session : Alive(s)}) <= Cardinality({sessions})
      BY <2>1, FS_Singleton, FS_Subset
    <2>3. Cardinality({s \in Session : Alive(s)}) <= 1
      BY <2>2, FS_Singleton
    <2>4. (\E s \in Session : Alive(s)) => gOnlineThreadRunning
      BY <1>1 DEF SessionInv, Calm, FlagAndPool, NoneAlive, At, Exclusive
    <2> QED
      BY <2>3, <2>4
  <1>2. SessionInv => FlagTellsSession
    BY <1>1 DEF FlagTellsSession
  <1> QED
    BY <1>2, Invariant, PTL
=============================================================================
