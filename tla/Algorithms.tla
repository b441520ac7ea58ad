------------------------------ MODULE Algorithms ------------------------------
(***************************************************************************)
(* The computations of the services around their inferences, each run once  *)
(* on an input and compared with what it is for; and the pipeline of the     *)
(* speech recognizer, which goes from chunk to chunk. Characters and bytes   *)
(* are numbers; confidences are integers on a scale of ten.                  *)
(***************************************************************************)
EXTENDS Integers, FiniteSets, SequencesExt, PhotoPeople, SpeechDecoder, SpeechPipeline, Ngrams

CONSTANTS
    Input,        \* for each task, the inputs
    TopK          \* 10 labels in classification

ASSUME AlgorithmsAssumption == TopK \in Nat \ {0}

VARIABLES task, in, out

vars == <<task, in, out, pipelineVars>>

-----------------------------------------------------------------------------
(* fcgi_utils.cpp. The digits of base64 are 0 .. 63. *)

Pad == 64
LineBreak == <<65, 66>>

Group(a, b, c) == <<a \div 4, (a % 4) * 16 + b \div 16, (b % 16) * 4 + c \div 64, c % 64>>

\* The tail: when there is no byte left, the byte past the end is read and encoded.
EncodeTail(x, past) ==
    LET n == Len(x)
    IN  CASE n % 3 = 2 -> SubSeq(Group(x[n - 1], x[n], 0), 1, 3) \o <<Pad>>
          [] n % 3 = 1 -> SubSeq(Group(x[n], 0, 0), 1, 2) \o <<Pad, Pad>>
          [] OTHER -> SubSeq(Group(past, 0, 0), 1, 2) \o <<Pad, Pad>>

EncodeBase(x, past) ==
    FlattenSeq([i \in 1 .. Len(x) \div 3 |->
                   Group(x[3 * i - 2], x[3 * i - 1], x[3 * i])
                       \o IF i % 19 = 0 THEN LineBreak ELSE <<>>])
        \o EncodeTail(x, past)

Digit(c) == IF c < Pad THEN c ELSE 0

Ungroup(c) ==
    LET a == Digit(c[1]) * 4 + Digit(c[2]) \div 16
        b == (Digit(c[2]) % 16) * 16 + Digit(c[3]) \div 4
    IN  IF c[3] = Pad THEN <<a>>
        ELSE IF c[4] = Pad THEN <<a, b>>
        ELSE <<a, b, (Digit(c[3]) % 4) * 64 + Digit(c[4])>>

\* Line breaks are skipped, and what is left of an incomplete group is dropped.
DecodeBase(s) ==
    LET t == SelectSeq(s, LAMBDA c : c <= Pad)
    IN  FlattenSeq([i \in 1 .. Len(t) \div 4 |-> Ungroup(SubSeq(t, 4 * i - 3, 4 * i))])

Percent == 37

Char_dec(c) ==
    CASE c \in 48 .. 57 -> c - 48 [] c \in 97 .. 102 -> c - 87 [] c \in 65 .. 70 -> c - 55 [] OTHER -> -1

\* A string ends with a zero, which is read when the two digits are missing.
CharAt(s, i) == IF i <= Len(s) THEN s[i] ELSE 0

RECURSIVE deDataFrom(_, _)
deDataFrom(s, i) ==
    IF i > Len(s) THEN <<>>
    ELSE IF s[i] # Percent THEN <<s[i]>> \o deDataFrom(s, i + 1)
    ELSE <<(Char_dec(CharAt(s, i + 1)) * 16 + Char_dec(CharAt(s, i + 2))) % 256>> \o deDataFrom(s, i + 3)

deData(s) == deDataFrom(s, 1)

Equals == 61
Ampersand == 38

Found(s, pattern) == {i \in 1 .. Len(s) : IsPrefix(pattern, SubSeq(s, i, Len(s)))}
First(S) == CHOOSE i \in S : \A j \in S : i <= j

\* Mutant of get_data: the end is counted from the value and used from the name.
get_data_long(post, name) ==
    LET key == Append(name, Equals)
        start == First(Found(post, key))
        sub == SubSeq(post, start, Len(post))
    IN  IF Found(post, key) = {} THEN <<>>
        ELSE IF Found(sub, <<Ampersand>>) = {} THEN SubSeq(sub, Len(key) + 1, Len(sub))
        ELSE SubSeq(sub, Len(key) + 1, First(Found(sub, <<Ampersand>>)))

get_data(post, name) ==
    LET key == Append(name, Equals)
        start == First(Found(post, key))
        sub == SubSeq(post, start, Len(post))
    IN  IF Found(post, key) = {} THEN <<>>
        ELSE IF Found(sub, <<Ampersand>>) = {} THEN SubSeq(sub, Len(key) + 1, Len(sub))
        ELSE SubSeq(sub, Len(key) + 1, First(Found(sub, <<Ampersand>>)) - 1)

-----------------------------------------------------------------------------
(* The text detector of the OCR services. *)

Product(s) == FoldLeft(LAMBDA a, b : a * b, 1, s)

\* The stride of axis k in the new order.
Step(shape, axes, k) == Product([i \in 1 .. 4 - k |-> shape[axes[k + i]]])

\* transpose4d: indices, axes and positions count from one here.
transpose4d(v, shape, axes) ==
    LET index(s) == [k \in 1 .. 4 |->
                        ((s - 1) \div Product([i \in 1 .. 4 - k |-> shape[k + i]])) % shape[k]]
        target(s) == 1 + FoldLeft(LAMBDA a, k : a + index(s)[axes[k]] * Step(shape, axes, k), 0, <<1, 2, 3, 4>>)
        sources(n) == {s \in 1 .. Len(v) : target(s) = n}
    IN  [n \in 1 .. Len(v) |-> IF sources(n) = {} THEN 0 ELSE v[Max(sources(n))]]

RECURSIVE Root(_, _)
Root(p, mask) == IF mask[p] = -1 THEN p ELSE Root(mask[p], mask)

\* find_root shortens the path of the pixel it was asked for.
Shortened(p, mask) == IF mask[p] = -1 THEN mask ELSE [mask EXCEPT ![p] = Root(p, mask)]

join(p, q, mask) ==
    LET short == Shortened(q, Shortened(p, mask))
    IN  IF Root(p, mask) = Root(q, mask) THEN short ELSE [short EXCEPT ![Root(p, mask)] = Root(q, mask)]

\* masks: the components in the order of their first pixels.
masks(ps, mask) ==
    LET roots == [i \in DOMAIN ps |-> Root(ps[i], mask)]
        firsts(i) == {j \in 1 .. i : \A k \in 1 .. j - 1 : roots[k] # roots[j]}
    IN  [i \in DOMAIN ps |-> Cardinality(firsts(First({j \in DOMAIN ps : roots[j] = roots[i]})))]

\* Mutant of Neighbours: a neighbour outside the image has no link of its own.
NeighboursInside(p, w, h) ==
    LET x == p % w
        y == p \div w
        around == SelectSeq([i \in 1 .. 9 |-> <<x - 1 + ((i - 1) % 3), y - 1 + ((i - 1) \div 3)>>],
                            LAMBDA q : q # <<x, y>> /\ q[1] \in 0 .. w - 1 /\ q[2] \in 0 .. h - 1)
    IN  [i \in DOMAIN around |-> around[i][1] + around[i][2] * w]

\* The eight pixels around p, row by row; -1 for those outside the image.
Neighbours(p, w, h) ==
    LET x == p % w
        y == p \div w
        around == SelectSeq([i \in 1 .. 9 |-> <<x - 1 + ((i - 1) % 3), y - 1 + ((i - 1) \div 3)>>],
                            LAMBDA q : q # <<x, y>>)
    IN  [i \in DOMAIN around |->
            IF around[i][1] \in 0 .. w - 1 /\ around[i][2] \in 0 .. h - 1
            THEN around[i][1] + around[i][2] * w ELSE -1]

\* get_mask: pixels are the positive ones, links the positive pairs of pixel and direction.
get_mask(w, h, pixels, links) ==
    LET ps == SetToSortSeq(pixels, <)
        tries == FlattenSeq([i \in DOMAIN ps |-> [np \in DOMAIN Neighbours(ps[i], w, h) |-> <<ps[i], np>>]])
        visit(mask, t) ==
            LET q == Neighbours(t[1], w, h)[t[2]]
            IN  IF q \in pixels /\ t \in links THEN join(t[1], q, mask) ELSE mask
    IN  masks(ps, FoldLeft(visit, [p \in pixels |-> -1], tries))

Far == [x |-> 1000, y |-> 1000, i |-> -1]

\* The two leftmost points so far.
Leftmost(l, p) ==
    IF l[1].x > p.x THEN <<p, IF l[1].x < Far.x THEN l[1] ELSE l[2]>>
    ELSE IF l[2].x > p.x /\ <<p.x, p.y>> # <<l[1].x, l[1].y>> THEN <<l[1], p>>
    ELSE l

left_top_point(points) ==
    LET l == FoldLeft(Leftmost, <<Far, Far>>, [i \in DOMAIN points |-> [x |-> points[i][1], y |-> points[i][2], i |-> i]])
    IN  IF l[2].y < l[1].y THEN l[2].i ELSE l[1].i

-----------------------------------------------------------------------------
(* From the symbols of a line of text, with 0 for the blank, to the text. *)

Symbol(st, c) ==
    IF c = 0 THEN [st EXCEPT !.blank = TRUE]
    ELSE IF st.text = <<>> \/ st.blank \/ c # Last(st.text) THEN [text |-> Append(st.text, c), blank |-> FALSE]
    ELSE st

ocr_decode(s) == FoldLeft(Symbol, [text |-> <<>>, blank |-> FALSE], s).text

\* text_decode of ppocr drops repeated indices and blanks.
text_decode(s) ==
    LET kept == SelectSeq([i \in DOMAIN s |-> i], LAMBDA i : ~(i > 1 /\ s[i - 1] = s[i]) /\ s[i] # 0)
    IN  [j \in DOMAIN kept |-> s[kept[j]]]

\* CTCCodec.decode of the handwriting service.
codec_decode(s) ==
    FoldLeft(LAMBDA text, i : IF s[i] # 0 /\ ~(i > 1 /\ s[i] = s[i - 1]) THEN Append(text, s[i]) ELSE text,
             <<>>, [i \in DOMAIN s |-> i])

\* argsort of the ratios of width and height: ties come in any order.
ArgSorted(pictures, order) ==
    \A k, l \in DOMAIN order :
        LET p == pictures[order[k]]
            q == pictures[order[l]]
        IN  k < l => p.w * q.h <= q.w * p.h

\* Python's round(width / 100) * 100: a half goes to the even neighbour.
RoundHundred(w) ==
    LET q == w \div 100
        r == w % 100
    IN  100 * IF r < 50 \/ (r = 50 /\ q % 2 = 0) THEN q ELSE q + 1

\* There is a network for each length from 100 to 1200.
RecLength(w) ==
    IF RoundHundred(w) = 0 THEN 100 ELSE IF RoundHundred(w) > 1200 THEN 1200 ELSE RoundHundred(w)

batch_size == 1

\* One batch: the network of the last picture's length reads the pictures, its output is
\* reshaped to one line, and the lines are put where the sorted pictures came from.
RecognizeBatch(pictures, order, results, begin) ==
    LET end == IF Len(order) < begin + batch_size THEN Len(order) ELSE begin + batch_size
        pics == SubSeq(order, begin + 1, end)
        lines == <<[text_of |-> Head(pics), length |-> RecLength(pictures[Last(pics)].w)]>>
    IN  FoldLeft(LAMBDA r, k : [r EXCEPT ![order[begin + k]] = lines[k]], results, [k \in DOMAIN lines |-> k])

NoText == [text_of |-> 0, length |-> 0]

text_recognizer(pictures, order) ==
    LET begins == SelectSeq([i \in DOMAIN order |-> i - 1], LAMBDA b : b % batch_size = 0)
    IN  FoldLeft(LAMBDA r, b : RecognizeBatch(pictures, order, r, b), [i \in DOMAIN pictures |-> NoText], begins)

\* classification: the best confidence is taken and set to zero, TopK times.
Threshold == 5

\* max_element: the first of the best.
Best(conf) == CHOOSE i \in DOMAIN conf : \A j \in DOMAIN conf : conf[j] < conf[i] \/ (conf[j] = conf[i] /\ i <= j)

RECURSIVE TagsFrom(_, _)
TagsFrom(conf, k) ==
    IF k = 0 THEN <<>>
    ELSE LET b == Best(conf)
         IN  (IF conf[b] > Threshold THEN <<b>> ELSE <<>>) \o TagsFrom([conf EXCEPT ![b] = 0], k - 1)

tags(conf) == TagsFrom(conf, TopK)

-----------------------------------------------------------------------------
(* nms of the ONNX face detector: boxes are <<xmin, ymin, xmax, ymax>>. *)

MaxOf(a, b) == IF a > b THEN a ELSE b
MinOf(a, b) == IF a < b THEN a ELSE b
Area(b) == (b[3] - b[1]) * (b[4] - b[2])
Intersection(a, b) ==
    MaxOf(MinOf(a[3], b[3]) - MaxOf(a[1], b[1]), 0) * MaxOf(MinOf(a[4], b[4]) - MaxOf(a[2], b[2]), 0)

\* The quotient is not at most 0.45; it is not a number when the union has no area.
Overlap(a, b) ==
    LET union == Area(a) + Area(b) - Intersection(a, b)
    IN  union = 0 \/ 100 * Intersection(a, b) > 45 * union

sortIndexes(score) ==
    SetToSortSeq(DOMAIN score, LAMBDA i, j : score[i] < score[j] \/ (score[i] = score[j] /\ i < j))

RECURSIVE Suppress(_, _)
Suppress(box, sorted) ==
    IF sorted = <<>> THEN <<>>
    ELSE LET c == Last(sorted)
         IN  <<c>> \o Suppress(box, SelectSeq(Front(sorted), LAMBDA e : ~Overlap(box[c], box[e])))

nms(box, score) == Suppress(box, sortIndexes(score))

-----------------------------------------------------------------------------
Run(t, result) == task = t /\ out = <<>> /\ out' = <<result>> /\ UNCHANGED <<task, in, pipelineVars>>

Init == task \in DOMAIN Input /\ in \in Input[task] /\ out = <<>> /\ PipelineInit

Next ==
    \/ Run("base64", DecodeBase(EncodeBase(in.data, in.past)))
    \/ Run("url", deData(in.quoted))
    \/ Run("form", get_data(in.body, in.name))
    \/ Run("transpose", transpose4d(in.v, in.shape, in.axes))
    \/ Run("mask", get_mask(in.w, in.h, in.pixels, in.links))
    \/ Run("corner", left_top_point(in))
    \/ Run("text", <<ocr_decode(in), text_decode(in), codec_decode(in)>>)
    \/ Run("place", text_recognizer(in.pictures, in.order))
    \/ Run("tags", tags(in))
    \/ Run("nms", nms(in.box, in.score))
    \/ task = "pipeline" /\ PipelineNext /\ UNCHANGED <<task, in, out>>
    \/ Run("people", PeopleAfter(in))
    \/ Run("dictionary", LET d == add_words(in.words) IN [x \in in.strings |-> Walked(d, x)])
    \/ Run("speech", Heard(init(in.decoder, in.scorer), in.first, in.chunks, in.online, in.limit))
    \/ Run("batch", batched_ctc_lm_decoder(init(in.decoder, in.scorer), in.utterances, in.limit))
    \/ Run("file", parse(in.file))
    \/ Run("ngrams", [hs \in in.texts |-> Yoklm_get_log_cond_prob(in.file, hs)])

Spec == Init /\ [][Next]_vars

Done(t) == task = t /\ out # <<>>
Result == out[1]

-----------------------------------------------------------------------------
\* EncodeBase and DecodeBase: what is decoded begins with the image that was encoded, and is
\* that image when its size is no multiple of three; line breaks and padding change nothing.
\* For a multiple of three the tail reads the byte past the end of the image: whatever it is,
\* the image comes first and at most one byte follows it.
BaseRoundTrip ==
    Done("base64") =>
        /\ IsPrefix(in.data, Result)
        /\ Len(Result) <= Len(in.data) + IF Len(in.data) % 3 = 0 THEN 1 ELSE 0

\* deData: what a client has quoted is unquoted to the same bytes.
UnquotesAll == Done("url") => Result = in.plain

\* get_data: in a form with distinct names, none of which ends like another, the value of
\* a name is found wherever it stands, whole and with nothing of its neighbours.
FormValueFound == Done("form") => Result = in.value

\* transpose4d moves the element at an index to the permuted index, for every shape and
\* permutation.
TransposeExact ==
    Done("transpose") =>
        LET shape == in.shape
            axes == in.axes
            at(v, s, i) == v[1 + ((i[1] * s[2] + i[2]) * s[3] + i[3]) * s[4] + i[4]]
            new == [k \in 1 .. 4 |-> shape[axes[k]]]
        IN  \A i \in [1 .. 4 -> 0 .. 1] :
                (\A k \in 1 .. 4 : i[k] < shape[k]) =>
                    at(in.v, shape, i) = at(Result, new, [k \in 1 .. 4 |-> i[axes[k]]])

\* get_mask: two pixels have the same label exactly when a chain of links, taken in either
\* direction, leads from one to the other, and the labels are 1 .. n without gaps.
MaskIsComponents ==
    Done("mask") =>
        LET ps == SetToSortSeq(in.pixels, <)
            linked(p, q) == \E np \in 1 .. 8 :
                \/ <<p, np>> \in in.links /\ in.around[p][np] = q
                \/ <<q, np>> \in in.links /\ in.around[q][np] = p
            grow(S) == S \cup {q \in in.pixels : \E p \in S : linked(p, q)}
            reach(p) == grow(grow(grow({p})))
        IN  /\ \A i, j \in DOMAIN ps : (Result[i] = Result[j]) = (ps[j] \in reach(ps[i]))
            /\ Range(Result) = 1 .. Cardinality(Range(Result))

\* left_top_point: the upper one of the two leftmost corners, wherever they stand in the
\* list.
CornerIsLeftTop ==
    Done("corner") =>
        \E j \in DOMAIN in \ {Result} :
            /\ in[Result][2] <= in[j][2]
            /\ \A k \in DOMAIN in \ {Result, j} : in[k][1] >= MaxOf(in[Result][1], in[j][1])

\* The three decoders of a line of text (gRPC and C++ OCR, ppocr, handwriting) agree: a
\* symbol is repeated only across a blank.
DecodersAgree == Done("text") => Result[1] = Result[2] /\ Result[2] = Result[3]

\* text_recognizer: every picture gets its own text, though they are recognized in batches in
\* the order of their ratios, read by the network of the length nearest to its width.
TextsInPlace ==
    Done("place") =>
        LET away(i, l) == MaxOf(in.pictures[i].w - l, l - in.pictures[i].w)
        IN  \A i \in DOMAIN in.pictures :
                /\ Result[i].text_of = i
                /\ \A n \in 1 .. 12 : away(i, Result[i].length) <= away(i, 100 * n)

\* The tags of classification: the TopK best over the threshold, the best first, equals in
\* the order of the labels, none twice.
TagsAreBest ==
    Done("tags") =>
        LET before(i, j) == in[i] > in[j] \/ (in[i] = in[j] /\ i < j)
        IN  /\ \A k, l \in DOMAIN Result : k < l => before(Result[k], Result[l])
            /\ \A i \in DOMAIN in :
                   (i \in Range(Result)) =
                       (in[i] > Threshold /\ Cardinality({j \in DOMAIN in : before(j, i)}) < TopK)

\* nms: of the boxes that are kept no two overlap and at most one has no area; one that is
\* dropped overlaps with one that is kept and no worse, or has no area, like that one. So a
\* box without area never costs a face.
SuppressedForBetter ==
    Done("nms") =>
        LET kept == Range(Result)
            overlap(a, b) == LET x == Intersection(a, b)
                             IN  100 * x > 45 * (Area(a) + Area(b) - x)
            empty(b) == Area(b) = 0
        IN  /\ \A i, j \in kept :
                   i # j => ~overlap(in.box[i], in.box[j]) /\ ~(empty(in.box[i]) /\ empty(in.box[j]))
            /\ \A i \in DOMAIN in.box \ kept :
                   \E j \in kept :
                       /\ in.score[j] >= in.score[i]
                       /\ IF empty(in.box[i]) THEN empty(in.box[j]) ELSE overlap(in.box[i], in.box[j])

\* WordPrefixSet, for words none of which begins another: a string is found exactly when it
\* is empty or begins a word, and is a whole word exactly when its weight is set.
PrefixesFound ==
    Done("dictionary") =>
        \A x \in in.strings :
            /\ Result[x].found = (x = <<>> \/ \E w \in Range(in.words) : IsPrefix(x, w))
            /\ Result[x].found => (Result[x].state.weight = (x \in Range(in.words)))

\* The alignments of labels and frames that say a text: repeated labels and blanks dropped.
Said(a, blank) ==
    LET kept == SelectSeq([i \in DOMAIN a |-> i], LAMBDA i : a[i] # blank /\ (i = 1 \/ a[i] # a[i - 1]))
    IN  [j \in DOMAIN kept |-> a[kept[j]]]

\* The words of a text, or its characters of UTF-8, the last of which may not be whole.
WordsOf(s, x) ==
    LET first == {k \in DOMAIN x :
            IF s.bytes # <<>> THEN s.bytes[x[k] + 1] \div 64 # 2
            ELSE x[k] # s.space /\ (k = 1 \/ x[k - 1] = s.space)}
        at == SetToSortSeq(first, <)
        end(j) == IF j = Len(at) THEN Len(x) ELSE at[j + 1] - 1
    IN  [j \in DOMAIN at |-> SelectSeq(SubSeq(x, at[j], end(j)), LAMBDA c : s.bytes # <<>> \/ c # s.space)]

\* A text is allowed when its words are in the vocabulary and it may still be continued to
\* one whose words are.
Allowed(s, x) ==
    LET ws == WordsOf(s, x)
        whole(w) == w \in Range(s.vocabulary)
        spaced == s.bytes = <<>> /\ x # <<>> /\ Last(x) = s.space
    IN  \/ ~s.on
        \/ /\ FlattenSeq(ws) = SelectSeq(x, LAMBDA c : s.bytes # <<>> \/ c # s.space)
           /\ s.bytes # <<>> \/ Cardinality({k \in DOMAIN x : x[k] = s.space}) = Len(ws) - IF spaced \/ x = <<>> THEN 0 ELSE 1
           /\ \A j \in DOMAIN ws :
                  whole(ws[j]) \/ (j = Len(ws) /\ ~spaced /\ \E w \in Range(s.vocabulary) : IsPrefix(ws[j], w))

\* The language model's weight of a text: each word after those before it. A text of words
\* begins with start tokens; in one of characters they fill up to one less than the order.
TextWeight(s, x) ==
    LET ws == WordsOf(s, x)
        starts(n) == [i \in 1 .. MaxOf(n, 0) |-> <<-1>>]
        pad == IF s.bytes = <<>> THEN s.order ELSE s.order - 1
        ngram(j) == starts(pad - j) \o SubSeq(ws, MaxOf(1, j - s.order + 1), j)
        known(j) == \A w \in Range(ngram(j)) : w = <<-1>> \/ w \in Range(s.vocabulary)
        weight(j) == s.beta * IF known(j) THEN s.lm[ngram(j)] ELSE s.oov
    IN  IF ~s.on THEN 1
        ELSE IF ws = <<>> /\ s.bytes # <<>> THEN weight(0)
        ELSE FoldLeft(LAMBDA a, j : a * weight(j), 1, [j \in DOMAIN ws |-> j])

\* The probability of every text, the sum over its alignments with the frames.
TextProbabilities(d, s, frames) ==
    LET alignments == [DOMAIN frames -> 0 .. d.labels - 1]
        texts == {x \in {Said(a, d.blank) : a \in alignments} : Allowed(s, x)}
        prob(a) == Product([i \in DOMAIN frames |-> frames[i][a[i] + 1]])
    IN  [x \in texts |-> TextWeight(s, x) * MapThenSumSet(prob, {a \in alignments : Said(a, d.blank) = x})]

\* The beam search, for frames that come in any chunks, whether or not the text is asked for
\* in between, after another utterance or not. The texts are distinct, the best first, no
\* more than the beam and the limit allow; none has more than its probability; and a beam
\* that is wide enough finds every text with exactly its probability, each label at the
\* first frame in which it is most probable of those that are long enough for the prefix.
TextsDecoded ==
    Done("speech") =>
        LET d == in.decoder
            frames == FlattenSeq(in.chunks)
            probability == TextProbabilities(d, in.scorer, frames)
            of(x) == IF x \in DOMAIN probability THEN probability[x] ELSE 0
            texts == {Result[k].tokens : k \in DOMAIN Result}
            mostly(c, k) == {t \in k .. Len(frames) : \A u \in k .. Len(frames) : frames[u][c + 1] <= frames[t][c + 1]}
        IN  /\ Cardinality(texts) = Len(Result) /\ Len(Result) <= d.beam
            /\ in.limit > 0 => Len(Result) <= in.limit
            /\ \A k \in DOMAIN Result :
                   /\ Allowed(in.scorer, Result[k].tokens) /\ Result[k].score <= of(Result[k].tokens)
                   /\ k > 1 => Result[k].score <= Result[k - 1].score
            /\ in.wide =>
                   /\ \A k \in DOMAIN Result :
                          /\ Result[k].score = of(Result[k].tokens)
                          /\ \A i \in DOMAIN Result[k].tokens :
                                 Result[k].timesteps[i] + 1 = First(mostly(Result[k].tokens[i], i))
                   /\ \A x \in DOMAIN probability \ texts : in.limit > 0 /\ of(x) <= Last(Result).score

\* Utterance b of a batch has the texts alone, n at most, in its rows of the arrays.
RowsOf(b, n, alone) ==
    LET row(p) == (b - 1) * n + p
        cut(a, p) == SubSeq(a, (row(p) - 1) * Result.longest + 1, (row(p) - 1) * Result.longest + Result.lengths[row(p)])
    IN  \A p \in 1 .. n :
            IF p \in DOMAIN alone
            THEN /\ cut(Result.symbols, p) = alone[p].tokens
                 /\ cut(Result.timesteps, p) = alone[p].timesteps
                 /\ Result.scores[row(p)] = alone[p].score
            ELSE Result.scores[row(p)] = 0 /\ Result.lengths[row(p)] = 0

\* The decoder of a batch: each utterance gets the texts that it gets alone, with their
\* times, whatever the others in the batch are.
BatchDecoded ==
    Done("batch") =>
        LET n == MinOf(in.limit, in.decoder.beam)
        IN  \A b \in DOMAIN in.utterances :
                RowsOf(b, n, Heard(init(in.decoder, in.scorer), <<>>, <<in.utterances[b]>>, FALSE, n))

\* KenlmV5Loader: a whole file is cut into sections that follow each other without a gap, a
\* file that is too short, or of another kind, is refused. bhiksha_highs is aligned inside its
\* section; every record of a layer and the one behind the last may be read, and the eight
\* bytes of the read are in the file.
FileCutIntoSections ==
    Done("file") =>
        LET file == in.file
            of == Result.sections
            reads(s) == {[layout |-> _parse_bitarray(file, s.k), index |-> file.counts[s.k], field |-> f] :
                            f \in {"word", "backoff", "prob", "low"}}
        IN  /\ Result.ok = in.valid
            /\ \A i \in DOMAIN of : of[i].start = IF i = 1 THEN 0 ELSE of[i - 1].start + of[i - 1].size
            /\ Result.ok => \A i \in DOMAIN of :
                   /\ of[i].part = "highs" =>
                          /\ HighsStart(of[i]) % 8 = 0
                          /\ HighsStart(of[i]) >= of[i].start
                          /\ HighsStart(of[i]) + 8 * HighsCount(file, of[i].k) <= of[i].start + of[i].size
                   /\ of[i].part = "records" => \A r \in reads(of[i]) :
                          /\ r.index < IndexLimit(of[i].size, r.layout.stride)
                          /\ (r.index * r.layout.stride + r.layout[r.field].offset) \div 8 + 8 <= of[i].size

\* The probability of a word after others, from the n-grams themselves: the n-gram's own, or
\* the backoff of the words before it and the probability after one word less.
RECURSIVE BackedOff(_, _, _)
BackedOff(ngrams, before, w) ==
    IF Append(before, w) \in DOMAIN ngrams THEN ngrams[Append(before, w)].prob
    ELSE (IF before \in DOMAIN ngrams THEN ngrams[before].backoff ELSE 0) + BackedOff(ngrams, Tail(before), w)

\* yoklm: from the packed file, the words' hashes and the searches comes the probability
\* that the n-grams define; an unknown word anywhere makes it OOV_SCORE.
WordsBackedOff ==
    Done("ngrams") =>
        \A hs \in in.texts :
            LET word(h) == CHOOSE w \in DOMAIN in.hash : in.hash[w] = h
                ws == [i \in DOMAIN hs |-> word(hs[i])]
                before == SubSeq(ws, MaxOf(1, Len(ws) - in.file.order + 1), Len(ws) - 1)
            IN  Result[hs] = IF \E i \in DOMAIN hs : hs[i] \notin Range(in.hash) THEN OOV_SCORE
                             ELSE BackedOff(in.ngrams, before, Last(ws))

\* The pictures that a client's calls leave in the index: each under the name it was last
\* scanned or moved to.
IndexAfter(calls) ==
    LET after(ix, c) ==
            CASE c.call = "scan" -> (c.path :> c.picture) @@ ix
              [] c.call = "remove_file" -> Restrict(ix, DOMAIN ix \ {c.path})
              [] c.call = "move_file" ->
                     IF c.path \notin DOMAIN ix \/ c.to \in DOMAIN ix THEN ix
                     ELSE (c.to :> ix[c.path]) @@ Restrict(ix, DOMAIN ix \ {c.path})
              [] c.call = "remove_all_file" -> <<>>
    IN  FoldLeft(after, <<>>, calls)

\* The listing calls, after any calls that scan, move and remove photos. Every face is listed
\* with a person near it, and a person for no more rows than faces near it; two photos of the
\* same face have a person in common; the lists by photo and by person have the same rows;
\* classes are those of the last scan, each once; and two persons are near each other only
\* when the faces of one picture are.
PeopleIndexed ==
    Done("people") =>
        LET index == IndexAfter(in)
            person == table_list(Result, "Person")
            faces(p) == Range(face_detection(index[p]))
            listed(p) == ccai_sp_list_person_by_photo(Result, p)
            rows(p, i) == Cardinality({r \in DOMAIN listed(p) : listed(p)[r] = i})
            alike(p, i) == {k \in DOMAIN face_detection(index[p]) : Near(face_detection(index[p])[k], person[i])}
            classes(p) == ccai_sp_list_class_by_photo(Result, p)
            apart(f) == \A i, j \in DOMAIN f : i # j => ~Near(f[i], f[j])
        IN  /\ Range(table_list(Result, "Photo")) = DOMAIN index
            /\ \A p \in DOMAIN index :
                   /\ \A f \in faces(p) : \E i \in Range(listed(p)) : Near(f, person[i])
                   /\ \A i \in DOMAIN person : rows(p, i) <= Cardinality(alike(p, i))
                   /\ IsInjective(classes(p)) /\ Range(classes(p)) = Range(segmentation(index[p]))
                   /\ \A q \in DOMAIN index :
                          faces(p) \cap faces(q) # {} => Range(listed(p)) \cap Range(listed(q)) # {}
            /\ \A i \in DOMAIN person :
                   ccai_sp_count_photo_by_person(Result, i) =
                       FoldLeft(+, 0, [k \in DOMAIN SetToSeq(DOMAIN index) |-> rows(SetToSeq(DOMAIN index)[k], i)])
            /\ \A c \in Range(table_list(Result, "Object")) :
                   Range(ccai_sp_list_photo_by_class(Result, c)) = {p \in DOMAIN index : c \in Range(classes(p))}
            /\ (\A k \in DOMAIN in : in[k].call = "scan" => apart(face_detection(in[k].picture))) => apart(person)

\* The speech service's decoder: the beam search finds the texts with their probabilities,
\* in the words of the dictionary and with the weights of the language model.
SpeechDecoded ==
    /\ TextsDecoded /\ BatchDecoded /\ PrefixesFound
    /\ FileCutIntoSections /\ WordsBackedOff

\* fcgi_utils: what a client quoted, encoded and put in a form is what the service works on:
\* the bytes of the image, with at most one after them, the quoted bytes and the value of a
\* name.
FormsDecoded == BaseRoundTrip /\ UnquotesAll /\ FormValueFound

\* The OCR services' text detector: the network's planes are transposed exactly, a region
\* is a component of the linked pixels, and its picture is cut out from its upper left.
RegionsDetected == TransposeExact /\ MaskIsComponents /\ CornerIsLeftTop

\* The recognizers: the three decoders read the same text from a line, and every region
\* gets its own line.
TextsRead == DecodersAgree /\ TextsInPlace

\* What is reported of a picture: the text of a page is found where it is and read as it is;
\* of the labels and of the boxes the best are reported, each once, and nothing is dropped
\* but for a better one.
PictureReported == RegionsDetected /\ TextsRead /\ TagsAreBest /\ SuppressedForBetter
=============================================================================
