---------------------------- MODULE MCAlgorithms ----------------------------
EXTENDS Algorithms

Bytes == {0, 3, 77, 255}
Strings(S, n) == UNION {[1 .. k -> S] : k \in 0 .. n}
Long(n) == [i \in 1 .. n |-> (i * 37) % 256]

\* A client quotes a byte with two digits; some bytes also go as they are.
Hex(d) == IF d < 10 THEN 48 + d ELSE 55 + d
Quote(b) == <<Percent, Hex(b \div 16), Hex(b % 16)>>

Forms ==
    {[body |-> FlattenSeq([i \in DOMAIN names |->
                              (IF i = 1 THEN <<>> ELSE <<Ampersand>>) \o <<names[i], Equals>> \o values[i]]),
      name |-> <<1>>,
      value |-> IF \E i \in DOMAIN names : names[i] = 1
                THEN values[CHOOSE i \in DOMAIN names : names[i] = 1] ELSE <<>>] :
        names \in {<<1>>, <<2>>, <<1, 2>>, <<2, 1>>, <<2, 1, 3>>, <<2, 3, 1>>},
        values \in [1 .. 3 -> Strings({4, Equals}, 2)]}

Permutation4 == {p \in [1 .. 4 -> 1 .. 4] : \A i, j \in 1 .. 4 : i # j => p[i] # p[j]}
Transposes ==
    {[v |-> [i \in 1 .. Product(s) |-> i], shape |-> s, axes |-> p] : s \in [1 .. 4 -> 1 .. 2], p \in Permutation4}

\* The pixels around each pixel of an image of two by two.
Around == <<<<-1, -1, -1, -1, 1, -1, 2, 3>>, <<-1, -1, -1, 0, -1, 2, 3, -1>>,
            <<-1, 0, 1, -1, 3, -1, -1, -1>>, <<0, 1, -1, 2, -1, -1, -1, -1>>>>
Links(pixels) == {t \in pixels \X (1 .. 8) : Around[t[1] + 1][t[2]] \in pixels}
Masks ==
    UNION {{[w |-> 2, h |-> 2, pixels |-> ps, links |-> ls, around |-> [p \in 0 .. 3 |-> Around[p + 1]]] :
               ls \in SUBSET Links(ps)} : ps \in SUBSET (0 .. 3)}

Corners ==
    {c \in [1 .. 4 -> (0 .. 3) \X (0 .. 2)] :
        /\ \A i, j \in 1 .. 4 : i # j => c[i] # c[j]
        /\ c[1][1] + c[3][1] = c[2][1] + c[4][1] /\ c[1][2] + c[3][2] = c[2][2] + c[4][2]}

\* Up to three pictures of lines, in every order that argsort may give.
Lines == [w : {40, 149, 150, 250, 1300}, h : {32, 64}]
Places ==
    UNION {{p \in [pictures : [1 .. n -> Lines], order : {o \in [1 .. n -> 1 .. n] : IsInjective(o)}] :
               ArgSorted(p.pictures, p.order)} : n \in 0 .. 3}

\* Some boxes have no area: the network's corners may coincide.
Boxes == {b \in (0 .. 2) \X (0 .. 1) \X (1 .. 4) \X (1 .. 3) : b[1] <= b[3] /\ b[2] <= b[4]}

\* What the networks answer for a picture: a face, a row that is not used, the last row.
Detection(face) == [image |-> 0, conf |-> 8, size |-> 1, posed |-> TRUE, yaw |-> -30, pitch |-> 0, embedded |-> TRUE, face |-> face]
Unused == {[Detection(0) EXCEPT !.conf = 7], [Detection(0) EXCEPT !.size = 0], [Detection(0) EXCEPT !.posed = FALSE],
           [Detection(0) EXCEPT !.yaw = -31], [Detection(0) EXCEPT !.pitch = 31], [Detection(0) EXCEPT !.embedded = FALSE]}
EndRow == [Detection(0) EXCEPT !.image = -1]
\* One pixel of each class, of class 0 by a tie, in an image of size pixels: 6 percent are 16.
Pixels(classes, size) ==
    [p \in 1 .. size |->
        IF p - 1 \in classes THEN [c \in 0 .. 2 |-> IF c = p - 1 \/ p = 1 THEN 10 ELSE 9]
        ELSE [c \in 0 .. 2 |-> IF c = 2 THEN 9 ELSE 0]]
Picture(detections, classes) ==
    [detected |-> TRUE, detections |-> detections, segmented |-> TRUE,
     pixels |-> Pixels(classes, IF 2 \in classes THEN 17 ELSE 16)]
Faces(fs) == [i \in DOMAIN fs |-> Detection(fs[i])]

ScansOf(pictures) == [call : {"scan"}, path : {"a", "b"}, picture : pictures]
OtherCalls ==
    [call : {"remove_file"}, path : {"a", "b"}] \cup {[call |-> "remove_all_file"]}
        \cup {[call |-> "move_file", path |-> "a", to |-> "b"], [call |-> "move_file", path |-> "b", to |-> "c"]}

AllPictures ==
    {Picture(Faces(fs), 0 .. Len(fs)) : fs \in Strings({0, 50, 100}, 2)}
        \cup {Picture(<<u, Detection(50)>>, {1}) : u \in Unused}
        \cup {Picture(<<Detection(300), EndRow, Detection(50)>>, {}),
               [Picture(Faces(<<0>>), {0}) EXCEPT !.detected = FALSE],
               [Picture(Faces(<<0>>), {1}) EXCEPT !.segmented = FALSE]}
FewPictures == {Picture(Faces(<<50>>), {1}), Picture(Faces(<<0>>), {0, 1}), Picture(Faces(<<100, 0>>), {0})}

\* The words of the dictionary and the strings that are looked up in it.
PrefixFree(ws) == \A u, v \in Range(ws) : u # v => ~IsPrefix(u, v)
Dictionaries ==
    {[words |-> ws, strings |-> Strings(1 .. 2, 4)] :
        ws \in {SetToSeq(W) : W \in {V \in SUBSET (Strings(1 .. 2, 3) \ {<<>>}) : Cardinality(V) \in 0 .. 4}}}

\* Speech: the labels a, b and space, with the blank as the last one.
NoScorer == [on |-> FALSE, bytes |-> <<>>, space |-> 2, beta |-> 1, vocabulary |-> <<>>]
Vocabulary == <<<<9>>, <<0>>, <<0, 1>>, <<1>>>>
Tokens(v) == Range(v) \cup {START_TOKEN}
WordScorer ==
    [on |-> TRUE, order |-> 2, bytes |-> <<>>, space |-> 2, beta |-> 2, oov |-> 1, labels |-> 0 .. 2, vocabulary |-> Vocabulary,
     lm |-> [g \in [1 .. 2 -> Tokens(Vocabulary)] |-> IF g[1] = <<0>> THEN 5 ELSE IF g[2] = <<0, 1>> THEN 7 ELSE 3]]
\* The characters of UTF-8 with the labels as bytes: x, and one of two bytes.
Utf8Vocabulary == <<<<0>>, <<1, 2>>>>
Utf8Scorer ==
    [on |-> TRUE, order |-> 3, bytes |-> <<120, 195, 169>>, space |-> -1, beta |-> 2, oov |-> 1, labels |-> 0 .. 2,
     vocabulary |-> Utf8Vocabulary,
     lm |-> [g \in UNION {[1 .. n -> Tokens(Utf8Vocabulary)] : n \in 1 .. 3} |->
                 IF Last(g) = <<0>> THEN 2 + Len(g) ELSE IF g[1] = <<0>> THEN 6 ELSE 4]]
Decoder(labels, beam) == [labels |-> labels, blank |-> labels - 1, beam |-> beam, scorer |-> NoScorer, dictionary |-> <<>>]

\* The frames of an utterance, and the ways to cut it into chunks.
Cuts(fs) ==
    {<<fs>>} \cup {<<SubSeq(fs, 1, k), SubSeq(fs, k + 1, Len(fs))>> : k \in 0 .. Len(fs)} \cup {[i \in DOMAIN fs |-> <<fs[i]>>]}
Frames2 == {<<3, 1, 2>>, <<1, 4, 1>>, <<2, 2, 5>>}
Frames3 == {<<3, 1, 1, 2>>, <<1, 4, 2, 1>>, <<1, 2, 5, 3>>}
Wide == 1000
Speech(d, scorer, first, frames, limits) ==
    UNION {{[decoder |-> d, scorer |-> scorer, first |-> first, chunks |-> c, online |-> o, limit |-> l,
             wide |-> d.beam = Wide] :
                o \in BOOLEAN, l \in limits, c \in Cuts(fs)} : fs \in frames}
Earlier == <<<<<<1, 5, 2>>>>>>
Speeches ==
    Speech(Decoder(3, Wide), NoScorer, <<>>, Strings(Frames2, 3) \ {<<>>}, {0})
        \cup UNION {Speech(Decoder(3, b), NoScorer, Earlier, [1 .. 3 -> Frames2], {2}) : b \in {1, 3}}
        \cup Speech(Decoder(4, Wide), WordScorer, <<>>, [1 .. 3 -> Frames3], {0})
        \cup Speech(Decoder(4, 3), WordScorer, <<>>, [1 .. 4 -> Frames3 \ {<<1, 4, 2, 1>>}], {2})
        \cup Speech(Decoder(4, Wide), Utf8Scorer, <<>>, [1 .. 3 -> Frames3], {0})

Batches ==
    {[decoder |-> Decoder(3, 3), scorer |-> NoScorer, utterances |-> us, limit |-> l] :
        us \in [1 .. 2 -> Strings(Frames2, 2)], l \in {1, 2, 5}}

\* kenlm's files, for words 1 .. 3 and n-grams up to order 3: the n-grams are kept in
\* reverse, sorted, the record of a k-gram points to the first longer one that continues it.
MaxWord == 3
HashOf == [w \in 1 .. MaxWord |-> w * w]
Reversed(G, k) == InOrder({Reverse(g) : g \in {h \in G : Len(h) = k}}, lex_less)
Pointer(longer, k, g) == Cardinality({i \in DOMAIN longer : lex_less(SubSeq(longer[i], 1, k), g)})
Pointers(G, k) ==
    LET of == Reversed(G, k)
        next == Reversed(G, k + 1)
    IN  [i \in 0 .. Len(of) |-> IF i = Len(of) THEN Len(next) ELSE Pointer(next, k, of[i + 1])]
ToBits(v, n) == [j \in 1 .. n |-> (v \div 2 ^ (j - 1)) % 2]
ProbIndex(g) == FoldLeft(LAMBDA a, w : 3 * a + w, 0, g) % 4
BackoffIndex(g) == (g[1] + Len(g)) % 2
Probs == [i \in 0 .. 3 |-> -(10 * i + 1)]
Backoffs == [i \in 0 .. 1 |-> -(100 * i + 100)]
Unigram(w) == [prob |-> -(200 + w), backoff |-> -(1000 * w + 7)]

FileHead(G, highsBits) ==
    [order |-> 3, counts |-> <<MaxWord + 1, Len(Reversed(G, 2)), Len(Reversed(G, 3))>>, prob_bits |-> 2, backoff_bits |-> 1,
     max_high_bits |-> 8, highs_bits |-> highsBits, prob_tables |-> <<Probs, Probs>>, backoff_tables |-> <<Backoffs>>,
     hashes |-> [i \in 0 .. MaxWord - 1 |-> HashOf[i + 1]], max_hash |-> 20,
     unigrams |-> [w \in 0 .. MaxWord + 1 |->
         [prob |-> IF w \in 1 .. MaxWord THEN Unigram(w).prob ELSE 0, backoff |-> IF w \in 1 .. MaxWord THEN Unigram(w).backoff ELSE 0,
          start |-> Pointer(Reversed(G, 2), 1, <<w>>)]]]
FileOf(G, highsBits) ==
    LET head == FileHead(G, highsBits)
        low == LowBits(head, 2)
        record(k, g, pointer) ==
            ToBits(Last(g), 3) \o (IF k = 3 THEN <<>> ELSE ToBits(BackoffIndex(Reverse(g)), 1)) \o ToBits(ProbIndex(Reverse(g)), 2)
                \o IF k = 3 THEN <<>> ELSE ToBits(pointer % 2 ^ low, low)
        layer(k) == LET of == Append(Reversed(G, k), <<0>>)
                    IN  FlattenSeq([i \in DOMAIN of |-> record(k, of[i], IF k = 3 THEN 0 ELSE Pointers(G, k)[i - 1])])
        high(i) == Pointers(G, 2)[i] \div 2 ^ low
    IN  [h \in {"highs", "bits"} |->
            IF h = "bits" THEN <<layer(2), layer(3)>>
            ELSE <<[n \in 0 .. head.counts[3] \div 2 ^ low |-> Min({i \in 0 .. head.counts[2] : high(i) >= n})]>>] @@ head

\* Every set of pairs of two words, with none, one, or all of the triples it allows.
Triples(B) == {t \in [1 .. 3 -> 1 .. 2] : SubSeq(t, 1, 2) \in B /\ SubSeq(t, 2, 3) \in B}
NgramSets ==
    UNION {{B \cup T : T \in {{}, Triples(B)} \cup {{t} : t \in Triples(B)}} : B \in SUBSET ([1 .. 2 -> 1 .. 2])}
        \cup {{<<3, 1>>, <<3, 2>>, <<1, 3>>, <<3, 3>>, <<3, 1, 3>>, <<3, 3, 1>>, <<3, 3, 3>>, <<1, 3, 3>>}}
Models ==
    {[file |-> FileOf(G, hb),
      ngrams |-> [g \in G \cup [1 .. 1 -> 1 .. MaxWord] |->
          IF Len(g) = 1 THEN Unigram(g[1])
          ELSE [prob |-> Probs[ProbIndex(g)], backoff |-> IF Len(g) = 3 THEN 0 ELSE Backoffs[BackoffIndex(g)]]],
      hash |-> HashOf,
      texts |-> (Strings({1, 4, 9}, 3) \ {<<>>}) \cup [1 .. 4 -> {1, 4}] \cup {<<1, 7>>, <<7, 4>>, <<20>>, <<0, 9>>}] :
         G \in NgramSets, hb \in {1, 64}}

\* Files by their headers and sizes. The size of a whole file, section by section as kenlm
\* writes it: headers, hashes, tables, unigrams, the layers, the strings of the vocabulary.
Header(order, counts, bits, highBits, strings) ==
    [format |-> TRUE, order |-> order, counts |-> counts, words |-> counts[1] - 1, prob_bits |-> bits, backoff_bits |-> bits + 1,
     max_high_bits |-> highBits, highs_bits |-> 8, strings |-> strings, size |-> 0]
WholeSize(f) ==
    LET up(n) == (n + 7) \div 8
        wordBits == required_bits(f.counts[1])
        layer(k) == IF k = f.order THEN up((f.counts[k] + 1) * (wordBits + f.prob_bits)) + 8
                    ELSE 8 + 8 * (f.counts[k + 1] \div 2 ^ LowBits(f, k) + 1) + 7
                           + up((f.counts[k] + 1) * (wordBits + f.prob_bits + f.backoff_bits + LowBits(f, k))) + 8
    IN  128 + 8 * f.order + 8 * f.counts[1] + 16 * (f.counts[1] + 2)
            + 4 * ((f.order - 1) * 2 ^ f.prob_bits + (f.order - 2) * 2 ^ f.backoff_bits)
            + FoldLeft(LAMBDA n, k : n + layer(k), 0, [i \in 1 .. f.order - 1 |-> i + 1])
            + FoldLeft(LAMBDA n, w : n + w + 1, 0, f.strings)
Headers ==
    {Header(o, <<3, a, b, 5>>, bits, hb, strings) :
        o \in 2 .. 4, a \in {0, 1, 4, 11}, b \in {0, 1, 8, 30}, bits \in 0 .. 2, hb \in {0, 2, 8}, strings \in {<<>>, <<5, 1, 3>>}}
Files ==
    {[file |-> [h EXCEPT !.size = WholeSize(h) - cut], valid |-> cut <= 0] : h \in Headers, cut \in {-1, 0, 1, 9, 100}}
        \cup {[file |-> [h EXCEPT !.size = WholeSize(h)], valid |-> FALSE] :
               h \in {[g EXCEPT !.format = FALSE] : g \in Headers} \cup {[g EXCEPT !.words = 3] : g \in Headers}
                        \cup {[g EXCEPT !.prob_bits = 25] : g \in {Header(2, <<3, 1>>, 0, 8, <<>>)}}}

MCInput ==
    [base64 |-> {[data |-> d, past |-> b] : b \in {0, 65, 200, 255}, d \in Strings(Bytes, 4) \cup {Long(57), Long(58), Long(119)}},
     url |-> {[plain |-> x, quoted |-> FlattenSeq([i \in DOMAIN x |-> IF x[i] = 77 THEN <<77>> ELSE Quote(x[i])])] :
                 x \in Strings({0, 37, 77, 163, 255}, 3)},
     form |-> Forms,
     transpose |-> Transposes,
     mask |-> Masks,
     corner |-> Corners,
     text |-> Strings(0 .. 2, 5),
     place |-> Places,
     tags |-> [1 .. 4 -> {0, 5, 6, 9}],
     nms |-> [box : [1 .. 2 -> Boxes], score : [1 .. 2 -> 1 .. 2]]
                \cup [box : [1 .. 3 -> {<<0, 0, 2, 2>>, <<1, 0, 3, 2>>, <<0, 0, 3, 2>>, <<1, 1, 1, 2>>, <<2, 0, 2, 0>>}], score : [1 .. 3 -> 1 .. 3]],
     pipeline |-> {{}},
     people |-> Strings(ScansOf(AllPictures) \cup OtherCalls, 2) \cup [1 .. 4 -> ScansOf(FewPictures) \cup OtherCalls],
     dictionary |-> {d \in Dictionaries : PrefixFree(d.words)},
     speech |-> Speeches,
     batch |-> Batches,
     file |-> Files,
     ngrams |-> Models]
=============================================================================
