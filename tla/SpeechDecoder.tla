---------------------------- MODULE SpeechDecoder ----------------------------
(***************************************************************************)
(* CtcDecoderState: from the probabilities of the labels in each frame to    *)
(* the most probable texts, by a beam search over their prefixes.            *)
(*                                                                           *)
(* Probabilities are products of whole numbers where the code adds           *)
(* logarithms: log_sum_exp is a sum, minus infinity zero. The node of a      *)
(* prefix in the PathTrie is found by the prefix itself, a sequence of       *)
(* labels; a label is a number from zero, its character in the dictionary    *)
(* one more. A decoder d has its alphabet's size, the blank, the beam and a  *)
(* scorer s; a scorer that is not on is a null pointer.                      *)
(***************************************************************************)
EXTENDS WordPrefixes

RootCharacter == -1
Character(prefix) == IF prefix = <<>> THEN RootCharacter ELSE Last(prefix)

-----------------------------------------------------------------------------
(* The scorer. s.order is the order of its n-grams, s.lm their weights, s.oov the weight  *)
(* of an n-gram with an unknown word, s.beta that of a word. Its words are characters of   *)
(* UTF-8 when s.bytes, the bytes of the labels, is not empty, and end with s.space         *)
(* otherwise.                                                                              *)

START_TOKEN == <<RootCharacter>>
is_character_based(s) == s.bytes # <<>>

byte_is_codepoint_boundary(b) == b \div 64 # 2

\* Whether the prefix of a length ends the walk back through the word before it.
Stops(s, prefix, n) ==
    \/ n = 0
    \/ IF is_character_based(s) THEN byte_is_codepoint_boundary(s.bytes[prefix[n] + 1]) ELSE prefix[n] = s.space

\* get_path_vec up to a space, and get_prev_grapheme, which takes the first byte as well.
WordEnding(s, prefix, n) ==
    LET stop == Max({k \in 0 .. n : Stops(s, prefix, k)})
    IN  [stop |-> stop, word |-> SubSeq(prefix, IF is_character_based(s) /\ stop > 0 THEN stop ELSE stop + 1, n)]

\* One order of make_ngram, backwards; at is the length of the current node's prefix, -1
\* the parent of the root.
NgramWord(s, prefix, st, order) ==
    LET starts == [i \in 1 .. s.order - order - 1 |-> START_TOKEN]
        last == WordEnding(s, prefix, st.at)
    IN  IF st.done THEN st
        ELSE IF st.at <= 0 THEN [st EXCEPT !.done = TRUE, !.ngram = starts \o @]
        ELSE [at |-> last.stop - 1, done |-> last.stop = 0,
              ngram |-> (IF last.stop = 0 THEN starts ELSE <<>>) \o <<last.word>> \o st.ngram]

make_ngram(s, prefix) ==
    FoldLeft(LAMBDA st, order : NgramWord(s, prefix, st, order),
             [at |-> Len(prefix), done |-> FALSE, ngram |-> <<>>], [k \in 1 .. s.order |-> k - 1]).ngram

\* The bytes that the first byte of a character asks for; 0 is no first byte.
NeededBytes(b) ==
    CASE b \div 8 = 30 -> 4 [] b \div 16 = 14 -> 3 [] b \div 32 = 6 -> 2 [] b \div 128 = 0 -> 1 [] OTHER -> 0

is_scoring_boundary(s, prefix, label) ==
    IF is_character_based(s)
    THEN LET first == Max({k \in 1 .. Len(prefix) : Stops(s, prefix, k)})
         IN  prefix # <<>> /\ Len(prefix) - first + 1 = NeededBytes(s.bytes[prefix[first] + 1])
    ELSE label = s.space

\* One word that the model does not know makes the n-gram unlikely, OOV_SCORE.
get_log_cond_prob(s, ngram) ==
    IF \A i \in DOMAIN ngram : ngram[i] \in Range(s.vocabulary) \cup {START_TOKEN} THEN s.lm[ngram] ELSE s.oov

Scored(s, ngram) == get_log_cond_prob(s, ngram) * s.beta

\* fill_dictionary: the words of the alphabet, which end with a space in word mode. A word
\* with a character that is no label is left out.
Dictionary(s) ==
    LET known == SelectSeq(s.vocabulary, LAMBDA w : \A i \in DOMAIN w : w[i] \in s.labels)
        entry(w) == [i \in DOMAIN w |-> w[i] + 1] \o IF is_character_based(s) THEN <<>> ELSE <<s.space + 1>>
    IN  add_words([i \in DOMAIN known |-> entry(known[i])])

-----------------------------------------------------------------------------
(* PathTrie. *)

NewNode(step, prob, dictionary) ==
    [exists |-> TRUE, bPrev |-> 0, nbPrev |-> 0, bCur |-> 0, nbCur |-> 0, score |-> 0,
     prob |-> prob, step |-> step, dictionary |-> dictionary]

\* A child that is there: its time is the frame of its largest probability.
Revisit(node, step, prob) ==
    LET timed == IF node.prob < prob THEN [node EXCEPT !.prob = prob, !.step = step] ELSE node
    IN  IF timed.exists THEN timed
        ELSE [timed EXCEPT !.exists = TRUE, !.bPrev = 0, !.nbPrev = 0, !.bCur = 0, !.nbCur = 0]

\* get_path_trie: the trie with the prefix's child; without, when the dictionary has no
\* such word. A word that is whole starts the dictionary again.
get_path_trie(d, trie, prefix, c, step, prob) ==
    LET child == Append(prefix, c)
        words == d.dictionary
        reset(state) == IF state.weight THEN empty_state(words) ELSE state
        grown(next) ==
            IF next.found THEN (child :> NewNode(step, prob, reset(next.state))) @@ trie
            ELSE [trie EXCEPT ![prefix].dictionary = reset(@)]
    IN  IF child \in DOMAIN trie THEN [trie EXCEPT ![child] = Revisit(@, step, prob)]
        ELSE IF ~d.scorer.on THEN (child :> NewNode(step, prob, empty_state(<<>>))) @@ trie
        ELSE grown(append_character(words, c + 1, trie[prefix].dictionary))

\* iterate_to_vec for one node.
Iterated(node) ==
    IF ~node.exists THEN node
    ELSE [node EXCEPT !.bPrev = node.bCur, !.nbPrev = node.nbCur, !.bCur = 0, !.nbCur = 0,
                      !.score = node.bCur + node.nbCur]

\* remove, for all that are dropped from the beam: a node stays as long as a prefix that
\* exists goes through it.
Removed(trie, dropped) ==
    LET left == [p \in DOMAIN trie |-> IF p \in dropped THEN [trie[p] EXCEPT !.exists = FALSE] ELSE trie[p]]
    IN  Restrict(left, {p \in DOMAIN left : \E q \in DOMAIN left : left[q].exists /\ IsPrefix(p, q)})

-----------------------------------------------------------------------------
(* CtcDecoderState. *)

new_sequence(d) ==
    [trie |-> (<<>> :> [NewNode(0, 0, empty_state(d.dictionary)) EXCEPT !.bPrev = 1, !.score = 1]),
     candidates |-> <<<<>>>>, finalized |-> FALSE, next_timestep |-> 0]

init(d, scorer) == [d EXCEPT !.scorer = scorer, !.dictionary = IF scorer.on THEN Dictionary(scorer) ELSE <<>>]

\* prefix_compare; prefixes that it does not tell apart come in any order.
prefix_compare(trie, x, y) ==
    \/ trie[x].score > trie[y].score
    \/ trie[x].score = trie[y].score /\ Character(x) < Character(y)

BestFirst(trie, S) ==
    InOrder(S, LAMBDA x, y :
        \/ prefix_compare(trie, x, y)
        \/ ~prefix_compare(trie, y, x) /\ lex_less(x, y))

\* Mutant of Extended: a label is repeated without a blank between.
ExtendedAlways(node, c, character, prob) == prob * node.score

\* What the prefix gives to its extension by the label c.
Extended(node, c, character, prob) == prob * IF c = character THEN node.bPrev ELSE node.score

\* The language model's part, at the end of a word or of a character.
Weight(s, prefix, c) ==
    LET scored == IF is_character_based(s) THEN Append(prefix, c) ELSE prefix
    IN  IF s.on /\ is_scoring_boundary(s, scored, c) THEN Scored(s, make_ngram(s, scored)) ELSE 1

\* One label for one prefix.
Visit(d, trie, prefix, c, prob, step) ==
    LET node == trie[prefix]
        repeated == IF c = Character(prefix) THEN [trie EXCEPT ![prefix].nbCur = @ + prob * node.nbPrev] ELSE trie
        child == Append(prefix, c)
        added(next) ==
            IF child \notin DOMAIN next THEN next
            ELSE [next EXCEPT ![child].nbCur = @ + Extended(node, c, Character(prefix), prob) * Weight(d.scorer, prefix, c)]
    IN  IF c = d.blank THEN [trie EXCEPT ![prefix].bCur = @ + prob * node.score]
        ELSE added(get_path_trie(d, repeated, prefix, c, step, prob))

\* One label for the prefixes of the beam, the best first with a scorer: once the beam is
\* full, the first that the label makes worse than the last of them with a blank ends it.
Spread(d, st, probs, c, step) ==
    LET n == Len(st.candidates)
        last == st.trie[Last(st.candidates)].score * probs[d.blank + 1]
        poor(trie, p) == d.scorer.on /\ n = d.beam /\ probs[c + 1] * trie[p].score * Max({1, d.scorer.beta}) < last
        visit(acc, p) ==
            IF acc.stop \/ poor(acc.trie, p) THEN [acc EXCEPT !.stop = TRUE]
            ELSE [acc EXCEPT !.trie = Visit(d, acc.trie, p, c, probs[c + 1], step)]
    IN  [st EXCEPT !.trie = FoldLeft(visit, [trie |-> st.trie, stop |-> FALSE], st.candidates).trie]

\* The best prefixes stay in the beam, the others are removed.
CutBeam(beam, st, trie) ==
    LET all == BestFirst(trie, {p \in DOMAIN trie : trie[p].exists})
        kept == SubSeq(all, 1, Min({beam, Len(all)}))
    IN  [st EXCEPT !.trie = Removed(trie, Range(all) \ Range(kept)), !.candidates = kept]

iterate_to_vec(trie) == [p \in DOMAIN trie |-> Iterated(trie[p])]

\* One frame of append: every label, then the beam is cut.
Frame(d, st, probs, step) ==
    LET sorted == IF d.scorer.on THEN [st EXCEPT !.candidates = BestFirst(st.trie, Range(@))] ELSE st
        spread == FoldLeft(LAMBDA s, c : Spread(d, s, probs, c, step), sorted, [c \in 1 .. d.labels |-> c - 1])
    IN  CutBeam(d.beam, st, iterate_to_vec(spread.trie))

append(d, st, frames) ==
    [FoldLeft(LAMBDA s, i : Frame(d, s, frames[i], st.next_timestep + i - 1), st, [i \in DOMAIN frames |-> i])
        EXCEPT !.next_timestep = st.next_timestep + Len(frames)]

\* finalize, once: the last word of each prefix that does not end with a word's end.
finalize(d, st) ==
    LET s == d.scorer
        ends(p) == IF is_character_based(s) THEN is_scoring_boundary(s, p, Character(p))
                   ELSE p = <<>> \/ is_scoring_boundary(s, Front(p), Character(p))
        scored(p) == IF p \in Range(st.candidates) /\ ~ends(p)
                     THEN [st.trie[p] EXCEPT !.score = @ * Scored(s, make_ngram(s, p))] ELSE st.trie[p]
    IN  IF st.finalized \/ ~s.on THEN [st EXCEPT !.finalized = TRUE]
        ELSE [st EXCEPT !.finalized = TRUE, !.trie = [p \in DOMAIN @ |-> scored(p)]]

\* get_beam_search_result: the first of the prefixes in their order.
Listed(st, sorted, limit) ==
    LET n == IF limit > 0 THEN Min({Len(sorted), limit}) ELSE Len(sorted)
        result(p) == [tokens |-> p, timesteps |-> [k \in DOMAIN p |-> st.trie[SubSeq(p, 1, k)].step],
                      score |-> st.trie[p].score]
    IN  [state |-> [st EXCEPT !.candidates = sorted], results |-> [k \in 1 .. n |-> result(sorted[k])]]

ListBest(st, limit) == Listed(st, BestFirst(st.trie, Range(st.candidates)), limit)

\* decode: the state, finalized or not, with its prefixes in order, and the first of them.
decode(d, st, limit, final) == ListBest(IF final THEN finalize(d, st) ELSE st, limit)

-----------------------------------------------------------------------------
(* The bindings: what Python gets are flat arrays. *)

Field(results, field) == FlattenSeq([k \in DOMAIN results |-> results[k][field]])

decode_numpy(results) ==
    [symbols |-> Field(results, "tokens"), timesteps |-> Field(results, "timesteps"),
     scores |-> [k \in DOMAIN results |-> results[k].score], lengths |-> [k \in DOMAIN results |-> Len(results[k].tokens)]]

\* SeqCtcLmDecoder.decode cuts the arrays at the sums of the lengths.
Candidates(arrays) ==
    LET start(k) == FoldLeft(+, 0, SubSeq(arrays.lengths, 1, k - 1))
        cut(a, k) == SubSeq(a, start(k) + 1, start(k) + arrays.lengths[k])
    IN  [k \in DOMAIN arrays.lengths |->
            [tokens |-> cut(arrays.symbols, k), timesteps |-> cut(arrays.timesteps, k), score |-> arrays.scores[k]]]

\* The calls for one utterance that comes in chunks: with online, every chunk is decoded.
\* A decoder that was finalized begins a new sequence with the next chunk.
Asked(d, online, st) == IF online THEN decode(d, st, 0, FALSE).state ELSE st

Chunk(d, online, st, frames) == Asked(d, online, append(d, IF st.finalized THEN new_sequence(d) ELSE st, frames))

Utterance(d, before, chunks, online, limit) ==
    decode(d, FoldLeft(LAMBDA st, c : Chunk(d, online, st, c), before, chunks), limit, TRUE)

\* An utterance after another one, as a client of the decoder gets it.
Heard(d, first, chunks, online, limit) ==
    LET before == IF first = <<>> THEN new_sequence(d) ELSE Utterance(d, new_sequence(d), first, online, limit).state
    IN  Candidates(decode_numpy(Utterance(d, before, chunks, online, limit).results))

\* The arrays of a batch: each utterance in a row of its own, filled up to the longest.
Garbage == -1
Arrays(of, n, longest) ==
    LET cell(b, p, field, t) ==
            IF p \in DOMAIN of[b] /\ t \in DOMAIN of[b][p][field] THEN of[b][p][field][t] ELSE Garbage
        flat(field) == [i \in 1 .. Len(of) * n * longest |->
            cell(1 + (i - 1) \div (n * longest), 1 + (((i - 1) \div longest) % n), field, 1 + ((i - 1) % longest))]
        row(op(_, _)) == [i \in 1 .. Len(of) * n |-> op(1 + (i - 1) \div n, 1 + ((i - 1) % n))]
    IN  [symbols |-> flat("tokens"), timesteps |-> flat("timesteps"), longest |-> longest,
         scores |-> row(LAMBDA b, p : IF p \in DOMAIN of[b] THEN of[b][p].score ELSE 0),
         lengths |-> row(LAMBDA b, p : IF p \in DOMAIN of[b] THEN Len(of[b][p].tokens) ELSE 0)]

ArraysOf(of, n) ==
    Arrays(of, n, Max({1} \cup UNION {{Len(of[b][k].tokens) : k \in DOMAIN of[b]} : b \in DOMAIN of}))

batched_ctc_lm_decoder(d, utterances, limit) ==
    LET n == Min({limit, d.beam})
    IN  ArraysOf([b \in DOMAIN utterances |-> decode(d, append(d, new_sequence(d), utterances[b]), n, TRUE).results], n)
=============================================================================
