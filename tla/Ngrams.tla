-------------------------------- MODULE Ngrams --------------------------------
(***************************************************************************)
(* yoklm, the n-gram language model of the speech decoder: a file of kenlm   *)
(* as KenlmV5Loader lays it out, the searches in it, and the probability of  *)
(* a word after others. Probabilities are logarithms, whole numbers; arrays  *)
(* count from zero as in the code, but for sequences of layers and tables.   *)
(* A bit array is the sequence of its bits. The file is one that kenlm wrote; *)
(* file.highs_bits is 64 there, the bits of an entry of bhiksha_highs.       *)
(***************************************************************************)
EXTENDS Integers, FiniteSets, SequencesExt

unk == 0
OOV_SCORE == -1000
NotFound == -1

-----------------------------------------------------------------------------
(* sorted_search.hpp *)

\* The values plv and rv are those at l - 1 and r, less the one that is looked for.
RECURSIVE SecantFrom(_, _, _, _, _, _)
SecantFrom(array, l, r, plv, rv, value) ==
    LET guess == (2 * l * (rv - plv) - 2 * (r - l + 1) * plv - (rv - plv)) \div (2 * (rv - plv))
        m == Max({l, Min({guess, r - 1})})
        mv == array[m] - value
    IN  IF l + 1 >= r THEN IF l < r /\ array[l] = value THEN l ELSE NotFound
        ELSE IF mv < 0 THEN SecantFrom(array, m + 1, r, mv, rv, value)
        ELSE IF mv > 0 THEN SecantFrom(array, l, m, plv, mv, value)
        ELSE m

secant_search(array, l, r, plv, rv, value) == SecantFrom(array, l, r, plv - value, rv - value, value)

RECURSIVE binary_search(_, _, _, _)
binary_search(array, l, r, value) ==
    LET m == (l + r) \div 2
    IN  IF l + 1 >= r THEN l
        ELSE IF array[m] <= value THEN binary_search(array, m, r, value) ELSE binary_search(array, l, m, value)

-----------------------------------------------------------------------------
(* The layout of a file. *)

required_bits(value) == Cardinality({n \in 0 .. 30 : 2 ^ n <= value})

\* The least size, and of these the most low bits.
find_bhiksha_low_bits(file, max_index, max_value, total) ==
    LET lows == Max({total - file.max_high_bits, 0}) .. total
        size(low) == (max_value \div 2 ^ low) * file.highs_bits - max_index * (total - low)
    IN  CHOOSE low \in lows : \A k \in lows : size(low) < size(k) \/ (size(low) = size(k) /\ k <= low)

\* The low bits of the pointers from the layer of k-grams to the next; the leaves have none.
LowBits(file, k) ==
    IF k = file.order THEN 0
    ELSE find_bhiksha_low_bits(file, file.counts[k] + 1, file.counts[k + 1], required_bits(file.counts[k + 1]))

BackoffBits(file, k) == IF k = file.order THEN 0 ELSE file.backoff_bits

\* The fields of a record: word, backoff, probability, low bits of the pointer.
_parse_bitarray(file, k) ==
    LET word == required_bits(file.counts[1])
        backoff == BackoffBits(file, k)
        low == LowBits(file, k)
    IN  [word |-> [offset |-> 0, bits |-> word],
         backoff |-> [offset |-> word, bits |-> backoff],
         prob |-> [offset |-> word + backoff, bits |-> file.prob_bits],
         low |-> [offset |-> word + backoff + file.prob_bits, bits |-> low],
         stride |-> word + backoff + file.prob_bits + low]

\* The checks of the headers; the types of the fields and of the file are of the only kind
\* that is supported.
Supported(file) ==
    /\ file.format /\ file.order >= 2 /\ file.counts[1] > 0
    /\ file.words + 1 <= file.counts[1]
    /\ file.prob_bits <= 24 /\ file.backoff_bits <= 24

\* The sections of a file and their sizes in bytes, in the order of parse. The entries of
\* bhiksha_highs have seven bytes more, to be aligned; a bit array has eight more, to be read.
HighsCount(file, k) == file.counts[k + 1] \div 2 ^ LowBits(file, k) + 1
RecordsSize(file, k) == ((file.counts[k] + 1) * _parse_bitarray(file, k).stride + 7) \div 8 + 8
Layout(file) ==
    LET medium == [i \in 1 .. file.order - 2 |-> i + 1]
        probs == [part |-> "probs", size |-> 4 * 2 ^ file.prob_bits]
        tables == FlattenSeq([i \in DOMAIN medium |-> <<probs, [part |-> "backoffs", size |-> 4 * 2 ^ file.backoff_bits]>>])
        records(k) == [part |-> "records", size |-> RecordsSize(file, k), k |-> k]
        layer(k) == <<[part |-> "bhiksha", size |-> 8], [part |-> "highs", size |-> 8 * HighsCount(file, k) + 7, k |-> k], records(k)>>
    IN  <<[part |-> "header", size |-> 88], [part |-> "parameters", size |-> 20], [part |-> "counts", size |-> 8 * file.order + 4],
          [part |-> "words", size |-> 8], [part |-> "hashes", size |-> 8 * file.counts[1]], [part |-> "quantization", size |-> 8]>>
            \o tables \o <<probs, [part |-> "unigrams", size |-> 16 * (file.counts[1] + 2)]>>
            \o FlattenSeq([i \in DOMAIN medium |-> layer(medium[i])]) \o <<records(file.order)>>
            \o IF file.strings = <<>> THEN <<>> ELSE <<[part |-> "strings", size |-> FoldLeft(LAMBDA n, w : n + w + 1, 0, file.strings)]>>

\* get_and_drop_prefix throws when the file ends before the section does.
Drop(st, section) ==
    IF ~st.ok \/ section.size > st.left THEN [st EXCEPT !.ok = FALSE]
    ELSE [ok |-> TRUE, left |-> st.left - section.size, offset |-> st.offset + section.size,
          sections |-> Append(st.sections, [start |-> st.offset] @@ section)]

parse(file) ==
    IF ~Supported(file) THEN [ok |-> FALSE, left |-> file.size, offset |-> 0, sections |-> <<>>]
    ELSE FoldLeft(Drop, [ok |-> TRUE, left |-> file.size, offset |-> 0, sections |-> <<>>], Layout(file))

\* Where the entries of a section of bhiksha_highs begin.
HighsStart(section) == section.start + ((-section.start) % 8)

\* set_stride: the records of a bit array that may be read, each read being of eight bytes.
IndexLimit(size, stride) == IF size >= 8 THEN ((size - 8) * 8) \div stride ELSE 0

\* The number in a field of the record at an index.
BitField(array, layout, index, field) ==
    LET at == index * layout.stride + field.offset
    IN  FoldLeft(LAMBDA v, j : v + array[at + j] * 2 ^ (j - 1), 0, [j \in 1 .. field.bits |-> j])

\* The high bits of the pointers at the index and at the next one.
bhiksha_lookup(highs, count, index) ==
    LET l == binary_search(highs, 0, count, index)
    IN  <<l, Max({r \in l .. count - 1 : \A k \in l + 1 .. r : highs[k] = index + 1})>>

\* The records of the next layer that continue the one at the index.
NextRange(file, k, index) ==
    LET layout == _parse_bitarray(file, k)
        high == bhiksha_lookup(file.highs[k - 1], file.counts[k + 1] \div 2 ^ layout.low.bits + 1, index)
        low(i) == BitField(file.bits[k - 1], layout, i, layout.low)
    IN  <<high[1] * 2 ^ layout.low.bits + low(index), high[2] * 2 ^ layout.low.bits + low(index + 1)>>

-----------------------------------------------------------------------------
(* LanguageModel. The words of a state are the last ones, the newest first. *)

\* One more word of find_ngram: its record among those that continue the words before.
Longer(file, words, st, k) ==
    LET layout == _parse_bitarray(file, k)
        array == file.bits[k - 1]
        word == [i \in st.l .. st.r - 1 |-> BitField(array, layout, i, layout.word)]
        index == secant_search(word, st.l, st.r, 0, file.counts[1], words[k])
        prob == file.prob_tables[k - 1][BitField(array, layout, index, layout.prob)]
        backoff == file.backoff_tables[k - 1][BitField(array, layout, index, layout.backoff)]
        next == NextRange(file, k, index)
    IN  IF st.done \/ st.l >= st.r THEN st
        ELSE IF index = NotFound THEN [st EXCEPT !.done = TRUE]
        ELSE IF k = file.order THEN [st EXCEPT !.done = TRUE, !.p = prob, !.backoffs = Append(@, 0)]
        ELSE [st EXCEPT !.p = prob, !.backoffs = Append(@, backoff), !.l = next[1], !.r = next[2]]

find_ngram(file, words) ==
    LET one == file.unigrams[words[1]]
    IN  FoldLeft(LAMBDA st, k : Longer(file, words, st, k),
                 [p |-> one.prob, backoffs |-> <<one.backoff>>, l |-> one.start,
                  r |-> file.unigrams[words[1] + 1].start, done |-> FALSE],
                 [k \in 1 .. Min({file.order, Len(words)}) - 1 |-> k + 1])

EmptyState == [words |-> <<>>, backoffs |-> <<>>, log10_p |-> 0]

\* log10_p_cond: the longest n-gram that is there, and the backoffs of the longer contexts.
log10_p_cond(file, word, state) ==
    LET words == <<word>> \o state.words
        found == find_ngram(file, words)
        skipped == SubSeq(state.backoffs, Len(found.backoffs), Len(state.backoffs))
    IN  [words |-> SubSeq(words, 1, Min({file.order - 1, Len(words)})), backoffs |-> found.backoffs,
         log10_p |-> found.p + FoldLeft(+, 0, skipped)]

-----------------------------------------------------------------------------
(* Vocabulary and ScorerYoklm: a word is found by its hash, the unknown word has none. *)

find(file, hash) == secant_search(file.hashes, 0, file.counts[1] - 1, 0, file.max_hash, hash) + 1

Yoklm_get_log_cond_prob(file, hashes) ==
    LET words == [i \in DOMAIN hashes |-> find(file, hashes[i])]
    IN  IF unk \in Range(words) THEN OOV_SCORE
        ELSE FoldLeft(LAMBDA st, w : log10_p_cond(file, w, st), EmptyState, words).log10_p
=============================================================================
