----------------------------- MODULE WordPrefixes -----------------------------
(***************************************************************************)
(* WordPrefixSet, the dictionary of the speech decoder: the prefixes of its  *)
(* words, a trie kept layer by layer. A word is a sequence of characters,    *)
(* numbers from one; positions in a layer count from zero, as in the code.   *)
(***************************************************************************)
EXTENDS Integers, FiniteSets, SequencesExt

\* A set in the order of a comparison, element by element: SetToSortSeq is for small sets.
InOrder(S, before(_, _)) == SortSeq(FoldSet(LAMBDA x, seq : Append(seq, x), <<>>, S), before)

Common(a, b) == Max({n \in 0 .. Min({Len(a), Len(b)}) : SubSeq(a, 1, n) = SubSeq(b, 1, n)})
lex_less(a, b) ==
    LET n == Common(a, b)
    IN  n < Len(b) /\ (n = Len(a) \/ a[n + 1] < b[n + 1])

\* The prefixes of the word that the trie has: each is compared with the last of its layer.
Present(layers, word) ==
    Max({n \in 0 .. Min({Len(layers), Len(word)}) : \A i \in 1 .. n : Last(layers[i].chars) = word[i]})

EmptyLayer == [chars |-> <<>>, starts |-> <<>>, weights |-> <<>>]
LayerAt(layers, i) == IF i <= Len(layers) THEN layers[i] ELSE EmptyLayer

\* One word: the prefixes it adds are the last of their layers, and their children will be
\* those that are appended to the next layer from now on.
AddWord(layers, word) ==
    LET added == Present(layers, word) + 1 .. Len(word)
        grown(i) ==
            [chars |-> Append(LayerAt(layers, i).chars, word[i]),
             starts |-> Append(LayerAt(layers, i).starts, Len(LayerAt(layers, i + 1).chars)),
             weights |-> Append(LayerAt(layers, i).weights, i = Len(word))]
    IN  [i \in 1 .. Max({Len(layers), Len(word)}) |-> IF i \in added THEN grown(i) ELSE layers[i]]

\* add_words: the words once each in their order, then the end of each layer's last children.
add_words(words) ==
    LET layers == FoldLeft(AddWord, <<>>, InOrder(Range(words), lex_less))
    IN  [i \in DOMAIN layers |->
            [layers[i] EXCEPT !.starts = Append(@, Len(LayerAt(layers, i + 1).chars))]]

empty_state(layers) ==
    [length |-> 0, start |-> 0, end |-> IF layers = <<>> THEN 0 ELSE Len(layers[1].chars), weight |-> FALSE]

append_character(layers, character, state) ==
    LET at == {n \in state.start .. state.end - 1 : layers[state.length + 1].chars[n + 1] = character}
        layer == layers[state.length + 1]
        next == Min(at)
    IN  IF at = {} THEN [found |-> FALSE, state |-> empty_state(layers)]
        ELSE [found |-> TRUE,
              state |-> [length |-> state.length + 1, start |-> layer.starts[next + 1], end |-> layer.starts[next + 2],
                         weight |-> state.weight \/ layer.weights[next + 1]]]

\* The characters of a string appended one after the other, as long as the dictionary has them.
Walked(layers, string) ==
    FoldLeft(LAMBDA at, c : IF at.found THEN append_character(layers, c, at.state) ELSE at,
             [found |-> TRUE, state |-> empty_state(layers)], string)
=============================================================================
