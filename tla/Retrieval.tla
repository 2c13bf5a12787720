----------------------------- MODULE Retrieval -----------------------------
(***************************************************************************)
(* What documents are split into, and what a search finds, as functions of *)
(* their arguments.                                                        *)
(*                                                                         *)
(* A text is a sequence of paragraphs, a paragraph a sequence of words.  A *)
(* word [at, n, stop] has a place in the text, n tokens, and may end a     *)
(* sentence.  Tokens of words that are joined add up.                      *)
(***************************************************************************)
EXTENDS Integers, Sequences, FiniteSets, SequencesExt, FiniteSetsExt

Tokens(words) == FoldLeft(LAMBDA n, w : n + w.n, 0, words)

\* A sentence ends where a word does that ends one, also across joined paragraphs.
Sentences(words) ==
  FoldLeft(LAMBDA ss, w : IF ss = <<>> \/ Last(Last(ss)).stop THEN Append(ss, <<w>>)
                          ELSE Append(Front(ss), Append(Last(ss), w)),
           <<>>, words)

\* Mutant: what exceeds the limit is kept, too.
MutLastTokens(units, max) ==
  FlattenSeq(SubSeq(units, Min({i \in 1..Len(units) + 1 :
                             Tokens(FlattenSeq(SubSeq(units, i + 1, Len(units)))) <= max}), Len(units)))
\* The last sentences, or words, that have at most max tokens together.
LastTokens(units, max) ==
  FlattenSeq(SubSeq(units, Min({i \in 1..Len(units) + 1 :
                             Tokens(FlattenSeq(SubSeq(units, i, Len(units)))) <= max}), Len(units)))

\* The text that the next chunk begins with.  Paragraphs that fit into the overlap
\* as a whole are not repeated.
Kept(current, overlap, level) ==
  CASE overlap = 0 -> <<>>
    [] level = "words" -> LastTokens([i \in DOMAIN current |-> <<current[i]>>], overlap)
    [] level = "sentences" -> LastTokens(Sentences(current), overlap)
    [] level = "paragraphs" -> IF Tokens(current) > overlap THEN LastTokens(Sentences(current), overlap)
                               ELSE <<>>

Flushed(acc) == IF acc.current = <<>> THEN acc.chunks ELSE Append(acc.chunks, acc.current)

\* One more word, sentence or paragraph for the current chunk.
Add(acc, unit, size, overlap, level) ==
  IF acc.current # <<>> /\ Tokens(acc.current) + Tokens(unit) > size
  THEN [chunks |-> Append(acc.chunks, acc.current),
        current |-> Kept(acc.current, overlap, level) \o unit]
  ELSE [acc EXCEPT !.current = @ \o unit]

NoChunks == [chunks |-> <<>>, current |-> <<>>]

SplitByWords(words, size, overlap) ==
  Flushed(FoldLeft(LAMBDA acc, w : Add(acc, <<w>>, size, overlap, "words"), NoChunks, words))

SplitLargeText(words, size, overlap) ==
  Flushed(FoldLeft(
    LAMBDA acc, s :
      IF Tokens(s) > size
      THEN [chunks |-> Flushed(acc) \o SplitByWords(s, size, overlap), current |-> <<>>]
      ELSE Add(acc, s, size, overlap, "sentences"),
    NoChunks, Sentences(words)))

ChunkText(paragraphs, size, overlap) ==
  LET words == FlattenSeq(paragraphs)
  IN IF words = <<>> THEN <<>>
     ELSE IF Tokens(words) <= size THEN <<words>>
     ELSE Flushed(FoldLeft(
            LAMBDA acc, p :
              IF Tokens(p) > size
              THEN [chunks |-> Flushed(acc) \o SplitLargeText(p, size, overlap), current |-> <<>>]
              ELSE Add(acc, p, size, overlap, "paragraphs"),
            NoChunks, paragraphs))

---------------------------------------------------------------------------
\* A stored chunk is [source, distance], the distance that of the query.

\* The k nearest of some rows, as a set; rows of equal distance in any order.
Nearest(rows, k) ==
  {S \in SUBSET rows :
     /\ Cardinality(S) = IF Cardinality(rows) < k THEN Cardinality(rows) ELSE k
     /\ \A r \in S, q \in rows \ S : r.distance <= q.distance}

\* DocStore.search: the source, 0 for any, restricts what the limit counts.
Found(rows, k, source) == Nearest({r \in rows : source \in {0, r.source}}, k)

\* DocSearchRetriever.search: without a ceiling max is 0.
Search(rows, k, source, max) ==
  {{r \in S : max = 0 \/ r.distance <= max} : S \in Found(rows, k, source)}

---------------------------------------------------------------------------
\* The chunks of a text have every word of it, each chunk is a part of the text that
\* goes on where the one before ended or repeats at most overlap tokens of it, and none
\* is longer than size and overlap together, unless by one word (chunk_text).
TextChunked(paragraphs, size, overlap) ==
  LET words == FlattenSeq(paragraphs)
      chunks == ChunkText(paragraphs, size, overlap)
      Begin(i) == chunks[i][1].at
      End(i) == Last(chunks[i]).at
  IN /\ \A i \in DOMAIN chunks :
          /\ chunks[i] = SubSeq(words, Begin(i), End(i))
          /\ \/ Tokens(chunks[i]) <= size + overlap
             \/ \E w \in Range(chunks[i]) : w.n > size /\ Tokens(chunks[i]) <= w.n + overlap
     /\ words # <<>> => chunks # <<>> /\ Begin(1) = 1 /\ End(Len(chunks)) = Len(words)
     /\ \A i \in 1..Len(chunks) - 1 :
          /\ Begin(i + 1) <= End(i) + 1 /\ End(i) < End(i + 1)
          /\ Tokens(SubSeq(words, Begin(i + 1), End(i))) <= overlap

\* A search restricted to a source misses no chunk of it: what it leaves out is farther
\* than all it returns, beyond the ceiling, or one too many (DocStore.search).
SearchComplete(rows, k, source, max) ==
  \A S \in Search(rows, k, source, max) :
    \A q \in rows \ S :
      \/ source \notin {0, q.source}
      \/ max # 0 /\ q.distance > max
      \/ Cardinality(S) = k /\ \A r \in S : r.distance <= q.distance
=============================================================================
