----------------------------- MODULE MCDocIndex -----------------------------
(***************************************************************************)
(* Two files and three contents that share a text, the last one blank;     *)
(* three models, two of them of the same dimensions.                       *)
(* Beside the index, every text of up to four words is split, every search *)
(* among up to four chunks is made, the questions about every small PLC or *)
(* HMI project are answered, and extractions are cached: served says which *)
(* it is.                                                                  *)
(***************************************************************************)
EXTENDS DocIndex, Retrieval
CONSTANTS m1, m2, m3, j1, j2, Dirs, With, Callers, TTL, MaxNow, MaxNodes
VARIABLES served, input, now, entries, call, told

MCChunks == <<<<"a">>, <<"b", "a">>, <<>>>>
MCDims == (m1 :> 1) @@ (m2 :> 1) @@ (m3 :> 2)

\* The name 4 is 1 in lower case.
MCLower == <<4, 2, 3, 4>>
Projects == INSTANCE CallGraph WITH Lower <- MCLower, Nobody <- 0
Extractions == INSTANCE ExtractionCache WITH cache <- entries
extractVars == <<now, entries, call, told>>

---------------------------------------------------------------------------
\* The words of a text by their tokens, whether they end a sentence, and a paragraph.
Words(n, stop) == [i \in DOMAIN n |-> [at |-> i, n |-> n[i], stop |-> i \in stop]]
Paragraphs(words, ends) ==
  FoldLeft(LAMBDA ps, w : IF ps = <<>> \/ Last(Last(ps)).at \in ends THEN Append(ps, <<w>>)
                          ELSE Append(Front(ps), Append(Last(ps), w)),
           <<>>, words)

Texts == UNION {{Paragraphs(Words(n, stop), ends) :
                   n \in [1..k -> {1, 2, 4}], stop \in SUBSET (1..k - 1), ends \in SUBSET (1..k - 1)} :
                k \in {0, 2, 4}}
Rows == [source : {1, 2}, distance : 1..2]

\* Three blocks that call themselves, each other and one of a library, or four that call
\* each other, the first of them maybe an entry point; three screens; and two of each
\* with up to three tags, two of them alike.
Block(i, first, calls) == [name |-> i, kind |-> <<first, "FB", "FC", "FC">>[i], calls |-> calls, tags |-> {}]
Blocks ==
  {[i \in 1..3 |-> Block(i, first, c[i])] : first \in {"OB", "FC"}, c \in [1..3 -> SUBSET {1, 2, 3, 9}]}
  \cup {[i \in 1..4 |-> Block(i, "OB", c[i] \ {i})] : c \in [1..4 -> SUBSET (1..4)]}
Screens == {[i \in 1..3 |-> [name |-> i, links |-> l[i], tags |-> {}]] : l \in [1..3 -> SUBSET (1..3)]}
Tagged == [1..2 -> SUBSET {1, 2, 4}]
WithTags(t) == [i \in 1..2 |-> [name |-> i, tags |-> t[i]]]

MCInit ==
  /\ Init /\ Extractions!CacheInit
  /\ \/ served \in {"index", "extractions"} /\ input = None
     \/ served = "text" /\ input \in Texts
     \/ served = "search" /\ input \in SUBSET Rows
     \/ served = "blocks" /\ input \in Blocks
     \/ served = "screens" /\ input \in Screens
     \/ served = "tags" /\ input \in Tagged \X Tagged

MCNext ==
  \/ served = "index" /\ Next /\ UNCHANGED <<served, input, extractVars>>
  \/ served = "extractions" /\ Extractions!CacheNext /\ UNCHANGED <<served, input, vars>>
MCSpec == MCInit /\ [][MCNext]_<<vars, served, input, extractVars>>

---------------------------------------------------------------------------
\* Every text is split right for every overlap, and every search gives the closest
\* chunks for every limit, source and ceiling (TextChunked, SearchComplete).
Retrieved ==
  /\ served = "text" => \A overlap \in 0..2 : TextChunked(input, 3, overlap)
  /\ served = "search" =>
       \A k \in 1..3, source \in 0..2, max \in 0..1 : SearchComplete(input, k, source, max)

\* What the tools tell of cycles, paths, charts, screens and tags of a project is so, and
\* a key tells it as long as it was promised (format_plc_query, format_hmi_query,
\* format_tag_trace, format_coverage_gap, get_cached).
ProjectsTold ==
  /\ served = "blocks" => Projects!CyclesTold(input) /\ Projects!PathTold(input) /\ Projects!ChartsTold(input)
  /\ served = "screens" => Projects!ScreensTold(input)
  /\ served = "tags" => Projects!TagsTold(WithTags(input[1]), WithTags(input[2]))
  /\ Extractions!KeysAnswer
=============================================================================
