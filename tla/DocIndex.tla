------------------------------ MODULE DocIndex ------------------------------
(***************************************************************************)
(* The index of documents for retrieval: files of one directory, the store *)
(* with a row, chunks and vectors for each file name, the cache of         *)
(* embeddings, the retriever with its embedding model, and the requests    *)
(* that index a directory, upload a file or switch the model.              *)
(*                                                                         *)
(* Whoever indexes suspends while texts are embedded, and the indexing of a *)
(* directory also between two files; a transaction of the store does not.  *)
(* A content is a number, which is also its hash, and never comes back.    *)
(* ChunksOf says which texts it is split into.  A vector is the text it    *)
(* embeds and the model it was made by.                                    *)
(***************************************************************************)
EXTENDS Naturals, Sequences, FiniteSets, SequencesExt

CONSTANTS
  Files,      \* names of files, numbers in their sorted order
  Jobs,       \* requests that index
  Models, Dims, Default,  \* embedding models, their dimensions, the one without settings
  ChunksOf,   \* the texts of each content, in order; none for a blank one
  BatchSize,  \* files that are embedded together
  Overlap,    \* whether uploads and switches overlap with what they meet
  None,
  MaxSwitches, MaxKills  \* bounds

Contents == DOMAIN ChunksOf

ASSUME FilesAssumption  == Files \subseteq Nat /\ IsFiniteSet(Files)
ASSUME JobsAssumption   == None \notin Jobs
ASSUME ChunksAssumption == \A c \in Contents : ChunksOf[c] \in Seq(Range(ChunksOf[c]))
ASSUME ModelsAssumption == Default \in Models /\ None \notin Models /\ Dims \in [Models -> Nat]
ASSUME BatchAssumption  == BatchSize \in Nat \ {0}
ASSUME BoundAssumption  == MaxSwitches \in Nat /\ MaxKills \in Nat /\ Overlap \in BOOLEAN

VARIABLES
  file,      \* content of each file, 0 if there is none
  docs,      \* the document stored under each name
  dims,      \* dimensions of the table of vectors
  claim,     \* store_meta: the model that indexed the data
  cache,     \* embedding_cache: vectors by key
  config,    \* the saved embedding model
  model,     \* model of the global retriever
  job,       \* requests under way
  written, switches, kills

store == <<docs, dims, claim>>
vars == <<file, store, cache, config, model, job, written, switches, kills>>

NoJob == [kind |-> "none", at |-> "none", model |-> None, todo |-> <<>>, left |-> 0, read |-> <<>>,
          indexed |-> 0, skipped |-> 0, errors |-> 0, total |-> 0, alone |-> TRUE]

Empty == [f \in Files |-> None]
Present == {f \in Files : file[f] # 0}
Sorted(S) == [i \in 1..Cardinality(S) |-> CHOOSE f \in S : Cardinality({g \in S : g < f}) = i - 1]

Init ==
  /\ file = [f \in Files |-> 0] /\ docs = Empty
  /\ dims = Dims[Default] /\ claim = Default /\ cache = {}
  /\ config = None /\ model = Default
  /\ job = [j \in Jobs |-> NoJob]
  /\ written = 0 /\ switches = 0 /\ kills = 0

---------------------------------------------------------------------------
\* Key of a cached embedding.
Key(t, m) == <<t, m>>

\* CachedEmbedder.embed_texts: the vectors of texts, in their order, from the cache
\* where it has them.  (The cache in memory holds the same ones.)
Embedded(texts, m) ==
  [i \in DOMAIN texts |->
     LET hits == {e \in cache : e.key = Key(texts[i], m)}
     IN IF hits = {} THEN [text |-> texts[i], by |-> m] ELSE (CHOOSE e \in hits : TRUE).vec]

Cached(texts, m) ==
  cache \cup {[key |-> Key(t, m), vec |-> [text |-> t, by |-> m]] :
                t \in {u \in Range(texts) : \A e \in cache : e.key # Key(u, m)}}

\* The texts of several contents that were read, one after the other.
TextsOf(read) == FlattenSeq([i \in DOMAIN read |-> ChunksOf[read[i].text]])

\* The vectors of the i-th document of a batch.
Part(vecs, read, i) ==
  LET before == Len(TextsOf(SubSeq(read, 1, i - 1)))
  IN SubSeq(vecs, before + 1, before + Len(ChunksOf[read[i].text]))

\* Mutant: the file is hashed when its document is stored.
MutStoredHash(entry) == file[entry.file]
\* The hash that a batch stores: the one from before the text was read.
StoredHash(entry) == entry.hash

\* insert_documents_batch: all of a batch in one transaction; a later document
\* replaces one with the same name.
Inserted(read, vecs) ==
  [f \in Files |->
     LET at == {i \in DOMAIN read : read[i].file = f}
     IN IF at = {} THEN docs[f]
        ELSE LET i == CHOOSE k \in at : \A l \in at : l <= k
             IN [hash |-> StoredHash(read[i]), text |-> read[i].text, vecs |-> Part(vecs, read, i)]]

\* Mutant: only a change of the dimensions clears the store.
MutStale(m) == FALSE
\* is_model_stale
Stale(m) == docs # Empty /\ claim # None /\ claim # m

\* DocStore._init_db and _invalidate_if_model_changed, for a retriever with model m.
Open(m) ==
  /\ docs' = IF Dims[m] # dims \/ Stale(m) THEN Empty ELSE docs
  /\ dims' = Dims[m] /\ claim' = m /\ model' = m

\* A request j that has written, or somebody else: no other indexing was alone.
Disturbed(js, j) ==
  [i \in Jobs |-> IF i # j /\ js[i].kind = "index" THEN [js[i] EXCEPT !.alone = FALSE] ELSE js[i]]

\* Files that a request will still put into the store one by one.
Pending(j) ==
  IF job[j].kind = "each" THEN Range(job[j].todo) \cup {job[j].read[i].file : i \in DOMAIN job[j].read}
  ELSE {}
Free(f) == Overlap \/ \A j \in Jobs : f \notin Pending(j)
Quiet == Overlap \/ \A j \in Jobs : job[j].kind = "none"

---------------------------------------------------------------------------
\* Mutant: a file is known by its name.
MutUnchanged(kept, f) == kept[f] # None
\* A file that index_directory skips.
Unchanged(kept, f) == kept[f] # None /\ kept[f].hash = file[f]

\* The next batch of a job, or its end.
NextBatch(b) ==
  IF b.todo = <<>> THEN [b EXCEPT !.at = "done", !.read = <<>>]
  ELSE [b EXCEPT !.at = "read", !.read = <<>>,
                 !.left = IF Len(b.todo) < BatchSize THEN Len(b.todo) ELSE BatchSize]

\* POST /index: with reindex the documents are deleted first.  Names and hashes are
\* read before any text.
StartIndex(j, again) ==
  /\ job[j].kind = "none" /\ Present # {}
  /\ Overlap \/ \A i \in Jobs : job[i].kind # "index"
  /\ LET kept == IF again THEN Empty ELSE docs
         new == {f \in Present : ~Unchanged(kept, f)}
         todo == [i \in 1..Cardinality(new) |-> [file |-> Sorted(new)[i], hash |-> file[Sorted(new)[i]]]]
     IN /\ docs' = kept
        /\ job' = [Disturbed(job, j) EXCEPT ![j] =
                     [NoJob EXCEPT !.kind = "index", !.at = "warm", !.model = model, !.todo = todo,
                                   !.skipped = Cardinality(Present \ new),
                                   !.total = Cardinality(Present)]]
  /\ UNCHANGED <<file, dims, claim, cache, config, model, written, switches, kills>>

\* The model is loaded by embedding a word, or cannot be, which ends the job.
Warm(j) ==
  /\ job[j].at = "warm"
  /\ \/ job' = [job EXCEPT ![j] = NextBatch(@)]
     \/ job' = [job EXCEPT ![j] = NoJob]
  /\ UNCHANGED <<file, store, cache, config, model, written, switches, kills>>

\* A file of the batch that was read, with the hash from before.
AsRead(entry) == [file |-> entry.file, hash |-> entry.hash, text |-> file[entry.file]]

\* One file of a batch: it may be gone or unreadable, or without text.
ReadFile(j) ==
  LET b == job[j]
      entry == Head(b.todo)
      rest == [b EXCEPT !.todo = Tail(@), !.left = @ - 1]
      text == file[entry.file]
      After(c) == IF c.left > 0 THEN c ELSE IF c.read # <<>> THEN [c EXCEPT !.at = "embed"] ELSE NextBatch(c)
  IN /\ b.at = "read"
     /\ \/ job' = [job EXCEPT ![j] = After([rest EXCEPT !.errors = @ + 1])]
        \/ /\ text # 0 /\ ChunksOf[text] = <<>>
           /\ job' = [job EXCEPT ![j] = After([rest EXCEPT !.skipped = @ + 1])]
        \/ /\ text # 0 /\ ChunksOf[text] # <<>>
           /\ job' = [job EXCEPT ![j] = After([rest EXCEPT !.read = Append(@, AsRead(entry))])]
     /\ UNCHANGED <<file, store, cache, config, model, written, switches, kills>>

\* All texts of the batch in one call, which may fail.
EmbedBatch(j) ==
  LET b == job[j]
  IN /\ b.at = "embed" /\ b.kind = "index"
     /\ \/ /\ cache' = Cached(TextsOf(b.read), b.model)
           /\ job' = [job EXCEPT ![j].at = "save"]
        \/ /\ job' = [job EXCEPT ![j] = NextBatch([b EXCEPT !.errors = @ + Len(b.read)])]
           /\ UNCHANGED cache
     /\ UNCHANGED <<file, store, config, model, written, switches, kills>>

\* The table takes no vectors of other dimensions.
SaveBatch(j) ==
  LET b == job[j]
      n == Len(b.read)
  IN /\ b.at = "save"
     /\ IF Dims[b.model] = dims
        THEN /\ docs' = Inserted(b.read, Embedded(TextsOf(b.read), b.model))
             /\ job' = [Disturbed(job, j) EXCEPT ![j] = NextBatch([b EXCEPT !.indexed = @ + n])]
        ELSE /\ job' = [job EXCEPT ![j] = NextBatch([b EXCEPT !.errors = @ + n])]
             /\ UNCHANGED docs
     /\ UNCHANGED <<file, dims, claim, cache, config, model, written, switches, kills>>

\* The response of an indexing.
Return(j) ==
  /\ job[j].at = "done"
  /\ job' = [job EXCEPT ![j] = NoJob]
  /\ UNCHANGED <<file, store, cache, config, model, written, switches, kills>>

---------------------------------------------------------------------------
\* A request that puts the files of todo into the store one by one, at the first
\* that has text.
EachJob(todo, m, content) ==
  LET texts == {i \in DOMAIN todo : content[todo[i]] # 0 /\ ChunksOf[content[todo[i]]] # <<>>}
  IN IF texts = {} THEN NoJob
     ELSE LET i == CHOOSE k \in texts : \A l \in texts : k <= l
          IN [NoJob EXCEPT !.kind = "each", !.at = "embed", !.model = m,
                           !.todo = SubSeq(todo, i + 1, Len(todo)),
                           !.read = <<[file |-> todo[i], hash |-> 0, text |-> content[todo[i]]]>>]

\* POST /upload: the file is written and read, then its texts are embedded.
Upload(j, f) ==
  /\ job[j].kind = "none" /\ Free(f) /\ written + 1 \in Contents
  /\ written' = written + 1
  /\ file' = [file EXCEPT ![f] = written']
  /\ job' = [Disturbed(job, j) EXCEPT ![j] = EachJob(<<f>>, model, file')]
  /\ UNCHANGED <<store, cache, config, model, switches, kills>>

\* POST /model: the retriever is replaced, and the files are indexed for the new model.
SwitchModel(j, m) ==
  /\ job[j].kind = "none" /\ Quiet /\ switches < MaxSwitches
  /\ switches' = switches + 1
  /\ Open(m)
  /\ job' = IF model = m THEN job
            ELSE [Disturbed(job, j) EXCEPT ![j] = EachJob(Sorted(Present), m, file)]
  /\ UNCHANGED <<file, cache, config, written, kills>>

\* index_document after its embedding: the file is hashed now, and must be there.
\* The next file, if any, is read at once.
EmbedOne(j) ==
  LET b == job[j]
      f == b.read[1].file
      texts == ChunksOf[b.read[1].text]
      next == [Disturbed(job, j) EXCEPT ![j] = EachJob(b.todo, b.model, file)]
  IN /\ b.at = "embed" /\ b.kind = "each"
     /\ job' = next
     /\ \/ /\ cache' = Cached(texts, b.model)
           /\ docs' = IF file[f] # 0 /\ Dims[b.model] = dims
                      THEN Inserted(<<[b.read[1] EXCEPT !.hash = file[f]]>>, Embedded(texts, b.model))
                      ELSE docs
        \/ UNCHANGED <<docs, cache>>
     /\ UNCHANGED <<file, dims, claim, config, model, written, switches, kills>>

---------------------------------------------------------------------------
\* DELETE /delete
DeleteDocument(f) ==
  /\ docs[f] # None
  /\ docs' = [docs EXCEPT ![f] = None]
  /\ job' = Disturbed(job, None)
  /\ UNCHANGED <<file, dims, claim, cache, config, model, written, switches, kills>>

\* The user changes or removes a file of the directory.
Edit(f) ==
  /\ Free(f)
  /\ \/ written + 1 \in Contents /\ written' = written + 1 /\ file' = [file EXCEPT ![f] = written']
     \/ file[f] # 0 /\ file' = [file EXCEPT ![f] = 0] /\ UNCHANGED written
  /\ job' = Disturbed(job, None)
  /\ UNCHANGED <<store, cache, config, model, switches, kills>>

\* POST /model-embedding: without a model, or when the host does not reload, the
\* retriever stays.
SaveEmbedding(m) ==
  /\ Quiet /\ switches < MaxSwitches
  /\ switches' = switches + 1
  /\ config' = m
  /\ \/ m # None /\ Open(m) /\ job' = Disturbed(job, None)
     \/ UNCHANGED <<store, model, job>>
  /\ UNCHANGED <<file, cache, written, kills>>

\* The server is killed and started again, with the saved model.
Restart ==
  /\ kills < MaxKills
  /\ kills' = kills + 1
  /\ job' = [j \in Jobs |-> NoJob]
  /\ Open(IF config = None THEN Default ELSE config)
  /\ UNCHANGED <<file, cache, config, written, switches>>

Next ==
  \/ \E j \in Jobs :
       \/ \E again \in BOOLEAN : StartIndex(j, again)
       \/ Warm(j) \/ ReadFile(j) \/ EmbedBatch(j) \/ SaveBatch(j) \/ Return(j)
       \/ \E f \in Files : Upload(j, f)
       \/ \E m \in Models : SwitchModel(j, m)
       \/ EmbedOne(j)
  \/ \E f \in Files : DeleteDocument(f) \/ Edit(f)
  \/ \E m \in Models \cup {None} : SaveEmbedding(m)
  \/ Restart

Spec == Init /\ [][Next]_vars

---------------------------------------------------------------------------
\* What a later indexing will skip is what the file holds: a stored document with
\* the hash of the file has its text (index_directory).
HashTellsText ==
  \A f \in Files : docs[f] # None /\ docs[f].hash = file[f] => docs[f].text = file[f]

\* Every stored vector is that of its chunk, made by the model that queries are
\* embedded with, through switches, settings and restarts.
SameSpace ==
  \A f \in Files : docs[f] # None =>
    /\ [i \in DOMAIN docs[f].vecs |-> docs[f].vecs[i].text] = ChunksOf[docs[f].text]
    /\ \A i \in DOMAIN docs[f].vecs : docs[f].vecs[i].by = model /\ Dims[model] = dims

\* Indexing again refreshes: when a directory was indexed without errors and nobody
\* else wrote meanwhile, the store has the text of every file that has one; and
\* whatever happened, every file was counted once.
Refreshed ==
  \A j \in Jobs : job[j].at = "done" =>
    /\ job[j].indexed + job[j].skipped + job[j].errors = job[j].total
    /\ job[j].errors = 0 /\ job[j].alone =>
         \A f \in Present : ChunksOf[file[f]] # <<>> => docs[f] # None /\ docs[f].text = file[f]
=============================================================================
