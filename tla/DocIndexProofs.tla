--------------------------- MODULE DocIndexProofs ---------------------------
(***************************************************************************)
(* Proofs about DocIndex, for any files, contents, models, requests and    *)
(* kills, as long as uploads and switches do not overlap with the indexing *)
(* of what they touch: a stored hash tells the text (HashTellsText), an    *)
(* indexing refreshes the store (Refreshed), and every vector is that of   *)
(* its text (SameSpace).                                                   *)
(***************************************************************************)
EXTENDS DocIndex, FiniteSetTheorems, SequenceTheorems, WellFoundedInduction, TLAPS

---------------------------------------------------------------------------
(* Types.                                                                  *)

Hashed == [file : Files, hash : Nat]
Reading == [file : Files, hash : Nat, text : Contents]

IndexJob ==
  [kind : {"index"}, at : {"warm", "read", "embed", "save", "done"}, model : Models,
   todo : Seq(Hashed), left : Nat, read : Seq(Reading),
   indexed : Nat, skipped : Nat, errors : Nat, total : Nat, alone : BOOLEAN]
EachJobs ==
  [kind : {"each"}, at : {"embed"}, model : Models, todo : Seq(Files), left : {0}, read : Seq(Reading),
   indexed : {0}, skipped : {0}, errors : {0}, total : {0}, alone : {TRUE}]
TypedJobs == IndexJob \cup EachJobs \cup {NoJob}

TypeOK ==
  /\ file \in [Files -> Contents \cup {0}]
  /\ DOMAIN docs = Files
  /\ model \in Models /\ config \in Models \cup {None}
  /\ job \in [Jobs -> TypedJobs]
  /\ written \in Nat

\* What a request counts: files indexed, skipped, failed, to do and read.
Counted(i, s, e, t, r) == i + s + e + t + r

\* Where a request that indexes a directory is, and that it counts every file once.
BatchPlace(b) ==
  b.kind = "index" =>
    /\ b.at = "read" => b.left \in 1..Len(b.todo)
    /\ b.at \in {"embed", "save"} => Len(b.read) > 0
    /\ b.at \in {"warm", "done"} => b.read = <<>>
    /\ b.at = "done" => b.todo = <<>>
    /\ Counted(b.indexed, b.skipped, b.errors, Len(b.todo), Len(b.read)) = b.total

\* Contents are numbered as they come.
FilesWritten == \A f \in Files : file[f] \in 0..written

\* A hash is that of a content that was there once.  If it is there still, so is the text.
Tells(files, upTo, f, hash, text) == hash \in 1..upTo /\ (hash = files[f] => text = files[f])

\* What a request will store, in batches or one by one.
BatchTells(files, upTo, b) ==
  b.kind = "index" =>
    /\ \A i \in 1..Len(b.todo) : b.todo[i].hash \in 1..upTo
    /\ \A i \in 1..Len(b.read) : Tells(files, upTo, b.read[i].file, b.read[i].hash, b.read[i].text)
SingleTells(files, b) ==
  b.kind = "each" => Len(b.read) = 1 /\ b.read[1].text = files[b.read[1].file]

JobsTell ==
  \A j \in Jobs : BatchPlace(job[j]) /\ BatchTells(file, written, job[j]) /\ SingleTells(file, job[j])

\* What is stored.
DocsTell == \A f \in Files : docs[f] # None => Tells(file, written, f, docs[f].hash, docs[f].text)

DocInv == TypeOK /\ FilesWritten /\ JobsTell /\ DocsTell

---------------------------------------------------------------------------
(* Numbers, sets and sequences.                                            *)

\* A set of numbers has a least one.
LEMMA LeastExists ==
  ASSUME NEW S \in SUBSET Nat, S # {}
  PROVE  \E i \in S : \A j \in S : i <= j
PROOF
<1> DEFINE R == {p \in Nat \X Nat : p[1] < p[2]}
<1>1. IsWellFoundedOn(R, Nat)
  BY NatLessThanWellFounded DEF OpToRel
<1>2. PICK i \in S : \A j \in S : ~(<<j, i>> \in R)
  BY <1>1, WFMin
<1>3. \A j \in S : j \in Nat /\ i \in Nat /\ ~(j < i)
  BY <1>2
<1> QED
  BY <1>2, <1>3

\* And a largest one, if it has an upper bound.
LEMMA LargestExists ==
  ASSUME NEW n \in Nat, NEW S \in SUBSET (1..n), S # {}
  PROVE  \E i \in S : \A j \in S : j <= i
PROOF
<1> DEFINE T == {n - i : i \in S}
<1>1. \A i \in S : i \in Nat /\ n - i \in Nat
  OBVIOUS
<1>2. T \in SUBSET Nat /\ T # {}
  BY <1>1
<1>3. PICK d \in T : \A e \in T : d <= e
  BY <1>2, LeastExists
<1>4. PICK i \in S : d = n - i
  BY <1>3
<1>5. ASSUME NEW j \in S PROVE j <= i
  <2>1. n - j \in T
    OBVIOUS
  <2>2. n - i <= n - j
    BY <1>3, <1>4, <2>1
  <2>3. i \in Nat /\ j \in Nat
    BY <1>1
  <2> HIDE DEF T
  <2> QED
    BY <2>2, <2>3
<1> QED
  BY <1>5

\* The sorted names are all names of a set, once.
LEMMA SortedNames ==
  ASSUME NEW S \in SUBSET Files
  PROVE  /\ IsFiniteSet(S) /\ Cardinality(S) \in Nat
         /\ Sorted(S) \in [1..Cardinality(S) -> S]
         /\ \A f \in S : \E i \in 1..Cardinality(S) : Sorted(S)[i] = f
PROOF
<1> DEFINE Below(f) == {g \in S : g < f}
           n == Cardinality(S)
           rank == [f \in S |-> Cardinality(Below(f))]
<1>1. IsFiniteSet(S) /\ n \in Nat /\ S \subseteq Nat
  BY FilesAssumption, FS_Subset, FS_CardinalityType
<1>2. ASSUME NEW f \in S
      PROVE  /\ IsFiniteSet(Below(f)) /\ Cardinality(Below(f)) \in 0..(n - 1)
             /\ \A g \in S : f < g => Cardinality(Below(f)) < Cardinality(Below(g))
  <2>1. \A g \in S : IsFiniteSet(Below(g)) /\ Cardinality(Below(g)) \in Nat
    BY <1>1, FS_Subset, FS_CardinalityType
  <2>2. Below(f) \subseteq S \ {f}
    BY <1>1
  <2>3. IsFiniteSet(S \ {f}) /\ Cardinality(S \ {f}) = n - 1
    BY <1>1, FS_RemoveElement
  <2>4. Cardinality(Below(f)) <= n - 1
    BY <2>2, <2>3, FS_Subset
  <2>5. ASSUME NEW g \in S, f < g PROVE Cardinality(Below(f)) < Cardinality(Below(g))
    <3>1. Below(f) \cup {f} \subseteq Below(g) /\ f \notin Below(f)
      <4>1. f \in Nat /\ g \in Nat /\ \A h \in S : h \in Nat
        BY <1>1
      <4>2. ~(f < f) /\ \A h \in S : h < f => h < g
        BY <2>5, <4>1
      <4> QED
        BY <2>5, <4>2
    <3>2. IsFiniteSet(Below(f) \cup {f}) /\ Cardinality(Below(f) \cup {f}) = Cardinality(Below(f)) + 1
      BY <2>1, <3>1, FS_AddElement
    <3>3. Cardinality(Below(f) \cup {f}) <= Cardinality(Below(g))
      BY <2>1, <3>1, FS_Subset
    <3>4. Cardinality(Below(f)) \in Nat /\ Cardinality(Below(g)) \in Nat
      BY <2>1
    <3> HIDE DEF Below
    <3> QED
      BY <3>2, <3>3, <3>4
  <2> QED
    BY <1>1, <2>1, <2>4, <2>5
<1>3. rank \in Injection(S, 0..(n - 1))
  <2>1. rank \in [S -> 0..(n - 1)]
    BY <1>2
  <2>2. ASSUME NEW f \in S, NEW g \in S, rank[f] = rank[g] PROVE f = g
    <3>1. ~(f < g) /\ ~(g < f)
      BY <1>1, <1>2, <2>2
    <3> QED
      BY <1>1, <3>1
  <2> QED
    BY <2>1, <2>2 DEF Injection, IsInjective
<1>4. IsFiniteSet(0..(n - 1)) /\ Cardinality(0..(n - 1)) = n
  <2>1. 0 \in Int /\ n - 1 \in Int
    BY <1>1
  <2>2. IsFiniteSet(0..(n - 1)) /\ Cardinality(0..(n - 1)) = IF 0 > n - 1 THEN 0 ELSE (n - 1) - 0 + 1
    BY <2>1, FS_Interval
  <2> HIDE DEF n
  <2> QED
    BY <1>1, <2>2
<1>5. rank \in Surjection(S, 0..(n - 1))
  BY <1>3, <1>4, FS_Injection
<1>6. ASSUME NEW i \in 1..n
      PROVE  Sorted(S)[i] \in S /\ Cardinality(Below(Sorted(S)[i])) = i - 1
  <2>1. i - 1 \in 0..(n - 1)
    BY <1>1
  <2>2. \E f \in S : Cardinality(Below(f)) = i - 1
    BY <1>5, <2>1 DEF Surjection
  <2>3. Sorted(S)[i] = CHOOSE f \in S : Cardinality(Below(f)) = i - 1
    BY DEF Sorted
  <2> QED
    BY <2>2, <2>3
<1>7. ASSUME NEW f \in S PROVE \E i \in 1..n : Sorted(S)[i] = f
  <2>1. Cardinality(Below(f)) + 1 \in 1..n
    BY <1>1, <1>2
  <2>2. rank[Sorted(S)[Cardinality(Below(f)) + 1]] = rank[f] /\ Sorted(S)[Cardinality(Below(f)) + 1] \in S
    BY <1>1, <1>2, <1>6, <2>1
  <2> QED
    BY <1>3, <2>1, <2>2 DEF Injection, IsInjective
<1>8. Sorted(S) \in [1..n -> S]
  BY <1>6 DEF Sorted
<1> QED
  BY <1>1, <1>7, <1>8

---------------------------------------------------------------------------
(* Requests.                                                               *)

\* The kind of a request says what it is.
LEMMA KindTells ==
  ASSUME NEW b \in TypedJobs
  PROVE  /\ b.kind = "index" <=> b \in IndexJob
         /\ b.kind = "each" <=> b \in EachJobs
         /\ b.kind = "none" <=> b = NoJob
         /\ b \in IndexJob => /\ b.todo \in Seq(Hashed) /\ Len(b.todo) \in Nat
                              /\ b.read \in Seq(Reading) /\ Len(b.read) \in Nat
                              /\ \A i \in 1..Len(b.read) : b.read[i] \in Reading
                              /\ \A i \in 1..Len(b.todo) : b.todo[i] \in Hashed
PROOF
<1>1. NoJob.kind = "none"
  BY DEF NoJob
<1>2. b \in EachJobs => b.kind = "each"
  BY DEF EachJobs
<1>3. b \in IndexJob => b.kind = "index" /\ b.todo \in Seq(Hashed) /\ b.read \in Seq(Reading)
  BY DEF IndexJob
<1>4. b \in IndexJob \/ b \in EachJobs \/ b = NoJob
  BY DEF TypedJobs
<1>5. \A S, s : s \in Seq(S) => Len(s) \in Nat /\ \A i \in 1..Len(s) : s[i] \in S
  BY LenProperties, ElementOfSeq
<1> QED
  BY <1>1, <1>2, <1>3, <1>4, <1>5

\* What a request holds, whoever disturbs it.
Same(b, c) ==
  /\ c.kind = b.kind /\ c.at = b.at /\ c.model = b.model /\ c.todo = b.todo /\ c.left = b.left /\ c.read = b.read
  /\ c.indexed = b.indexed /\ c.skipped = b.skipped /\ c.errors = b.errors /\ c.total = b.total

\* Disturbed says of the others that they are not alone, and nothing else.
LEMMA DisturbedJobs ==
  ASSUME NEW js \in [Jobs -> TypedJobs], NEW j
  PROVE  /\ Disturbed(js, j) \in [Jobs -> TypedJobs]
         /\ \A i \in Jobs : Same(js[i], Disturbed(js, j)[i])
         /\ \A i \in Jobs : i # j /\ js[i].kind = "index" => ~Disturbed(js, j)[i].alone
         /\ j \in Jobs => Disturbed(js, j)[j] = js[j]
PROOF
<1>1. ASSUME NEW i \in Jobs, i # j, js[i].kind = "index"
      PROVE  /\ [js[i] EXCEPT !.alone = FALSE] \in TypedJobs
             /\ Same(js[i], [js[i] EXCEPT !.alone = FALSE])
             /\ ~[js[i] EXCEPT !.alone = FALSE].alone
  <2>1. js[i] \in IndexJob
    BY <1>1, KindTells
  <2> QED
    BY <2>1 DEF IndexJob, TypedJobs, Same
<1> QED
  BY <1>1 DEF Disturbed, Same

\* A step of one request changes no other one, but that it may be disturbed.
LEMMA JobStep ==
  ASSUME job \in [Jobs -> TypedJobs], NEW j \in Jobs, NEW b \in TypedJobs,
         job' = [job EXCEPT ![j] = b] \/ job' = [Disturbed(job, j) EXCEPT ![j] = b]
  PROVE  /\ job' \in [Jobs -> TypedJobs] /\ job'[j] = b
         /\ \A i \in Jobs : i # j => Same(job[i], job'[i])
PROOF
<1>1. \A i \in Jobs : Same(job[i], job[i])
  BY DEF Same
<1>2. PICK js \in [Jobs -> TypedJobs] : /\ job' = [js EXCEPT ![j] = b]
                                       /\ \A i \in Jobs : Same(job[i], js[i])
  BY <1>1, DisturbedJobs
<1> QED
  BY <1>2

\* So a request that is the same, with files that only get new contents, still tells.
FilesChange ==
  /\ written' \in Nat /\ written <= written'
  /\ \A f \in Files : file'[f] = file[f] \/ (file'[f] \notin 1..written)

LEMMA StillTells ==
  ASSUME TypeOK, FilesChange, NEW f \in Files, NEW hash, NEW text, Tells(file, written, f, hash, text)
  PROVE  Tells(file', written', f, hash, text)
PROOF
<1>1. hash \in 1..written /\ hash \in 1..written'
  BY DEF TypeOK, FilesChange, Tells
<1> QED
  BY <1>1 DEF FilesChange, Tells

LEMMA SameTells ==
  ASSUME TypeOK, FilesChange, NEW b \in TypedJobs, NEW c, Same(b, c), BatchPlace(b), BatchTells(file, written, b)
  PROVE  BatchPlace(c) /\ BatchTells(file', written', c)
PROOF
<1>1. BatchPlace(c)
  BY DEF Same, BatchPlace
<1>2. ASSUME b.kind = "index" PROVE BatchTells(file', written', b)
  <2>1. b \in IndexJob
    BY <1>2, KindTells
  <2>2. \A i \in 1..Len(b.read) : b.read[i] \in Reading
    BY <2>1, KindTells
  <2>3. \A i \in 1..Len(b.read) : b.read[i].file \in Files
    BY <2>2 DEF Reading
  <2>4. \A i \in 1..Len(b.todo) : b.todo[i].hash \in 1..written'
    BY <1>2 DEF BatchTells, FilesChange, TypeOK
  <2> QED
    BY <1>2, <2>3, <2>4, StillTells DEF BatchTells
<1>3. BatchTells(file', written', c)
  BY <1>2 DEF Same, BatchTells
<1> QED
  BY <1>1, <1>3

\* The step of one request keeps what all of them tell.
LEMMA JobsStep ==
  ASSUME DocInv, FilesChange, NEW j \in Jobs, NEW b \in TypedJobs,
         job' = [job EXCEPT ![j] = b] \/ job' = [Disturbed(job, j) EXCEPT ![j] = b],
         BatchPlace(b), BatchTells(file', written', b), SingleTells(file', b),
         \A i \in Jobs : i # j /\ job[i].kind = "each" =>
           file'[job[i].read[1].file] = file[job[i].read[1].file]
  PROVE  job' \in [Jobs -> TypedJobs] /\ JobsTell'
PROOF
<1>0. TypeOK /\ JobsTell /\ job \in [Jobs -> TypedJobs]
  BY DEF DocInv, TypeOK
<1>1. /\ job' \in [Jobs -> TypedJobs] /\ job'[j] = b
      /\ \A i \in Jobs : i # j => Same(job[i], job'[i])
  BY <1>0, JobStep
<1>2. ASSUME NEW i \in Jobs, i # j
      PROVE  BatchPlace(job'[i]) /\ BatchTells(file', written', job'[i]) /\ SingleTells(file', job'[i])
  <2>1. Same(job[i], job'[i]) /\ job[i] \in TypedJobs
    BY <1>0, <1>1, <1>2
  <2>2. BatchPlace(job[i]) /\ BatchTells(file, written, job[i]) /\ SingleTells(file, job[i])
    BY <1>0 DEF JobsTell
  <2>3. BatchPlace(job'[i]) /\ BatchTells(file', written', job'[i])
    BY <1>0, <2>1, <2>2, SameTells
  <2>4. SingleTells(file', job'[i])
    BY <1>2, <2>1, <2>2 DEF SingleTells, Same
  <2> QED
    BY <2>3, <2>4
<1> QED
  BY <1>1, <1>2 DEF JobsTell

\* A step of nobody leaves them all but for being disturbed.
LEMMA NobodysStep ==
  ASSUME DocInv, FilesChange, job' = job \/ job' = Disturbed(job, None),
         \A i \in Jobs : job[i].kind = "each" => file'[job[i].read[1].file] = file[job[i].read[1].file]
  PROVE  job' \in [Jobs -> TypedJobs] /\ JobsTell'
PROOF
<1>0. TypeOK /\ JobsTell /\ job \in [Jobs -> TypedJobs]
  BY DEF DocInv, TypeOK
<1>1. job' \in [Jobs -> TypedJobs] /\ \A i \in Jobs : Same(job[i], job'[i])
  <2>1. \A i \in Jobs : Same(job[i], job[i])
    BY DEF Same
  <2> QED
    BY <1>0, <2>1, DisturbedJobs
<1>2. ASSUME NEW i \in Jobs
      PROVE  BatchPlace(job'[i]) /\ BatchTells(file', written', job'[i]) /\ SingleTells(file', job'[i])
  <2>1. Same(job[i], job'[i]) /\ job[i] \in TypedJobs
    BY <1>0, <1>1, <1>2
  <2>2. BatchPlace(job[i]) /\ BatchTells(file, written, job[i]) /\ SingleTells(file, job[i])
    BY <1>0 DEF JobsTell
  <2>3. BatchPlace(job'[i]) /\ BatchTells(file', written', job'[i])
    BY <1>0, <2>1, <2>2, SameTells
  <2>4. SingleTells(file', job'[i])
    BY <1>2, <2>1, <2>2 DEF SingleTells, Same
  <2> QED
    BY <2>3, <2>4
<1> QED
  BY <1>1, <1>2 DEF JobsTell

\* A batch that is over is followed by the next one.
LEMMA NextBatchTells ==
  ASSUME NEW b \in IndexJob, NEW files, NEW upTo, BatchTells(files, upTo, b),
         Counted(b.indexed, b.skipped, b.errors, Len(b.todo), 0) = b.total
  PROVE  /\ NextBatch(b) \in IndexJob
         /\ BatchPlace(NextBatch(b)) /\ BatchTells(files, upTo, NextBatch(b))
PROOF
<1>0. <<>> \in Seq(Reading) /\ Len(<<>>) = 0
  BY EmptySeq
<1>1. b.todo \in Seq(Hashed) /\ Len(b.todo) \in Nat /\ b.kind = "index" /\ b \in TypedJobs
  <2>1. b \in TypedJobs
    BY DEF TypedJobs
  <2> QED
    BY <2>1, KindTells
<1>2. CASE b.todo = <<>>
  <2> DEFINE c == [b EXCEPT !.at = "done", !.read = <<>>]
  <2>1. NextBatch(b) = c
    BY <1>2 DEF NextBatch
  <2>2. /\ c \in IndexJob /\ c.at = "done" /\ c.read = <<>> /\ c.todo = b.todo /\ c.kind = "index"
        /\ c.indexed = b.indexed /\ c.skipped = b.skipped /\ c.errors = b.errors /\ c.total = b.total
    BY <1>0 DEF IndexJob
  <2> HIDE DEF c
  <2>3. Counted(b.indexed, b.skipped, b.errors, 0, 0) = b.total
    BY <1>0, <1>2
  <2>4. Len(c.read) = 0 /\ Len(c.todo) = 0
    BY <1>2, <2>2
  <2>5. BatchPlace(c)
    BY <1>2, <2>2, <2>3, <2>4 DEF BatchPlace
  <2>6. BatchTells(files, upTo, c)
    BY <2>4 DEF BatchTells
  <2> QED
    BY <2>1, <2>2, <2>5, <2>6
<1>3. CASE b.todo # <<>>
  <2> DEFINE n == IF Len(b.todo) < BatchSize THEN Len(b.todo) ELSE BatchSize
             c == [b EXCEPT !.at = "read", !.read = <<>>, !.left = n]
  <2>1. NextBatch(b) = c
    BY <1>3 DEF NextBatch
  <2>2. n \in 1..Len(b.todo) /\ n \in Nat
    BY <1>1, <1>3, BatchAssumption
  <2> HIDE DEF n
  <2>3. /\ c \in IndexJob /\ c.at = "read" /\ c.read = <<>> /\ c.todo = b.todo /\ c.left = n /\ c.kind = "index"
        /\ c.indexed = b.indexed /\ c.skipped = b.skipped /\ c.errors = b.errors /\ c.total = b.total
    BY <1>0, <2>2 DEF IndexJob
  <2> HIDE DEF c
  <2>4. Len(c.read) = 0 /\ b.indexed \in Nat /\ b.skipped \in Nat /\ b.errors \in Nat /\ b.total \in Nat
    BY <2>3 DEF IndexJob
  <2>5. BatchPlace(c)
    BY <1>1, <2>2, <2>3, <2>4 DEF BatchPlace
  <2>6. BatchTells(files, upTo, c)
    BY <1>1, <2>3, <2>4 DEF BatchTells
  <2> QED
    BY <2>1, <2>3, <2>5, <2>6
<1> QED
  BY <1>2, <1>3

\* A request that stores files one by one begins with what it has read.
LEMMA EachJobTells ==
  ASSUME TypeOK, NEW todo \in Seq(Files), NEW m \in Models, NEW content \in [Files -> Contents \cup {0}]
  PROVE  LET b == EachJob(todo, m, content)
         IN b = NoJob \/ (b \in EachJobs /\ b.model = m /\ SingleTells(content, b))
PROOF
<1> DEFINE texts == {i \in DOMAIN todo : content[todo[i]] # 0 /\ ChunksOf[content[todo[i]]] # <<>>}
           k == CHOOSE i \in texts : \A l \in texts : i <= l
           r == [file |-> todo[k], hash |-> 0, text |-> content[todo[k]]]
           b == [NoJob EXCEPT !.kind = "each", !.at = "embed", !.model = m,
                              !.todo = SubSeq(todo, k + 1, Len(todo)), !.read = <<r>>]
<1>1. CASE texts = {}
  BY <1>1 DEF EachJob
<1>2. CASE texts # {}
  <2>1. DOMAIN todo = 1..Len(todo) /\ Len(todo) \in Nat
    BY LenProperties
  <2>2. texts \in SUBSET Nat
    BY <2>1
  <2>3. \E i \in texts : \A l \in texts : i <= l
    <3> HIDE DEF texts
    <3> QED BY <1>2, <2>2, LeastExists
  <2>4. k \in texts
    BY <2>3
  <2>5. EachJob(todo, m, content) = b
    BY <1>2 DEF EachJob
  <2>6. k \in 1..Len(todo) /\ todo[k] \in Files /\ content[todo[k]] # 0
    BY <2>1, <2>4, ElementOfSeq
  <2> HIDE DEF k
  <2>7. SubSeq(todo, k + 1, Len(todo)) \in Seq(Files)
    BY <2>1, <2>6, SubSeqProperties
  <2>8. r \in Reading
    BY <2>6 DEF Reading
  <2>9. r.file = todo[k] /\ r.text = content[todo[k]]
    OBVIOUS
  <2> HIDE DEF r
  <2>10. <<r>> \in Seq(Reading) /\ Len(<<r>>) = 1 /\ <<r>>[1] = r
    BY <2>8
  <2>11. b \in EachJobs /\ b.read = <<r>> /\ b.model = m
    BY <2>7, <2>10 DEF EachJobs, NoJob
  <2> QED
    BY <2>5, <2>9, <2>10, <2>11 DEF SingleTells
<1> QED
  BY <1>1, <1>2

---------------------------------------------------------------------------
(* The store.                                                              *)

\* What stays in the store still tells.
LEMMA DocsStay ==
  ASSUME DocInv, FilesChange, \A f \in Files : docs'[f] \in {docs[f], None}
  PROVE  DocsTell'
PROOF
  BY StillTells DEF DocInv, DocsTell

\* The document d of a name is the stored one, or one of the batch that has this name.
OldOrRead(read, vecs, f, d) ==
  \/ (\A i \in 1..Len(read) : read[i].file # f) /\ d = docs[f]
  \/ \E i \in 1..Len(read) :
       /\ read[i].file = f
       /\ d = [hash |-> read[i].hash, text |-> read[i].text, vecs |-> Part(vecs, read, i)]

\* The last one, where the batch has it twice.
LEMMA InsertedDocs ==
  ASSUME NEW read \in Seq(Reading), NEW vecs, NEW f \in Files
  PROVE  OldOrRead(read, vecs, f, Inserted(read, vecs)[f])
PROOF
<1> DEFINE at == {i \in DOMAIN read : read[i].file = f}
           i == CHOOSE k \in at : \A l \in at : l <= k
<1>1. DOMAIN read = 1..Len(read) /\ Len(read) \in Nat
  BY LenProperties
<1>2. Inserted(read, vecs)[f] =
        IF at = {} THEN docs[f]
        ELSE [hash |-> StoredHash(read[i]), text |-> read[i].text, vecs |-> Part(vecs, read, i)]
  BY DEF Inserted
<1>3. ASSUME at # {} PROVE i \in at
  <2>1. at \in SUBSET (1..Len(read))
    BY <1>1
  <2>2. \E k \in at : \A l \in at : l <= k
    <3> HIDE DEF at
    <3> QED BY <1>1, <1>3, <2>1, LargestExists
  <2> QED
    BY <2>2
<1> HIDE DEF i
<1> QED
  BY <1>1, <1>2, <1>3 DEF StoredHash, OldOrRead

LEMMA InsertedTells ==
  ASSUME DocInv, NEW read \in Seq(Reading), NEW vecs, docs' = Inserted(read, vecs), file' = file, written' = written,
         \A i \in 1..Len(read) : Tells(file, written, read[i].file, read[i].hash, read[i].text)
  PROVE  DOMAIN docs' = Files /\ DocsTell'
PROOF
<1>1. DOMAIN docs' = Files
  BY DEF Inserted
<1>2. ASSUME NEW f \in Files, docs'[f] # None PROVE Tells(file', written', f, docs'[f].hash, docs'[f].text)
  <2>0. \/ docs'[f] = docs[f]
        \/ \E i \in 1..Len(read) :
             /\ read[i].file = f
             /\ docs'[f] = [hash |-> read[i].hash, text |-> read[i].text, vecs |-> Part(vecs, read, i)]
    <3>1. OldOrRead(read, vecs, f, docs'[f])
      BY InsertedDocs
    <3> QED
      BY <3>1 DEF OldOrRead
  <2>1. CASE docs'[f] = docs[f]
    BY <1>2, <2>1 DEF DocInv, DocsTell
  <2>2. ASSUME NEW i \in 1..Len(read), read[i].file = f,
               docs'[f] = [hash |-> read[i].hash, text |-> read[i].text, vecs |-> Part(vecs, read, i)]
        PROVE  Tells(file', written', f, docs'[f].hash, docs'[f].text)
    <3>1. docs'[f].hash = read[i].hash /\ docs'[f].text = read[i].text
      BY <2>2
    <3> QED
      BY <2>2, <3>1
  <2> QED
    BY <2>0, <2>1, <2>2
<1> QED
  BY <1>1, <1>2 DEF DocsTell

---------------------------------------------------------------------------
(* The steps.                                                              *)

\* Nothing about files, and nothing else that the invariant looks at.
LEMMA FilesStay ==
  ASSUME DocInv, file' = file, written' = written
  PROVE  FilesChange /\ FilesWritten'
PROOF
  BY DEF DocInv, TypeOK, FilesChange, FilesWritten

\* A request that indexes a directory goes on, and nothing is stored.
LEMMA BatchGoesOn ==
  ASSUME DocInv, NEW j \in Jobs, NEW b \in TypedJobs, b \notin EachJobs,
         job' = [job EXCEPT ![j] = b] \/ job' = [Disturbed(job, j) EXCEPT ![j] = b],
         BatchPlace(b), BatchTells(file, written, b), UNCHANGED <<file, written, model, config, docs>>
  PROVE  DocInv'
PROOF
<1>1. FilesChange /\ FilesWritten' /\ DocsTell'
  BY FilesStay, DocsStay
<1>2. job' \in [Jobs -> TypedJobs] /\ JobsTell'
  <2>1. SingleTells(file', b)
    BY KindTells DEF SingleTells
  <2> QED
    BY <1>1, <2>1, JobsStep
<1> QED
  BY <1>1, <1>2 DEF DocInv, TypeOK

\* Names and hashes are read, the documents may be deleted before.
LEMMA StartIndexKeeps ==
  ASSUME DocInv, NEW j \in Jobs, NEW again \in BOOLEAN, StartIndex(j, again)
  PROVE  DocInv'
PROOF
<1>0. TypeOK /\ FilesWritten
  BY DEF DocInv
<1> DEFINE kept == IF again THEN Empty ELSE docs
           new == {f \in Present : ~Unchanged(kept, f)}
           n == Cardinality(new)
           todo == [i \in 1..n |-> [file |-> Sorted(new)[i], hash |-> file[Sorted(new)[i]]]]
           b == [NoJob EXCEPT !.kind = "index", !.at = "warm", !.model = model, !.todo = todo,
                              !.skipped = Cardinality(Present \ new), !.total = Cardinality(Present)]
<1>1. /\ docs' = kept /\ job' = [Disturbed(job, j) EXCEPT ![j] = b]
      /\ UNCHANGED <<file, written, model, config>>
  BY DEF StartIndex
<1>2. /\ n \in Nat /\ Sorted(new) \in [1..n -> new] /\ \A f \in new : f \in Files /\ file[f] # 0
  <2>1. new \in SUBSET Files
    BY DEF Present
  <2> QED
    BY <2>1, SortedNames DEF Present
<1>3. Cardinality(Present \ new) \in Nat /\ Cardinality(Present) \in Nat
      /\ Cardinality(Present \ new) + n = Cardinality(Present)
  <2>1. Present \in SUBSET Files /\ new \in SUBSET Present /\ Present \cap new = new
    BY DEF Present
  <2>2. IsFiniteSet(Present)
    BY <2>1, FilesAssumption, FS_Subset
  <2>3. Cardinality(Present \ new) = Cardinality(Present) - Cardinality(Present \cap new)
    BY <2>2, FS_Difference
  <2>4. Cardinality(Present \ new) \in Nat /\ Cardinality(Present) \in Nat
    BY <2>2, FS_Difference, FS_CardinalityType
  <2>5. Cardinality(Present \ new) = Cardinality(Present) - n
    BY <2>1, <2>3
  <2> HIDE DEF new, n
  <2> QED
    BY <1>2, <2>4, <2>5
<1> HIDE DEF new, n
<1>4. /\ \A i \in 1..n : todo[i] \in Hashed /\ todo[i].hash \in 1..written
      /\ todo \in Seq(Hashed) /\ Len(todo) = n
  <2>1. \A i \in 1..n : Sorted(new)[i] \in Files /\ file[Sorted(new)[i]] \in 1..written
    BY <1>0, <1>2 DEF FilesWritten, TypeOK
  <2>2. \A i \in 1..n : todo[i] \in Hashed /\ todo[i].hash \in 1..written
    BY <2>1 DEF Hashed
  <2>3. todo \in [1..n -> Hashed]
    BY <2>2
  <2> HIDE DEF todo
  <2>4. todo \in Seq(Hashed)
    BY <1>2, <2>3, SeqDef
  <2>5. Len(todo) = n
    BY <1>2, <2>3, <2>4, LenProperties
  <2> QED
    BY <2>2, <2>4, <2>5
<1> HIDE DEF todo
<1>5. <<>> \in Seq(Reading) /\ Len(<<>>) = 0
  BY EmptySeq
<1>6. /\ b \in IndexJob /\ b.kind = "index" /\ b.at = "warm" /\ b.todo = todo /\ b.read = <<>> /\ b.indexed = 0
      /\ b.errors = 0 /\ b.skipped = Cardinality(Present \ new) /\ b.total = Cardinality(Present)
  BY <1>0, <1>3, <1>4, <1>5 DEF IndexJob, NoJob, TypeOK
<1> HIDE DEF b
<1>7. BatchPlace(b) /\ BatchTells(file, written, b) /\ SingleTells(file', b)
  <2>1. Counted(0, Cardinality(Present \ new), 0, n, 0) = Cardinality(Present)
    BY <1>2, <1>3 DEF Counted
  <2> QED
    BY <1>4, <1>5, <1>6, <2>1 DEF BatchPlace, BatchTells, SingleTells
<1>8. FilesChange /\ FilesWritten'
  BY <1>1, FilesStay
<1>9. job' \in [Jobs -> TypedJobs] /\ JobsTell'
  <2>1. b \in TypedJobs
    BY <1>6 DEF TypedJobs
  <2>2. BatchTells(file', written', b)
    BY <1>1, <1>7
  <2> QED
    BY <1>1, <1>7, <1>8, <2>1, <2>2, JobsStep
<1>10. DocsTell' /\ DOMAIN docs' = Files
  <2>1. \A f \in Files : docs'[f] \in {docs[f], None}
    BY <1>1 DEF Empty
  <2> QED
    BY <1>0, <1>1, <1>8, <2>1, DocsStay DEF Empty, TypeOK
<1> QED
  BY <1>0, <1>1, <1>8, <1>9, <1>10 DEF DocInv, TypeOK

\* A request that indexes a directory has one of these places.
LEMMA IndexAt ==
  ASSUME DocInv, NEW j \in Jobs, job[j].at \notin {"none", "embed"} \/ job[j].kind = "index"
  PROVE  /\ job[j] \in IndexJob /\ job[j].kind = "index"
         /\ BatchPlace(job[j]) /\ BatchTells(file, written, job[j])
         /\ job \in [Jobs -> TypedJobs] /\ job[j].at \in {"warm", "read", "embed", "save", "done"}
PROOF
<1>1. job[j] \in TypedJobs /\ BatchPlace(job[j]) /\ BatchTells(file, written, job[j])
      /\ job \in [Jobs -> TypedJobs]
  BY DEF DocInv, TypeOK, JobsTell
<1>2. job[j] \in EachJobs => job[j].at = "embed" /\ job[j].kind # "index"
  BY DEF EachJobs
<1>3. NoJob.at = "none" /\ NoJob.kind # "index"
  BY DEF NoJob
<1>4. job[j] \in IndexJob
  BY <1>1, <1>2, <1>3 DEF TypedJobs
<1> QED
  BY <1>1, <1>4 DEF IndexJob

\* The job of nobody tells nothing.
LEMMA NoJobTells ==
  /\ NoJob \in TypedJobs /\ NoJob \notin EachJobs /\ NoJob.kind = "none" /\ BatchPlace(NoJob)
  /\ \A files, upTo : BatchTells(files, upTo, NoJob) /\ SingleTells(files, NoJob)
PROOF
<1>1. NoJob.kind = "none" /\ NoJob \in TypedJobs
  BY DEF NoJob, TypedJobs
<1> QED
  BY <1>1 DEF BatchPlace, BatchTells, SingleTells, EachJobs

LEMMA WarmKeeps ==
  ASSUME DocInv, NEW j \in Jobs, Warm(j)
  PROVE  DocInv'
PROOF
<1>1. /\ job[j].at = "warm" /\ UNCHANGED <<file, written, model, config, docs>>
      /\ job' = [job EXCEPT ![j] = NextBatch(job[j])] \/ job' = [job EXCEPT ![j] = NoJob]
  BY DEF Warm, store
<1>2. /\ job[j] \in IndexJob /\ job[j].kind = "index"
      /\ BatchPlace(job[j]) /\ BatchTells(file, written, job[j])
  BY <1>1, IndexAt
<1>3. Counted(job[j].indexed, job[j].skipped, job[j].errors, Len(job[j].todo), 0) = job[j].total
  <2>1. /\ job[j].read = <<>> /\ Len(<<>>) = 0
        /\ Counted(job[j].indexed, job[j].skipped, job[j].errors, Len(job[j].todo), Len(job[j].read)) = job[j].total
    BY <1>1, <1>2, EmptySeq DEF BatchPlace
  <2>2. job[j].indexed \in Nat /\ job[j].skipped \in Nat /\ job[j].errors \in Nat /\ Len(job[j].todo) \in Nat
    <3>1. job[j] \in TypedJobs
      BY <1>2 DEF TypedJobs
    <3> QED
      BY <1>2, <3>1, KindTells DEF IndexJob
  <2> QED
    BY <2>1, <2>2
<1>4. CASE job' = [job EXCEPT ![j] = NextBatch(job[j])]
  <2> DEFINE b == NextBatch(job[j])
  <2>1. b \in IndexJob /\ BatchPlace(b) /\ BatchTells(file, written, b)
    BY <1>2, <1>3, NextBatchTells
  <2>2. b \in TypedJobs /\ b \notin EachJobs
    BY <2>1 DEF TypedJobs, IndexJob, EachJobs
  <2>3. job' = [job EXCEPT ![j] = b]
    BY <1>4
  <2> HIDE DEF b
  <2> QED
    BY <1>1, <2>1, <2>2, <2>3, BatchGoesOn
<1>5. CASE job' = [job EXCEPT ![j] = NoJob]
  BY <1>1, <1>5, NoJobTells, BatchGoesOn
<1> QED
  BY <1>1, <1>4, <1>5

\* After a file the batch goes on, is embedded, or was empty.
LEMMA AfterTells ==
  ASSUME NEW c \in IndexJob, c.at = "read", BatchTells(file, written, c), c.left \in 0..Len(c.todo),
         Counted(c.indexed, c.skipped, c.errors, Len(c.todo), Len(c.read)) = c.total
  PROVE  LET b == IF c.left > 0 THEN c ELSE IF c.read # <<>> THEN [c EXCEPT !.at = "embed"] ELSE NextBatch(c)
         IN b \in IndexJob /\ BatchPlace(b) /\ BatchTells(file, written, b)
PROOF
<1>0. c \in TypedJobs
  BY DEF TypedJobs
<1>1. c.kind = "index" /\ Len(c.todo) \in Nat /\ c.read \in Seq(Reading) /\ Len(c.read) \in Nat
  BY <1>0, KindTells
<1>2. CASE c.left > 0
  <2>1. c.left \in 1..Len(c.todo)
    BY <1>1, <1>2
  <2> QED
    BY <1>2, <2>1 DEF BatchPlace
<1>3. CASE ~(c.left > 0) /\ c.read # <<>>
  <2> DEFINE b == [c EXCEPT !.at = "embed"]
  <2>1. /\ b \in IndexJob /\ b.kind = "index" /\ b.at = "embed" /\ b.todo = c.todo /\ b.read = c.read
        /\ b.indexed = c.indexed /\ b.skipped = c.skipped /\ b.errors = c.errors /\ b.total = c.total
    BY DEF IndexJob
  <2> HIDE DEF b
  <2>2. Len(c.read) > 0
    BY <1>1, <1>3, EmptySeq
  <2>3. BatchPlace(b) /\ BatchTells(file, written, b)
    BY <1>1, <2>1, <2>2 DEF BatchPlace, BatchTells
  <2> QED
    BY <1>3, <2>1, <2>3 DEF b
<1>4. CASE ~(c.left > 0) /\ c.read = <<>>
  <2>1. Counted(c.indexed, c.skipped, c.errors, Len(c.todo), 0) = c.total
    <3>1. Len(c.read) = 0
      BY <1>4, EmptySeq
    <3>2. c.indexed \in Nat /\ c.skipped \in Nat /\ c.errors \in Nat
      BY DEF IndexJob
    <3> QED
      BY <1>1, <3>1, <3>2
  <2> QED
    BY <1>4, <2>1, NextBatchTells
<1> QED
  BY <1>2, <1>3, <1>4

\* Only one kind of job is of the one kind.
LEMMA IndexIsTyped ==
  ASSUME NEW b \in IndexJob
  PROVE  b \in TypedJobs /\ b \notin EachJobs /\ b.kind = "index"
PROOF
  BY DEF TypedJobs, IndexJob, EachJobs

LEMMA ReadFileKeeps ==
  ASSUME DocInv, NEW j \in Jobs, ReadFile(j)
  PROVE  DocInv'
PROOF
<1> DEFINE b == job[j]
           entry == Head(b.todo)
           rest == [b EXCEPT !.todo = Tail(@), !.left = @ - 1]
           text == file[entry.file]
           After(c) == IF c.left > 0 THEN c ELSE IF c.read # <<>> THEN [c EXCEPT !.at = "embed"] ELSE NextBatch(c)
           errs == [rest EXCEPT !.errors = @ + 1]
           skips == [rest EXCEPT !.skipped = @ + 1]
           reads == [rest EXCEPT !.read = Append(@, AsRead(entry))]
<1>1. /\ b.at = "read" /\ UNCHANGED <<file, written, model, config, docs>>
      /\ \/ job' = [job EXCEPT ![j] = After(errs)]
         \/ text # 0 /\ job' = [job EXCEPT ![j] = After(skips)]
         \/ text # 0 /\ job' = [job EXCEPT ![j] = After(reads)]
  BY DEF ReadFile, store
<1>2. /\ b \in IndexJob /\ b.kind = "index" /\ BatchPlace(b) /\ BatchTells(file, written, b)
  BY <1>1, IndexAt
<1>3. /\ b.todo \in Seq(Hashed) /\ Len(b.todo) \in Nat /\ b.read \in Seq(Reading) /\ Len(b.read) \in Nat
      /\ b.left \in Nat /\ b.left \in 1..Len(b.todo) /\ b.indexed \in Nat /\ b.skipped \in Nat /\ b.errors \in Nat
      /\ \A i \in 1..Len(b.todo) : b.todo[i] \in Hashed
      /\ Counted(b.indexed, b.skipped, b.errors, Len(b.todo), Len(b.read)) = b.total
  <2>1. b \in TypedJobs
    BY <1>2, IndexIsTyped
  <2>2. /\ b.left \in Nat /\ b.indexed \in Nat /\ b.skipped \in Nat /\ b.errors \in Nat
    BY <1>2 DEF IndexJob
  <2> QED
    BY <1>1, <1>2, <2>1, <2>2, KindTells DEF BatchPlace
<1>4. /\ b.todo # <<>> /\ Tail(b.todo) \in Seq(Hashed) /\ Len(Tail(b.todo)) = Len(b.todo) - 1 /\ entry = b.todo[1]
      /\ \A i \in 1..Len(Tail(b.todo)) : Tail(b.todo)[i] = b.todo[i + 1]
  <2>1. b.todo # <<>>
    BY <1>3, EmptySeq
  <2> QED
    BY <1>3, <2>1, HeadTailProperties
<1>5. /\ entry \in Hashed /\ entry.hash \in 1..written /\ entry.file \in Files
      /\ \A i \in 1..Len(Tail(b.todo)) : Tail(b.todo)[i].hash \in 1..written
  <2>1. \A i \in 1..Len(b.todo) : b.todo[i].hash \in 1..written
    BY <1>2 DEF BatchTells
  <2>2. 1 \in 1..Len(b.todo) /\ \A i \in 1..Len(Tail(b.todo)) : i + 1 \in 1..Len(b.todo)
    BY <1>3, <1>4
  <2>3. entry \in Hashed /\ entry.hash \in 1..written
    BY <1>3, <1>4, <2>1, <2>2
  <2> QED
    BY <1>4, <2>1, <2>2, <2>3 DEF Hashed
<1>6. /\ rest \in IndexJob /\ rest.at = "read" /\ rest.todo = Tail(b.todo) /\ rest.left = b.left - 1
      /\ rest.read = b.read /\ rest.indexed = b.indexed /\ rest.skipped = b.skipped /\ rest.errors = b.errors
      /\ rest.total = b.total
  <2>1. b.left - 1 \in Nat
    BY <1>3
  <2> QED
    BY <1>1, <1>2, <1>4, <2>1 DEF IndexJob
<1>7. rest.left \in 0..Len(rest.todo) /\ Len(rest.todo) = Len(b.todo) - 1
  BY <1>3, <1>4, <1>6
<1>8. ASSUME NEW c \in IndexJob, c.at = "read", c.todo = rest.todo, c.left = rest.left, BatchTells(file, written, c),
             Counted(c.indexed, c.skipped, c.errors, Len(c.todo), Len(c.read)) = c.total,
             job' = [job EXCEPT ![j] = After(c)]
      PROVE  DocInv'
  <2> DEFINE d == After(c)
  <2>1. d \in IndexJob /\ BatchPlace(d) /\ BatchTells(file, written, d)
    BY <1>7, <1>8, AfterTells
  <2>2. job' = [job EXCEPT ![j] = d]
    BY <1>8
  <2> HIDE DEF d
  <2> QED
    BY <1>1, <2>1, <2>2, IndexIsTyped, BatchGoesOn
<1> HIDE DEF rest, b, text, After
<1>9. BatchTells(file, written, b)
  BY <1>2
<1>13. /\ b.indexed \in Nat /\ b.skipped \in Nat /\ b.errors \in Nat /\ Len(b.todo) \in Nat /\ Len(b.read) \in Nat
       /\ Counted(b.indexed, b.skipped, b.errors, Len(b.todo), Len(b.read)) = b.total
  BY <1>3
<1>14. /\ Counted(b.indexed, b.skipped + 1, b.errors, Len(b.todo) - 1, Len(b.read)) = b.total
       /\ Counted(b.indexed, b.skipped, b.errors + 1, Len(b.todo) - 1, Len(b.read)) = b.total
       /\ Counted(b.indexed, b.skipped, b.errors, Len(b.todo) - 1, Len(b.read) + 1) = b.total
  <2>1. PICK i \in Nat, s \in Nat, e \in Nat, t \in Nat, r \in Nat :
          b.indexed = i /\ b.skipped = s /\ b.errors = e /\ Len(b.todo) = t /\ Len(b.read) = r
    BY <1>13
  <2>2. i + s + e + t + r = b.total
    BY <1>13, <2>1 DEF Counted
  <2> QED
    BY <2>1, <2>2 DEF Counted
<1>10. CASE job' = [job EXCEPT ![j] = After(errs)]
  <2>0. rest.errors \in Nat /\ rest.errors + 1 \in Nat /\ rest.skipped \in Nat
    BY <1>3, <1>6
  <2>1. /\ errs \in IndexJob /\ errs.at = "read" /\ errs.todo = rest.todo /\ errs.left = rest.left
        /\ errs.read = rest.read /\ errs.indexed = rest.indexed /\ errs.skipped = rest.skipped
        /\ errs.errors = rest.errors + 1 /\ errs.total = rest.total
    BY <1>6, <2>0 DEF IndexJob
  <2> HIDE DEF errs
  <2>2. BatchTells(file, written, errs)
    BY <1>4, <1>5, <1>6, <1>9, <1>2, <2>1 DEF BatchTells
  <2>3. Counted(errs.indexed, errs.skipped, errs.errors, Len(errs.todo), Len(errs.read)) = errs.total
    <3>1. Len(errs.todo) = Len(b.todo) - 1 /\ Len(errs.read) = Len(b.read) /\ errs.total = b.total
      BY <1>6, <1>7, <2>1
    <3>2. errs.indexed = b.indexed /\ errs.errors = b.errors + 1 /\ errs.skipped = b.skipped
      BY <1>6, <2>1
    <3> QED
      BY <1>14, <3>1, <3>2
  <2> QED
    BY <1>8, <1>10, <2>1, <2>2, <2>3
<1>11. CASE job' = [job EXCEPT ![j] = After(skips)]
  <2>0. rest.skipped \in Nat /\ rest.skipped + 1 \in Nat /\ rest.errors \in Nat
    BY <1>3, <1>6
  <2>1. /\ skips \in IndexJob /\ skips.at = "read" /\ skips.todo = rest.todo /\ skips.left = rest.left
        /\ skips.read = rest.read /\ skips.indexed = rest.indexed /\ skips.skipped = rest.skipped + 1
        /\ skips.errors = rest.errors /\ skips.total = rest.total
    BY <1>6, <2>0 DEF IndexJob
  <2> HIDE DEF skips
  <2>2. BatchTells(file, written, skips)
    BY <1>4, <1>5, <1>6, <1>9, <1>2, <2>1 DEF BatchTells
  <2>3. Counted(skips.indexed, skips.skipped, skips.errors, Len(skips.todo), Len(skips.read)) = skips.total
    <3>1. Len(skips.todo) = Len(b.todo) - 1 /\ Len(skips.read) = Len(b.read) /\ skips.total = b.total
      BY <1>6, <1>7, <2>1
    <3>2. skips.indexed = b.indexed /\ skips.skipped = b.skipped + 1 /\ skips.errors = b.errors
      BY <1>6, <2>1
    <3> QED
      BY <1>14, <3>1, <3>2
  <2> QED
    BY <1>8, <1>11, <2>1, <2>2, <2>3
<1>12. CASE text # 0 /\ job' = [job EXCEPT ![j] = After(reads)]
  <2>1. /\ AsRead(entry) \in Reading /\ AsRead(entry).file = entry.file /\ AsRead(entry).hash = entry.hash
        /\ AsRead(entry).text = file[entry.file]
    <3>1. file[entry.file] \in Contents /\ entry.hash \in Nat
      BY <1>5, <1>12 DEF DocInv, TypeOK, text, Hashed
    <3> QED
      BY <1>5, <3>1 DEF AsRead, Reading
  <2> DEFINE more == Append(b.read, AsRead(entry))
  <2>2. /\ more \in Seq(Reading) /\ Len(more) = Len(b.read) + 1
        /\ \A i \in 1..Len(b.read) : more[i] = b.read[i]
        /\ more[Len(b.read) + 1] = AsRead(entry)
    BY <1>3, <2>1, AppendProperties
  <2>3. /\ reads \in IndexJob /\ reads.at = "read" /\ reads.todo = rest.todo /\ reads.left = rest.left
        /\ reads.read = more /\ reads.indexed = rest.indexed /\ reads.skipped = rest.skipped
        /\ reads.errors = rest.errors /\ reads.total = rest.total
    BY <1>6, <2>2 DEF IndexJob
  <2> HIDE DEF reads, more
  <2>4. BatchTells(file, written, reads)
    <3>1. \A i \in 1..Len(b.read) : Tells(file, written, b.read[i].file, b.read[i].hash, b.read[i].text)
      BY <1>2 DEF BatchTells
    <3>2. Tells(file, written, AsRead(entry).file, AsRead(entry).hash, AsRead(entry).text)
      BY <1>5, <2>1 DEF Tells
    <3>3. \A i \in 1..Len(more) : i \in 1..Len(b.read) \/ i = Len(b.read) + 1
      BY <1>3, <2>2
    <3>4. \A i \in 1..Len(more) : Tells(file, written, more[i].file, more[i].hash, more[i].text)
      BY <2>2, <3>1, <3>2, <3>3
    <3> QED
      BY <1>4, <1>5, <1>6, <2>3, <3>4 DEF BatchTells
  <2>5. Counted(reads.indexed, reads.skipped, reads.errors, Len(reads.todo), Len(reads.read)) = reads.total
    <3>1. Len(reads.todo) = Len(b.todo) - 1 /\ Len(reads.read) = Len(b.read) + 1 /\ reads.total = b.total
      BY <1>6, <1>7, <2>2, <2>3
    <3>2. reads.indexed = b.indexed /\ reads.skipped = b.skipped /\ reads.errors = b.errors
      BY <1>6, <2>3
    <3> QED
      BY <1>14, <3>1, <3>2
  <2> QED
    BY <1>8, <1>12, <2>3, <2>4, <2>5
<1> QED
  BY <1>1, <1>10, <1>11, <1>12

\* A batch that failed or was stored is followed by the next one.
LEMMA BatchIsOver ==
  ASSUME NEW b \in IndexJob, NEW c, NEW files, NEW upTo, BatchPlace(b), BatchTells(files, upTo, b),
         \/ c = [b EXCEPT !.errors = @ + Len(b.read)]
         \/ c = [b EXCEPT !.indexed = @ + Len(b.read)]
  PROVE  /\ NextBatch(c) \in IndexJob
         /\ BatchPlace(NextBatch(c)) /\ BatchTells(files, upTo, NextBatch(c))
PROOF
<1>1. /\ b.kind = "index" /\ Len(b.todo) \in Nat /\ Len(b.read) \in Nat
      /\ b.indexed \in Nat /\ b.skipped \in Nat /\ b.errors \in Nat
      /\ Counted(b.indexed, b.skipped, b.errors, Len(b.todo), Len(b.read)) = b.total
  <2>1. b \in TypedJobs /\ b.kind = "index"
    BY IndexIsTyped
  <2>2. b.indexed \in Nat /\ b.skipped \in Nat /\ b.errors \in Nat
    BY DEF IndexJob
  <2> QED
    BY <2>1, <2>2, KindTells DEF BatchPlace
<1>2. b.errors + Len(b.read) \in Nat /\ b.indexed + Len(b.read) \in Nat
  BY <1>1
<1>3. /\ c \in IndexJob /\ c.todo = b.todo /\ c.read = b.read /\ c.skipped = b.skipped /\ c.total = b.total /\ c.kind = "index"
      /\ \/ c.errors = b.errors + Len(b.read) /\ c.indexed = b.indexed
         \/ c.indexed = b.indexed + Len(b.read) /\ c.errors = b.errors
  BY <1>1, <1>2 DEF IndexJob
<1>4. Counted(c.indexed, c.skipped, c.errors, Len(c.todo), 0) = c.total
  <2>1. PICK i \in Nat, s \in Nat, e \in Nat, t \in Nat, r \in Nat :
          b.indexed = i /\ b.skipped = s /\ b.errors = e /\ Len(b.todo) = t /\ Len(b.read) = r
    BY <1>1
  <2>2. i + s + e + t + r = b.total
    BY <1>1, <2>1 DEF Counted
  <2> QED
    BY <1>3, <2>1, <2>2 DEF Counted
<1>5. BatchTells(files, upTo, c)
  BY <1>1, <1>3 DEF BatchTells
<1> QED
  BY <1>3, <1>4, <1>5, NextBatchTells

LEMMA EmbedBatchKeeps ==
  ASSUME DocInv, NEW j \in Jobs, EmbedBatch(j)
  PROVE  DocInv'
PROOF
<1> DEFINE b == job[j]
           saves == [b EXCEPT !.at = "save"]
           fails == [b EXCEPT !.errors = @ + Len(b.read)]
<1>1. /\ b.at = "embed" /\ b.kind = "index" /\ UNCHANGED <<file, written, model, config, docs>>
      /\ job' = [job EXCEPT ![j] = saves] \/ job' = [job EXCEPT ![j] = NextBatch(fails)]
  <2>1. /\ b.at = "embed" /\ b.kind = "index" /\ UNCHANGED <<file, written, model, config, docs>>
        /\ \/ job' = [job EXCEPT ![j].at = "save"]
           \/ job' = [job EXCEPT ![j] = NextBatch(fails)]
    BY DEF EmbedBatch, store
  <2>2. ASSUME job' = [job EXCEPT ![j].at = "save"] PROVE job' = [job EXCEPT ![j] = saves]
    BY <2>2
  <2> QED
    BY <2>1, <2>2
<1>2. b \in IndexJob /\ b.kind = "index" /\ BatchPlace(b) /\ BatchTells(file, written, b)
  BY <1>1, IndexAt
<1> HIDE DEF b
<1>3. CASE job' = [job EXCEPT ![j] = saves]
  <2>1. /\ saves \in IndexJob /\ saves.kind = "index" /\ saves.at = "save" /\ saves.todo = b.todo /\ saves.read = b.read
        /\ saves.indexed = b.indexed /\ saves.skipped = b.skipped /\ saves.errors = b.errors /\ saves.total = b.total
    BY <1>2 DEF IndexJob
  <2> HIDE DEF saves
  <2>2. BatchPlace(saves) /\ BatchTells(file, written, saves)
    BY <1>1, <1>2, <2>1 DEF BatchPlace, BatchTells
  <2> QED
    BY <1>1, <1>3, <2>1, <2>2, IndexIsTyped, BatchGoesOn
<1>4. CASE job' = [job EXCEPT ![j] = NextBatch(fails)]
  <2> DEFINE d == NextBatch(fails)
  <2>1. d \in IndexJob /\ BatchPlace(d) /\ BatchTells(file, written, d)
    BY <1>2, BatchIsOver
  <2>2. job' = [job EXCEPT ![j] = d]
    BY <1>4
  <2> HIDE DEF d
  <2> QED
    BY <1>1, <2>1, <2>2, IndexIsTyped, BatchGoesOn
<1> QED
  BY <1>1, <1>3, <1>4

LEMMA SaveBatchKeeps ==
  ASSUME DocInv, NEW j \in Jobs, SaveBatch(j)
  PROVE  DocInv'
PROOF
<1> DEFINE b == job[j]
           saved == [b EXCEPT !.indexed = @ + Len(b.read)]
           fails == [b EXCEPT !.errors = @ + Len(b.read)]
<1>1. /\ b.at = "save" /\ UNCHANGED <<file, written, model, config>>
      /\ \/ /\ docs' = Inserted(b.read, Embedded(TextsOf(b.read), b.model))
            /\ job' = [Disturbed(job, j) EXCEPT ![j] = NextBatch(saved)]
         \/ docs' = docs /\ job' = [job EXCEPT ![j] = NextBatch(fails)]
  BY DEF SaveBatch
<1>2. b \in IndexJob /\ b.kind = "index" /\ BatchPlace(b) /\ BatchTells(file, written, b)
  BY <1>1, IndexAt
<1> HIDE DEF b
<1>3. CASE docs' = docs /\ job' = [job EXCEPT ![j] = NextBatch(fails)]
  <2> DEFINE d == NextBatch(fails)
  <2>1. d \in IndexJob /\ BatchPlace(d) /\ BatchTells(file, written, d)
    BY <1>2, BatchIsOver
  <2>2. job' = [job EXCEPT ![j] = d]
    BY <1>3
  <2> HIDE DEF d
  <2> QED
    BY <1>1, <1>3, <2>1, <2>2, IndexIsTyped, BatchGoesOn
<1>4. CASE /\ docs' = Inserted(b.read, Embedded(TextsOf(b.read), b.model))
           /\ job' = [Disturbed(job, j) EXCEPT ![j] = NextBatch(saved)]
  <2> DEFINE d == NextBatch(saved)
  <2>1. d \in IndexJob /\ BatchPlace(d) /\ BatchTells(file, written, d)
    BY <1>2, BatchIsOver
  <2>2. job' = [Disturbed(job, j) EXCEPT ![j] = d]
    BY <1>4
  <2> HIDE DEF d
  <2>3. DOMAIN docs' = Files /\ DocsTell'
    <3>1. b.read \in Seq(Reading)
      BY <1>2 DEF IndexJob
    <3>2. \A i \in 1..Len(b.read) : Tells(file, written, b.read[i].file, b.read[i].hash, b.read[i].text)
      BY <1>2 DEF BatchTells
    <3> QED
      BY <1>1, <1>4, <3>1, <3>2, InsertedTells
  <2>4. FilesChange /\ FilesWritten'
    BY <1>1, FilesStay
  <2>5. d \in TypedJobs /\ d.kind = "index"
    BY <2>1, IndexIsTyped
  <2>6. BatchTells(file', written', d) /\ SingleTells(file', d)
    BY <1>1, <2>1, <2>5 DEF SingleTells
  <2>7. job' \in [Jobs -> TypedJobs] /\ JobsTell'
    BY <1>1, <2>1, <2>2, <2>4, <2>5, <2>6, JobsStep
  <2> QED
    BY <1>1, <2>3, <2>4, <2>7 DEF DocInv, TypeOK
<1> QED
  BY <1>1, <1>3, <1>4

LEMMA ReturnKeeps ==
  ASSUME DocInv, NEW j \in Jobs, Return(j)
  PROVE  DocInv'
PROOF
  BY NoJobTells, BatchGoesOn DEF Return, store

\* A new content of a file that nobody is about to store under its old one.
LEMMA NewContent ==
  ASSUME DocInv, Overlap = FALSE, NEW f \in Files, Free(f),
         \/ written + 1 \in Contents /\ written' = written + 1 /\ file' = [file EXCEPT ![f] = written + 1]
         \/ written' = written /\ file' = [file EXCEPT ![f] = 0]
  PROVE  /\ FilesChange /\ FilesWritten' /\ file' \in [Files -> Contents \cup {0}] /\ written' \in Nat
         /\ \A i \in Jobs : job[i].kind = "each" => file'[job[i].read[1].file] = file[job[i].read[1].file]
PROOF
<1>0. /\ file \in [Files -> Contents \cup {0}] /\ written \in Nat /\ \A g \in Files : file[g] \in 0..written
  BY DEF DocInv, TypeOK, FilesWritten
<1>1. file' \in [Files -> Contents \cup {0}] /\ written' \in Nat /\ written <= written'
  BY <1>0
<1>2. /\ \A g \in Files : g # f => file'[g] = file[g]
      /\ file'[f] \in 0..written' /\ file'[f] \notin 1..written
  BY <1>0
<1>3. FilesChange /\ FilesWritten'
  BY <1>0, <1>1, <1>2 DEF FilesChange, FilesWritten
<1>4. ASSUME NEW i \in Jobs, job[i].kind = "each"
      PROVE  file'[job[i].read[1].file] = file[job[i].read[1].file]
  <2>1. job[i] \in EachJobs /\ Len(job[i].read) = 1
    <3>1. job[i] \in TypedJobs /\ SingleTells(file, job[i])
      BY DEF DocInv, TypeOK, JobsTell
    <3> QED
      BY <1>4, <3>1, KindTells DEF SingleTells
  <2>2. job[i].read \in Seq(Reading)
    BY <2>1 DEF EachJobs
  <2>3. 1 \in DOMAIN job[i].read /\ job[i].read[1].file \in Files
    <3>1. 1 \in DOMAIN job[i].read /\ job[i].read[1] \in Reading
      BY <2>1, <2>2, LenProperties, ElementOfSeq
    <3> QED
      BY <3>1 DEF Reading
  <2>4. job[i].read[1].file \in Pending(i)
    BY <1>4, <2>3 DEF Pending
  <2>5. job[i].read[1].file # f
    BY <2>4 DEF Free
  <2> QED
    BY <1>2, <2>3, <2>5
<1> QED
  BY <1>1, <1>3, <1>4

\* A request that stores files one by one is in no batch.
LEMMA EachTells ==
  ASSUME NEW b \in EachJobs
  PROVE  /\ b \in TypedJobs /\ b.kind = "each" /\ b \notin IndexJob /\ BatchPlace(b)
         /\ \A files, upTo : BatchTells(files, upTo, b)
PROOF
<1>1. b \in TypedJobs /\ b.kind = "each"
  BY DEF TypedJobs, EachJobs
<1> QED
  BY <1>1, KindTells DEF BatchPlace, BatchTells

LEMMA UploadKeeps ==
  ASSUME DocInv, Overlap = FALSE, NEW j \in Jobs, NEW f \in Files, Upload(j, f)
  PROVE  DocInv'
PROOF
<1>0. TypeOK
  BY DEF DocInv
<1> DEFINE b == EachJob(<<f>>, model, file')
<1>1. /\ Free(f) /\ written + 1 \in Contents /\ written' = written + 1 /\ file' = [file EXCEPT ![f] = written + 1]
      /\ job' = [Disturbed(job, j) EXCEPT ![j] = b] /\ UNCHANGED <<docs, model, config>>
  BY DEF Upload, store
<1>2. /\ FilesChange /\ FilesWritten' /\ file' \in [Files -> Contents \cup {0}] /\ written' \in Nat
      /\ \A i \in Jobs : job[i].kind = "each" => file'[job[i].read[1].file] = file[job[i].read[1].file]
  BY <1>1, NewContent
<1>3. b = NoJob \/ (b \in EachJobs /\ SingleTells(file', b))
  <2>1. <<f>> \in Seq(Files) /\ model \in Models
    BY <1>0 DEF TypeOK
  <2> QED
    BY <1>0, <1>2, <2>1, EachJobTells
<1> HIDE DEF b
<1>4. b \in TypedJobs /\ BatchPlace(b) /\ BatchTells(file', written', b) /\ SingleTells(file', b)
  BY <1>3, NoJobTells, EachTells
<1>5. job' \in [Jobs -> TypedJobs] /\ JobsTell'
  BY <1>1, <1>2, <1>4, JobsStep
<1>6. DocsTell'
  BY <1>1, <1>2, DocsStay
<1> QED
  BY <1>0, <1>1, <1>2, <1>5, <1>6 DEF DocInv, TypeOK

LEMMA EditKeeps ==
  ASSUME DocInv, Overlap = FALSE, NEW f \in Files, Edit(f)
  PROVE  DocInv'
PROOF
<1>0. TypeOK
  BY DEF DocInv
<1>1. /\ Free(f)
      /\ \/ written + 1 \in Contents /\ written' = written + 1 /\ file' = [file EXCEPT ![f] = written + 1]
         \/ written' = written /\ file' = [file EXCEPT ![f] = 0]
      /\ job' = Disturbed(job, None) /\ UNCHANGED <<docs, model, config>>
  BY DEF Edit, store
<1>2. /\ FilesChange /\ FilesWritten' /\ file' \in [Files -> Contents \cup {0}] /\ written' \in Nat
      /\ \A i \in Jobs : job[i].kind = "each" => file'[job[i].read[1].file] = file[job[i].read[1].file]
  BY <1>1, NewContent
<1>3. job' \in [Jobs -> TypedJobs] /\ JobsTell' /\ DocsTell'
  BY <1>1, <1>2, NobodysStep, DocsStay
<1> QED
  BY <1>0, <1>1, <1>2, <1>3 DEF DocInv, TypeOK

\* What a retriever with another model opens: its documents, or none.
LEMMA OpenKeeps ==
  ASSUME DocInv, NEW m \in Models, Open(m), file' = file, written' = written
  PROVE  DocsTell' /\ DOMAIN docs' = Files /\ model' \in Models
PROOF
<1>1. \A f \in Files : docs'[f] \in {docs[f], None}
  BY DEF Open, Empty
<1>2. DOMAIN docs' = Files /\ model' = m
  BY DEF Open, Empty, DocInv, TypeOK
<1> QED
  BY <1>1, <1>2, FilesStay, DocsStay

LEMMA SwitchModelKeeps ==
  ASSUME DocInv, Overlap = FALSE, NEW j \in Jobs, NEW m \in Models, SwitchModel(j, m)
  PROVE  DocInv'
PROOF
<1>0. TypeOK
  BY DEF DocInv
<1> DEFINE b == EachJob(Sorted(Present), m, file)
<1>1. /\ Open(m) /\ UNCHANGED <<file, written, config>>
      /\ job' = job \/ job' = [Disturbed(job, j) EXCEPT ![j] = b]
      /\ \A i \in Jobs : job[i].kind = "none"
  BY DEF SwitchModel, Quiet
<1>2. FilesChange /\ FilesWritten' /\ DocsTell' /\ DOMAIN docs' = Files /\ model' \in Models
  BY <1>1, OpenKeeps, FilesStay
<1>3. b = NoJob \/ (b \in EachJobs /\ SingleTells(file, b))
  <2>1. Sorted(Present) \in Seq(Files)
    <3>1. Present \in SUBSET Files
      BY DEF Present
    <3>2. Cardinality(Present) \in Nat /\ Sorted(Present) \in [1..Cardinality(Present) -> Present]
      BY <3>1, SortedNames
    <3>3. Sorted(Present) \in [1..Cardinality(Present) -> Files]
      BY <3>1, <3>2
    <3> QED
      BY <3>2, <3>3, SeqDef
  <2>2. file \in [Files -> Contents \cup {0}]
    BY <1>0 DEF TypeOK
  <2> QED
    BY <1>0, <2>1, <2>2, EachJobTells
<1> HIDE DEF b
<1>4. b \in TypedJobs /\ BatchPlace(b) /\ BatchTells(file', written', b) /\ SingleTells(file', b)
  BY <1>1, <1>3, NoJobTells, EachTells
<1>5. job' \in [Jobs -> TypedJobs] /\ JobsTell'
  <2>1. CASE job' = job
    BY <1>1, <1>2, <2>1, NobodysStep
  <2>2. CASE job' = [Disturbed(job, j) EXCEPT ![j] = b]
    BY <1>1, <1>2, <1>4, <2>2, JobsStep
  <2> QED
    BY <1>1, <2>1, <2>2
<1> QED
  BY <1>0, <1>1, <1>2, <1>5 DEF DocInv, TypeOK

\* A document stored alone is hashed when it is stored, and has the text of its file.
LEMMA EmbedOneKeeps ==
  ASSUME DocInv, NEW j \in Jobs, EmbedOne(j)
  PROVE  DocInv'
PROOF
<1>0. TypeOK
  BY DEF DocInv
<1> DEFINE b == job[j]
           r == b.read[1]
           d == EachJob(b.todo, b.model, file)
           e == [r EXCEPT !.hash = file[r.file]]
<1>1. /\ b.kind = "each" /\ UNCHANGED <<file, written, model, config>>
      /\ job' = [Disturbed(job, j) EXCEPT ![j] = d]
      /\ docs' = docs \/ (file[r.file] # 0 /\ docs' = Inserted(<<e>>, Embedded(ChunksOf[r.text], b.model)))
  BY DEF EmbedOne
<1>2. b \in EachJobs /\ b.todo \in Seq(Files) /\ b.model \in Models
      /\ r \in Reading /\ r.text = file[r.file]
  <2>1. b \in TypedJobs /\ SingleTells(file, b)
    BY DEF DocInv, TypeOK, JobsTell
  <2>2. b \in EachJobs
    BY <1>1, <2>1, KindTells
  <2>3. b.todo \in Seq(Files) /\ b.model \in Models /\ b.read \in Seq(Reading)
    BY <2>2 DEF EachJobs
  <2>4. Len(b.read) = 1 /\ r.text = file[r.file]
    BY <1>1, <2>1 DEF SingleTells
  <2>5. r \in Reading
    BY <2>3, <2>4, ElementOfSeq
  <2> QED
    BY <2>2, <2>3, <2>4, <2>5
<1> HIDE DEF b
<1>3. d = NoJob \/ (d \in EachJobs /\ SingleTells(file, d))
  <2>1. file \in [Files -> Contents \cup {0}]
    BY <1>0 DEF TypeOK
  <2> QED
    BY <1>0, <1>2, <2>1, EachJobTells
<1> HIDE DEF d
<1>4. d \in TypedJobs /\ BatchPlace(d) /\ BatchTells(file', written', d) /\ SingleTells(file', d)
  BY <1>1, <1>3, NoJobTells, EachTells
<1>5. FilesChange /\ FilesWritten'
  BY <1>1, FilesStay
<1>6. job' \in [Jobs -> TypedJobs] /\ JobsTell'
  BY <1>1, <1>4, <1>5, JobsStep
<1>7. DOMAIN docs' = Files /\ DocsTell'
  <2>1. CASE docs' = docs
    BY <1>0, <1>5, <2>1, DocsStay DEF TypeOK
  <2>2. CASE file[r.file] # 0 /\ docs' = Inserted(<<e>>, Embedded(ChunksOf[r.text], b.model))
    <3> HIDE DEF r
    <3>1. r.file \in Files /\ file[r.file] \in 1..written /\ file[r.file] \in Nat
      <4>1. r.file \in Files
        BY <1>2 DEF Reading
      <4>2. file[r.file] \in 0..written /\ written \in Nat
        BY <4>1 DEF DocInv, TypeOK, FilesWritten
      <4> QED
        BY <2>2, <4>1, <4>2
    <3>2. e \in Reading /\ e.file = r.file /\ e.hash = file[r.file] /\ e.text = file[r.file]
      BY <1>2, <3>1 DEF Reading
    <3> HIDE DEF e
    <3>3. Tells(file, written, e.file, e.hash, e.text)
      BY <3>1, <3>2 DEF Tells
    <3> DEFINE read == <<e>>
    <3>4. read \in Seq(Reading) /\ Len(read) = 1 /\ read[1] = e
      BY <3>2
    <3>5. docs' = Inserted(read, Embedded(ChunksOf[r.text], b.model))
      BY <2>2
    <3> HIDE DEF read
    <3>6. \A i \in 1..Len(read) : Tells(file, written, read[i].file, read[i].hash, read[i].text)
      BY <3>3, <3>4
    <3> QED
      BY <1>1, <3>4, <3>5, <3>6, InsertedTells
  <2> QED
    BY <1>1, <2>1, <2>2
<1> QED
  BY <1>0, <1>1, <1>5, <1>6, <1>7 DEF DocInv, TypeOK

LEMMA DeleteDocumentKeeps ==
  ASSUME DocInv, NEW f \in Files, DeleteDocument(f)
  PROVE  DocInv'
PROOF
<1>0. TypeOK
  BY DEF DocInv
<1>1. docs' = [docs EXCEPT ![f] = None] /\ job' = Disturbed(job, None) /\ UNCHANGED <<file, written, model, config>>
  BY DEF DeleteDocument
<1>2. FilesChange /\ FilesWritten'
  BY <1>1, FilesStay
<1>3. DOMAIN docs' = Files /\ \A g \in Files : docs'[g] \in {docs[g], None}
  BY <1>0, <1>1 DEF TypeOK
<1>4. job' \in [Jobs -> TypedJobs] /\ JobsTell' /\ DocsTell'
  BY <1>1, <1>2, <1>3, NobodysStep, DocsStay
<1> QED
  BY <1>0, <1>1, <1>2, <1>3, <1>4 DEF DocInv, TypeOK

LEMMA SaveEmbeddingKeeps ==
  ASSUME DocInv, NEW m \in Models \cup {None}, SaveEmbedding(m)
  PROVE  DocInv'
PROOF
<1>0. TypeOK
  BY DEF DocInv
<1>1. /\ config' = m /\ UNCHANGED <<file, written>>
      /\ \/ m # None /\ Open(m) /\ job' = Disturbed(job, None)
         \/ UNCHANGED <<docs, model, job>>
  BY DEF SaveEmbedding, store
<1>2. FilesChange /\ FilesWritten'
  BY <1>1, FilesStay
<1>3. job' \in [Jobs -> TypedJobs] /\ JobsTell'
  BY <1>1, <1>2, NobodysStep
<1>4. DocsTell' /\ DOMAIN docs' = Files /\ model' \in Models
  <2>1. CASE m # None /\ Open(m)
    BY <1>1, <2>1, OpenKeeps
  <2>2. CASE UNCHANGED <<docs, model>>
    BY <1>0, <1>2, <2>2, DocsStay DEF TypeOK
  <2> QED
    BY <1>1, <2>1, <2>2
<1> QED
  BY <1>0, <1>1, <1>2, <1>3, <1>4 DEF DocInv, TypeOK

\* A restart forgets all requests.
LEMMA RestartKeeps ==
  ASSUME DocInv, Restart
  PROVE  DocInv'
PROOF
<1>0. TypeOK
  BY DEF DocInv
<1> DEFINE m == IF config = None THEN Default ELSE config
<1>1. job' = [j \in Jobs |-> NoJob] /\ Open(m) /\ UNCHANGED <<file, written, config>>
  BY DEF Restart
<1>2. m \in Models
  BY <1>0, ModelsAssumption DEF TypeOK
<1> HIDE DEF m
<1>3. FilesChange /\ FilesWritten' /\ DocsTell' /\ DOMAIN docs' = Files /\ model' \in Models
  BY <1>1, <1>2, OpenKeeps, FilesStay
<1>4. job' \in [Jobs -> TypedJobs] /\ JobsTell'
  BY <1>1, NoJobTells DEF JobsTell
<1> QED
  BY <1>0, <1>1, <1>3, <1>4 DEF DocInv, TypeOK

LEMMA InitTells == Init => DocInv
PROOF
<1> SUFFICES ASSUME Init PROVE DocInv
  OBVIOUS
<1>1. TypeOK
  BY NoJobTells, ModelsAssumption DEF Init, TypeOK, Empty
<1>2. FilesWritten /\ DocsTell
  BY DEF Init, FilesWritten, DocsTell, Empty
<1>3. JobsTell
  BY NoJobTells DEF Init, JobsTell
<1> QED
  BY <1>1, <1>2, <1>3 DEF DocInv

LEMMA DocInvStep ==
  ASSUME Overlap = FALSE, DocInv, [Next]_vars
  PROVE  DocInv'
PROOF
<1>1. CASE UNCHANGED vars
  <2>1. UNCHANGED <<file, written, model, config, docs, job>>
    BY <1>1 DEF vars, store
  <2>2. FilesChange /\ FilesWritten'
    BY <2>1, FilesStay
  <2>3. JobsTell' /\ DocsTell'
    BY <2>1, <2>2, NobodysStep, DocsStay
  <2> QED
    BY <2>1, <2>2, <2>3 DEF DocInv, TypeOK
<1>2. ASSUME NEW j \in Jobs, NEW again \in BOOLEAN, StartIndex(j, again) PROVE DocInv'
  BY <1>2, StartIndexKeeps
<1>3. ASSUME NEW j \in Jobs, Warm(j) \/ ReadFile(j) \/ EmbedBatch(j) \/ SaveBatch(j) \/ Return(j) PROVE DocInv'
  BY <1>3, WarmKeeps, ReadFileKeeps, EmbedBatchKeeps, SaveBatchKeeps, ReturnKeeps
<1>4. ASSUME NEW j \in Jobs, NEW f \in Files, Upload(j, f) PROVE DocInv'
  BY <1>4, UploadKeeps
<1>5. ASSUME NEW j \in Jobs, NEW m \in Models, SwitchModel(j, m) PROVE DocInv'
  BY <1>5, SwitchModelKeeps
<1>6. ASSUME NEW j \in Jobs, EmbedOne(j) PROVE DocInv'
  BY <1>6, EmbedOneKeeps
<1>7. ASSUME NEW f \in Files, DeleteDocument(f) \/ Edit(f) PROVE DocInv'
  BY <1>7, DeleteDocumentKeeps, EditKeeps
<1>8. ASSUME NEW m \in Models \cup {None}, SaveEmbedding(m) PROVE DocInv'
  BY <1>8, SaveEmbeddingKeeps
<1>9. ASSUME Restart PROVE DocInv'
  BY <1>9, RestartKeeps
<1> QED
  BY <1>1, <1>2, <1>3, <1>4, <1>5, <1>6, <1>7, <1>8, <1>9 DEF Next

---------------------------------------------------------------------------
(* The theorem.                                                            *)

\* When nothing overlaps with what it meets, a stored document with the hash that its
\* file has now has the text that the file has now, so that index_directory skips no
\* file whose stored text is an old one.
THEOREM HashesTell == ASSUME Overlap = FALSE PROVE Spec => []HashTellsText
PROOF
<1>1. DocInv => HashTellsText
  BY DEF DocInv, DocsTell, Tells, HashTellsText
<1>2. DocInv /\ [Next]_vars => DocInv'
  BY DocInvStep
<1> QED
  BY <1>1, <1>2, InitTells, PTL DEF Spec

---------------------------------------------------------------------------
(* Indexing again refreshes.                                               *)

\* A document is not taken for the absence of one.
NoneIsNoDocument == \A h, t, v : [hash |-> h, text |-> t, vecs |-> v] # None

HasText(files, f) == files[f] # 0 /\ ChunksOf[files[f]] # <<>>
StoredAs(stored, f, text) == stored[f] # None /\ stored[f].text = text
Named(list, f) == \E i \in 1..Len(list) : list[i].file = f

\* As long as a request was alone and had no error, it has read what is there, and
\* every file with text is stored, read or still to do.
Fresh(files, stored, b) ==
  b.kind = "index" /\ b.alone /\ b.errors = 0 =>
    /\ \A i \in 1..Len(b.read) : b.read[i].text = files[b.read[i].file]
    /\ \A f \in Files : HasText(files, f) => StoredAs(stored, f, files[f]) \/ Named(b.todo, f) \/ Named(b.read, f)

\* The store is opened for the model of the retriever.
Opened == dims = Dims[model] /\ claim = model

FreshInv == DocInv /\ Opened /\ \A j \in Jobs : Fresh(file, docs, job[j])

\* Whoever was not disturbed when files or documents changed is nobody else.
LEMMA FreshMoves ==
  ASSUME FreshInv, NEW j \in Jobs, NEW b,
         \/ job' = [job EXCEPT ![j] = b] /\ UNCHANGED <<file, docs>>
         \/ job' = [Disturbed(job, j) EXCEPT ![j] = b],
         Fresh(file', docs', b)
  PROVE  \A i \in Jobs : Fresh(file', docs', job'[i])
PROOF
<1>0. job \in [Jobs -> TypedJobs]
  BY DEF FreshInv, DocInv, TypeOK
<1>1. CASE job' = [job EXCEPT ![j] = b] /\ UNCHANGED <<file, docs>>
  BY <1>0, <1>1 DEF FreshInv
<1>2. CASE job' = [Disturbed(job, j) EXCEPT ![j] = b]
  <2>1. /\ Disturbed(job, j) \in [Jobs -> TypedJobs]
        /\ \A i \in Jobs : Same(job[i], Disturbed(job, j)[i])
        /\ \A i \in Jobs : i # j /\ job[i].kind = "index" => ~Disturbed(job, j)[i].alone
    BY <1>0, DisturbedJobs
  <2>2. ASSUME NEW i \in Jobs, i # j PROVE Fresh(file', docs', job'[i])
    <3>1. job'[i] = Disturbed(job, j)[i]
      BY <1>2, <2>1, <2>2
    <3> QED
      BY <2>1, <2>2, <3>1 DEF Fresh, Same
  <2> QED
    BY <1>2, <2>1, <2>2
<1> QED
  BY <1>1, <1>2

LEMMA FreshStays ==
  ASSUME FreshInv, job' = Disturbed(job, None) \/ UNCHANGED <<file, docs, job>>
  PROVE  \A i \in Jobs : Fresh(file', docs', job'[i])
PROOF
<1>1. CASE job' = Disturbed(job, None)
  <2>1. job \in [Jobs -> TypedJobs]
    BY DEF FreshInv, DocInv, TypeOK
  <2>2. /\ \A i \in Jobs : Same(job[i], job'[i])
        /\ \A i \in Jobs : job[i].kind = "index" => ~job'[i].alone
    BY <1>1, <2>1, DisturbedJobs, JobsAssumption
  <2> QED
    BY <2>2 DEF Fresh, Same
<1>2. CASE UNCHANGED <<file, docs, job>>
  BY <1>2 DEF FreshInv
<1> QED
  BY <1>1, <1>2

\* A batch is over when all it has read is stored.
LEMMA NextBatchFresh ==
  ASSUME NEW b \in IndexJob, NEW files, NEW stored,
         b.alone /\ b.errors = 0 =>
           \A f \in Files : HasText(files, f) => StoredAs(stored, f, files[f]) \/ Named(b.todo, f)
  PROVE  Fresh(files, stored, NextBatch(b))
PROOF
<1> DEFINE c == NextBatch(b)
<1>1. c.todo = b.todo /\ c.read = <<>> /\ c.alone = b.alone /\ c.errors = b.errors
  BY DEF NextBatch, IndexJob
<1> HIDE DEF c
<1>2. Len(<<>>) = 0
  BY EmptySeq
<1> QED
  BY <1>1, <1>2 DEF Fresh, Named, c

LEMMA AfterFresh ==
  ASSUME NEW c \in IndexJob, NEW files, NEW stored, Fresh(files, stored, c)
  PROVE  LET b == IF c.left > 0 THEN c ELSE IF c.read # <<>> THEN [c EXCEPT !.at = "embed"] ELSE NextBatch(c)
         IN Fresh(files, stored, b)
PROOF
<1>1. c.kind = "index"
  BY IndexIsTyped
<1>2. Fresh(files, stored, [c EXCEPT !.at = "embed"])
  <2> DEFINE b == [c EXCEPT !.at = "embed"]
  <2>1. b.todo = c.todo /\ b.read = c.read /\ b.alone = c.alone /\ b.errors = c.errors
    BY DEF IndexJob
  <2> HIDE DEF b
  <2>2. Fresh(files, stored, b)
    BY <1>1, <2>1 DEF Fresh
  <2> QED
    BY <2>2 DEF b
<1>3. CASE c.read = <<>>
  <2>1. \A f : ~Named(c.read, f)
    BY <1>3, EmptySeq DEF Named
  <2>2. c.alone /\ c.errors = 0 =>
          \A f \in Files : HasText(files, f) => StoredAs(stored, f, files[f]) \/ Named(c.todo, f)
    BY <1>1, <2>1 DEF Fresh
  <2>3. Fresh(files, stored, NextBatch(c))
    BY <2>2, NextBatchFresh
  <2> QED
    BY <1>3, <2>3
<1> QED
  BY <1>2, <1>3

\* What is unchanged has the text that is stored; all else is to do.
LEMMA StartIndexFresh ==
  ASSUME FreshInv, NEW j \in Jobs, NEW again \in BOOLEAN, StartIndex(j, again)
  PROVE  \A i \in Jobs : Fresh(file', docs', job'[i])
PROOF
<1> DEFINE kept == IF again THEN Empty ELSE docs
           new == {f \in Present : ~Unchanged(kept, f)}
           n == Cardinality(new)
           todo == [i \in 1..n |-> [file |-> Sorted(new)[i], hash |-> file[Sorted(new)[i]]]]
           b == [NoJob EXCEPT !.kind = "index", !.at = "warm", !.model = model, !.todo = todo,
                              !.skipped = Cardinality(Present \ new), !.total = Cardinality(Present)]
<1>1. docs' = kept /\ job' = [Disturbed(job, j) EXCEPT ![j] = b] /\ file' = file
  BY DEF StartIndex
<1>2. b.todo = todo /\ b.read = <<>>
  BY DEF NoJob
<1> HIDE DEF b
<1>3. ASSUME NEW f \in Files, HasText(file, f)
      PROVE  StoredAs(kept, f, file[f]) \/ Named(todo, f)
  <2>1. f \in Present
    BY <1>3 DEF HasText, Present
  <2>2. CASE Unchanged(kept, f)
    <3>1. kept = docs
      BY <2>2 DEF Unchanged, Empty
    <3>2. docs[f] # None /\ docs[f].hash = file[f]
      BY <2>2, <3>1 DEF Unchanged
    <3>3. docs[f].text = file[f]
      BY <3>2 DEF FreshInv, DocInv, DocsTell, Tells
    <3> QED
      BY <3>1, <3>2, <3>3 DEF StoredAs
  <2>3. CASE ~Unchanged(kept, f)
    <3>1. f \in new /\ new \in SUBSET Files
      BY <2>1, <2>3 DEF Present
    <3> HIDE DEF new
    <3>2. n \in Nat /\ \E i \in 1..n : Sorted(new)[i] = f
      BY <3>1, SortedNames
    <3>3. PICK i \in 1..n : todo[i].file = f
      BY <3>2
    <3>4. Len(todo) = n
      BY <3>2
    <3> QED
      BY <3>3, <3>4 DEF Named
  <2> QED
    BY <2>2, <2>3
<1> HIDE DEF kept, todo
<1>4. Fresh(file', docs', b)
  <2>1. Len(<<>>) = 0
    BY EmptySeq
  <2> QED
    BY <1>1, <1>2, <1>3, <2>1 DEF Fresh
<1> QED
  BY <1>1, <1>4, FreshMoves

LEMMA WarmFresh ==
  ASSUME FreshInv, NEW j \in Jobs, Warm(j)
  PROVE  \A i \in Jobs : Fresh(file', docs', job'[i])
PROOF
<1>1. /\ job[j].at = "warm" /\ UNCHANGED <<file, docs>>
      /\ job' = [job EXCEPT ![j] = NextBatch(job[j])] \/ job' = [job EXCEPT ![j] = NoJob]
  BY DEF Warm, store
<1>2. job[j] \in IndexJob /\ job[j].kind = "index" /\ job[j].read = <<>> /\ Fresh(file, docs, job[j])
  <2>1. job[j] \in IndexJob /\ job[j].kind = "index" /\ BatchPlace(job[j])
    BY <1>1, IndexAt DEF FreshInv
  <2> QED
    BY <1>1, <2>1 DEF BatchPlace, FreshInv
<1>3. \A f : ~Named(job[j].read, f)
  BY <1>2, EmptySeq DEF Named
<1>4. Fresh(file', docs', NextBatch(job[j]))
  <2>1. job[j].alone /\ job[j].errors = 0 =>
          \A f \in Files : HasText(file, f) => StoredAs(docs, f, file[f]) \/ Named(job[j].todo, f)
    BY <1>2, <1>3 DEF Fresh
  <2> QED
    BY <1>1, <1>2, <2>1, NextBatchFresh
<1>5. Fresh(file', docs', NoJob)
  BY NoJobTells DEF Fresh
<1> QED
  BY <1>1, <1>4, <1>5, FreshMoves

\* A file that was read has the text that is there; one that is skipped has none.
LEMMA ReadFileFresh ==
  ASSUME FreshInv, NEW j \in Jobs, ReadFile(j)
  PROVE  \A i \in Jobs : Fresh(file', docs', job'[i])
PROOF
<1> DEFINE b == job[j]
           entry == Head(b.todo)
           rest == [b EXCEPT !.todo = Tail(@), !.left = @ - 1]
           text == file[entry.file]
           After(c) == IF c.left > 0 THEN c ELSE IF c.read # <<>> THEN [c EXCEPT !.at = "embed"] ELSE NextBatch(c)
           errs == [rest EXCEPT !.errors = @ + 1]
           skips == [rest EXCEPT !.skipped = @ + 1]
           reads == [rest EXCEPT !.read = Append(@, AsRead(entry))]
<1>1. /\ b.at = "read" /\ UNCHANGED <<file, docs>>
      /\ \/ job' = [job EXCEPT ![j] = After(errs)]
         \/ text # 0 /\ ChunksOf[text] = <<>> /\ job' = [job EXCEPT ![j] = After(skips)]
         \/ text # 0 /\ job' = [job EXCEPT ![j] = After(reads)]
  BY DEF ReadFile, store
<1>2. /\ b \in IndexJob /\ b.kind = "index" /\ Fresh(file, docs, b)
      /\ b.todo \in Seq(Hashed) /\ Len(b.todo) \in Nat /\ b.read \in Seq(Reading) /\ Len(b.read) \in Nat
      /\ b.left \in 1..Len(b.todo) /\ b.skipped \in Nat /\ b.errors \in Nat /\ b.alone \in BOOLEAN
  <2>1. b \in IndexJob /\ b.kind = "index" /\ BatchPlace(b) /\ b \in TypedJobs
    BY <1>1, IndexAt, IndexIsTyped DEF FreshInv
  <2>2. b.skipped \in Nat /\ b.errors \in Nat /\ b.alone \in BOOLEAN
    BY <2>1 DEF IndexJob
  <2> QED
    BY <1>1, <2>1, <2>2, KindTells DEF BatchPlace, FreshInv
<1>3. /\ Tail(b.todo) \in Seq(Hashed) /\ Len(Tail(b.todo)) = Len(b.todo) - 1 /\ entry = b.todo[1] /\ entry \in Hashed
      /\ \A i \in 1..Len(Tail(b.todo)) : Tail(b.todo)[i] = b.todo[i + 1]
  <2>1. b.todo # <<>>
    BY <1>2, EmptySeq
  <2> QED
    BY <1>2, <2>1, HeadTailProperties
<1>4. \A f : Named(b.todo, f) => f = entry.file \/ Named(Tail(b.todo), f)
  <2>1. ASSUME NEW f, NEW i \in 1..Len(b.todo), b.todo[i].file = f PROVE f = entry.file \/ Named(Tail(b.todo), f)
    <3>1. CASE i = 1
      BY <1>3, <2>1, <3>1
    <3>2. CASE i # 1
      <4>1. i - 1 \in 1..Len(Tail(b.todo)) /\ (i - 1) + 1 = i
        BY <1>2, <1>3, <3>2
      <4>2. Tail(b.todo)[i - 1].file = f
        BY <1>3, <2>1, <4>1
      <4> QED
        BY <4>1, <4>2 DEF Named
    <3> QED
      BY <3>1, <3>2
  <2> QED
    BY <2>1 DEF Named
<1>5. /\ rest \in IndexJob /\ rest.todo = Tail(b.todo) /\ rest.read = b.read /\ rest.errors = b.errors
      /\ rest.alone = b.alone /\ rest.skipped = b.skipped
  <2>1. b.left - 1 \in Nat
    BY <1>2
  <2> QED
    BY <1>2, <1>3, <2>1 DEF IndexJob
<1>6. ASSUME NEW c \in IndexJob, Fresh(file, docs, c), job' = [job EXCEPT ![j] = After(c)]
      PROVE  \A i \in Jobs : Fresh(file', docs', job'[i])
  <2> DEFINE d == After(c)
  <2>1. Fresh(file', docs', d)
    BY <1>1, <1>6, AfterFresh
  <2>2. job' = [job EXCEPT ![j] = d]
    BY <1>6
  <2> HIDE DEF d
  <2> QED
    BY <1>1, <2>1, <2>2, FreshMoves
<1> HIDE DEF rest, b, text, After
<1>7. CASE job' = [job EXCEPT ![j] = After(errs)]
  <2>1. rest.errors + 1 \in Nat /\ rest.errors + 1 # 0
    BY <1>2, <1>5
  <2>2. errs \in IndexJob /\ errs.errors # 0
    BY <1>5, <2>1 DEF IndexJob
  <2> HIDE DEF errs
  <2>3. Fresh(file, docs, errs)
    BY <2>2 DEF Fresh
  <2> QED
    BY <1>6, <1>7, <2>2, <2>3
<1>8. CASE text # 0 /\ ChunksOf[text] = <<>> /\ job' = [job EXCEPT ![j] = After(skips)]
  <2>1. rest.skipped + 1 \in Nat
    BY <1>2, <1>5
  <2>2. /\ skips \in IndexJob /\ skips.todo = Tail(b.todo) /\ skips.read = b.read /\ skips.errors = b.errors
        /\ skips.alone = b.alone
    BY <1>5, <2>1 DEF IndexJob
  <2> HIDE DEF skips
  <2>3. ~HasText(file, entry.file)
    BY <1>8 DEF HasText, text
  <2>4. Fresh(file, docs, skips)
    BY <1>2, <1>4, <2>2, <2>3 DEF Fresh
  <2> QED
    BY <1>6, <1>8, <2>2, <2>4
<1>9. CASE text # 0 /\ job' = [job EXCEPT ![j] = After(reads)]
  <2> DEFINE more == Append(b.read, AsRead(entry))
  <2>1. AsRead(entry) \in Reading /\ AsRead(entry).file = entry.file /\ AsRead(entry).text = file[entry.file]
    <3>1. file[entry.file] \in Contents /\ entry.hash \in Nat /\ entry.file \in Files
      BY <1>3, <1>9 DEF FreshInv, DocInv, TypeOK, text, Hashed
    <3> QED
      BY <3>1 DEF AsRead, Reading
  <2>2. /\ more \in Seq(Reading) /\ Len(more) = Len(b.read) + 1
        /\ \A i \in 1..Len(b.read) : more[i] = b.read[i]
        /\ more[Len(b.read) + 1] = AsRead(entry)
    BY <1>2, <2>1, AppendProperties
  <2>3. /\ reads \in IndexJob /\ reads.todo = Tail(b.todo) /\ reads.read = more /\ reads.errors = b.errors
        /\ reads.alone = b.alone
    BY <1>5, <2>2 DEF IndexJob
  <2> HIDE DEF reads, more
  <2>4. /\ Len(b.read) + 1 \in 1..Len(more) /\ \A i \in 1..Len(b.read) : i \in 1..Len(more)
        /\ \A i \in 1..Len(more) : i \in 1..Len(b.read) \/ i = Len(b.read) + 1
    BY <1>2, <2>2
  <2>5. \A f : Named(b.read, f) \/ f = entry.file => Named(more, f)
    BY <2>1, <2>2, <2>4 DEF Named
  <2>6. ASSUME reads.alone, reads.errors = 0 PROVE \A i \in 1..Len(more) : more[i].text = file[more[i].file]
    <3>1. \A i \in 1..Len(b.read) : b.read[i].text = file[b.read[i].file]
      BY <1>2, <2>3, <2>6 DEF Fresh
    <3> QED
      BY <2>1, <2>2, <2>4, <3>1
  <2>7. Fresh(file, docs, reads)
    BY <1>2, <1>4, <2>3, <2>5, <2>6 DEF Fresh
  <2> QED
    BY <1>6, <1>9, <2>3, <2>7
<1> QED
  BY <1>1, <1>7, <1>8, <1>9

\* A batch that cannot be embedded or stored is an error.
LEMMA BatchFailed ==
  ASSUME NEW b \in IndexJob, BatchPlace(b), b.at \in {"embed", "save"}, NEW files, NEW stored
  PROVE  Fresh(files, stored, NextBatch([b EXCEPT !.errors = @ + Len(b.read)]))
PROOF
<1> DEFINE c == [b EXCEPT !.errors = @ + Len(b.read)]
<1>1. b.kind = "index" /\ Len(b.read) \in Nat /\ b.errors \in Nat
  <2>1. b.errors \in Nat
    BY DEF IndexJob
  <2> QED
    BY <2>1, IndexIsTyped, KindTells
<1>2. b.errors + Len(b.read) \in Nat /\ b.errors + Len(b.read) # 0
  BY <1>1 DEF BatchPlace
<1>3. c \in IndexJob /\ c.errors # 0
  BY <1>2 DEF IndexJob
<1> HIDE DEF c
<1>4. Fresh(files, stored, NextBatch(c))
  BY <1>3, NextBatchFresh
<1> QED
  BY <1>4 DEF c

LEMMA EmbedBatchFresh ==
  ASSUME FreshInv, NEW j \in Jobs, EmbedBatch(j)
  PROVE  \A i \in Jobs : Fresh(file', docs', job'[i])
PROOF
<1> DEFINE b == job[j]
           saves == [b EXCEPT !.at = "save"]
           fails == [b EXCEPT !.errors = @ + Len(b.read)]
<1>1. /\ b.at = "embed" /\ b.kind = "index" /\ UNCHANGED <<file, docs>>
      /\ job' = [job EXCEPT ![j] = saves] \/ job' = [job EXCEPT ![j] = NextBatch(fails)]
  <2>1. /\ b.at = "embed" /\ b.kind = "index" /\ UNCHANGED <<file, docs>>
        /\ \/ job' = [job EXCEPT ![j].at = "save"]
           \/ job' = [job EXCEPT ![j] = NextBatch(fails)]
    BY DEF EmbedBatch, store
  <2>2. ASSUME job' = [job EXCEPT ![j].at = "save"] PROVE job' = [job EXCEPT ![j] = saves]
    BY <2>2
  <2> QED
    BY <2>1, <2>2
<1>2. b \in IndexJob /\ BatchPlace(b) /\ Fresh(file, docs, b)
  BY <1>1, IndexAt DEF FreshInv
<1> HIDE DEF b
<1>3. Fresh(file', docs', NextBatch(fails))
  BY <1>1, <1>2, BatchFailed
<1>4. Fresh(file', docs', saves)
  <2>1. /\ saves.kind = b.kind /\ saves.todo = b.todo /\ saves.read = b.read /\ saves.errors = b.errors
        /\ saves.alone = b.alone
    BY <1>2 DEF IndexJob
  <2> HIDE DEF saves
  <2> QED
    BY <1>1, <1>2, <2>1 DEF Fresh
<1> HIDE DEF saves, fails
<1> QED
  BY <1>1, <1>3, <1>4, FreshMoves

\* What was read is stored, and nothing is lost.
LEMMA SaveBatchFresh ==
  ASSUME FreshInv, NoneIsNoDocument, NEW j \in Jobs, SaveBatch(j)
  PROVE  \A i \in Jobs : Fresh(file', docs', job'[i])
PROOF
<1> DEFINE b == job[j]
           saved == [b EXCEPT !.indexed = @ + Len(b.read)]
           fails == [b EXCEPT !.errors = @ + Len(b.read)]
           vecs == Embedded(TextsOf(b.read), b.model)
<1>1. /\ b.at = "save" /\ file' = file
      /\ \/ docs' = Inserted(b.read, vecs) /\ job' = [Disturbed(job, j) EXCEPT ![j] = NextBatch(saved)]
         \/ docs' = docs /\ job' = [job EXCEPT ![j] = NextBatch(fails)]
  BY DEF SaveBatch
<1>2. b \in IndexJob /\ b.kind = "index" /\ BatchPlace(b) /\ Fresh(file, docs, b)
  BY <1>1, IndexAt DEF FreshInv
<1> HIDE DEF b
<1>3. CASE docs' = docs /\ job' = [job EXCEPT ![j] = NextBatch(fails)]
  <2>1. Fresh(file', docs', NextBatch(fails))
    BY <1>1, <1>2, BatchFailed
  <2> HIDE DEF fails
  <2> QED
    BY <1>1, <1>3, <2>1, FreshMoves
<1>4. CASE docs' = Inserted(b.read, vecs) /\ job' = [Disturbed(job, j) EXCEPT ![j] = NextBatch(saved)]
  <2>1. b.read \in Seq(Reading) /\ Len(b.read) \in Nat /\ b.indexed \in Nat
    <3>1. b.indexed \in Nat
      BY <1>2 DEF IndexJob
    <3> QED
      BY <1>2, <3>1, IndexIsTyped, KindTells
  <2>2. saved \in IndexJob /\ saved.todo = b.todo /\ saved.alone = b.alone /\ saved.errors = b.errors
    <3>1. b.indexed + Len(b.read) \in Nat
      BY <2>1
    <3> QED
      BY <1>2, <3>1 DEF IndexJob
  <2> HIDE DEF saved, vecs
  <2>3. ASSUME saved.alone, saved.errors = 0, NEW f \in Files, HasText(file, f)
        PROVE  StoredAs(docs', f, file[f]) \/ Named(saved.todo, f)
    <3>1. /\ \A i \in 1..Len(b.read) : b.read[i].text = file[b.read[i].file]
          /\ StoredAs(docs, f, file[f]) \/ Named(b.todo, f) \/ Named(b.read, f)
      BY <1>2, <2>2, <2>3 DEF Fresh
    <3> DEFINE read == b.read
    <3>0. docs' = Inserted(read, vecs) /\ read \in Seq(Reading)
      BY <1>4, <2>1
    <3> HIDE DEF read
    <3>2. \/ (\A i \in 1..Len(read) : read[i].file # f) /\ docs'[f] = docs[f]
          \/ \E i \in 1..Len(read) :
               /\ read[i].file = f
               /\ docs'[f] = [hash |-> read[i].hash, text |-> read[i].text, vecs |-> Part(vecs, read, i)]
      <4>1. OldOrRead(read, vecs, f, docs'[f])
        BY <3>0, InsertedDocs
      <4> QED
        BY <4>1 DEF OldOrRead
    <3> USE DEF read
    <3>3. CASE \A i \in 1..Len(b.read) : b.read[i].file # f
      BY <2>2, <3>1, <3>2, <3>3 DEF Named, StoredAs
    <3>4. ASSUME NEW i \in 1..Len(b.read), b.read[i].file = f,
                 docs'[f] = [hash |-> b.read[i].hash, text |-> b.read[i].text, vecs |-> Part(vecs, b.read, i)]
          PROVE  StoredAs(docs', f, file[f])
      <4>1. docs'[f] # None /\ docs'[f].text = b.read[i].text
        BY <3>4 DEF NoneIsNoDocument
      <4>2. b.read[i].text = file[f]
        BY <3>1, <3>4
      <4> QED
        BY <4>1, <4>2 DEF StoredAs
    <3> QED
      BY <3>2, <3>3, <3>4
  <2>4. Fresh(file', docs', NextBatch(saved))
    BY <1>1, <2>2, <2>3, NextBatchFresh
  <2> QED
    BY <1>4, <2>4, FreshMoves
<1> QED
  BY <1>1, <1>3, <1>4

\* Other requests are not those of a directory.
LEMMA OtherFresh ==
  ASSUME FreshInv, NEW j \in Jobs, NEW b, b.kind # "index",
         \/ job' = [job EXCEPT ![j] = b] /\ UNCHANGED <<file, docs>>
         \/ job' = [Disturbed(job, j) EXCEPT ![j] = b]
  PROVE  \A i \in Jobs : Fresh(file', docs', job'[i])
PROOF
<1>1. Fresh(file', docs', b)
  BY DEF Fresh
<1> QED
  BY <1>1, FreshMoves

LEMMA EachKind ==
  ASSUME NEW todo, NEW m, NEW content
  PROVE  EachJob(todo, m, content).kind # "index"
PROOF
  BY DEF EachJob, NoJob

\* A retriever that is replaced by one with the same model keeps its documents.
LEMMA SwitchModelFresh ==
  ASSUME FreshInv, NEW j \in Jobs, NEW m \in Models, SwitchModel(j, m)
  PROVE  \A i \in Jobs : Fresh(file', docs', job'[i])
PROOF
<1>1. /\ Open(m) /\ file' = file
      /\ job' = IF model = m THEN job ELSE [Disturbed(job, j) EXCEPT ![j] = EachJob(Sorted(Present), m, file)]
  BY DEF SwitchModel
<1>2. CASE model = m
  <2>1. docs' = docs
    BY <1>1, <1>2 DEF Open, Stale, FreshInv, Opened
  <2> QED
    BY <1>1, <1>2, <2>1, FreshStays
<1>3. CASE model # m
  BY <1>1, <1>3, OtherFresh, EachKind
<1> QED
  BY <1>2, <1>3

\* The store is always opened for the model of the retriever.
LEMMA OpenedStep ==
  ASSUME Opened, [Next]_vars
  PROVE  Opened'
PROOF
<1> DEFINE Kept == (\E m : Open(m)) \/ UNCHANGED <<dims, claim, model>>
<1>1. ASSUME UNCHANGED vars PROVE UNCHANGED <<dims, claim, model>>
  BY <1>1 DEF vars, store
<1>2. ASSUME NEW j \in Jobs,
             \/ \E again \in BOOLEAN : StartIndex(j, again)
             \/ Warm(j) \/ ReadFile(j) \/ EmbedBatch(j) \/ SaveBatch(j) \/ Return(j)
      PROVE  UNCHANGED <<dims, claim, model>>
  BY <1>2 DEF StartIndex, Warm, ReadFile, EmbedBatch, SaveBatch, Return, store
<1>3. ASSUME NEW j \in Jobs, (\E f \in Files : Upload(j, f)) \/ (\E m \in Models : SwitchModel(j, m)) \/ EmbedOne(j)
      PROVE  Kept
  BY <1>3 DEF Upload, SwitchModel, EmbedOne, store
<1>4. ASSUME NEW f \in Files, DeleteDocument(f) \/ Edit(f) PROVE Kept
  BY <1>4 DEF DeleteDocument, Edit, store
<1>5. ASSUME (\E m \in Models \cup {None} : SaveEmbedding(m)) \/ Restart PROVE Kept
  BY <1>5 DEF SaveEmbedding, Restart, store
<1> HIDE DEF Kept
<1>6. ASSUME Next PROVE Kept \/ UNCHANGED <<dims, claim, model>>
  BY <1>6, <1>2, <1>3, <1>4, <1>5 DEF Next
<1>7. (\E m : Open(m)) \/ UNCHANGED <<dims, claim, model>>
  BY <1>1, <1>6 DEF Kept
<1> QED
  BY <1>7 DEF Open, Opened

LEMMA FreshStep ==
  ASSUME Overlap = FALSE, NoneIsNoDocument, FreshInv, [Next]_vars
  PROVE  FreshInv'
PROOF
<1>1. DocInv'
  BY DocInvStep DEF FreshInv
<1>2. Opened'
  BY OpenedStep DEF FreshInv
<1> DEFINE Goal == \A i \in Jobs : Fresh(file', docs', job'[i])
<1>3. ASSUME UNCHANGED vars PROVE Goal
  <2>1. UNCHANGED <<file, docs, job>>
    BY <1>3 DEF vars, store
  <2> QED
    BY <2>1, FreshStays
<1>4. ASSUME NEW j \in Jobs, NEW again \in BOOLEAN, StartIndex(j, again) PROVE Goal
  BY <1>4, StartIndexFresh
<1>5. ASSUME NEW j \in Jobs, Warm(j) \/ ReadFile(j) \/ EmbedBatch(j) \/ SaveBatch(j) PROVE Goal
  BY <1>5, WarmFresh, ReadFileFresh, EmbedBatchFresh, SaveBatchFresh
<1>6. ASSUME NEW j \in Jobs, Return(j) PROVE Goal
  BY <1>6, NoJobTells, OtherFresh DEF Return, store
<1>7. ASSUME NEW j \in Jobs, NEW f \in Files, Upload(j, f) PROVE Goal
  <2> DEFINE b == EachJob(<<f>>, model, file')
  <2>1. job' = [Disturbed(job, j) EXCEPT ![j] = b]
    BY <1>7 DEF Upload
  <2>2. b.kind # "index"
    BY EachKind
  <2> HIDE DEF b
  <2> QED
    BY <2>1, <2>2, OtherFresh
<1>8. ASSUME NEW j \in Jobs, NEW m \in Models, SwitchModel(j, m) PROVE Goal
  BY <1>8, SwitchModelFresh
<1>9. ASSUME NEW j \in Jobs, EmbedOne(j) PROVE Goal
  <2> DEFINE b == EachJob(job[j].todo, job[j].model, file)
  <2>1. job' = [Disturbed(job, j) EXCEPT ![j] = b]
    BY <1>9 DEF EmbedOne
  <2>2. b.kind # "index"
    BY EachKind
  <2> HIDE DEF b
  <2> QED
    BY <2>1, <2>2, OtherFresh
<1>10. ASSUME NEW f \in Files, DeleteDocument(f) \/ Edit(f) PROVE Goal
  BY <1>10, FreshStays DEF DeleteDocument, Edit
<1>11. ASSUME NEW m \in Models \cup {None}, SaveEmbedding(m) PROVE Goal
  BY <1>11, FreshStays DEF SaveEmbedding, store
<1>12. ASSUME Restart PROVE Goal
  BY <1>12, NoJobTells DEF Restart, Fresh
<1> HIDE DEF Goal
<1>13. ASSUME Next PROVE Goal
  BY <1>13, <1>4, <1>5, <1>6, <1>7, <1>8, <1>9, <1>10, <1>11, <1>12 DEF Next
<1>14. Goal
  BY <1>3, <1>13
<1> QED
  BY <1>1, <1>2, <1>14 DEF FreshInv, Goal

\* Indexing a directory, however its steps mix with all others, counts every file once;
\* and when nobody else wrote and nothing failed, the store has the text of every file
\* that has one when the indexing is done (index_directory).
THEOREM IndexRefreshes == ASSUME Overlap = FALSE, NoneIsNoDocument PROVE Spec => []Refreshed
PROOF
<1>1. FreshInv => Refreshed
  <2> SUFFICES ASSUME FreshInv, NEW j \in Jobs, job[j].at = "done"
               PROVE  /\ job[j].indexed + job[j].skipped + job[j].errors = job[j].total
                      /\ job[j].errors = 0 /\ job[j].alone =>
                           \A f \in Present : ChunksOf[file[f]] # <<>> => docs[f] # None /\ docs[f].text = file[f]
    BY DEF Refreshed
  <2>1. /\ job[j] \in IndexJob /\ job[j].kind = "index" /\ BatchPlace(job[j]) /\ Fresh(file, docs, job[j])
        /\ job[j].read = <<>> /\ job[j].todo = <<>>
    BY IndexAt DEF FreshInv, BatchPlace
  <2>2. Counted(job[j].indexed, job[j].skipped, job[j].errors, 0, 0) = job[j].total
    BY <2>1, EmptySeq DEF BatchPlace
  <2>3. job[j].indexed \in Nat /\ job[j].skipped \in Nat /\ job[j].errors \in Nat
    BY <2>1 DEF IndexJob
  <2>4. PICK n \in Nat, s \in Nat, e \in Nat : job[j].indexed = n /\ job[j].skipped = s /\ job[j].errors = e
    BY <2>3
  <2>5. job[j].indexed + job[j].skipped + job[j].errors = job[j].total
    BY <2>2, <2>4 DEF Counted
  <2>6. \A f : ~Named(job[j].read, f) /\ ~Named(job[j].todo, f)
    BY <2>1, EmptySeq DEF Named
  <2>7. ASSUME job[j].errors = 0, job[j].alone, NEW f \in Present, ChunksOf[file[f]] # <<>>
        PROVE  docs[f] # None /\ docs[f].text = file[f]
    <3>1. f \in Files /\ HasText(file, f)
      BY <2>7 DEF Present, HasText
    <3> QED
      BY <2>1, <2>6, <2>7, <3>1 DEF Fresh, StoredAs
  <2> QED
    BY <2>5, <2>7
<1>2. NoneIsNoDocument /\ FreshInv /\ [Next]_vars => FreshInv'
  BY FreshStep
<1>3. Init => FreshInv
  <2>1. Init => Opened /\ \A j \in Jobs : Fresh(file, docs, job[j])
    BY NoJobTells DEF Init, Opened, Fresh
  <2> QED
    BY <2>1, InitTells DEF FreshInv
<1>4. NoneIsNoDocument
  OBVIOUS
<1>5. FreshInv /\ [Next]_vars => FreshInv'
  BY <1>2, <1>4
<1> QED
  BY <1>1, <1>3, <1>5, PTL DEF Spec

---------------------------------------------------------------------------
(* Texts one after the other.                                              *)

\* The sequences that come from the first m of s.
Partial(s, g, m) == g[0] = <<>> /\ \A i \in 1..m : g[i] = g[i - 1] \o s[i]

LEMMA PartialExists ==
  ASSUME NEW T, NEW s \in Seq(Seq(T))
  PROVE  \E g \in [0..Len(s) -> Seq(T)] : Partial(s, g, Len(s))
PROOF
<1>0. Len(s) \in Nat /\ (\A i \in 1..Len(s) : s[i] \in Seq(T)) /\ <<>> \in Seq(T)
  BY LenProperties, ElementOfSeq, EmptySeq
<1> DEFINE Has(m) == \E g \in [0..m -> Seq(T)] : Partial(s, g, m)
           Not == {m \in 0..Len(s) : ~Has(m)}
<1>1. ASSUME Not # {} PROVE FALSE
  <2>1. Not \in SUBSET Nat
    BY <1>0
  <2>2. PICK m \in Not : \A k \in Not : m <= k
    <3> HIDE DEF Not
    <3> QED
      BY <1>1, <2>1, LeastExists
  <2>3. m \in 0..Len(s) /\ m \in Nat
    BY <1>0
  <2>4. CASE m = 0
    <3>1. [i \in 0..m |-> <<>>] \in [0..m -> Seq(T)] /\ Partial(s, [i \in 0..m |-> <<>>], m)
      BY <1>0, <2>4 DEF Partial
    <3> QED
      BY <3>1
  <2>5. CASE m # 0
    <3>a. m - 1 \in 0..Len(s) /\ ~(m <= m - 1)
      BY <1>0, <2>3, <2>5
    <3>b. m - 1 \notin Not
      <4> HIDE DEF Not
      <4> QED
        BY <2>2, <3>a
    <3>1. Has(m - 1)
      BY <3>a, <3>b
    <3>2. PICK g \in [0..(m - 1) -> Seq(T)] : Partial(s, g, m - 1)
      BY <3>1
    <3> DEFINE h == [i \in 0..m |-> IF i = m THEN g[m - 1] \o s[m] ELSE g[i]]
    <3>3. h \in [0..m -> Seq(T)]
      <4>1. g[m - 1] \o s[m] \in Seq(T)
        <5>1. g[m - 1] \in Seq(T) /\ s[m] \in Seq(T)
          BY <1>0, <2>3, <2>5
        <5> QED
          BY <5>1, ConcatProperties
      <4>2. \A i \in 0..m : i # m => i \in 0..(m - 1)
        BY <2>3
      <4> QED
        BY <4>1, <4>2
    <3>4. Partial(s, h, m)
      <4>1. h[0] = <<>>
        BY <2>3, <2>5, <3>2 DEF Partial
      <4>2. ASSUME NEW i \in 1..m PROVE h[i] = h[i - 1] \o s[i]
        <5>1. h[i - 1] = g[i - 1]
          BY <2>3
        <5>2. CASE i = m
          <6>0. m \in 0..m
            BY <2>3
          <6>1. h[m] = g[m - 1] \o s[m]
            BY <6>0
          <6> HIDE DEF h
          <6> QED
            BY <5>1, <5>2, <6>1
        <5>3. CASE i # m
          <6>1. h[i] = g[i] /\ i \in 1..(m - 1)
            BY <2>3, <5>3
          <6> QED
            BY <3>2, <5>1, <6>1 DEF Partial
        <5> QED
          BY <5>2, <5>3
      <4> HIDE DEF h
      <4> QED
        BY <4>1, <4>2 DEF Partial
    <3> HIDE DEF h
    <3> QED
      BY <3>3, <3>4
  <2> QED
    BY <2>4, <2>5
<1>2. Len(s) \in 0..Len(s)
  BY <1>0
<1> QED
  BY <1>1, <1>2

\* FlattenSeq is what comes from all of them.
LEMMA FlattenIsPartial ==
  ASSUME NEW T, NEW p \in Seq(Seq(T)), NEW g, Partial(p, g, Len(p))
  PROVE  FlattenSeq(p) = g[Len(p)]
PROOF
<1> DEFINE n == Len(p)
           F == CHOOSE f : f = [i \in 1..Len(p) |-> IF i = 1 THEN p[i] ELSE f[i - 1] \o p[i]]
           h == [i \in 1..n |-> g[i]]
<1>0. n \in Nat /\ (\A i \in 1..n : p[i] \in Seq(T))
  BY LenProperties, ElementOfSeq
<1>1. CASE n = 0
  <2>1. FlattenSeq(p) = p /\ p = <<>>
    BY <1>1, EmptySeq DEF FlattenSeq
  <2> QED
    BY <1>1, <2>1 DEF Partial
<1>2. CASE n # 0
  <2>1. FlattenSeq(p) = F[n]
    BY <1>2 DEF FlattenSeq
  <2>2. \A i \in 1..n : g[i] = IF i = 1 THEN p[i] ELSE g[i - 1] \o p[i]
    <3>1. ASSUME 1 \in 1..n PROVE g[1] = p[1]
      <4>1. g[1] = g[0] \o p[1] /\ g[0] = <<>> /\ p[1] \in Seq(T)
        <5>1. g[1] = g[1 - 1] \o p[1] /\ g[0] = <<>>
          BY <3>1 DEF Partial
        <5>2. 1 - 1 = 0
          OBVIOUS
        <5> QED
          BY <1>0, <3>1, <5>1, <5>2
      <4> QED
        BY <4>1, ConcatEmptySeq
    <3> QED
      BY <1>0, <3>1 DEF Partial
  <2>3. h = [i \in 1..n |-> IF i = 1 THEN p[i] ELSE h[i - 1] \o p[i]]
    <3>1. ASSUME NEW i \in 1..n PROVE h[i] = IF i = 1 THEN p[i] ELSE h[i - 1] \o p[i]
      BY <1>0, <2>2
    <3> QED
      BY <3>1
  <2>4. F = [i \in 1..n |-> IF i = 1 THEN p[i] ELSE F[i - 1] \o p[i]]
    <3> HIDE DEF h
    <3> QED
      BY <2>3
  <2> HIDE DEF F, h
  <2>5. \A i \in 1..n : F[i] = IF i = 1 THEN p[i] ELSE F[i - 1] \o p[i]
    BY <2>4
  <2> DEFINE Bad == {i \in 1..n : F[i] # g[i]}
  <2>6. ASSUME Bad # {} PROVE FALSE
    <3>1. Bad \in SUBSET Nat
      BY <1>0
    <3>2. PICK i \in Bad : \A k \in Bad : i <= k
      <4> HIDE DEF Bad
      <4> QED
        BY <2>6, <3>1, LeastExists
    <3>3. i # 1
      BY <2>2, <2>5, <3>2
    <3>4. i - 1 \in 1..n /\ i - 1 \notin Bad
      <4>1. i \in 1..n
        OBVIOUS
      <4>2. i - 1 \in 1..n /\ ~(i <= i - 1)
        BY <1>0, <3>3, <4>1
      <4> HIDE DEF Bad
      <4> QED
        BY <3>2, <4>2
    <3> QED
      BY <2>2, <2>5, <3>2, <3>3, <3>4
  <2> QED
    BY <1>0, <1>2, <2>1, <2>6
<1> QED
  BY <1>1, <1>2

\* Two sequences one after the other.
Prefix(a, c) == Len(a) <= Len(c) /\ \A k \in 1..Len(a) : c[k] = a[k]

LEMMA ConcatPlaces ==
  ASSUME NEW T, NEW a \in Seq(T), NEW b \in Seq(T), NEW c, c = a \o b
  PROVE  /\ c \in Seq(T) /\ Len(a) \in Nat /\ Len(b) \in Nat /\ Len(c) = Len(a) + Len(b) /\ Prefix(a, c)
         /\ \A k \in 1..Len(b) : c[Len(a) + k] = b[k]
PROOF
  BY ConcatProperties, LenProperties DEF Prefix

LEMMA PrefixTransitive ==
  ASSUME NEW T, NEW a \in Seq(T), NEW b \in Seq(T), NEW c \in Seq(T), Prefix(a, b), Prefix(b, c)
  PROVE  Prefix(a, c)
PROOF
<1>1. Len(a) \in Nat /\ Len(b) \in Nat /\ Len(c) \in Nat
  BY LenProperties
<1> QED
  BY <1>1 DEF Prefix

\* What came from less is a prefix.
LEMMA PartialGrows ==
  ASSUME NEW T, NEW s \in Seq(Seq(T)), NEW n, n = Len(s), NEW g \in [0..n -> Seq(T)], Partial(s, g, n),
         NEW i \in 0..n
  PROVE  \A m \in i..n : Prefix(g[i], g[m])
PROOF
<1>0. n \in Nat /\ (\A l \in 1..n : s[l] \in Seq(T)) /\ (\A l \in 0..n : Len(g[l]) \in Nat)
  BY LenProperties, ElementOfSeq
<1> DEFINE Not == {l \in i..n : ~Prefix(g[i], g[l])}
<1>1. Prefix(g[i], g[i])
  BY <1>0 DEF Prefix
<1>2. ASSUME Not # {} PROVE FALSE
  <2>1. Not \in SUBSET Nat
    BY <1>0
  <2>2. PICK l \in Not : \A k \in Not : l <= k
    <3> HIDE DEF Not
    <3> QED
      BY <1>2, <2>1, LeastExists
  <2>3. l \in i..n /\ l # i /\ ~Prefix(g[i], g[l])
    BY <1>1
  <2>4. l - 1 \in i..n /\ ~(l <= l - 1) /\ l \in 1..n /\ l - 1 \in 0..n
    BY <1>0, <2>3
  <2>5. l - 1 \notin Not
    <3> HIDE DEF Not
    <3> QED
      BY <2>2, <2>4
  <2>6. Prefix(g[i], g[l - 1])
    BY <2>4, <2>5
  <2>7. g[l] = g[l - 1] \o s[l] /\ g[l - 1] \in Seq(T) /\ s[l] \in Seq(T) /\ g[i] \in Seq(T) /\ g[l] \in Seq(T)
    <3>1. g[l] = g[l - 1] \o s[l] /\ s[l] \in Seq(T)
      BY <1>0, <2>4 DEF Partial
    <3>2. l \in 0..n
      BY <2>4
    <3> QED
      BY <2>4, <3>1, <3>2
  <2>8. Prefix(g[l - 1], g[l])
    BY <2>7, ConcatPlaces
  <2> QED
    BY <2>3, <2>6, <2>7, <2>8, PrefixTransitive
<1> QED
  BY <1>2

\* Each sequence is found after all that come before it.
LEMMA FlattenPlaces ==
  ASSUME NEW T, NEW s \in Seq(Seq(T)), NEW i \in 1..Len(s)
  PROVE  LET before == Len(FlattenSeq(SubSeq(s, 1, i - 1)))
         IN /\ FlattenSeq(s) \in Seq(T) /\ before \in Nat
            /\ before + Len(s[i]) <= Len(FlattenSeq(s))
            /\ \A k \in 1..Len(s[i]) : FlattenSeq(s)[before + k] = s[i][k]
PROOF
<1>0. /\ Len(s) \in Nat /\ s[i] \in Seq(T) /\ Len(s[i]) \in Nat
      /\ i \in Nat /\ i - 1 \in 0..Len(s) /\ i \in 0..Len(s) /\ Len(s) \in 0..Len(s) /\ Len(s) \in i..Len(s)
  <2>1. Len(s) \in Nat /\ s[i] \in Seq(T)
    BY LenProperties, ElementOfSeq
  <2> QED
    BY <2>1, LenProperties
<1>1. PICK g \in [0..Len(s) -> Seq(T)] : Partial(s, g, Len(s))
  BY PartialExists
<1>2. FlattenSeq(s) = g[Len(s)]
  BY <1>1, FlattenIsPartial
<1>3. FlattenSeq(SubSeq(s, 1, i - 1)) = g[i - 1]
  <2> DEFINE p == SubSeq(s, 1, i - 1)
  <2>1. p \in Seq(Seq(T)) /\ Len(p) = i - 1 /\ \A k \in 1..(i - 1) : p[k] = s[k]
    <3>1. /\ p \in Seq(Seq(T))
          /\ Len(p) = IF 1 <= i - 1 THEN (i - 1) - 1 + 1 ELSE 0
          /\ \A k \in 1..((i - 1) - 1 + 1) : p[k] = s[1 + k - 1]
      <4>1. \A k \in 1..(i - 1) : k \in 1..Len(s)
        BY <1>0
      <4> QED
        BY <1>0, <4>1, SubSeqProperties
    <3> HIDE DEF p
    <3> QED
      BY <1>0, <3>1
  <2> HIDE DEF p
  <2>2. Partial(p, g, i - 1)
    <3>1. \A k \in 1..(i - 1) : k \in 1..Len(s)
      BY <1>0
    <3> QED
      BY <1>1, <2>1, <3>1 DEF Partial
  <2>3. FlattenSeq(p) = g[Len(p)]
    BY <2>1, <2>2, FlattenIsPartial
  <2> QED
    BY <2>1, <2>3 DEF p
<1>4. /\ g[i] = g[i - 1] \o s[i] /\ g[i - 1] \in Seq(T) /\ g[i] \in Seq(T) /\ g[Len(s)] \in Seq(T)
      /\ Len(g[i - 1]) \in Nat
  <2>1. g[i] = g[i - 1] \o s[i] /\ g[i - 1] \in Seq(T) /\ g[i] \in Seq(T) /\ g[Len(s)] \in Seq(T)
    BY <1>0, <1>1 DEF Partial
  <2> QED
    BY <2>1, LenProperties
<1>5. Prefix(g[i], g[Len(s)])
  BY <1>0, <1>1, PartialGrows
<1>6. /\ Len(g[i]) = Len(g[i - 1]) + Len(s[i])
      /\ \A k \in 1..Len(s[i]) : g[i][Len(g[i - 1]) + k] = s[i][k]
  BY <1>0, <1>4, ConcatPlaces
<1>7. ASSUME NEW k \in 1..Len(s[i]) PROVE g[Len(s)][Len(g[i - 1]) + k] = s[i][k]
  <2>1. Len(g[i - 1]) + k \in 1..Len(g[i])
    BY <1>0, <1>4, <1>6
  <2> QED
    BY <1>5, <1>6, <2>1 DEF Prefix
<1> QED
  BY <1>2, <1>3, <1>4, <1>5, <1>6, <1>7 DEF Prefix

\* One sequence alone.
LEMMA FlattenOne ==
  ASSUME NEW T, NEW s \in Seq(T)
  PROVE  FlattenSeq(<<s>>) = s
PROOF
<1> DEFINE p == <<s>>
<1>1. p \in Seq(Seq(T)) /\ Len(p) = 1 /\ p[1] = s
  OBVIOUS
<1> HIDE DEF p
<1>2. PICK g \in [0..Len(p) -> Seq(T)] : Partial(p, g, Len(p))
  BY <1>1, PartialExists
<1>3. FlattenSeq(p) = g[1]
  BY <1>1, <1>2, FlattenIsPartial
<1>4. g[1] = g[1 - 1] \o p[1] /\ g[0] = <<>>
  BY <1>1, <1>2 DEF Partial
<1>5. 1 - 1 = 0
  OBVIOUS
<1>6. g[1] = s
  BY <1>1, <1>4, <1>5, ConcatEmptySeq
<1> QED
  BY <1>3, <1>6 DEF p

---------------------------------------------------------------------------
(* Every vector is that of its text.                                       *)

Words == UNION {Range(ChunksOf[c]) : c \in Contents}
Vectors(texts, m) == [i \in DOMAIN texts |-> [text |-> texts[i], by |-> m]]

Spaced(stored, m) ==
  \A f \in Files : stored[f] # None =>
    stored[f].text \in Contents /\ stored[f].vecs = Vectors(ChunksOf[stored[f].text], m)

\* The cache tells what its keys ask for.
CacheTold(c) == \A e \in c : e.vec = [text |-> e.key[1], by |-> e.key[2]]

\* Whoever indexes does so for the model of the retriever.
OneModel(js, m) == \A j \in Jobs : js[j].kind # "none" => js[j].model = m

SpaceInv == DocInv /\ Opened /\ CacheTold(cache) /\ OneModel(job, model) /\ Spaced(docs, model)

LEMMA ChunksAreTexts ==
  ASSUME NEW c \in Contents
  PROVE  ChunksOf[c] \in Seq(Words)
PROOF
<1>1. Range(ChunksOf[c]) \subseteq Words
  BY DEF Words
<1> QED
  BY <1>1, ChunksAssumption, SeqMonotonic

LEMMA EmbeddedTells ==
  ASSUME CacheTold(cache), NEW texts, NEW m
  PROVE  Embedded(texts, m) = Vectors(texts, m) /\ CacheTold(Cached(texts, m))
PROOF
<1>1. ASSUME NEW i \in DOMAIN texts
      PROVE  LET hits == {e \in cache : e.key = Key(texts[i], m)}
             IN (IF hits = {} THEN [text |-> texts[i], by |-> m] ELSE (CHOOSE e \in hits : TRUE).vec)
                  = [text |-> texts[i], by |-> m]
  <2> DEFINE hits == {e \in cache : e.key = Key(texts[i], m)}
             hit == CHOOSE e \in hits : TRUE
  <2>1. ASSUME hits # {} PROVE hit.vec = [text |-> texts[i], by |-> m]
    <3>1. hit \in hits
      BY <2>1
    <3> HIDE DEF hit
    <3>2. hit \in cache /\ hit.key = <<texts[i], m>>
      BY <3>1 DEF Key
    <3> QED
      BY <3>2 DEF CacheTold
  <2> QED
    BY <2>1
<1>2. Embedded(texts, m) = Vectors(texts, m)
  BY <1>1 DEF Embedded, Vectors
<1>3. CacheTold(Cached(texts, m))
  <2>1. ASSUME NEW t PROVE CacheTold({[key |-> Key(t, m), vec |-> [text |-> t, by |-> m]]})
    BY DEF CacheTold, Key
  <2>2. ASSUME NEW e \in Cached(texts, m) PROVE e.vec = [text |-> e.key[1], by |-> e.key[2]]
    <3>1. e \in cache \/ \E t : e = [key |-> Key(t, m), vec |-> [text |-> t, by |-> m]]
      BY <2>2 DEF Cached
    <3> QED
      BY <2>1, <3>1 DEF CacheTold
  <2> QED
    BY <2>2 DEF CacheTold
<1> QED
  BY <1>2, <1>3

\* The vectors of a document are those of its chunks.
LEMMA PartTells ==
  ASSUME NEW read \in Seq(Reading), NEW i \in 1..Len(read), NEW m
  PROVE  Part(Vectors(TextsOf(read), m), read, i) = Vectors(ChunksOf[read[i].text], m)
PROOF
<1> DEFINE s == [k \in DOMAIN read |-> ChunksOf[read[k].text]]
           p == SubSeq(read, 1, i - 1)
           before == Len(TextsOf(p))
           all == TextsOf(read)
           own == ChunksOf[read[i].text]
           vecs == Vectors(all, m)
<1>1. Len(read) \in Nat /\ DOMAIN read = 1..Len(read) /\ \A k \in 1..Len(read) : read[k].text \in Contents
  <2>1. \A k \in 1..Len(read) : read[k] \in Reading
    BY ElementOfSeq
  <2> QED
    BY <2>1, LenProperties DEF Reading
<1>2. s \in Seq(Seq(Words)) /\ Len(s) = Len(read) /\ s[i] = own /\ own \in Seq(Words)
  <2>1. \A k \in 1..Len(read) : ChunksOf[read[k].text] \in Seq(Words)
    BY <1>1, ChunksAreTexts
  <2>2. s \in [1..Len(read) -> Seq(Words)]
    BY <1>1, <2>1
  <2> HIDE DEF s
  <2>3. s \in Seq(Seq(Words))
    BY <1>1, <2>2, SeqDef
  <2>4. Len(s) = Len(read)
    BY <1>1, <2>2, <2>3, LenProperties
  <2> QED
    BY <1>1, <2>1, <2>3, <2>4 DEF s
<1>3. TextsOf(p) = FlattenSeq(SubSeq(s, 1, i - 1))
  <2> DEFINE q == SubSeq(s, 1, i - 1)
  <2>1. \A k \in 1..(i - 1) : k \in 1..Len(read)
    BY <1>1
  <2>2. i - 1 \in Int /\ i \in Nat /\ i - 1 \in Nat
    BY <1>1
  <2>3. /\ p \in Seq(Reading) /\ DOMAIN p = 1..(i - 1) /\ \A k \in 1..(i - 1) : p[k] = read[k]
    <3>1. \A k \in 1..(i - 1) : read[k] \in Reading
      BY <2>1, ElementOfSeq
    <3> QED
      BY <2>2, <3>1, SubSeqProperties, LenProperties
  <2>4. q \in Seq(Seq(Words)) /\ DOMAIN q = 1..(i - 1) /\ \A k \in 1..(i - 1) : q[k] = s[k]
    <3>1. \A k \in 1..(i - 1) : s[k] \in Seq(Words)
      BY <1>2, <2>1, ElementOfSeq
    <3> HIDE DEF s
    <3> QED
      BY <2>2, <3>1, SubSeqProperties, LenProperties
  <2>5. q = [k \in 1..(i - 1) |-> q[k]]
    <3> HIDE DEF q
    <3>1. q = [k \in DOMAIN q |-> q[k]]
      BY <2>4, LenProperties
    <3> QED
      BY <2>4, <3>1
  <2>6. \A k \in 1..(i - 1) : q[k] = ChunksOf[p[k].text]
    BY <1>1, <2>1, <2>3, <2>4
  <2> HIDE DEF p, q
  <2>7. q = [k \in DOMAIN p |-> ChunksOf[p[k].text]]
    BY <2>3, <2>5, <2>6
  <2> QED
    BY <2>7 DEF TextsOf, q
<1>4. all = FlattenSeq(s)
  BY DEF TextsOf
<1> HIDE DEF s, p, before, all, own
<1>5. /\ all \in Seq(Words) /\ before \in Nat /\ before + Len(own) <= Len(all)
      /\ \A k \in 1..Len(own) : all[before + k] = own[k]
  <2> DEFINE b == Len(FlattenSeq(SubSeq(s, 1, i - 1)))
  <2>1. i \in 1..Len(s)
    BY <1>2
  <2>2. /\ FlattenSeq(s) \in Seq(Words) /\ b \in Nat
        /\ b + Len(s[i]) <= Len(FlattenSeq(s))
        /\ \A k \in 1..Len(s[i]) : FlattenSeq(s)[b + k] = s[i][k]
    BY <1>2, <2>1, FlattenPlaces
  <2>3. before = b
    BY <1>3 DEF before
  <2> HIDE DEF b
  <2> QED
    BY <1>2, <1>4, <2>2, <2>3
<1>6. /\ DOMAIN all = 1..Len(all) /\ Len(all) \in Nat /\ DOMAIN own = 1..Len(own) /\ Len(own) \in Nat
  BY <1>2, <1>5, LenProperties
<1>7. ASSUME NEW k \in 1..Len(own)
      PROVE  before + k \in 1..Len(all) /\ vecs[before + k] = [text |-> own[k], by |-> m]
  <2>1. before + k \in 1..Len(all)
    BY <1>5, <1>6
  <2> QED
    BY <1>5, <1>6, <2>1 DEF Vectors
<1>8. Part(vecs, read, i) = SubSeq(vecs, before + 1, before + Len(own))
  BY DEF Part, before, p, own
<1> DEFINE V == [text : Words, by : {m}]
           part == SubSeq(vecs, before + 1, before + Len(own))
           mine == Vectors(own, m)
<1>9. mine \in Seq(V) /\ Len(mine) = Len(own) /\ \A k \in 1..Len(own) : mine[k] = [text |-> own[k], by |-> m]
  <2>1. \A k \in 1..Len(own) : own[k] \in Words
    BY <1>2, ElementOfSeq
  <2>2. mine \in [1..Len(own) -> V] /\ \A k \in 1..Len(own) : mine[k] = [text |-> own[k], by |-> m]
    BY <1>6, <2>1 DEF Vectors
  <2> HIDE DEF mine, V
  <2>3. mine \in Seq(V)
    BY <1>6, <2>2, SeqDef
  <2> QED
    BY <1>6, <2>2, <2>3, LenProperties
<1>10. part \in Seq(V) /\ Len(part) = Len(own) /\ \A k \in 1..Len(own) : part[k] = vecs[before + k]
  <2>1. \A k \in 1..Len(own) : vecs[before + k] \in V
    <3>1. \A k \in 1..Len(own) : own[k] \in Words
      BY <1>2, ElementOfSeq
    <3>2. \A k \in 1..Len(own) : [text |-> own[k], by |-> m] \in V
      BY <3>1
    <3> HIDE DEF vecs, V
    <3> QED
      BY <1>7, <3>2
  <2>2. \A l \in (before + 1)..(before + Len(own)) : l - before \in 1..Len(own) /\ before + (l - before) = l
    BY <1>5, <1>6
  <2> HIDE DEF vecs, V
  <2>3. \A l \in (before + 1)..(before + Len(own)) : vecs[l] \in V
    BY <2>1, <2>2
  <2>4. before + 1 \in Int /\ before + Len(own) \in Int
    BY <1>5, <1>6
  <2>5. /\ part \in Seq(V)
        /\ Len(part) = IF before + 1 <= before + Len(own) THEN (before + Len(own)) - (before + 1) + 1 ELSE 0
        /\ \A k \in 1..((before + Len(own)) - (before + 1) + 1) : part[k] = vecs[(before + 1) + k - 1]
    BY <2>3, <2>4, SubSeqProperties
  <2> HIDE DEF part
  <2>6. (before + Len(own)) - (before + 1) + 1 = Len(own) /\ \A k \in 1..Len(own) : (before + 1) + k - 1 = before + k
    BY <1>5, <1>6
  <2> QED
    BY <1>5, <1>6, <2>5, <2>6
<1> HIDE DEF V, part, mine, vecs
<1>11. part = mine
  BY <1>7, <1>9, <1>10, SeqEqual
<1> QED
  BY <1>8, <1>11 DEF part, mine, vecs, own, all

\* A batch is stored with the vectors of its texts.
LEMMA InsertedSpaced ==
  ASSUME NEW read \in Seq(Reading), NEW m, docs' = Inserted(read, Vectors(TextsOf(read), m)), Spaced(docs, m)
  PROVE  Spaced(docs', m)
PROOF
<1> DEFINE vecs == Vectors(TextsOf(read), m)
<1>1. \A i \in 1..Len(read) :
        read[i].text \in Contents /\ Part(vecs, read, i) = Vectors(ChunksOf[read[i].text], m)
  <2>1. \A i \in 1..Len(read) : read[i] \in Reading
    BY ElementOfSeq
  <2> QED
    BY <2>1, PartTells DEF Reading
<1> HIDE DEF vecs
<1>2. docs' = Inserted(read, vecs)
  BY DEF vecs
<1>3. ASSUME NEW f \in Files, docs'[f] # None
      PROVE  docs'[f].text \in Contents /\ docs'[f].vecs = Vectors(ChunksOf[docs'[f].text], m)
  <2>1. docs'[f] = docs[f] \/ \E i \in 1..Len(read) :
          docs'[f] = [hash |-> read[i].hash, text |-> read[i].text, vecs |-> Part(vecs, read, i)]
    <3>1. OldOrRead(read, vecs, f, docs'[f])
      BY <1>2, InsertedDocs
    <3> QED
      BY <3>1 DEF OldOrRead
  <2>2. CASE docs'[f] = docs[f]
    BY <1>3, <2>2 DEF Spaced
  <2>3. ASSUME NEW i \in 1..Len(read),
               docs'[f] = [hash |-> read[i].hash, text |-> read[i].text, vecs |-> Part(vecs, read, i)]
        PROVE  docs'[f].text \in Contents /\ docs'[f].vecs = Vectors(ChunksOf[docs'[f].text], m)
    <3>1. docs'[f].text = read[i].text /\ docs'[f].vecs = Part(vecs, read, i)
      BY <2>3
    <3> QED
      BY <1>1, <3>1
  <2> QED
    BY <2>1, <2>2, <2>3
<1> QED
  BY <1>3 DEF Spaced

\* A store that is opened for another model is empty.
LEMMA OpenSpaced ==
  ASSUME SpaceInv, NEW m \in Models, Open(m)
  PROVE  Spaced(docs', model') /\ model' = m
PROOF
<1>1. model \in Models /\ model # None /\ claim = model /\ model' = m
  BY ModelsAssumption DEF SpaceInv, DocInv, TypeOK, Opened, Open
<1>2. CASE m = model
  <2>1. docs' = docs
    BY <1>1, <1>2 DEF Open, Stale, SpaceInv, Opened
  <2> QED
    BY <1>1, <1>2, <2>1 DEF SpaceInv
<1>3. CASE m # model
  <2>1. docs' = Empty
    BY <1>1, <1>3 DEF Open, Stale
  <2> QED
    BY <1>1, <2>1 DEF Spaced, Empty
<1> QED
  BY <1>2, <1>3

\* A step of a request: it is one for the same model or none.
LEMMA ModelMoves ==
  ASSUME job \in [Jobs -> TypedJobs], NEW m, NEW j \in Jobs, NEW b, b.kind # "none" => b.model = m,
         job' = [job EXCEPT ![j] = b] \/ job' = [Disturbed(job, j) EXCEPT ![j] = b],
         OneModel(job, m)
  PROVE  OneModel(job', m)
PROOF
<1>1. \A i \in Jobs : Same(job[i], job[i])
  BY DEF Same
<1>2. PICK js \in [Jobs -> TypedJobs] : /\ job' = [js EXCEPT ![j] = b]
                                       /\ \A i \in Jobs : Same(job[i], js[i])
  BY <1>1, DisturbedJobs
<1> QED
  BY <1>2 DEF OneModel, Same

LEMMA NobodysModel ==
  ASSUME job \in [Jobs -> TypedJobs], NEW m, OneModel(job, m), job' = job \/ job' = Disturbed(job, None)
  PROVE  OneModel(job', m)
PROOF
<1>1. \A i \in Jobs : Same(job[i], job'[i])
  <2>1. \A i \in Jobs : Same(job[i], job[i])
    BY DEF Same
  <2> QED
    BY <2>1, DisturbedJobs
<1> QED
  BY <1>1 DEF OneModel, Same

\* The model of a request never changes.
LEMMA NextBatchModel ==
  ASSUME NEW b, "model" \in DOMAIN b
  PROVE  NextBatch(b).model = b.model
PROOF
  BY DEF NextBatch

LEMMA EachModel ==
  ASSUME NEW todo, NEW m, NEW content, EachJob(todo, m, content).kind # "none"
  PROVE  EachJob(todo, m, content).model = m
PROOF
  BY DEF EachJob, NoJob

\* The requests that index a directory.
BatchStep(j) ==
  \/ \E again \in BOOLEAN : StartIndex(j, again)
  \/ Warm(j) \/ ReadFile(j) \/ EmbedBatch(j) \/ SaveBatch(j) \/ Return(j)

LEMMA BatchModel ==
  ASSUME SpaceInv, NEW j \in Jobs, BatchStep(j)
  PROVE  OneModel(job', model') /\ model' = model
PROOF
<1>0. job \in [Jobs -> TypedJobs] /\ OneModel(job, model) /\ DocInv
  BY DEF SpaceInv, DocInv, TypeOK
<1>1. model' = model
  BY DEF BatchStep, StartIndex, Warm, ReadFile, EmbedBatch, SaveBatch, Return, store
<1>2. \E b : /\ b.kind # "none" => b.model = model
             /\ job' = [job EXCEPT ![j] = b] \/ job' = [Disturbed(job, j) EXCEPT ![j] = b]
  <2> DEFINE b == job[j]
  <2>0. NoJob.kind = "none"
    BY DEF NoJob
  <2>1. ASSUME NEW again \in BOOLEAN, StartIndex(j, again)
        PROVE  \E c : c.model = model /\ job' = [Disturbed(job, j) EXCEPT ![j] = c]
    BY <2>1 DEF StartIndex, NoJob
  <2>2. ASSUME Warm(j) \/ ReadFile(j) \/ EmbedBatch(j) \/ SaveBatch(j)
        PROVE  b.model = model /\ "model" \in DOMAIN b /\ "at" \in DOMAIN b
    <3>1. b \in IndexJob /\ b.kind = "index"
      BY <1>0, <2>2, IndexAt DEF Warm, ReadFile, EmbedBatch, SaveBatch
    <3> QED
      BY <1>0, <3>1 DEF OneModel, IndexJob
  <2> HIDE DEF b
  <2>3. ASSUME Warm(j)
        PROVE  \/ \E c : c.model = model /\ job' = [job EXCEPT ![j] = c]
               \/ job' = [job EXCEPT ![j] = NoJob]
    <3>1. job' = [job EXCEPT ![j] = NextBatch(b)] \/ job' = [job EXCEPT ![j] = NoJob]
      BY <2>3 DEF Warm, b
    <3>2. NextBatch(b).model = model
      BY <2>2, <2>3, NextBatchModel
    <3> QED
      BY <3>1, <3>2
  <2>4. ASSUME ReadFile(j)
        PROVE  \E c : c.model = model /\ job' = [job EXCEPT ![j] = c]
    <3> DEFINE rest == [b EXCEPT !.todo = Tail(@), !.left = @ - 1]
               After(c) == IF c.left > 0 THEN c
                           ELSE IF c.read # <<>> THEN [c EXCEPT !.at = "embed"] ELSE NextBatch(c)
    <3>1. \/ job' = [job EXCEPT ![j] = After([rest EXCEPT !.errors = @ + 1])]
          \/ job' = [job EXCEPT ![j] = After([rest EXCEPT !.skipped = @ + 1])]
          \/ job' = [job EXCEPT ![j] = After([rest EXCEPT !.read = Append(@, AsRead(Head(b.todo)))])]
      BY <2>4 DEF ReadFile, b
    <3>2. rest.model = model /\ "model" \in DOMAIN rest
      BY <2>2, <2>4
    <3>3. ASSUME NEW c, c.model = model, "model" \in DOMAIN c PROVE After(c).model = model
      BY <3>3, NextBatchModel
    <3> HIDE DEF rest, After
    <3>4. /\ After([rest EXCEPT !.errors = @ + 1]).model = model
          /\ After([rest EXCEPT !.skipped = @ + 1]).model = model
          /\ After([rest EXCEPT !.read = Append(@, AsRead(Head(b.todo)))]).model = model
      BY <3>2, <3>3
    <3> QED
      BY <3>1, <3>4
  <2>5. ASSUME EmbedBatch(j)
        PROVE  \E c : c.model = model /\ job' = [job EXCEPT ![j] = c]
    <3>1. job' = [job EXCEPT ![j].at = "save"] \/ job' = [job EXCEPT ![j] = NextBatch([b EXCEPT !.errors = @ + Len(b.read)])]
      BY <2>5 DEF EmbedBatch, b
    <3>2. job' = [job EXCEPT ![j].at = "save"] => job' = [job EXCEPT ![j] = [b EXCEPT !.at = "save"]]
      BY DEF b
    <3>3. [b EXCEPT !.at = "save"].model = model /\ NextBatch([b EXCEPT !.errors = @ + Len(b.read)]).model = model
      BY <2>2, <2>5, NextBatchModel
    <3> QED
      BY <3>1, <3>2, <3>3
  <2>6. ASSUME SaveBatch(j)
        PROVE  \E c : c.model = model /\ (job' = [job EXCEPT ![j] = c] \/ job' = [Disturbed(job, j) EXCEPT ![j] = c])
    <3>1. \/ job' = [Disturbed(job, j) EXCEPT ![j] = NextBatch([b EXCEPT !.indexed = @ + Len(b.read)])]
          \/ job' = [job EXCEPT ![j] = NextBatch([b EXCEPT !.errors = @ + Len(b.read)])]
      BY <2>6 DEF SaveBatch, b
    <3>2. /\ NextBatch([b EXCEPT !.indexed = @ + Len(b.read)]).model = model
          /\ NextBatch([b EXCEPT !.errors = @ + Len(b.read)]).model = model
      BY <2>2, <2>6, NextBatchModel
    <3> QED
      BY <3>1, <3>2
  <2>7. ASSUME Return(j) PROVE job' = [job EXCEPT ![j] = NoJob]
    BY <2>7 DEF Return
  <2> QED
    BY <2>0, <2>1, <2>3, <2>4, <2>5, <2>6, <2>7 DEF BatchStep
<1> QED
  BY <1>0, <1>1, <1>2, ModelMoves

LEMMA BatchSpaced ==
  ASSUME SpaceInv, NEW j \in Jobs, BatchStep(j)
  PROVE  Spaced(docs', model) /\ CacheTold(cache')
PROOF
<1>0. /\ OneModel(job, model) /\ DocInv /\ Spaced(docs, model) /\ CacheTold(cache)
  BY DEF SpaceInv
<1>1. CacheTold(cache')
  <2>1. cache' = cache \/ \E texts, m : cache' = Cached(texts, m)
    BY DEF BatchStep, StartIndex, Warm, ReadFile, EmbedBatch, SaveBatch, Return
  <2> QED
    BY <1>0, <2>1, EmbeddedTells
<1>2. ASSUME SaveBatch(j) PROVE Spaced(docs', model)
  <2> DEFINE b == job[j]
  <2>1. b \in IndexJob /\ b.kind = "index"
    BY <1>0, <1>2, IndexAt DEF SaveBatch
  <2>2. b.read \in Seq(Reading) /\ b.model = model
    BY <1>0, <2>1 DEF IndexJob, OneModel
  <2>3. docs' = docs \/ docs' = Inserted(b.read, Embedded(TextsOf(b.read), b.model))
    BY <1>2 DEF SaveBatch
  <2> HIDE DEF b
  <2>4. Embedded(TextsOf(b.read), b.model) = Vectors(TextsOf(b.read), model)
    BY <1>0, <2>2, EmbeddedTells
  <2> QED
    BY <1>0, <2>2, <2>3, <2>4, InsertedSpaced
<1>3. ASSUME NEW again \in BOOLEAN, StartIndex(j, again) PROVE Spaced(docs', model)
  BY <1>0, <1>3 DEF StartIndex, Spaced, Empty
<1>4. ASSUME Warm(j) \/ ReadFile(j) \/ EmbedBatch(j) \/ Return(j) PROVE docs' = docs
  BY <1>4 DEF Warm, ReadFile, EmbedBatch, Return, store
<1> QED
  BY <1>0, <1>1, <1>2, <1>3, <1>4 DEF BatchStep

\* A file that is stored alone is embedded by the model that the request began with.
LEMMA EmbedOneSpaced ==
  ASSUME SpaceInv, NEW j \in Jobs, EmbedOne(j)
  PROVE  Spaced(docs', model') /\ OneModel(job', model') /\ CacheTold(cache')
PROOF
<1>0. /\ OneModel(job, model) /\ DocInv /\ Spaced(docs, model) /\ CacheTold(cache) /\ job \in [Jobs -> TypedJobs]
  BY DEF SpaceInv, DocInv, TypeOK
<1> DEFINE b == job[j]
           r == b.read[1]
           d == EachJob(b.todo, b.model, file)
           e == [r EXCEPT !.hash = file[r.file]]
<1>1. /\ b.kind = "each" /\ model' = model
      /\ job' = [Disturbed(job, j) EXCEPT ![j] = d]
      /\ docs' = docs \/ docs' = Inserted(<<e>>, Embedded(ChunksOf[r.text], b.model))
      /\ cache' = cache \/ cache' = Cached(ChunksOf[r.text], b.model)
  BY DEF EmbedOne
<1>2. b.model = model /\ r \in Reading
  <2>1. b \in EachJobs /\ Len(b.read) = 1
    <3>1. b \in TypedJobs /\ SingleTells(file, b)
      BY DEF SpaceInv, DocInv, TypeOK, JobsTell
    <3> QED
      BY <1>1, <3>1, KindTells DEF SingleTells
  <2>2. b.read \in Seq(Reading)
    BY <2>1 DEF EachJobs
  <2> QED
    BY <1>0, <1>1, <2>1, <2>2, ElementOfSeq DEF OneModel
<1> HIDE DEF b
<1>3. OneModel(job', model')
  <2>1. d.kind # "none" => d.model = model
    BY <1>2, EachModel
  <2> HIDE DEF d
  <2> QED
    BY <1>0, <1>1, <2>1, ModelMoves
<1>4. CacheTold(cache')
  BY <1>0, <1>1, EmbeddedTells
<1>5. CASE docs' = Inserted(<<e>>, Embedded(ChunksOf[r.text], b.model))
  <2> HIDE DEF r
  <2>1. r.file \in Files /\ r.text \in Contents /\ file[r.file] \in Nat
    <3>1. r.file \in Files /\ r.text \in Contents
      BY <1>2 DEF Reading
    <3>2. file[r.file] \in 0..written
      BY <1>0, <3>1 DEF DocInv, FilesWritten
    <3> QED
      BY <3>1, <3>2
  <2>2. e \in Reading /\ e.text = r.text
    BY <1>2, <2>1 DEF Reading
  <2> HIDE DEF e
  <2> DEFINE read == <<e>>
             texts == ChunksOf[r.text]
  <2>3. read \in Seq(Reading) /\ DOMAIN read = {1} /\ read[1] = e
    BY <2>2
  <2>4. TextsOf(read) = texts
    <3>1. [i \in DOMAIN read |-> ChunksOf[read[i].text]] = <<texts>>
      BY <2>2, <2>3
    <3>2. texts \in Seq(Words)
      BY <2>1, ChunksAreTexts
    <3> HIDE DEF texts, read
    <3> QED
      BY <3>1, <3>2, FlattenOne DEF TextsOf
  <2>5. docs' = Inserted(read, Embedded(texts, model))
    BY <1>2, <1>5
  <2> HIDE DEF texts, read
  <2>6. docs' = Inserted(read, Vectors(TextsOf(read), model))
    BY <1>0, <2>4, <2>5, EmbeddedTells
  <2>7. Spaced(docs', model)
    BY <1>0, <2>3, <2>6, InsertedSpaced
  <2> QED
    BY <1>1, <1>3, <1>4, <2>7
<1>6. CASE docs' = docs
  BY <1>0, <1>1, <1>3, <1>4, <1>6
<1> QED
  BY <1>1, <1>5, <1>6

LEMMA OtherSpaced ==
  ASSUME Overlap = FALSE, SpaceInv,
         \/ \E j \in Jobs : (\E f \in Files : Upload(j, f)) \/ \E m \in Models : SwitchModel(j, m)
         \/ \E f \in Files : DeleteDocument(f) \/ Edit(f)
         \/ \E m \in Models \cup {None} : SaveEmbedding(m)
         \/ Restart
  PROVE  Spaced(docs', model') /\ OneModel(job', model') /\ CacheTold(cache')
PROOF
<1>0. /\ OneModel(job, model) /\ Spaced(docs, model) /\ CacheTold(cache) /\ job \in [Jobs -> TypedJobs]
      /\ config \in Models \cup {None}
  BY DEF SpaceInv, DocInv, TypeOK
<1>1. CacheTold(cache')
  BY <1>0 DEF Upload, SwitchModel, DeleteDocument, Edit, SaveEmbedding, Restart, store
<1> DEFINE Goal == Spaced(docs', model') /\ OneModel(job', model')
<1>2. ASSUME NEW j \in Jobs, NEW f \in Files, Upload(j, f) PROVE Goal
  <2> DEFINE b == EachJob(<<f>>, model, file')
  <2>1. job' = [Disturbed(job, j) EXCEPT ![j] = b] /\ docs' = docs /\ model' = model
    BY <1>2 DEF Upload, store
  <2>2. b.kind # "none" => b.model = model
    BY EachModel
  <2> HIDE DEF b
  <2> QED
    BY <1>0, <2>1, <2>2, ModelMoves
<1>3. ASSUME NEW j \in Jobs, NEW m \in Models, SwitchModel(j, m) PROVE Goal
  <2> DEFINE b == EachJob(Sorted(Present), m, file)
  <2>1. /\ Open(m) /\ OneModel(job, m)
        /\ job' = job \/ job' = [Disturbed(job, j) EXCEPT ![j] = b]
    BY <1>3 DEF SwitchModel, Quiet, OneModel
  <2>2. b.kind # "none" => b.model = m
    BY EachModel
  <2> HIDE DEF b
  <2>3. OneModel(job', m)
    BY <1>0, <2>1, <2>2, ModelMoves
  <2> QED
    BY <2>1, <2>3, OpenSpaced
<1>4. ASSUME NEW f \in Files, DeleteDocument(f) \/ Edit(f) PROVE Goal
  <2>1. model' = model /\ job' = Disturbed(job, None) /\ (docs' = docs \/ docs' = [docs EXCEPT ![f] = None])
    BY <1>4 DEF DeleteDocument, Edit, store
  <2>2. DOMAIN docs = Files
    BY DEF SpaceInv, DocInv, TypeOK
  <2>3. Spaced(docs', model)
    BY <1>0, <2>1, <2>2 DEF Spaced
  <2>4. OneModel(job', model)
    BY <1>0, <2>1, NobodysModel
  <2> QED
    BY <2>1, <2>3, <2>4
<1>5. ASSUME NEW m \in Models \cup {None}, SaveEmbedding(m) PROVE Goal
  <2>1. CASE m # None /\ Open(m) /\ job' = Disturbed(job, None)
    <3>1. OneModel(job, m)
      BY <1>5 DEF SaveEmbedding, Quiet, OneModel
    <3> QED
      BY <1>0, <2>1, <3>1, NobodysModel, OpenSpaced
  <2>2. CASE UNCHANGED <<docs, model, job>>
    BY <1>0, <2>2
  <2> QED
    BY <1>5, <2>1, <2>2 DEF SaveEmbedding, store
<1>6. ASSUME Restart PROVE Goal
  <2> DEFINE m == IF config = None THEN Default ELSE config
  <2>1. m \in Models /\ Open(m) /\ job' = [j \in Jobs |-> NoJob]
    BY <1>0, <1>6, ModelsAssumption DEF Restart
  <2> HIDE DEF m
  <2>2. OneModel(job', m)
    BY <2>1, NoJobTells DEF OneModel
  <2> QED
    BY <2>1, <2>2, OpenSpaced
<1> HIDE DEF Goal
<1>7. Goal
  BY <1>2, <1>3, <1>4, <1>5, <1>6
<1> QED
  BY <1>1, <1>7 DEF Goal

LEMMA SpaceStep ==
  ASSUME Overlap = FALSE, SpaceInv, [Next]_vars
  PROVE  SpaceInv'
PROOF
<1>1. DocInv' /\ Opened'
  BY DocInvStep, OpenedStep DEF SpaceInv
<1> DEFINE Goal == Spaced(docs', model') /\ OneModel(job', model') /\ CacheTold(cache')
<1>2. ASSUME UNCHANGED vars PROVE Goal
  <2>1. UNCHANGED <<docs, model, job, cache>>
    BY <1>2 DEF vars, store
  <2> QED
    BY <2>1 DEF SpaceInv
<1>3. ASSUME NEW j \in Jobs, BatchStep(j) PROVE Goal
  BY <1>3, BatchModel, BatchSpaced
<1>4. ASSUME NEW j \in Jobs, EmbedOne(j) PROVE Goal
  BY <1>4, EmbedOneSpaced
<1>5. ASSUME \/ \E j \in Jobs : (\E f \in Files : Upload(j, f)) \/ \E m \in Models : SwitchModel(j, m)
             \/ \E f \in Files : DeleteDocument(f) \/ Edit(f)
             \/ \E m \in Models \cup {None} : SaveEmbedding(m)
             \/ Restart
      PROVE  Goal
  BY <1>5, OtherSpaced
<1> HIDE DEF Goal
<1>6. ASSUME Next PROVE Goal
  BY <1>6, <1>3, <1>4, <1>5 DEF Next, BatchStep
<1>7. Goal
  BY <1>2, <1>6
<1> QED
  BY <1>1, <1>7 DEF SpaceInv, Goal

\* When no switch overlaps with an indexing, a document is stored with the vectors of
\* exactly its chunks, made by the model that queries are embedded with now: by batches
\* that are cut from one call, out of a cache or not, through switches, settings and
\* restarts.
THEOREM VectorsFit == ASSUME Overlap = FALSE PROVE Spec => []SameSpace
PROOF
<1>1. SpaceInv => SameSpace
  <2> SUFFICES ASSUME SpaceInv, NEW f \in Files, docs[f] # None
               PROVE  /\ [i \in DOMAIN docs[f].vecs |-> docs[f].vecs[i].text] = ChunksOf[docs[f].text]
                      /\ \A i \in DOMAIN docs[f].vecs : docs[f].vecs[i].by = model /\ Dims[model] = dims
    BY DEF SameSpace
  <2> DEFINE texts == ChunksOf[docs[f].text]
  <2>1. docs[f].vecs = Vectors(texts, model) /\ Dims[model] = dims /\ docs[f].text \in Contents
    BY DEF SpaceInv, Spaced, Opened
  <2>2. DOMAIN texts = 1..Len(texts) /\ texts = [i \in 1..Len(texts) |-> texts[i]]
    <3>1. texts \in Seq(Words)
      BY <2>1, ChunksAreTexts
    <3>2. \E n \in Nat : texts \in [1..n -> Words]
      BY <3>1, SeqDef
    <3> HIDE DEF texts
    <3> QED
      BY <3>1, <3>2, LenProperties
  <2> HIDE DEF texts
  <2>3. \A i \in DOMAIN texts : docs[f].vecs[i].text = texts[i] /\ docs[f].vecs[i].by = model
    BY <2>1 DEF Vectors
  <2>4. DOMAIN docs[f].vecs = DOMAIN texts
    BY <2>1 DEF Vectors
  <2>5. [i \in DOMAIN docs[f].vecs |-> docs[f].vecs[i].text] = texts
    BY <2>2, <2>3, <2>4
  <2> QED
    BY <2>1, <2>3, <2>4, <2>5 DEF texts
<1>2. SpaceInv /\ [Next]_vars => SpaceInv'
  BY SpaceStep
<1>3. Init => SpaceInv
  <2>1. ASSUME Init PROVE Opened /\ CacheTold(cache) /\ OneModel(job, model) /\ Spaced(docs, model)
    BY <2>1, NoJobTells DEF Init, Opened, CacheTold, OneModel, Spaced, Empty
  <2> QED
    BY <2>1, InitTells DEF SpaceInv
<1> QED
  BY <1>1, <1>2, <1>3, PTL DEF Spec
=============================================================================
