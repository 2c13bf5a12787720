---------------------------- MODULE AgentProofs ----------------------------
(***************************************************************************)
(* Proofs about the agent graph (AgentLoop): every prompt pairs each tool  *)
(* call with its results (PromptPaired), the checkpoint is repaired and    *)
(* holds the question (HistoryKept), and a repair loses nothing of what    *)
(* was written (RepairKeeps), for any number of queries, steps, calls,     *)
(* crashes and compactions; where a compaction cuts (MessageOrder); and    *)
(* that the model is given the files of a question (PromptShows), for any  *)
(* models, files and number of calls.                                      *)
(*                                                                         *)
(* A conversation has a shape: each message with tool calls is followed by *)
(* the results of all of them (or by none, a gap, as a crash, a failure or *)
(* an abort leaves it), and no result is anywhere else.  The shape is what *)
(* every node and every query keeps; what has no gap besides is paired.    *)
(***************************************************************************)
EXTENDS MCAgentLoop, FiniteSets, SequenceTheorems, WellFoundedInduction, TLAPS

\* Sequences of messages, as far as the proofs look at them.
Types == {"human", "ai", "tool", "system"}
Msg == [id : Nat, type : Types, calls : Seq(Nat), call : Nat, turn : Nat, fake : BOOLEAN]

---------------------------------------------------------------------------
(* Sequences.                                                             *)

\* A set of numbers has a least one.
LEMMA LeastExists ==
  ASSUME NEW S \in SUBSET Nat, S # {}
  PROVE  \E i \in S : \A j \in S : i <= j
PROOF
<1> DEFINE R == {p \in Nat \X Nat : p[1] < p[2]}
<1>1. IsWellFoundedOn(R, Nat)
  BY NatLessThanWellFounded DEF OpToRel
<1>2. PICK i \in S : \A j \in S : ~(<<j, i>> \in R)
  BY <1>1, WFMin
<1>3. \A j \in S : j \in Nat /\ i \in Nat /\ ~(j < i)
  BY <1>2
<1> QED
  BY <1>2, <1>3

\* The sequences that come from the first m of s.
Partial(s, g, m) == g[0] = <<>> /\ \A i \in 1..m : g[i] = g[i - 1] \o s[i]

\* What comes from the sequences up to each position exists.
LEMMA PartialExists ==
  ASSUME NEW T, NEW s \in Seq(Seq(T))
  PROVE  \E g \in [0..Len(s) -> Seq(T)] : Partial(s, g, Len(s))
PROOF
<1>0. Len(s) \in Nat /\ (\A i \in 1..Len(s) : s[i] \in Seq(T)) /\ <<>> \in Seq(T)
  BY LenProperties, ElementOfSeq, EmptySeq
<1> DEFINE Has(m) == \E g \in [0..m -> Seq(T)] : Partial(s, g, m)
           Not == {m \in 0..Len(s) : ~Has(m)}
<1>1. ASSUME Not # {} PROVE FALSE
  <2>1. Not \in SUBSET Nat
    BY <1>0
  <2>2. PICK m \in Not : \A k \in Not : m <= k
    <3> HIDE DEF Not
    <3> QED
      BY <1>1, <2>1, LeastExists
  <2>3. m \in 0..Len(s) /\ m \in Nat
    BY <1>0
  <2>4. CASE m = 0
    <3>1. [i \in 0..m |-> <<>>] \in [0..m -> Seq(T)] /\ Partial(s, [i \in 0..m |-> <<>>], m)
      BY <1>0, <2>4 DEF Partial
    <3> QED
      BY <3>1
  <2>5. CASE m # 0
    <3>a. m - 1 \in 0..Len(s) /\ ~(m <= m - 1)
      BY <1>0, <2>3, <2>5
    <3>b. m - 1 \notin Not
      <4> HIDE DEF Not
      <4> QED
        BY <2>2, <3>a
    <3>1. Has(m - 1)
      BY <3>a, <3>b
    <3>2. PICK g \in [0..(m - 1) -> Seq(T)] : Partial(s, g, m - 1)
      BY <3>1
    <3> DEFINE h == [i \in 0..m |-> IF i = m THEN g[m - 1] \o s[m] ELSE g[i]]
    <3>3. h \in [0..m -> Seq(T)]
      <4>1. g[m - 1] \o s[m] \in Seq(T)
        <5>1. g[m - 1] \in Seq(T) /\ s[m] \in Seq(T)
          BY <1>0, <2>3, <2>5
        <5> QED
          BY <5>1, ConcatProperties
      <4>2. \A i \in 0..m : i # m => i \in 0..(m - 1)
        BY <2>3
      <4> QED
        BY <4>1, <4>2
    <3>4. Partial(s, h, m)
      <4>1. h[0] = <<>>
        BY <2>3, <2>5, <3>2 DEF Partial
      <4>2. ASSUME NEW i \in 1..m PROVE h[i] = h[i - 1] \o s[i]
        <5>1. h[i - 1] = g[i - 1]
          BY <2>3
        <5>2. CASE i = m
          <6>0. m \in 0..m
            BY <2>3
          <6>1. h[m] = g[m - 1] \o s[m]
            BY <6>0
          <6> HIDE DEF h
          <6> QED
            BY <5>1, <5>2, <6>1
        <5>3. CASE i # m
          <6>1. h[i] = g[i] /\ i \in 1..(m - 1)
            BY <2>3, <5>3
          <6> QED
            BY <3>2, <5>1, <6>1 DEF Partial
        <5> QED
          BY <5>2, <5>3
      <4> HIDE DEF h
      <4> QED
        BY <4>1, <4>2 DEF Partial
    <3> HIDE DEF h
    <3> QED
      BY <3>3, <3>4
  <2> QED
    BY <2>4, <2>5
<1>2. Len(s) \in 0..Len(s)
  BY <1>0
<1> QED
  BY <1>1, <1>2

\* FlattenSeq is what comes from all of them.
LEMMA FlattenIsPartial ==
  ASSUME NEW T, NEW p \in Seq(Seq(T)), NEW g, Partial(p, g, Len(p))
  PROVE  FlattenSeq(p) = g[Len(p)]
PROOF
<1> DEFINE n == Len(p)
           F == CHOOSE f : f = [i \in 1..Len(p) |-> IF i = 1 THEN p[i] ELSE f[i - 1] \o p[i]]
           h == [i \in 1..n |-> g[i]]
<1>0. n \in Nat /\ (\A i \in 1..n : p[i] \in Seq(T))
  BY LenProperties, ElementOfSeq
<1>1. CASE n = 0
  <2>1. FlattenSeq(p) = p /\ p = <<>>
    BY <1>1, EmptySeq DEF FlattenSeq
  <2> QED
    BY <1>1, <2>1 DEF Partial
<1>2. CASE n # 0
  <2>1. FlattenSeq(p) = F[n]
    BY <1>2 DEF FlattenSeq
  <2>2. \A i \in 1..n : g[i] = IF i = 1 THEN p[i] ELSE g[i - 1] \o p[i]
    <3>1. ASSUME 1 \in 1..n PROVE g[1] = p[1]
      <4>1. g[1] = g[0] \o p[1] /\ g[0] = <<>> /\ p[1] \in Seq(T)
        <5>1. g[1] = g[1 - 1] \o p[1] /\ g[0] = <<>>
          BY <3>1 DEF Partial
        <5>2. 1 - 1 = 0
          OBVIOUS
        <5> QED
          BY <1>0, <3>1, <5>1, <5>2
      <4> QED
        BY <4>1, ConcatEmptySeq
    <3> QED
      BY <1>0, <3>1 DEF Partial
  <2>3. h = [i \in 1..n |-> IF i = 1 THEN p[i] ELSE h[i - 1] \o p[i]]
    <3>1. ASSUME NEW i \in 1..n PROVE h[i] = IF i = 1 THEN p[i] ELSE h[i - 1] \o p[i]
      BY <1>0, <2>2
    <3> QED
      BY <3>1
  <2>4. F = [i \in 1..n |-> IF i = 1 THEN p[i] ELSE F[i - 1] \o p[i]]
    <3> HIDE DEF h
    <3> QED
      BY <2>3
  <2> HIDE DEF F, h
  <2>5. \A i \in 1..n : F[i] = IF i = 1 THEN p[i] ELSE F[i - 1] \o p[i]
    BY <2>4
  <2> DEFINE Bad == {i \in 1..n : F[i] # g[i]}
  <2>6. ASSUME Bad # {} PROVE FALSE
    <3>1. Bad \in SUBSET Nat
      BY <1>0
    <3>2. PICK i \in Bad : \A k \in Bad : i <= k
      <4> HIDE DEF Bad
      <4> QED
        BY <2>6, <3>1, LeastExists
    <3>3. i # 1
      BY <2>2, <2>5, <3>2
    <3>4. i - 1 \in 1..n /\ i - 1 \notin Bad
      <4>1. i \in 1..n
        OBVIOUS
      <4>2. i - 1 \in 1..n /\ ~(i <= i - 1)
        BY <1>0, <3>3, <4>1
      <4> HIDE DEF Bad
      <4> QED
        BY <3>2, <4>2
    <3> QED
      BY <2>2, <2>5, <3>2, <3>3, <3>4
  <2> QED
    BY <1>0, <1>2, <2>1, <2>6
<1> QED
  BY <1>1, <1>2

\* Two sequences one after the other.
Prefix(a, c) == Len(a) <= Len(c) /\ \A k \in 1..Len(a) : c[k] = a[k]

\* The elements of two sequences, one after the other.
LEMMA ConcatPlaces ==
  ASSUME NEW T, NEW a \in Seq(T), NEW b \in Seq(T), NEW c, c = a \o b
  PROVE  /\ c \in Seq(T) /\ Len(a) \in Nat /\ Len(b) \in Nat /\ Len(c) = Len(a) + Len(b) /\ Prefix(a, c)
         /\ \A k \in 1..Len(b) : c[Len(a) + k] = b[k]
PROOF
  BY ConcatProperties, LenProperties DEF Prefix

\* So the first is a prefix of both.
LEMMA ConcatPrefix ==
  ASSUME NEW T, NEW a \in Seq(T), NEW b \in Seq(T), NEW c, c = a \o b
  PROVE  Prefix(a, c)
PROOF
  BY ConcatPlaces

\* c is a and b one after the other.
Joined(c, a, b) ==
  /\ Len(a) \in Nat /\ Len(b) \in Nat /\ Len(c) = Len(a) + Len(b)
  /\ \A k \in 1..Len(a) : c[k] = a[k]
  /\ \A k \in 1..Len(b) : c[Len(a) + k] = b[k]

\* The same, as what joins the two.
LEMMA ConcatJoins ==
  ASSUME NEW T, NEW a \in Seq(T), NEW b \in Seq(T), NEW c, c = a \o b
  PROVE  c \in Seq(T) /\ Joined(c, a, b)
PROOF
  BY ConcatProperties, LenProperties DEF Joined

\* A prefix of a prefix is a prefix.
LEMMA PrefixTransitive ==
  ASSUME NEW T, NEW a \in Seq(T), NEW b \in Seq(T), NEW c \in Seq(T), Prefix(a, b), Prefix(b, c)
  PROVE  Prefix(a, c)
PROOF
<1>1. Len(a) \in Nat /\ Len(b) \in Nat /\ Len(c) \in Nat
  BY LenProperties
<1> QED
  BY <1>1 DEF Prefix

\* What came from less is a prefix.
LEMMA PartialGrows ==
  ASSUME NEW T, NEW s \in Seq(Seq(T)), NEW n, n = Len(s), NEW g \in [0..n -> Seq(T)], Partial(s, g, n),
         NEW i \in 0..n
  PROVE  \A m \in i..n : Prefix(g[i], g[m])
PROOF
<1>0. n \in Nat /\ (\A l \in 1..n : s[l] \in Seq(T)) /\ (\A l \in 0..n : Len(g[l]) \in Nat)
  BY LenProperties, ElementOfSeq
<1> DEFINE Not == {l \in i..n : ~Prefix(g[i], g[l])}
<1>1. Prefix(g[i], g[i])
  BY <1>0 DEF Prefix
<1>2. ASSUME Not # {} PROVE FALSE
  <2>1. Not \in SUBSET Nat
    BY <1>0
  <2>2. PICK l \in Not : \A k \in Not : l <= k
    <3> HIDE DEF Not
    <3> QED
      BY <1>2, <2>1, LeastExists
  <2>3. l \in i..n /\ l # i /\ ~Prefix(g[i], g[l])
    BY <1>1
  <2>4. l - 1 \in i..n /\ ~(l <= l - 1) /\ l \in 1..n /\ l - 1 \in 0..n
    BY <1>0, <2>3
  <2>5. l - 1 \notin Not
    <3> HIDE DEF Not
    <3> QED
      BY <2>2, <2>4
  <2>6. Prefix(g[i], g[l - 1])
    BY <2>4, <2>5
  <2>7. g[l] = g[l - 1] \o s[l] /\ g[l - 1] \in Seq(T) /\ s[l] \in Seq(T) /\ g[i] \in Seq(T) /\ g[l] \in Seq(T)
    <3>1. g[l] = g[l - 1] \o s[l] /\ s[l] \in Seq(T)
      BY <1>0, <2>4 DEF Partial
    <3>2. l \in 0..n
      BY <2>4
    <3> QED
      BY <2>4, <3>1, <3>2
  <2>8. Prefix(g[l - 1], g[l])
    <3> DEFINE x == g[l - 1]
               y == s[l]
               z == g[l]
    <3>1. x \in Seq(T) /\ y \in Seq(T) /\ z = x \o y
      BY <2>7
    <3> HIDE DEF x, y, z
    <3>2. Prefix(x, z)
      BY <3>1, ConcatPrefix
    <3> QED
      BY <3>2 DEF x, z
  <2> QED
    BY <2>3, <2>6, <2>7, <2>8, PrefixTransitive
<1> QED
  BY <1>2

\* A function on the first numbers is a sequence.
LEMMA FunSeq ==
  ASSUME NEW T, NEW n \in Nat, NEW f \in [1..n -> T]
  PROVE  f \in Seq(T) /\ Len(f) = n /\ DOMAIN f = 1..n
PROOF
<1>1. f \in Seq(T)
  BY SeqDef
<1>2. DOMAIN f = 1..n /\ DOMAIN f = 1..Len(f) /\ Len(f) \in Nat
  BY <1>1, LenProperties
<1> QED
  BY <1>1, <1>2

\* Two sequences of equal length, and elements, are equal.
LEMMA OneOf ==
  ASSUME NEW T, NEW x \in T
  PROVE  <<x>> \in Seq(T) /\ Len(<<x>>) = 1 /\ <<x>>[1] = x /\ DOMAIN <<x>> = {1}
PROOF
  OBVIOUS

\* off says how many elements come before the i-th sequence.
Placed(P, n, F, off) ==
  /\ off \in [1..(n + 1) -> Nat] /\ off[1] = 0 /\ Len(F) = off[n + 1]
  /\ \A i \in 1..n :
       /\ off[i + 1] = off[i] + Len(P[i]) /\ off[i + 1] <= off[n + 1]
       /\ \A m \in 1..Len(P[i]) : F[off[i] + m] = P[i][m]

\* Where FlattenSeq puts each element of each sequence.
LEMMA FlattenAt ==
  ASSUME NEW T, NEW P \in Seq(Seq(T)), NEW n, n = Len(P)
  PROVE  FlattenSeq(P) \in Seq(T) /\ \E off : Placed(P, n, FlattenSeq(P), off)
PROOF
<1>0. n \in Nat /\ (\A i \in 1..n : P[i] \in Seq(T)) /\ (\A i \in 1..n : Len(P[i]) \in Nat)
  BY LenProperties, ElementOfSeq
<1>1. PICK g \in [0..n -> Seq(T)] : Partial(P, g, n)
  BY PartialExists
<1>2. FlattenSeq(P) = g[n] /\ g[n] \in Seq(T)
  BY <1>0, <1>1, FlattenIsPartial
<1> DEFINE off == [i \in 1..(n + 1) |-> Len(g[i - 1])]
<1>3. \A i \in 0..n : g[i] \in Seq(T) /\ Len(g[i]) \in Nat
  <2>1. \A i \in 0..n : g[i] \in Seq(T)
    BY <1>1
  <2> QED
    BY <2>1, LenProperties
<1>4. off \in [1..(n + 1) -> Nat]
  <2>1. \A i \in 1..(n + 1) : i - 1 \in 0..n
    BY <1>0
  <2> QED
    BY <1>3, <2>1
<1>5. \A i \in 1..n : off[i + 1] = Len(g[i]) /\ off[i] = Len(g[i - 1])
  BY <1>0
<1>6. off[1] = 0 /\ off[n + 1] = Len(g[n])
  <2>1. g[0] = <<>>
    BY <1>1 DEF Partial
  <2> QED
    BY <1>0, <2>1
<1> HIDE DEF off
<1>7. ASSUME NEW i \in 1..n
      PROVE  /\ off[i + 1] = off[i] + Len(P[i]) /\ off[i + 1] <= off[n + 1]
             /\ \A m \in 1..Len(P[i]) : g[n][off[i] + m] = P[i][m]
  <2>0. i \in 0..n /\ i - 1 \in 0..n /\ n \in i..n
    BY <1>0
  <2>1. g[i] = g[i - 1] \o P[i]
    BY <1>1 DEF Partial
  <2>2. /\ Len(g[i]) = Len(g[i - 1]) + Len(P[i])
        /\ \A m \in 1..Len(P[i]) : g[i][Len(g[i - 1]) + m] = P[i][m]
    BY <1>0, <1>3, <2>0, <2>1, ConcatPlaces
  <2>3. Prefix(g[i], g[n])
    BY <1>0, <1>1, <2>0, PartialGrows
  <2>4. ASSUME NEW m \in 1..Len(P[i]) PROVE g[n][off[i] + m] = P[i][m]
    <3>1. off[i] + m \in 1..Len(g[i])
      <4>1. Len(g[i - 1]) \in Nat /\ Len(P[i]) \in Nat /\ off[i] = Len(g[i - 1])
        BY <1>0, <1>3, <1>5, <2>0
      <4>2. Len(g[i]) = Len(g[i - 1]) + Len(P[i]) /\ m \in Nat /\ 1 <= m /\ m <= Len(P[i])
        BY <2>2, <4>1
      <4>3. \A a, b, c \in Nat : m <= b /\ c = a + b => a + m \in 1..c
        BY <4>2
      <4>4. Len(g[i]) \in Nat
        BY <1>3, <2>0
      <4> QED
        BY <4>1, <4>2, <4>3, <4>4
    <3> QED
      BY <1>5, <2>2, <2>3, <3>1 DEF Prefix
  <2> QED
    BY <1>5, <1>6, <2>2, <2>3, <2>4 DEF Prefix
<1>8. Placed(P, n, g[n], off)
  BY <1>4, <1>6, <1>7 DEF Placed
<1> QED
  BY <1>2, <1>8

\* The offsets grow.
LEMMA PlacedGrows ==
  ASSUME NEW T, NEW P \in Seq(Seq(T)), NEW n, n = Len(P), NEW F, NEW off, Placed(P, n, F, off),
         NEW i \in 1..(n + 1)
  PROVE  \A j \in i..(n + 1) : off[i] <= off[j]
PROOF
<1>0. n \in Nat /\ (\A l \in 1..n : Len(P[l]) \in Nat) /\ (\A l \in 1..(n + 1) : off[l] \in Nat)
  <2>1. n \in Nat /\ \A l \in 1..n : P[l] \in Seq(T)
    BY LenProperties, ElementOfSeq
  <2> QED
    BY <2>1, LenProperties DEF Placed
<1> DEFINE Not == {j \in i..(n + 1) : ~(off[i] <= off[j])}
<1>1. ASSUME Not # {} PROVE FALSE
  <2>1. Not \in SUBSET Nat
    BY <1>0
  <2>2. PICK j \in Not : \A k \in Not : j <= k
    <3> HIDE DEF Not
    <3> QED
      BY <1>1, <2>1, LeastExists
  <2>3. j \in i..(n + 1) /\ j # i /\ ~(off[i] <= off[j])
    BY <1>0
  <2>4. j - 1 \in i..(n + 1) /\ ~(j <= j - 1) /\ j - 1 \in 1..n
    BY <1>0, <2>3
  <2>5. off[i] <= off[j - 1]
    <3>1. j - 1 \notin Not
      <4> HIDE DEF Not
      <4> QED
        BY <2>2, <2>4
    <3> QED
      BY <2>4, <3>1
  <2>6. off[j] = off[j - 1] + Len(P[j - 1])
    <3>1. off[(j - 1) + 1] = off[j - 1] + Len(P[j - 1])
      BY <2>4 DEF Placed
    <3>2. (j - 1) + 1 = j
      BY <1>0, <2>3
    <3> QED
      BY <3>1, <3>2
  <2>7. off[j - 1] \in Nat /\ off[i] \in Nat /\ Len(P[j - 1]) \in Nat
    <3>1. j - 1 \in 1..(n + 1)
      BY <1>0, <2>4
    <3> QED
      BY <1>0, <2>4, <3>1
  <2> QED
    BY <2>3, <2>5, <2>6, <2>7
<1> QED
  BY <1>1

\* Every element comes from one of the sequences.
LEMMA PlacedCovers ==
  ASSUME NEW T, NEW P \in Seq(Seq(T)), NEW n, n = Len(P), NEW F, NEW off, Placed(P, n, F, off),
         NEW k \in 1..Len(F)
  PROVE  \E i \in 1..n : k - off[i] \in 1..Len(P[i]) /\ F[k] = P[i][k - off[i]] /\ k <= off[i + 1]
PROOF
<1>0. n \in Nat /\ (\A l \in 1..n : Len(P[l]) \in Nat) /\ (\A l \in 1..(n + 1) : off[l] \in Nat) /\ Len(F) = off[n + 1]
  <2>1. n \in Nat /\ \A l \in 1..n : P[l] \in Seq(T)
    BY LenProperties, ElementOfSeq
  <2> QED
    BY <2>1, LenProperties DEF Placed
<1> DEFINE Up == {j \in 1..(n + 1) : k <= off[j]}
<1>1. Up \in SUBSET Nat /\ Up # {}
  <2>1. n + 1 \in 1..(n + 1) /\ k <= off[n + 1]
    BY <1>0
  <2> QED
    BY <2>1
<1>2. PICK j \in Up : \A l \in Up : j <= l
  <2> HIDE DEF Up
  <2> QED
    BY <1>1, LeastExists
<1>3. j \in 1..(n + 1) /\ k <= off[j]
  OBVIOUS
<1>4. j # 1 /\ j - 1 \in 1..n
  BY <1>0, <1>3 DEF Placed
<1>5. j - 1 \in 1..(n + 1) /\ ~(j <= j - 1) /\ (j - 1) + 1 = j
  BY <1>0, <1>4
<1>6. ~(k <= off[j - 1])
  <2>1. j - 1 \notin Up
    <3> HIDE DEF Up
    <3> QED
      BY <1>2, <1>5
  <2> QED
    BY <1>5, <2>1
<1>7. /\ off[j] = off[j - 1] + Len(P[j - 1])
      /\ \A m \in 1..Len(P[j - 1]) : F[off[j - 1] + m] = P[j - 1][m]
  <2>1. /\ off[(j - 1) + 1] = off[j - 1] + Len(P[j - 1])
        /\ \A m \in 1..Len(P[j - 1]) : F[off[j - 1] + m] = P[j - 1][m]
    BY <1>4 DEF Placed
  <2> QED
    BY <1>5, <2>1
<1>8. k - off[j - 1] \in 1..Len(P[j - 1]) /\ off[j - 1] + (k - off[j - 1]) = k
  <2>1. off[j - 1] \in Nat /\ Len(P[j - 1]) \in Nat /\ k \in Nat
    BY <1>0, <1>4, <1>5
  <2> QED
    BY <1>3, <1>6, <1>7, <2>1
<1>9. F[k] = P[j - 1][k - off[j - 1]]
  <2>1. F[off[j - 1] + (k - off[j - 1])] = P[j - 1][k - off[j - 1]]
    BY <1>7, <1>8
  <2> QED
    BY <1>8, <2>1
<1> QED
  BY <1>3, <1>4, <1>5, <1>8, <1>9

---------------------------------------------------------------------------
(* The elements at some positions.                                        *)

Pieces(s, K) == [i \in DOMAIN s |-> IF i \in K THEN <<s[i]>> ELSE <<>>]

\* The pieces that FlattenSeq joins are sequences.
LEMMA PiecesTyped ==
  ASSUME NEW T, NEW s \in Seq(T), NEW K
  PROVE  /\ Pieces(s, K) \in Seq(Seq(T)) /\ Len(Pieces(s, K)) = Len(s) /\ Chosen(s, K) = FlattenSeq(Pieces(s, K))
         /\ \A i \in 1..Len(s) : Pieces(s, K)[i] = IF i \in K THEN <<s[i]>> ELSE <<>>
PROOF
<1>1. Len(s) \in Nat /\ DOMAIN s = 1..Len(s) /\ (\A i \in 1..Len(s) : s[i] \in T)
  BY LenProperties, ElementOfSeq
<1>2. Pieces(s, K) \in [1..Len(s) -> Seq(T)]
  BY <1>1, OneOf, EmptySeq DEF Pieces
<1>3. Chosen(s, K) = FlattenSeq(Pieces(s, K))
  BY DEF Chosen, Pieces
<1> QED
  BY <1>1, <1>2, <1>3, FunSeq DEF Pieces

\* off[i + 1] is the place of the i-th element when it is chosen.
ChosenBy(s, K, n, c, off) ==
  /\ off \in [1..(n + 1) -> Nat] /\ off[1] = 0 /\ Len(c) = off[n + 1]
  /\ \A i \in 1..n :
       /\ off[i + 1] = off[i] + (IF i \in K THEN 1 ELSE 0)
       /\ i \in K => off[i + 1] \in 1..Len(c) /\ c[off[i + 1]] = s[i]
  /\ \A k \in 1..Len(c) : \E i \in 1..n : i \in K /\ k = off[i + 1]

\* Every chosen element has its place, in the order of the sequence.
LEMMA ChosenAt ==
  ASSUME NEW T, NEW s \in Seq(T), NEW K, NEW n, n = Len(s)
  PROVE  Chosen(s, K) \in Seq(T) /\ \E off : ChosenBy(s, K, n, Chosen(s, K), off)
PROOF
<1> DEFINE P == Pieces(s, K)
           c == Chosen(s, K)
<1>1. /\ P \in Seq(Seq(T)) /\ Len(P) = n /\ c = FlattenSeq(P)
      /\ \A i \in 1..n : P[i] = IF i \in K THEN <<s[i]>> ELSE <<>>
  BY PiecesTyped
<1>2. n \in Nat /\ \A i \in 1..n : s[i] \in T
  BY LenProperties, ElementOfSeq
<1> HIDE DEF P, c
<1>3. c \in Seq(T) /\ \E off : Placed(P, n, c, off)
  BY <1>1, FlattenAt
<1>4. PICK off : Placed(P, n, c, off)
  BY <1>3
<1>5. \A i \in 1..n : /\ Len(P[i]) = (IF i \in K THEN 1 ELSE 0)
                      /\ i \in K => P[i][1] = s[i]
  BY <1>1, <1>2, OneOf, EmptySeq
<1>6. off \in [1..(n + 1) -> Nat] /\ off[1] = 0 /\ Len(c) = off[n + 1]
  BY <1>4 DEF Placed
<1>7. ASSUME NEW i \in 1..n
      PROVE  /\ off[i + 1] = off[i] + (IF i \in K THEN 1 ELSE 0)
             /\ i \in K => off[i + 1] \in 1..Len(c) /\ c[off[i + 1]] = s[i]
  <2>1. /\ off[i + 1] = off[i] + Len(P[i]) /\ off[i + 1] <= off[n + 1]
        /\ \A m \in 1..Len(P[i]) : c[off[i] + m] = P[i][m]
    BY <1>4 DEF Placed
  <2>2. off[i] \in Nat
    <3>1. i \in 1..(n + 1)
      BY <1>2
    <3> QED
      BY <1>6, <3>1
  <2>3. ASSUME i \in K PROVE off[i + 1] \in 1..Len(c) /\ c[off[i + 1]] = s[i]
    <3>1. off[i + 1] = off[i] + 1 /\ 1 \in 1..Len(P[i]) /\ P[i][1] = s[i]
      BY <1>5, <2>1, <2>3
    <3>2. c[off[i] + 1] = s[i]
      BY <2>1, <3>1
    <3>3. off[n + 1] \in Nat
      BY <1>2, <1>6
    <3> QED
      BY <1>6, <2>1, <2>2, <3>1, <3>2, <3>3
  <2> QED
    BY <1>5, <2>1, <2>3
<1>8. ASSUME NEW k \in 1..Len(c) PROVE \E i \in 1..n : i \in K /\ k = off[i + 1]
  <2>1. PICK i \in 1..n : k - off[i] \in 1..Len(P[i])
    BY <1>1, <1>4, PlacedCovers
  <2>2. off[i] \in Nat /\ k \in Int
    <3>1. i \in 1..(n + 1)
      BY <1>2
    <3> QED
      BY <1>6, <3>1
  <2>3. i \in K /\ k = off[i] + 1
    BY <1>5, <2>1, <2>2
  <2> QED
    BY <1>7, <2>3
<1>9. ChosenBy(s, K, n, c, off)
  BY <1>6, <1>7, <1>8 DEF ChosenBy
<1> QED
  BY <1>3, <1>9 DEF c

\* An interval of positions is a subsequence.
LEMMA ChosenInterval ==
  ASSUME NEW T, NEW s \in Seq(T), NEW a \in 1..(Len(s) + 1), NEW b \in 0..Len(s),
         NEW K, \A i \in 1..Len(s) : i \in K <=> i \in a..b
  PROVE  Chosen(s, K) = SubSeq(s, a, b)
PROOF
<1> DEFINE n == Len(s)
           P == Pieces(s, K)
           upto(i) == IF i <= b THEN i ELSE b
           g == [i \in 0..n |-> SubSeq(s, a, upto(i))]
<1>1. n \in Nat /\ \A i \in 1..n : s[i] \in T
  BY LenProperties, ElementOfSeq
<1>2. /\ P \in Seq(Seq(T)) /\ Len(P) = n /\ Chosen(s, K) = FlattenSeq(P)
      /\ \A i \in 1..n : P[i] = IF i \in K THEN <<s[i]>> ELSE <<>>
  BY PiecesTyped
<1>3. g[0] = <<>>
  <2>1. upto(0) < a /\ upto(0) \in Int /\ a \in Int
    BY <1>1
  <2>2. SubSeq(s, a, upto(0)) = <<>>
    BY <2>1, SubSeqEmpty
  <2> QED
    BY <1>1, <2>2
<1>4. ASSUME NEW i \in 1..n PROVE g[i] = g[i - 1] \o P[i]
  <2>0. i - 1 \in 0..n /\ i \in 0..n
    BY <1>1
  <2>1. g[i] = SubSeq(s, a, upto(i)) /\ g[i - 1] = SubSeq(s, a, upto(i - 1))
    BY <2>0
  <2>2. CASE i \in K
    <3>1. i \in a..b
      BY <2>2
    <3>2. upto(i) = i /\ upto(i - 1) = i - 1 /\ a \in 1..Len(s) /\ i \in a..Len(s)
      BY <1>1, <3>1
    <3>3. SubSeq(s, a, i) = SubSeq(s, a, i - 1) \o <<s[i]>>
      BY <3>2, SubSeqRecursiveSecond
    <3> QED
      BY <1>2, <2>1, <2>2, <3>2, <3>3
  <2>3. CASE i \notin K
    <3>1. ~(i \in a..b)
      BY <2>3
    <3>2. P[i] = <<>>
      BY <1>2, <2>3
    <3>3. CASE i < a
      <4>1. upto(i) < a /\ upto(i - 1) < a /\ upto(i) \in Int /\ upto(i - 1) \in Int /\ a \in Int
        BY <1>1, <3>3
      <4>2. SubSeq(s, a, upto(i)) = <<>> /\ SubSeq(s, a, upto(i - 1)) = <<>>
        BY <4>1, SubSeqEmpty
      <4>3. <<>> \o <<>> = <<>>
        BY EmptySeq, ConcatEmptySeq
      <4> QED
        BY <2>1, <3>2, <4>2, <4>3
    <3>4. CASE ~(i < a)
      <4>1. upto(i) = b /\ upto(i - 1) = b
        BY <1>1, <3>1, <3>4
      <4>2. SubSeq(s, a, b) \in Seq(T)
        <5>1. \A l \in a..b : s[l] \in T
          BY <1>1
        <5> QED
          BY <5>1, SubSeqProperties
      <4>3. SubSeq(s, a, b) \o <<>> = SubSeq(s, a, b)
        BY <4>2, ConcatEmptySeq
      <4> QED
        BY <2>1, <3>2, <4>1, <4>3
    <3> QED
      BY <3>3, <3>4
  <2> QED
    BY <2>2, <2>3
<1>5. g[n] = SubSeq(s, a, b)
  <2>1. upto(n) = b /\ n \in 0..n
    BY <1>1
  <2> QED
    BY <2>1
<1> HIDE DEF g, P
<1>6. Partial(P, g, n)
  BY <1>3, <1>4 DEF Partial
<1>7. FlattenSeq(P) = g[n]
  BY <1>2, <1>6, FlattenIsPartial
<1> QED
  BY <1>2, <1>5, <1>7

\* All elements are the sequence itself.
LEMMA ChosenAll ==
  ASSUME NEW T, NEW s \in Seq(T), NEW K, 1..Len(s) \subseteq K
  PROVE  Chosen(s, K) = s
PROOF
<1>1. Len(s) \in Nat
  BY LenProperties
<1>2. 1 \in 1..(Len(s) + 1) /\ Len(s) \in 0..Len(s) /\ (\A i \in 1..Len(s) : i \in K <=> i \in 1..Len(s))
  BY <1>1
<1>3. Chosen(s, K) = SubSeq(s, 1, Len(s))
  BY <1>2, ChosenInterval
<1> QED
  BY <1>3, SubSeqFull

\* No positions, no elements.
LEMMA ChosenNone ==
  ASSUME NEW T, NEW s \in Seq(T), NEW K, \A i \in 1..Len(s) : i \notin K
  PROVE  Chosen(s, K) = <<>>
PROOF
<1>1. Len(s) \in Nat
  BY LenProperties
<1>2. 1 \in 1..(Len(s) + 1) /\ 0 \in 0..Len(s) /\ (\A i \in 1..Len(s) : i \in K <=> i \in 1..0)
  BY <1>1
<1>3. Chosen(s, K) = SubSeq(s, 1, 0)
  BY <1>2, ChosenInterval
<1> QED
  BY <1>3, SubSeqEmpty

\* All of some sequences, then all of others.
LEMMA FlattenConcat ==
  ASSUME NEW T, NEW P \in Seq(Seq(T)), NEW Q \in Seq(Seq(T))
  PROVE  FlattenSeq(P \o Q) = FlattenSeq(P) \o FlattenSeq(Q)
PROOF
<1> DEFINE m == Len(P)
           n == Len(Q)
           R == P \o Q
<1>1. /\ m \in Nat /\ n \in Nat /\ R \in Seq(Seq(T)) /\ Len(R) = m + n
      /\ \A i \in 1..m : R[i] = P[i]
      /\ \A i \in 1..n : R[m + i] = Q[i]
  BY ConcatPlaces DEF Prefix
<1>2. (\A i \in 1..m : P[i] \in Seq(T)) /\ (\A i \in 1..n : Q[i] \in Seq(T))
  BY ElementOfSeq
<1>3. PICK g \in [0..m -> Seq(T)] : Partial(P, g, m)
  BY PartialExists
<1>4. PICK h \in [0..n -> Seq(T)] : Partial(Q, h, n)
  BY PartialExists
<1>5. FlattenSeq(P) = g[m] /\ FlattenSeq(Q) = h[n]
  BY <1>3, <1>4, FlattenIsPartial
<1> HIDE DEF m, n, R
<1>6. (\A i \in 0..m : g[i] \in Seq(T)) /\ (\A i \in 0..n : h[i] \in Seq(T)) /\ g[m] \in Seq(T)
  BY <1>1, <1>3, <1>4
<1> DEFINE f == [i \in 0..(m + n) |-> IF i <= m THEN g[i] ELSE g[m] \o h[i - m]]
<1>7. f[0] = <<>>
  BY <1>1, <1>3 DEF Partial
<1>8. ASSUME NEW i \in 1..(m + n) PROVE f[i] = f[i - 1] \o R[i]
  <2>1. CASE i <= m
    <3>1. i \in 1..m /\ f[i] = g[i] /\ f[i - 1] = g[i - 1]
      BY <1>1, <2>1
    <3> QED
      BY <1>1, <1>3, <3>1 DEF Partial
  <2>2. CASE ~(i <= m)
    <3> DEFINE l == i - m
    <3>1. l \in 1..n /\ m + l = i /\ l - 1 \in 0..n /\ l \in 0..n /\ (i - 1) - m = l - 1
      BY <1>1, <2>2
    <3>2. f[i] = g[m] \o h[l]
      <4>1. i \in 0..(m + n)
        BY <1>1
      <4> QED
        BY <2>2, <4>1
    <3>3. f[i - 1] = g[m] \o h[l - 1]
      <4>1. CASE i - 1 <= m
        <5>1. i - 1 = m /\ l - 1 = 0
          BY <1>1, <2>2, <4>1
        <5>2. f[i - 1] = g[m] /\ h[l - 1] = <<>>
          <6>1. f[m] = g[m]
            BY <1>1
          <6>2. h[0] = <<>>
            BY <1>4 DEF Partial
          <6> QED
            BY <5>1, <6>1, <6>2
        <5>3. g[m] \o <<>> = g[m]
          BY <1>6, ConcatEmptySeq
        <5> QED
          BY <5>2, <5>3
      <4>2. CASE ~(i - 1 <= m)
        <5>1. i - 1 \in 0..(m + n)
          BY <1>1
        <5> QED
          BY <3>1, <4>2, <5>1
      <4> QED
        BY <4>1, <4>2
    <3> HIDE DEF l, f
    <3>4. h[l] = h[l - 1] \o Q[l] /\ R[i] = Q[l]
      <4>1. h[l] = h[l - 1] \o Q[l]
        BY <1>4, <3>1 DEF Partial
      <4>2. R[m + l] = Q[l]
        BY <1>1, <3>1
      <4> QED
        BY <3>1, <4>1, <4>2
    <3>5. h[l - 1] \in Seq(T) /\ Q[l] \in Seq(T)
      BY <1>2, <1>6, <3>1
    <3>6. g[m] \o (h[l - 1] \o Q[l]) = (g[m] \o h[l - 1]) \o Q[l]
      <4> DEFINE x == g[m]
                 y == h[l - 1]
                 z == Q[l]
      <4>1. x \in Seq(T) /\ y \in Seq(T) /\ z \in Seq(T)
        BY <1>6, <3>5
      <4> HIDE DEF x, y, z
      <4>2. (x \o y) \o z = x \o (y \o z)
        BY <4>1, ConcatAssociative
      <4> QED
        BY <4>2 DEF x, y, z
    <3> QED
      BY <3>2, <3>3, <3>4, <3>6
  <2> QED
    BY <2>1, <2>2
<1>9. f[m + n] = g[m] \o h[n]
  <2>1. CASE n = 0
    <3>1. f[m + n] = g[m]
      BY <1>1, <2>1
    <3>2. h[n] = <<>>
      BY <1>4, <2>1 DEF Partial
    <3>3. g[m] \o <<>> = g[m]
      BY <1>6, ConcatEmptySeq
    <3> QED
      BY <3>1, <3>2, <3>3
  <2>2. CASE n # 0
    <3>1. ~(m + n <= m) /\ m + n \in 0..(m + n) /\ (m + n) - m = n
      BY <1>1, <2>2
    <3> QED
      BY <3>1
  <2> QED
    BY <2>1, <2>2
<1> HIDE DEF f
<1>10. Partial(R, f, m + n)
  BY <1>7, <1>8 DEF Partial
<1>11. FlattenSeq(R) = f[m + n]
  BY <1>1, <1>10, FlattenIsPartial
<1> QED
  BY <1>5, <1>9, <1>11 DEF R, m, n

\* What is chosen of two sequences one after the other.
LEMMA ChosenConcat ==
  ASSUME NEW T, NEW a \in Seq(T), NEW b \in Seq(T), NEW K, NEW KA, NEW KB,
         \A i \in 1..Len(a) : i \in K <=> i \in KA,
         \A i \in 1..Len(b) : Len(a) + i \in K <=> i \in KB
  PROVE  Chosen(a \o b, K) = Chosen(a, KA) \o Chosen(b, KB)
PROOF
<1> DEFINE c == a \o b
           A == Pieces(a, KA)
           B == Pieces(b, KB)
           C == Pieces(c, K)
<1>1. /\ c \in Seq(T) /\ Len(a) \in Nat /\ Len(b) \in Nat /\ Len(c) = Len(a) + Len(b)
      /\ (\A i \in 1..Len(a) : c[i] = a[i]) /\ (\A i \in 1..Len(b) : c[Len(a) + i] = b[i])
  BY ConcatPlaces DEF Prefix
<1>2. /\ A \in Seq(Seq(T)) /\ Len(A) = Len(a) /\ Chosen(a, KA) = FlattenSeq(A)
      /\ \A i \in 1..Len(a) : A[i] = IF i \in KA THEN <<a[i]>> ELSE <<>>
  BY PiecesTyped
<1>3. /\ B \in Seq(Seq(T)) /\ Len(B) = Len(b) /\ Chosen(b, KB) = FlattenSeq(B)
      /\ \A i \in 1..Len(b) : B[i] = IF i \in KB THEN <<b[i]>> ELSE <<>>
  BY PiecesTyped
<1> HIDE DEF c
<1>4. /\ C \in Seq(Seq(T)) /\ Len(C) = Len(c) /\ Chosen(c, K) = FlattenSeq(C)
      /\ \A i \in 1..Len(c) : C[i] = IF i \in K THEN <<c[i]>> ELSE <<>>
  BY <1>1, PiecesTyped
<1> HIDE DEF A, B, C
<1>5. /\ A \o B \in Seq(Seq(T)) /\ Len(A \o B) = Len(A) + Len(B)
      /\ \A i \in 1..(Len(A) + Len(B)) : (A \o B)[i] = IF i <= Len(A) THEN A[i] ELSE B[i - Len(A)]
  <2>1. A \in Seq(Seq(T)) /\ B \in Seq(Seq(T))
    BY <1>2, <1>3
  <2> QED
    BY <2>1, ConcatProperties
<1>6. C = A \o B
  <2>1. ASSUME NEW i \in 1..Len(C) PROVE C[i] = (A \o B)[i]
    <3>1. CASE i <= Len(a)
      <4>1. i \in 1..Len(a) /\ i \in 1..Len(c) /\ i \in 1..(Len(A) + Len(B))
        BY <1>1, <1>2, <1>3, <1>4, <3>1
      <4> QED
        BY <1>1, <1>2, <1>4, <1>5, <3>1, <4>1
    <3>2. CASE ~(i <= Len(a))
      <4> DEFINE l == i - Len(a)
      <4>1. l \in 1..Len(b) /\ Len(a) + l = i /\ i \in 1..Len(c) /\ i \in 1..(Len(A) + Len(B))
        BY <1>1, <1>2, <1>3, <1>4, <3>2
      <4>2. (A \o B)[i] = B[l]
        BY <1>2, <1>5, <3>2, <4>1
      <4> HIDE DEF l
      <4>3. c[i] = b[l] /\ (i \in K <=> l \in KB)
        <5>1. c[Len(a) + l] = b[l] /\ (Len(a) + l \in K <=> l \in KB)
          BY <1>1, <4>1
        <5> QED
          BY <4>1, <5>1
      <4>4. C[i] = IF i \in K THEN <<c[i]>> ELSE <<>>
        BY <1>4, <4>1
      <4>5. B[l] = IF l \in KB THEN <<b[l]>> ELSE <<>>
        BY <1>3, <4>1
      <4> QED
        BY <4>2, <4>3, <4>4, <4>5
    <3> QED
      BY <3>1, <3>2
  <2>2. Len(C) = Len(A \o B)
    BY <1>1, <1>2, <1>3, <1>4, <1>5
  <2> QED
    BY <1>4, <1>5, <2>1, <2>2, SeqEqual
<1>7. FlattenSeq(A \o B) = FlattenSeq(A) \o FlattenSeq(B)
  BY <1>2, <1>3, FlattenConcat
<1> QED
  BY <1>2, <1>3, <1>4, <1>6, <1>7 DEF c

---------------------------------------------------------------------------
(* add_messages.                                                          *)

UniqueIds(s) == \A i, j \in DOMAIN s : s[i].id = s[j].id => i = j

\* New messages with ids of their own are added at the end.
LEMMA AddFresh ==
  ASSUME NEW s \in Seq(Msg), NEW new \in Seq(Msg), NEW R,
         \A i \in DOMAIN new : new[i].id \notin Ids(s) /\ new[i].id \notin R
  PROVE  AddMessages(s, new, R) = Drop(s, R) \o new
PROOF
<1> DEFINE known(m) == \E i \in DOMAIN new : new[i].id = m.id
           kept == [i \in DOMAIN s |->
                      IF known(s[i]) THEN new[CHOOSE j \in DOMAIN new : new[j].id = s[i].id] ELSE s[i]]
           outside == {i \in DOMAIN new : new[i].id \notin Ids(s)}
           both == s \o new
           K == {i \in DOMAIN both : both[i].id \notin R}
           KS == {i \in DOMAIN s : s[i].id \notin R}
<1>0. /\ Len(s) \in Nat /\ DOMAIN s = 1..Len(s) /\ Len(new) \in Nat /\ DOMAIN new = 1..Len(new)
      /\ s \in [1..Len(s) -> Msg]
  BY LenProperties
<1>1. kept = s
  <2>1. ASSUME NEW i \in DOMAIN s PROVE ~known(s[i])
    BY DEF Ids
  <2>2. kept = [i \in DOMAIN s |-> s[i]]
    BY <2>1
  <2> QED
    BY <1>0, <2>2
<1>2. Chosen(new, outside) = new
  <2>1. 1..Len(new) \subseteq outside
    BY <1>0
  <2> HIDE DEF outside
  <2> QED
    BY <2>1, ChosenAll
<1>3. AddMessages(s, new, R) = Drop(kept \o Chosen(new, outside), R)
  BY DEF AddMessages
<1>4. Drop(both, R) = Chosen(both, K)
  BY DEF Drop
<1>5. /\ both \in Seq(Msg) /\ Len(both) = Len(s) + Len(new)
      /\ (\A i \in 1..Len(s) : both[i] = s[i]) /\ (\A i \in 1..Len(new) : both[Len(s) + i] = new[i])
  BY ConcatPlaces DEF Prefix
<1> HIDE DEF both
<1>6. DOMAIN both = 1..(Len(s) + Len(new))
  BY <1>5, LenProperties
<1>7. \A i \in 1..Len(s) : i \in K <=> i \in KS
  BY <1>0, <1>5, <1>6
<1> DEFINE KN == 1..Len(new)
<1>8. \A i \in 1..Len(new) : Len(s) + i \in K <=> i \in KN
  BY <1>0, <1>5, <1>6
<1>10. Chosen(new, KN) = new
  BY ChosenAll
<1> HIDE DEF K, KS, KN
<1>9. Chosen(both, K) = Chosen(s, KS) \o Chosen(new, KN)
  <2>1. Chosen(s \o new, K) = Chosen(s, KS) \o Chosen(new, KN)
    BY <1>7, <1>8, ChosenConcat
  <2> QED
    BY <2>1 DEF both
<1>11. Chosen(s, KS) = Drop(s, R)
  BY DEF Drop, KS
<1>12. Drop(both, R) = Drop(s, R) \o new
  BY <1>4, <1>9, <1>10, <1>11
<1> HIDE DEF kept, outside
<1> QED
  BY <1>1, <1>2, <1>3, <1>12 DEF both

\* A message with the id of the last one takes its place.
LEMMA AddAgain ==
  ASSUME NEW s \in Seq(Msg), s # <<>>, NEW m \in Msg, UniqueIds(s), s[Len(s)].id = m.id
  PROVE  AddMessages(s, <<m>>, {}) = [s EXCEPT ![Len(s)] = m]
PROOF
<1> DEFINE new == <<m>>
           known(x) == \E i \in DOMAIN new : new[i].id = x.id
           kept == [i \in DOMAIN s |->
                      IF known(s[i]) THEN new[CHOOSE j \in DOMAIN new : new[j].id = s[i].id] ELSE s[i]]
           outside == {i \in DOMAIN new : new[i].id \notin Ids(s)}
           t == [s EXCEPT ![Len(s)] = m]
<1>0. Len(s) \in Nat \ {0} /\ DOMAIN s = 1..Len(s) /\ s \in [1..Len(s) -> Msg]
  BY LenProperties, EmptySeq
<1>1. new \in Seq(Msg) /\ Len(new) = 1 /\ new[1] = m /\ DOMAIN new = {1}
  BY OneOf
<1>2. t \in Seq(Msg) /\ Len(t) = Len(s) /\ DOMAIN t = 1..Len(s)
  BY <1>0, ExceptSeq
<1>3. kept = t
  <2>1. ASSUME NEW i \in DOMAIN s PROVE kept[i] = t[i]
    <3>1. known(s[i]) <=> i = Len(s)
      BY <1>0, <1>1 DEF UniqueIds
    <3>2. CASE i = Len(s)
      <4>1. (CHOOSE j \in DOMAIN new : new[j].id = s[i].id) \in {1}
        BY <1>1, <3>1, <3>2
      <4>2. kept[i] = new[CHOOSE j \in DOMAIN new : new[j].id = s[i].id]
        BY <3>1, <3>2
      <4>3. t[i] = m
        BY <1>0, <3>2
      <4> QED
        BY <1>1, <4>1, <4>2, <4>3
    <3>3. CASE i # Len(s)
      BY <1>0, <3>1, <3>3
    <3> QED
      BY <3>2, <3>3
  <2> QED
    BY <1>0, <1>2, <2>1
<1>4. Chosen(new, outside) = <<>>
  <2>1. \A i \in 1..Len(new) : i \notin outside
    <3>1. m.id \in Ids(s)
      BY <1>0 DEF Ids
    <3> QED
      BY <1>1, <3>1
  <2> HIDE DEF outside, new
  <2> QED
    BY <1>1, <2>1, ChosenNone
<1>5. AddMessages(s, new, {}) = Drop(kept \o Chosen(new, outside), {})
  BY DEF AddMessages
<1> HIDE DEF kept, outside, t
<1>6. kept \o Chosen(new, outside) = t
  BY <1>2, <1>3, <1>4, ConcatEmptySeq
<1>7. Drop(t, {}) = t
  <2>1. 1..Len(t) \subseteq {i \in DOMAIN t : t[i].id \notin {}}
    BY <1>2
  <2>2. Chosen(t, {i \in DOMAIN t : t[i].id \notin {}}) = t
    BY <1>2, <2>1, ChosenAll
  <2> QED
    BY <2>2 DEF Drop
<1> QED
  BY <1>5, <1>6, <1>7 DEF t, new

\* The first or the last messages are removed.
LEMMA DropFirst ==
  ASSUME NEW s \in Seq(Msg), UniqueIds(s), NEW c \in 1..Len(s)
  PROVE  Drop(s, Ids(SubSeq(s, 1, c - 1))) = SubSeq(s, c, Len(s))
PROOF
<1> DEFINE a == SubSeq(s, 1, c - 1)
           K == {i \in DOMAIN s : s[i].id \notin Ids(a)}
<1>0. Len(s) \in Nat /\ DOMAIN s = 1..Len(s) /\ \A i \in 1..Len(s) : s[i] \in Msg
  BY LenProperties, ElementOfSeq
<1>1. a \in Seq(Msg) /\ Len(a) = c - 1 /\ DOMAIN a = 1..(c - 1) /\ \A i \in 1..(c - 1) : a[i] = s[i]
  <2>1. \A i \in 1..(c - 1) : s[i] \in Msg
    BY <1>0
  <2>2. a \in Seq(Msg) /\ Len(a) = (IF 1 <= c - 1 THEN (c - 1) - 1 + 1 ELSE 0)
        /\ \A i \in 1..((c - 1) - 1 + 1) : a[i] = s[1 + i - 1]
    BY <1>0, <2>1, SubSeqProperties
  <2> HIDE DEF a
  <2>3. Len(a) = c - 1
    BY <1>0, <2>2
  <2>4. DOMAIN a = 1..(c - 1)
    BY <2>2, <2>3, LenProperties
  <2> QED
    BY <1>0, <2>2, <2>3, <2>4
<1> HIDE DEF a
<1>2. \A i \in 1..Len(s) : i \in K <=> i \in c..Len(s)
  <2>1. ASSUME NEW i \in 1..Len(s), i < c PROVE s[i].id \in Ids(a)
    <3>1. i \in DOMAIN a /\ a[i] = s[i]
      BY <1>0, <1>1, <2>1
    <3> QED
      BY <3>1 DEF Ids
  <2>2. ASSUME NEW i \in 1..Len(s), ~(i < c) PROVE s[i].id \notin Ids(a)
    <3>1. ASSUME NEW j \in DOMAIN a PROVE a[j].id # s[i].id
      <4>1. j \in DOMAIN s /\ a[j] = s[j] /\ j # i
        BY <1>0, <1>1, <2>2
      <4> QED
        BY <1>0, <4>1 DEF UniqueIds
    <3> QED
      BY <3>1 DEF Ids
  <2> QED
    BY <1>0, <2>1, <2>2
<1> HIDE DEF K
<1>3. Chosen(s, K) = SubSeq(s, c, Len(s))
  <2>1. c \in 1..(Len(s) + 1) /\ Len(s) \in 0..Len(s)
    BY <1>0
  <2> QED
    BY <1>2, <2>1, ChosenInterval
<1> QED
  BY <1>3 DEF Drop, K, a

\* The last messages are removed.
LEMMA DropLast ==
  ASSUME NEW s \in Seq(Msg), UniqueIds(s), NEW c \in 1..Len(s)
  PROVE  Drop(s, Ids(SubSeq(s, c, Len(s)))) = SubSeq(s, 1, c - 1)
PROOF
<1> DEFINE a == SubSeq(s, c, Len(s))
           K == {i \in DOMAIN s : s[i].id \notin Ids(a)}
<1>0. Len(s) \in Nat /\ DOMAIN s = 1..Len(s) /\ \A i \in 1..Len(s) : s[i] \in Msg
  BY LenProperties, ElementOfSeq
<1>1. a \in Seq(Msg) /\ DOMAIN a = 1..(Len(s) - c + 1) /\ \A i \in 1..(Len(s) - c + 1) : a[i] = s[c + i - 1]
  <2>1. \A i \in c..Len(s) : s[i] \in Msg
    BY <1>0
  <2>2. a \in Seq(Msg) /\ Len(a) = (IF c <= Len(s) THEN Len(s) - c + 1 ELSE 0)
        /\ \A i \in 1..(Len(s) - c + 1) : a[i] = s[c + i - 1]
    BY <1>0, <2>1, SubSeqProperties
  <2> HIDE DEF a
  <2>3. Len(a) = Len(s) - c + 1
    BY <1>0, <2>2
  <2> QED
    BY <2>2, <2>3, LenProperties
<1> HIDE DEF a
<1>2. \A i \in 1..Len(s) : i \in K <=> i \in 1..(c - 1)
  <2>1. ASSUME NEW i \in 1..Len(s), ~(i < c) PROVE s[i].id \in Ids(a)
    <3>1. i - c + 1 \in DOMAIN a /\ a[i - c + 1] = s[i]
      BY <1>0, <1>1, <2>1
    <3> QED
      BY <3>1 DEF Ids
  <2>2. ASSUME NEW i \in 1..Len(s), i < c PROVE s[i].id \notin Ids(a)
    <3>1. ASSUME NEW j \in DOMAIN a PROVE a[j].id # s[i].id
      <4>0. j \in 1..(Len(s) - c + 1) /\ a[j] = s[c + j - 1]
        BY <1>1
      <4>a. ASSUME NEW n \in Nat, c \in 1..n, j \in 1..(n - c + 1), i \in 1..n, i < c
            PROVE  c + j - 1 \in 1..n /\ c + j - 1 # i
        BY <4>a
      <4>b. c + j - 1 \in 1..Len(s) /\ c + j - 1 # i
        BY <1>0, <2>2, <4>0, <4>a
      <4>1. c + j - 1 \in DOMAIN s /\ a[j] = s[c + j - 1] /\ c + j - 1 # i
        BY <1>0, <4>0, <4>b
      <4> QED
        BY <1>0, <4>1 DEF UniqueIds
    <3> QED
      BY <3>1 DEF Ids
  <2> QED
    BY <1>0, <2>1, <2>2
<1> HIDE DEF K
<1>3. Chosen(s, K) = SubSeq(s, 1, c - 1)
  <2>1. 1 \in 1..(Len(s) + 1) /\ c - 1 \in 0..Len(s)
    BY <1>0
  <2> QED
    BY <1>2, <2>1, ChosenInterval
<1> QED
  BY <1>3 DEF Drop, K, a

\* Without ids nothing is removed.
LEMMA DropNothing ==
  ASSUME NEW s \in Seq(Msg)
  PROVE  Drop(s, {}) = s
PROOF
<1>1. 1..Len(s) \subseteq {i \in DOMAIN s : s[i].id \notin {}}
  BY LenProperties
<1>2. Chosen(s, {i \in DOMAIN s : s[i].id \notin {}}) = s
  BY <1>1, ChosenAll
<1> QED
  BY <1>2 DEF Drop

---------------------------------------------------------------------------
(* The shape of a conversation.                                           *)

\* A message with calls that is followed by a result.
Begun(s, i) == HasToolCall(s[i]) /\ i + 1 \in DOMAIN s /\ s[i + 1].type = "tool"
\* Results come for all the calls of a message, in their order.
Blocks(s) ==
  \A i \in DOMAIN s : Begun(s, i) =>
    \A p \in DOMAIN s[i].calls :
      /\ i + p \in DOMAIN s
      /\ s[i + p].type = "tool" /\ s[i + p].call = s[i].calls[p]
\* Every result is one of them.
Owned(s) ==
  \A j \in DOMAIN s : s[j].type = "tool" =>
    \E i \in 1..(j - 1) : Begun(s, i) /\ j - i \in DOMAIN s[i].calls
\* A call is asked for once.
CallsOnce(s) ==
  \A i, j \in DOMAIN s : \A p \in DOMAIN s[i].calls, q \in DOMAIN s[j].calls :
    s[i].calls[p] = s[j].calls[q] => i = j /\ p = q
\* The messages whose calls have no results.
Gaps(s) == {i \in DOMAIN s : HasToolCall(s[i]) /\ ~Begun(s, i)}

Shape(s) == Blocks(s) /\ Owned(s) /\ CallsOnce(s)

\* The fields of a message have their types.
LEMMA Fields ==
  ASSUME NEW s \in Seq(Msg)
  PROVE  /\ Len(s) \in Nat /\ DOMAIN s = 1..Len(s)
         /\ \A i \in 1..Len(s) :
              /\ s[i] \in Msg /\ s[i].calls \in Seq(Nat) /\ Len(s[i].calls) \in Nat
              /\ DOMAIN s[i].calls = 1..Len(s[i].calls)
              /\ HasToolCall(s[i]) => 1 \in 1..Len(s[i].calls) /\ s[i].type # "tool"
PROOF
<1>1. Len(s) \in Nat /\ DOMAIN s = 1..Len(s) /\ \A i \in 1..Len(s) : s[i] \in Msg
  BY LenProperties, ElementOfSeq
<1>2. ASSUME NEW i \in 1..Len(s)
      PROVE  /\ s[i].calls \in Seq(Nat) /\ Len(s[i].calls) \in Nat
             /\ DOMAIN s[i].calls = 1..Len(s[i].calls)
             /\ HasToolCall(s[i]) => 1 \in 1..Len(s[i].calls) /\ s[i].type # "tool"
  <2>1. s[i].calls \in Seq(Nat)
    BY <1>1 DEF Msg
  <2>2. Len(s[i].calls) \in Nat /\ DOMAIN s[i].calls = 1..Len(s[i].calls)
    BY <2>1, LenProperties
  <2>3. s[i].calls # <<>> => Len(s[i].calls) \in Nat \ {0}
    BY <2>1, EmptySeq
  <2> QED
    BY <2>1, <2>2, <2>3 DEF HasToolCall
<1> QED
  BY <1>1, <1>2

\* Without gaps that is what providers require.
LEMMA ShapeIsPaired ==
  ASSUME NEW s \in Seq(Msg), Blocks(s), Owned(s), Gaps(s) = {}
  PROVE  Paired(s)
PROOF
<1>0. /\ Len(s) \in Nat /\ DOMAIN s = 1..Len(s)
      /\ \A i \in 1..Len(s) :
           /\ s[i].calls \in Seq(Nat) /\ Len(s[i].calls) \in Nat
           /\ DOMAIN s[i].calls = 1..Len(s[i].calls)
  BY Fields
<1>1. ASSUME NEW i \in DOMAIN s, Begun(s, i), NEW p \in DOMAIN s[i].calls
      PROVE  i + p \in RunAfter(s, i) /\ s[i + p].call = s[i].calls[p]
  <2>1. \A q \in DOMAIN s[i].calls :
          i + q \in DOMAIN s /\ s[i + q].type = "tool" /\ s[i + q].call = s[i].calls[q]
    BY <1>1 DEF Blocks
  <2>2. ASSUME NEW k \in (i + 1)..(i + p) PROVE s[k].type = "tool"
    <3>1. k - i \in DOMAIN s[i].calls /\ i + (k - i) = k
      BY <1>0
    <3>2. s[i + (k - i)].type = "tool"
      BY <2>1, <3>1
    <3> QED
      BY <3>1, <3>2
  <2>3. i + p \in (i + 1)..Len(s)
    BY <1>0, <2>1
  <2> QED
    BY <2>1, <2>2, <2>3 DEF RunAfter
<1>2. Answered(s)
  <2> SUFFICES ASSUME NEW i \in DOMAIN s, HasToolCall(s[i])
               PROVE  Range(s[i].calls) \subseteq {s[j].call : j \in RunAfter(s, i)}
    BY DEF Answered
  <2>1. Begun(s, i)
    BY DEF Gaps
  <2>2. \A p \in DOMAIN s[i].calls : s[i].calls[p] \in {s[j].call : j \in RunAfter(s, i)}
    BY <1>1, <2>1
  <2> QED
    BY <2>2 DEF Range
<1>3. NoOrphanResults(s)
  <2> SUFFICES ASSUME NEW j \in DOMAIN s, s[j].type = "tool"
               PROVE  \E i \in 1..(j - 1) : HasToolCall(s[i]) /\ j \in RunAfter(s, i)
                                              /\ s[j].call \in Range(s[i].calls)
    BY DEF NoOrphanResults
  <2>1. PICK i \in 1..(j - 1) : Begun(s, i) /\ j - i \in DOMAIN s[i].calls
    BY DEF Owned
  <2>2. i \in DOMAIN s /\ i + (j - i) = j
    BY <1>0
  <2>3. i + (j - i) \in RunAfter(s, i) /\ s[i + (j - i)].call = s[i].calls[j - i]
    BY <1>1, <2>1, <2>2
  <2>4. s[j].call \in Range(s[i].calls)
    BY <2>1, <2>2, <2>3 DEF Range
  <2> QED
    BY <2>1, <2>2, <2>3, <2>4 DEF Begun
<1> QED
  BY <1>2, <1>3 DEF Paired

\* Two conversations one after the other.
LEMMA ConcatShape ==
  ASSUME NEW a \in Seq(Msg), NEW b \in Seq(Msg), Blocks(a), Owned(a), Blocks(b), Owned(b), NEW t, t = a \o b
  PROVE  /\ Blocks(t) /\ Owned(t)
         /\ Gaps(a) = {} /\ Gaps(b) = {} => Gaps(t) = {}
         /\ CallsOnce(a) /\ CallsOnce(b)
            /\ (\A i \in DOMAIN a, j \in DOMAIN b : \A p \in DOMAIN a[i].calls, q \in DOMAIN b[j].calls :
                  a[i].calls[p] # b[j].calls[q])
            => CallsOnce(t)
PROOF
<1> DEFINE m == Len(a)
           n == Len(b)
<1>0. /\ m \in Nat /\ DOMAIN a = 1..m /\ n \in Nat /\ DOMAIN b = 1..n
      /\ \A i \in 1..m : Len(a[i].calls) \in Nat /\ DOMAIN a[i].calls = 1..Len(a[i].calls)
      /\ \A i \in 1..n : Len(b[i].calls) \in Nat /\ DOMAIN b[i].calls = 1..Len(b[i].calls)
  BY Fields
<1>1. /\ t \in Seq(Msg) /\ Len(t) = m + n /\ (\A i \in 1..m : t[i] = a[i]) /\ (\A i \in 1..n : t[m + i] = b[i])
  BY ConcatPlaces DEF Prefix
<1>2. DOMAIN t = 1..(m + n)
  BY <1>1, LenProperties
<1> HIDE DEF m, n
<1>3. \A k \in DOMAIN t : (k \in 1..m /\ t[k] = a[k]) \/ (k - m \in 1..n /\ t[k] = b[k - m])
  <2> SUFFICES ASSUME NEW k \in DOMAIN t, k \notin 1..m PROVE k - m \in 1..n /\ t[k] = b[k - m]
    BY <1>1
  <2>1. k - m \in 1..n /\ m + (k - m) = k
    BY <1>0, <1>2
  <2>2. t[m + (k - m)] = b[k - m]
    BY <1>1, <2>1
  <2> QED
    BY <2>1, <2>2
<1>4. n >= 1 => b[1].type # "tool"
  <2>1. ASSUME n >= 1, b[1].type = "tool" PROVE FALSE
    <3>1. 1 \in DOMAIN b
      BY <1>0, <2>1
    <3>2. \E i \in 1..(1 - 1) : Begun(b, i)
      BY <2>1, <3>1 DEF Owned
    <3> QED
      BY <3>2
  <2> QED
    BY <2>1
<1>5. ASSUME NEW i \in 1..m PROVE Begun(t, i) <=> Begun(a, i)
  <2>1. CASE i + 1 \in 1..m
    BY <1>0, <1>1, <1>2, <2>1 DEF Begun
  <2>2. CASE i + 1 \notin 1..m
    <3>1. i + 1 = m + 1
      BY <1>0, <2>2
    <3>2. i + 1 \in DOMAIN t => t[i + 1].type # "tool"
      <4>1. ASSUME i + 1 \in DOMAIN t PROVE 1 \in 1..n /\ t[m + 1] = b[1]
        <5>1. 1 \in 1..n
          BY <1>0, <1>2, <3>1, <4>1
        <5> QED
          BY <1>1, <5>1
      <4> QED
        BY <1>0, <1>4, <3>1, <4>1
    <3> QED
      BY <1>0, <2>2, <3>2 DEF Begun
  <2> QED
    BY <2>1, <2>2
<1>6. ASSUME NEW i \in 1..n PROVE Begun(t, m + i) <=> Begun(b, i)
  <2>1. m + i + 1 \in DOMAIN t <=> i + 1 \in DOMAIN b
    BY <1>0, <1>2
  <2>2. i + 1 \in DOMAIN b => t[m + i + 1] = b[i + 1]
    <3>1. m + (i + 1) = m + i + 1
      BY <1>0
    <3>2. i + 1 \in DOMAIN b => t[m + (i + 1)] = b[i + 1]
      BY <1>0, <1>1
    <3> QED
      BY <3>1, <3>2
  <2> QED
    BY <1>1, <2>1, <2>2 DEF Begun
<1>7. Blocks(t)
  <2> SUFFICES ASSUME NEW k \in DOMAIN t, Begun(t, k), NEW p \in DOMAIN t[k].calls
               PROVE  k + p \in DOMAIN t /\ t[k + p].type = "tool" /\ t[k + p].call = t[k].calls[p]
    BY DEF Blocks
  <2>1. CASE k \in 1..m
    <3>1. Begun(a, k) /\ p \in DOMAIN a[k].calls
      BY <1>1, <1>5, <2>1
    <3>2. k + p \in 1..m /\ a[k + p].type = "tool" /\ a[k + p].call = a[k].calls[p]
      BY <1>0, <2>1, <3>1 DEF Blocks
    <3> QED
      BY <1>0, <1>1, <1>2, <2>1, <3>2
  <2>2. CASE k - m \in 1..n /\ t[k] = b[k - m]
    <3> DEFINE l == k - m
    <3>0. l \in 1..n /\ k = m + l /\ t[k] = b[l]
      BY <1>0, <1>2, <2>2
    <3> HIDE DEF l
    <3>1. Begun(b, l) /\ p \in DOMAIN b[l].calls
      BY <1>6, <3>0
    <3>2. l + p \in 1..n /\ b[l + p].type = "tool" /\ b[l + p].call = b[l].calls[p]
      BY <1>0, <3>0, <3>1 DEF Blocks
    <3>3. p \in Nat /\ k + p = m + (l + p) /\ k + p \in DOMAIN t
      <4>1. p \in Nat
        BY <1>0, <3>0, <3>1
      <4> QED
        BY <1>0, <1>2, <3>0, <3>2, <4>1
    <3>4. t[m + (l + p)] = b[l + p]
      BY <1>1, <3>2
    <3> QED
      BY <3>0, <3>2, <3>3, <3>4
  <2> QED
    BY <1>3, <2>1, <2>2
<1>8. Owned(t)
  <2> SUFFICES ASSUME NEW k \in DOMAIN t, t[k].type = "tool"
               PROVE  \E i \in 1..(k - 1) : Begun(t, i) /\ k - i \in DOMAIN t[i].calls
    BY DEF Owned
  <2>1. CASE k \in 1..m
    <3>1. PICK i \in 1..(k - 1) : Begun(a, i) /\ k - i \in DOMAIN a[i].calls
      BY <1>0, <1>1, <2>1 DEF Owned
    <3>2. i \in 1..m
      BY <1>0, <2>1
    <3> QED
      BY <1>1, <1>5, <3>1, <3>2
  <2>2. CASE k - m \in 1..n /\ t[k] = b[k - m]
    <3>1. PICK i \in 1..((k - m) - 1) : Begun(b, i) /\ (k - m) - i \in DOMAIN b[i].calls
      BY <1>0, <2>2 DEF Owned
    <3>2. i \in 1..n /\ m + i \in 1..(k - 1) /\ k - (m + i) = (k - m) - i
      BY <1>0, <1>2, <2>2
    <3> QED
      BY <1>1, <1>6, <3>1, <3>2
  <2> QED
    BY <1>3, <2>1, <2>2
<1>9. ASSUME Gaps(a) = {}, Gaps(b) = {} PROVE Gaps(t) = {}
  <2> SUFFICES ASSUME NEW k \in DOMAIN t, HasToolCall(t[k]) PROVE Begun(t, k)
    BY DEF Gaps
  <2>1. CASE k \in 1..m
    BY <1>0, <1>1, <1>5, <1>9, <2>1 DEF Gaps
  <2>2. CASE k - m \in 1..n /\ t[k] = b[k - m]
    <3>1. Begun(b, k - m) /\ m + (k - m) = k
      BY <1>0, <1>2, <1>9, <2>2 DEF Gaps
    <3>2. Begun(t, m + (k - m))
      BY <1>6, <2>2, <3>1
    <3> QED
      BY <3>1, <3>2
  <2> QED
    BY <1>3, <2>1, <2>2
<1>10. ASSUME CallsOnce(a), CallsOnce(b),
              \A i \in DOMAIN a, j \in DOMAIN b : \A p \in DOMAIN a[i].calls, q \in DOMAIN b[j].calls :
                a[i].calls[p] # b[j].calls[q]
       PROVE  CallsOnce(t)
  <2> SUFFICES ASSUME NEW i \in DOMAIN t, NEW j \in DOMAIN t, NEW p \in DOMAIN t[i].calls,
                      NEW q \in DOMAIN t[j].calls, t[i].calls[p] = t[j].calls[q]
               PROVE  i = j /\ p = q
    BY DEF CallsOnce
  <2>1. CASE i \in 1..m /\ t[i] = a[i] /\ j \in 1..m /\ t[j] = a[j]
    BY <1>0, <1>10, <2>1 DEF CallsOnce
  <2>2. CASE i - m \in 1..n /\ t[i] = b[i - m] /\ j - m \in 1..n /\ t[j] = b[j - m]
    <3>1. i - m = j - m /\ p = q
      <4> DEFINE x == i - m
                 y == j - m
      <4>1. x \in DOMAIN b /\ y \in DOMAIN b /\ t[i] = b[x] /\ t[j] = b[y]
        BY <1>0, <2>2
      <4> HIDE DEF x, y
      <4>2. x = y /\ p = q
        BY <1>10, <4>1 DEF CallsOnce
      <4> QED
        BY <4>2 DEF x, y
    <3> QED
      BY <1>0, <1>2, <3>1
  <2>3. CASE i \in 1..m /\ t[i] = a[i] /\ j - m \in 1..n /\ t[j] = b[j - m]
    BY <1>0, <1>10, <2>3
  <2>4. CASE j \in 1..m /\ t[j] = a[j] /\ i - m \in 1..n /\ t[i] = b[i - m]
    BY <1>0, <1>10, <2>4
  <2> QED
    BY <1>3, <2>1, <2>2, <2>3, <2>4
<1> QED
  BY <1>7, <1>8, <1>9, <1>10

\* One message that is no result.
LEMMA OneShape ==
  ASSUME NEW m \in Msg, m.type # "tool", \A p, q \in DOMAIN m.calls : m.calls[p] = m.calls[q] => p = q
  PROVE  /\ <<m>> \in Seq(Msg) /\ Shape(<<m>>) /\ Len(<<m>>) = 1 /\ <<m>>[1] = m /\ DOMAIN <<m>> = {1}
         /\ Gaps(<<m>>) = IF HasToolCall(m) THEN {1} ELSE {}
PROOF
<1> DEFINE s == <<m>>
<1>1. s \in Seq(Msg) /\ Len(s) = 1 /\ s[1] = m /\ DOMAIN s = {1}
  BY OneOf
<1> HIDE DEF s
<1>2. \A i \in DOMAIN s : ~Begun(s, i)
  BY <1>1 DEF Begun
<1>3. Blocks(s) /\ Owned(s)
  BY <1>1, <1>2 DEF Blocks, Owned
<1>4. CallsOnce(s)
  BY <1>1 DEF CallsOnce
<1>5. Gaps(s) = IF HasToolCall(m) THEN {1} ELSE {}
  BY <1>1, <1>2 DEF Gaps
<1> QED
  BY <1>1, <1>3, <1>4, <1>5 DEF s, Shape

\* a is s from the place c on.
Part(a, s, c) == \A i \in 1..Len(a) : c + i - 1 \in 1..Len(s) /\ a[i] = s[c + i - 1]

\* The messages from one on that is no result.
LEMMA SuffixShape ==
  ASSUME NEW s \in Seq(Msg), Shape(s), NEW c \in 1..Len(s), s[c].type # "tool",
         NEW t, t = SubSeq(s, c, Len(s))
  PROVE  t \in Seq(Msg) /\ Shape(t) /\ Len(t) = Len(s) - c + 1 /\ Part(t, s, c)
PROOF
<1> DEFINE m == Len(t)
           At(i) == c + i - 1
<1>0. /\ Len(s) \in Nat /\ DOMAIN s = 1..Len(s)
      /\ \A i \in 1..Len(s) :
           /\ s[i] \in Msg /\ Len(s[i].calls) \in Nat /\ DOMAIN s[i].calls = 1..Len(s[i].calls)
           /\ HasToolCall(s[i]) => s[i].type # "tool"
  BY Fields
<1>1. t \in Seq(Msg) /\ Len(t) = Len(s) - c + 1 /\ \A i \in 1..(Len(s) - c + 1) : t[i] = s[c + i - 1]
  <2>1. \A i \in c..Len(s) : s[i] \in Msg
    BY <1>0
  <2>2. t \in Seq(Msg) /\ Len(t) = (IF c <= Len(s) THEN Len(s) - c + 1 ELSE 0)
        /\ \A i \in 1..(Len(s) - c + 1) : t[i] = s[c + i - 1]
    BY <1>0, <2>1, SubSeqProperties
  <2> QED
    BY <1>0, <2>2
<1>2. DOMAIN t = 1..m /\ m \in Nat /\ m = Len(s) - c + 1
  BY <1>0, <1>1, LenProperties
<1>3. \A i \in 1..m : At(i) \in 1..Len(s) /\ t[i] = s[At(i)]
  BY <1>0, <1>1, <1>2
<1> HIDE DEF m
<1>4. ASSUME NEW i \in 1..m PROVE Begun(t, i) <=> Begun(s, At(i))
  <2>1. i + 1 \in 1..m <=> At(i) + 1 \in 1..Len(s)
    BY <1>0, <1>2
  <2>2. i + 1 \in 1..m => t[i + 1] = s[At(i) + 1]
    <3>1. i + 1 \in 1..m => t[i + 1] = s[At(i + 1)]
      BY <1>3
    <3>2. At(i + 1) = At(i) + 1
      BY <1>2
    <3> HIDE DEF At
    <3> QED
      BY <3>1, <3>2
  <2>3. t[i] = s[At(i)]
    BY <1>3
  <2> HIDE DEF At
  <2> QED
    BY <1>0, <1>2, <2>1, <2>2, <2>3 DEF Begun
<1>5. \A i \in 1..m, p \in Nat : At(i + p) = At(i) + p /\ (i + p \in 1..m <=> At(i) + p \in 1..Len(s))
  BY <1>0, <1>2
<1>6. \A k \in 1..Len(s) : k >= c => k - c + 1 \in 1..m /\ At(k - c + 1) = k
  BY <1>0, <1>2
<1>7. \A i, j \in 1..m : (At(i) = At(j) => i = j) /\ (At(i) \in 1..(At(j) - 1) => i \in 1..(j - 1)) /\ At(j) - At(i) = j - i
                          /\ At(i) >= c
  BY <1>0, <1>2
<1>8. ASSUME NEW j \in 1..Len(s), j >= c, NEW i \in 1..(j - 1), Begun(s, i), j - i \in DOMAIN s[i].calls
      PROVE  i >= c
  <2>1. ASSUME ~(i >= c) PROVE FALSE
    <3>1. i \in 1..Len(s) /\ c - i \in 1..(j - i)
      BY <1>0, <1>8, <2>1
    <3>2. c - i \in DOMAIN s[i].calls
      <4>1. DOMAIN s[i].calls = 1..Len(s[i].calls) /\ Len(s[i].calls) \in Nat
        BY <1>0, <3>1
      <4> QED
        BY <1>8, <3>1, <4>1
    <3>3. s[i + (c - i)].type = "tool"
      BY <1>0, <1>8, <3>1, <3>2 DEF Shape, Blocks
    <3>4. i + (c - i) = c
      BY <1>0, <3>1
    <3> QED
      BY <3>3, <3>4
  <2> QED
    BY <2>1
<1> HIDE DEF At
<1>9. Blocks(t)
  <2> SUFFICES ASSUME NEW k \in DOMAIN t, Begun(t, k), NEW p \in DOMAIN t[k].calls
               PROVE  k + p \in DOMAIN t /\ t[k + p].type = "tool" /\ t[k + p].call = t[k].calls[p]
    BY DEF Blocks
  <2>1. k \in 1..m /\ At(k) \in 1..Len(s) /\ t[k] = s[At(k)] /\ Begun(s, At(k))
    BY <1>2, <1>3, <1>4
  <2>2. At(k) + p \in 1..Len(s) /\ s[At(k) + p].type = "tool" /\ s[At(k) + p].call = s[At(k)].calls[p]
    BY <1>0, <2>1 DEF Shape, Blocks
  <2>3. p \in Nat
    BY <1>0, <2>1
  <2> QED
    BY <1>2, <1>3, <1>5, <2>1, <2>2, <2>3
<1>10. Owned(t)
  <2> SUFFICES ASSUME NEW k \in DOMAIN t, t[k].type = "tool"
               PROVE  \E i \in 1..(k - 1) : Begun(t, i) /\ k - i \in DOMAIN t[i].calls
    BY DEF Owned
  <2>1. k \in 1..m /\ At(k) \in 1..Len(s) /\ t[k] = s[At(k)] /\ At(k) >= c
    BY <1>2, <1>3, <1>7
  <2>2. PICK l \in 1..(At(k) - 1) : Begun(s, l) /\ At(k) - l \in DOMAIN s[l].calls
    BY <1>0, <2>1 DEF Shape, Owned
  <2>3. l >= c /\ l \in 1..Len(s)
    BY <1>0, <1>8, <2>1, <2>2
  <2> DEFINE i == l - c + 1
  <2>4. i \in 1..m /\ At(i) = l
    BY <1>6, <2>3
  <2> HIDE DEF i
  <2>5. i \in 1..(k - 1) /\ k - i = At(k) - l
    BY <1>7, <2>1, <2>2, <2>4
  <2>6. Begun(t, i) /\ t[i] = s[l]
    BY <1>3, <1>4, <2>2, <2>4
  <2> QED
    BY <2>2, <2>5, <2>6
<1>11. CallsOnce(t)
  <2> SUFFICES ASSUME NEW i \in DOMAIN t, NEW j \in DOMAIN t, NEW p \in DOMAIN t[i].calls,
                      NEW q \in DOMAIN t[j].calls, t[i].calls[p] = t[j].calls[q]
               PROVE  i = j /\ p = q
    BY DEF CallsOnce
  <2>1. At(i) \in DOMAIN s /\ At(j) \in DOMAIN s /\ t[i] = s[At(i)] /\ t[j] = s[At(j)]
    BY <1>0, <1>2, <1>3
  <2>2. At(i) = At(j) /\ p = q
    BY <2>1 DEF Shape, CallsOnce
  <2> QED
    BY <1>2, <1>7, <2>2
<1> QED
  BY <1>1, <1>2, <1>3, <1>9, <1>10, <1>11 DEF Shape, Part, m, At

\* The messages before one that is no result.
LEMMA PrefixShape ==
  ASSUME NEW s \in Seq(Msg), Shape(s), NEW c \in 0..(Len(s) - 1), s[c + 1].type # "tool",
         NEW t, t = SubSeq(s, 1, c)
  PROVE  t \in Seq(Msg) /\ Shape(t) /\ Len(t) = c /\ Part(t, s, 1)
PROOF
<1>0. /\ Len(s) \in Nat /\ DOMAIN s = 1..Len(s)
      /\ \A i \in 1..Len(s) :
           /\ s[i] \in Msg /\ Len(s[i].calls) \in Nat /\ DOMAIN s[i].calls = 1..Len(s[i].calls)
  BY Fields
<1>1. t \in Seq(Msg) /\ Len(t) = c /\ \A i \in 1..c : t[i] = s[i]
  <2>1. \A i \in 1..c : s[i] \in Msg
    BY <1>0
  <2>2. t \in Seq(Msg) /\ Len(t) = (IF 1 <= c THEN c - 1 + 1 ELSE 0)
        /\ \A i \in 1..(c - 1 + 1) : t[i] = s[1 + i - 1]
    BY <1>0, <2>1, SubSeqProperties
  <2> QED
    BY <1>0, <2>2
<1>2. DOMAIN t = 1..c /\ c \in Nat
  BY <1>0, <1>1, LenProperties
<1>3. ASSUME NEW i \in 1..c PROVE /\ i \in 1..Len(s) /\ t[i] = s[i]
                                  /\ Begun(t, i) <=> Begun(s, i)
  <2>1. i \in 1..Len(s) /\ t[i] = s[i]
    BY <1>0, <1>1
  <2>2. CASE i + 1 \in 1..c
    BY <1>0, <1>1, <1>2, <2>1, <2>2 DEF Begun
  <2>3. CASE i + 1 \notin 1..c
    <3>1. i + 1 = c + 1
      BY <1>2, <2>3
    <3> QED
      BY <1>2, <2>1, <2>3, <3>1 DEF Begun
  <2> QED
    BY <2>1, <2>2, <2>3
<1>4. Blocks(t)
  <2> SUFFICES ASSUME NEW k \in DOMAIN t, Begun(t, k), NEW p \in DOMAIN t[k].calls
               PROVE  k + p \in DOMAIN t /\ t[k + p].type = "tool" /\ t[k + p].call = t[k].calls[p]
    BY DEF Blocks
  <2>1. k \in 1..c /\ k \in 1..Len(s) /\ t[k] = s[k] /\ Begun(s, k)
    BY <1>2, <1>3
  <2>2. \A q \in DOMAIN s[k].calls : k + q \in 1..Len(s) /\ s[k + q].type = "tool" /\ s[k + q].call = s[k].calls[q]
    BY <1>0, <2>1 DEF Shape, Blocks
  <2>3. DOMAIN s[k].calls = 1..Len(s[k].calls) /\ Len(s[k].calls) \in Nat
    BY <1>0, <2>1
  <2>4. k + p \in 1..c
    <3>1. ASSUME k + p > c PROVE FALSE
      <4>1. c + 1 - k \in DOMAIN s[k].calls /\ k + (c + 1 - k) = c + 1
        BY <1>2, <2>1, <2>3, <3>1
      <4>2. s[k + (c + 1 - k)].type = "tool"
        BY <2>2, <4>1
      <4> QED
        BY <4>1, <4>2
    <3> QED
      BY <1>2, <2>1, <2>3, <3>1
  <2> QED
    BY <1>1, <1>2, <2>1, <2>2, <2>4
<1>5. Owned(t)
  <2> SUFFICES ASSUME NEW k \in DOMAIN t, t[k].type = "tool"
               PROVE  \E i \in 1..(k - 1) : Begun(t, i) /\ k - i \in DOMAIN t[i].calls
    BY DEF Owned
  <2>1. k \in 1..c /\ k \in 1..Len(s) /\ t[k] = s[k]
    BY <1>2, <1>3
  <2>2. PICK i \in 1..(k - 1) : Begun(s, i) /\ k - i \in DOMAIN s[i].calls
    BY <1>0, <2>1 DEF Shape, Owned
  <2>3. i \in 1..c
    BY <1>2, <2>1
  <2> QED
    BY <1>3, <2>2, <2>3
<1>6. CallsOnce(t)
  <2>1. \A i \in DOMAIN t : i \in DOMAIN s /\ t[i] = s[i]
    BY <1>0, <1>2, <1>3
  <2> QED
    BY <2>1 DEF Shape, CallsOnce
<1>7. Part(t, s, 1)
  BY <1>0, <1>1 DEF Part
<1> QED
  BY <1>1, <1>4, <1>5, <1>6, <1>7 DEF Shape

\* The results of the last message's calls.
Results(new, calls) ==
  /\ Len(new) = Len(calls)
  /\ \A p \in 1..Len(new) : new[p].type = "tool" /\ new[p].calls = <<>> /\ new[p].call = calls[p]

\* Tool results at the end belong to the last gap.
LEMMA ToolsShape ==
  ASSUME NEW s \in Seq(Msg), Shape(s), Len(s) # 0, NEW last, last = s[Len(s)], HasToolCall(last),
         NEW new \in Seq(Msg), Results(new, last.calls),
         NEW t, t = s \o new
  PROVE  Shape(t) /\ Begun(t, Len(s))
PROOF
<1> DEFINE n == Len(s)
           m == Len(new)
<1>0. /\ n \in Nat \ {0} /\ DOMAIN s = 1..n
      /\ \A i \in 1..n :
           /\ s[i] \in Msg /\ Len(s[i].calls) \in Nat /\ DOMAIN s[i].calls = 1..Len(s[i].calls)
           /\ HasToolCall(s[i]) => 1 \in 1..Len(s[i].calls)
  BY Fields
<1>1. /\ t \in Seq(Msg) /\ m \in Nat /\ Len(t) = n + m
      /\ (\A i \in 1..n : t[i] = s[i]) /\ (\A i \in 1..m : t[n + i] = new[i])
  <2> HIDE DEF m, n
  <2>1. /\ t \in Seq(Msg) /\ Len(t) = Len(s) + Len(new) /\ Len(new) \in Nat
        /\ (\A k \in 1..Len(s) : t[k] = s[k]) /\ \A k \in 1..Len(new) : t[Len(s) + k] = new[k]
    BY ConcatPlaces DEF Prefix
  <2> QED
    BY <2>1 DEF m, n
<1>2. DOMAIN t = 1..(n + m)
  BY <1>1, LenProperties
<1>3. m = Len(s[n].calls) /\ m >= 1 /\ n \in 1..n /\ DOMAIN s[n].calls = 1..m
  BY <1>0 DEF Results
<1>4. \A p \in 1..m : t[n + p].type = "tool" /\ t[n + p].calls = <<>> /\ t[n + p].call = s[n].calls[p]
  BY <1>1 DEF Results
<1> HIDE DEF n, m
<1>5. \A k \in DOMAIN t : k \in 1..n \/ (k - n \in 1..m /\ n + (k - n) = k)
  BY <1>0, <1>1, <1>2
<1>6. \A k \in DOMAIN t : HasToolCall(t[k]) => k \in 1..n
  BY <1>4, <1>5 DEF HasToolCall
<1>7. Begun(t, n)
  <2>1. n + 1 \in DOMAIN t /\ 1 \in 1..m
    BY <1>0, <1>1, <1>2, <1>3
  <2>2. HasToolCall(t[n])
    BY <1>1, <1>3 DEF n
  <2> QED
    BY <1>4, <2>1, <2>2 DEF Begun
<1>8. ASSUME NEW i \in 1..n, i # n PROVE Begun(t, i) <=> Begun(s, i)
  <2>1. i + 1 \in 1..n /\ i + 1 \in DOMAIN t
    BY <1>0, <1>1, <1>2, <1>8
  <2> QED
    BY <1>0, <1>1, <2>1 DEF Begun
<1>9. ~Begun(s, n)
  BY <1>0 DEF Begun
<1>10. Blocks(t)
  <2> SUFFICES ASSUME NEW k \in DOMAIN t, Begun(t, k), NEW p \in DOMAIN t[k].calls
               PROVE  k + p \in DOMAIN t /\ t[k + p].type = "tool" /\ t[k + p].call = t[k].calls[p]
    BY DEF Blocks
  <2>1. k \in 1..n /\ t[k] = s[k]
    BY <1>1, <1>6 DEF Begun
  <2>2. CASE k = n
    <3>1. p \in 1..m
      BY <1>3, <2>1, <2>2
    <3>2. n + p \in DOMAIN t
      BY <1>0, <1>1, <1>2, <3>1
    <3> QED
      BY <1>4, <2>1, <2>2, <3>1, <3>2
  <2>3. CASE k # n
    <3>1. Begun(s, k)
      BY <1>8, <2>1, <2>3
    <3>2. k + p \in 1..n /\ s[k + p].type = "tool" /\ s[k + p].call = s[k].calls[p]
      BY <1>0, <2>1, <3>1 DEF Shape, Blocks
    <3> QED
      BY <1>0, <1>1, <1>2, <2>1, <3>2
  <2> QED
    BY <2>2, <2>3
<1>11. Owned(t)
  <2> SUFFICES ASSUME NEW k \in DOMAIN t, t[k].type = "tool"
               PROVE  \E i \in 1..(k - 1) : Begun(t, i) /\ k - i \in DOMAIN t[i].calls
    BY DEF Owned
  <2>1. CASE k \in 1..n
    <3>1. PICK i \in 1..(k - 1) : Begun(s, i) /\ k - i \in DOMAIN s[i].calls
      BY <1>0, <1>1, <2>1 DEF Shape, Owned
    <3>2. i \in 1..n /\ i # n
      BY <1>0, <2>1
    <3> QED
      BY <1>1, <1>8, <3>1, <3>2
  <2>2. CASE k - n \in 1..m /\ n + (k - n) = k
    <3>1. n \in 1..(k - 1) /\ k - n \in DOMAIN s[n].calls
      BY <1>0, <1>1, <1>3, <1>2, <2>2
    <3> QED
      BY <1>1, <1>3, <1>7, <3>1
  <2> QED
    BY <1>5, <2>1, <2>2
<1>12. CallsOnce(t)
  <2> SUFFICES ASSUME NEW i \in DOMAIN t, NEW j \in DOMAIN t, NEW p \in DOMAIN t[i].calls,
                      NEW q \in DOMAIN t[j].calls, t[i].calls[p] = t[j].calls[q]
               PROVE  i = j /\ p = q
    BY DEF CallsOnce
  <2>1. \A k \in DOMAIN t : t[k].calls # <<>> => k \in 1..n /\ t[k] = s[k]
    BY <1>1, <1>4, <1>5
  <2>2. t[i].calls # <<>> /\ t[j].calls # <<>>
    OBVIOUS
  <2> QED
    BY <1>0, <2>1, <2>2 DEF Shape, CallsOnce
<1> QED
  BY <1>7, <1>10, <1>11, <1>12 DEF n, Shape

---------------------------------------------------------------------------
(* Results are filled in for every gap.                                   *)

\* The same message, perhaps with another id.
Same(m, n) ==
  m.type = n.type /\ m.calls = n.calls /\ m.call = n.call /\ m.turn = n.turn /\ m.fake = n.fake
\* An invented result of the p-th call of n.
Invented(m, n, p) ==
  m.type = "tool" /\ m.calls = <<>> /\ m.call = n.calls[p] /\ m.turn = n.turn /\ m.fake

FilledAt(t, s, e, i) ==
  /\ e[i] \in 1..Len(t) /\ Same(t[e[i]], s[i])
  /\ e[i + 1] = e[i] + 1 + (IF i \in Gaps(s) THEN Len(s[i].calls) ELSE 0)
  /\ i \in Gaps(s) => \A p \in 1..Len(s[i].calls) :
                        e[i] + p \in 1..Len(t) /\ Invented(t[e[i] + p], s[i], p)
\* t is s with a result for each call in a gap; e says where the messages of s are.
Filled(t, s, e) ==
  /\ e \in [1..(Len(s) + 1) -> Nat] /\ e[1] = 1 /\ Len(t) + 1 = e[Len(s) + 1]
  /\ \A i \in 1..Len(s) : FilledAt(t, s, e, i)
  /\ \A k \in 1..Len(t) : \E i \in 1..Len(s) :
       k = e[i] \/ (i \in Gaps(s) /\ k - e[i] \in 1..Len(s[i].calls))

\* Where there is no gap, nothing comes between.
LEMMA FilledSteady ==
  ASSUME NEW s \in Seq(Msg), NEW t, NEW e, Filled(t, s, e),
         NEW i \in 1..Len(s), NEW j \in i..Len(s), \A k \in i..(j - 1) : k \notin Gaps(s)
  PROVE  e[j] = e[i] + (j - i)
PROOF
<1> DEFINE m == j - i
<1>0. Len(s) \in Nat /\ i \in Nat
  BY LenProperties
<1>a. m \in Nat /\ i + m = j /\ i + m <= Len(s) /\ \A q \in 0..(m - 1) : i + q \in i..(j - 1)
  BY <1>0
<1> HIDE DEF m
<1>1. \A l \in 1..(Len(s) + 1) : e[l] \in Nat
  BY DEF Filled
<1> DEFINE Bad == {q \in 0..m : e[i + q] # e[i] + q}
<1>2. ASSUME Bad # {} PROVE FALSE
  <2>1. Bad \in SUBSET Nat
    BY <1>a
  <2>2. PICK q \in Bad : \A l \in Bad : q <= l
    <3> HIDE DEF Bad
    <3> QED
      BY <1>2, <2>1, LeastExists
  <2>3. q \in 0..m /\ e[i + q] # e[i] + q
    OBVIOUS
  <2>4. e[i] \in Nat
    BY <1>0, <1>1
  <2>5. q # 0
    BY <1>0, <1>a, <2>3, <2>4
  <2>6. q - 1 \in 0..m /\ ~(q <= q - 1) /\ q - 1 \in 0..(m - 1) /\ i + (q - 1) \in 1..Len(s)
        /\ (i + (q - 1)) + 1 = i + q
    BY <1>0, <1>a, <2>3, <2>5
  <2>7. q - 1 \notin Bad
    <3> HIDE DEF Bad
    <3> QED
      BY <2>2, <2>6
  <2>8. e[i + (q - 1)] = e[i] + (q - 1)
    BY <2>6, <2>7
  <2>9. e[(i + (q - 1)) + 1] = e[i + (q - 1)] + 1
    <3>1. i + (q - 1) \notin Gaps(s) /\ e[i + (q - 1)] \in Nat
      <4>1. i + (q - 1) \notin Gaps(s)
        BY <1>a, <2>6
      <4>2. q - 1 \in Nat
        BY <2>6
      <4> QED
        BY <2>4, <2>8, <4>1, <4>2
    <3>2. e[(i + (q - 1)) + 1] = e[i + (q - 1)] + 1 + 0
      BY <2>6, <3>1 DEF Filled, FilledAt
    <3> QED
      BY <3>1, <3>2
  <2> QED
    BY <2>3, <2>4, <2>6, <2>8, <2>9
<1>3. m \in 0..m
  BY <1>a
<1>4. e[i + m] = e[i] + m
  BY <1>2, <1>3
<1> QED
  BY <1>a, <1>4 DEF m

\* The messages stay in their order.
LEMMA FilledGrows ==
  ASSUME NEW s \in Seq(Msg), NEW t, NEW e, Filled(t, s, e),
         NEW i \in 1..Len(s), NEW j \in (i + 1)..Len(s)
  PROVE  e[i] < e[j]
PROOF
<1>0. Len(s) \in Nat /\ i \in Nat /\ \A l \in 1..Len(s) : Len(s[l].calls) \in Nat
  BY Fields
<1>1. \A l \in 1..(Len(s) + 1) : e[l] \in Nat
  BY DEF Filled
<1>2. ASSUME NEW l \in 1..Len(s) PROVE e[l] < e[l + 1]
  <2>1. e[l + 1] = e[l] + 1 + (IF l \in Gaps(s) THEN Len(s[l].calls) ELSE 0)
    BY DEF Filled, FilledAt
  <2> QED
    BY <1>0, <1>1, <2>1
<1> DEFINE Bad == {l \in (i + 1)..Len(s) : ~(e[i] < e[l])}
<1>3. ASSUME Bad # {} PROVE FALSE
  <2>1. Bad \in SUBSET Nat
    BY <1>0
  <2>2. PICK l \in Bad : \A k \in Bad : l <= k
    <3> HIDE DEF Bad
    <3> QED
      BY <1>3, <2>1, LeastExists
  <2>3. l \in (i + 1)..Len(s) /\ ~(e[i] < e[l])
    OBVIOUS
  <2>4. l # i + 1
    BY <1>2, <2>3
  <2>5. l - 1 \in (i + 1)..Len(s) /\ ~(l <= l - 1) /\ l - 1 \in 1..Len(s) /\ (l - 1) + 1 = l /\ l \in 1..Len(s)
    BY <1>0, <2>3, <2>4
  <2>6. l - 1 \notin Bad
    <3> HIDE DEF Bad
    <3> QED
      BY <2>2, <2>5
  <2>7. e[i] < e[l - 1]
    BY <2>5, <2>6
  <2>8. e[l - 1] < e[l]
    <3>1. e[l - 1] < e[(l - 1) + 1]
      BY <1>2, <2>5
    <3> QED
      BY <2>5, <3>1
  <2>9. e[i] \in Nat /\ e[l - 1] \in Nat /\ e[l] \in Nat
    BY <1>0, <1>1, <2>5
  <2> QED
    BY <2>3, <2>7, <2>8, <2>9
<1> QED
  BY <1>3

\* Every message that is not invented is one of s.
LEMMA FilledFrom ==
  ASSUME NEW s \in Seq(Msg), NEW t, NEW e, Filled(t, s, e), NEW k \in 1..Len(t)
  PROVE  \/ \E i \in 1..Len(s) : k = e[i] /\ Same(t[k], s[i])
         \/ \E i \in Gaps(s) : k - e[i] \in 1..Len(s[i].calls) /\ Invented(t[k], s[i], k - e[i])
PROOF
<1>0. DOMAIN s = 1..Len(s) /\ Len(s) \in Nat
  BY Fields
<1>1. PICK i \in 1..Len(s) : k = e[i] \/ (i \in Gaps(s) /\ k - e[i] \in 1..Len(s[i].calls))
  BY DEF Filled
<1>2. CASE k = e[i]
  BY <1>2 DEF Filled, FilledAt
<1>3. CASE i \in Gaps(s) /\ k - e[i] \in 1..Len(s[i].calls)
  <2>1. Invented(t[e[i] + (k - e[i])], s[i], k - e[i])
    BY <1>3 DEF Filled, FilledAt
  <2>2. e[i] \in Nat
    BY <1>0 DEF Filled
  <2>3. e[i] + (k - e[i]) = k
    BY <2>2
  <2> QED
    BY <1>3, <2>1, <2>3
<1> QED
  BY <1>1, <1>2, <1>3

\* What is filled has the shape and no gaps.
LEMMA FilledShape ==
  ASSUME NEW s \in Seq(Msg), NEW t \in Seq(Msg), NEW e, Filled(t, s, e), Shape(s)
  PROVE  Shape(t) /\ Gaps(t) = {}
PROOF
<1> DEFINE n == Len(s)
           m == Len(t)
<1>0. /\ n \in Nat /\ DOMAIN s = 1..n
      /\ \A i \in 1..n :
           /\ Len(s[i].calls) \in Nat /\ DOMAIN s[i].calls = 1..Len(s[i].calls)
           /\ HasToolCall(s[i]) => 1 \in 1..Len(s[i].calls) /\ s[i].type # "tool"
  BY Fields
<1>1. m \in Nat /\ DOMAIN t = 1..m
  BY Fields
<1>2. /\ \A i \in 1..(n + 1) : e[i] \in Nat
      /\ \A i \in 1..n : e[i] \in 1..m /\ Same(t[e[i]], s[i])
      /\ \A i \in Gaps(s) : \A p \in 1..Len(s[i].calls) :
           e[i] + p \in 1..m /\ Invented(t[e[i] + p], s[i], p)
  <2>1. \A i \in Gaps(s) : i \in 1..n
    BY <1>0 DEF Gaps
  <2>2. \A i \in 1..n : FilledAt(t, s, e, i)
    BY DEF Filled
  <2>3. \A i \in 1..(n + 1) : e[i] \in Nat
    BY DEF Filled
  <2> QED
    BY <2>1, <2>2, <2>3 DEF FilledAt
<1>3. \A k \in 1..m : (\E i \in 1..n : k = e[i] /\ Same(t[k], s[i]))
                      \/ \E i \in Gaps(s) : k - e[i] \in 1..Len(s[i].calls) /\ Invented(t[k], s[i], k - e[i])
  BY FilledFrom
<1>4. \A k \in 1..m : t[k].calls # <<>> => \E i \in 1..n : k = e[i] /\ Same(t[k], s[i])
  BY <1>3 DEF Invented
<1> HIDE DEF n, m
\* Results that are there stay where they were.
<1>5. ASSUME NEW i \in 1..n, Begun(s, i), NEW p \in DOMAIN s[i].calls
      PROVE  i + p \in 1..n /\ e[i + p] = e[i] + p /\ s[i + p].type = "tool" /\ s[i + p].call = s[i].calls[p]
  <2>1. \A q \in DOMAIN s[i].calls : i + q \in DOMAIN s /\ s[i + q].type = "tool" /\ s[i + q].call = s[i].calls[q]
    BY <1>0, <1>5 DEF Shape, Blocks
  <2>2. ASSUME NEW q \in 0..(p - 1) PROVE i + q \notin Gaps(s)
    <3>1. CASE q = 0
      BY <1>0, <1>5, <3>1 DEF Gaps
    <3>2. CASE q # 0
      <4>1. q \in DOMAIN s[i].calls
        BY <1>0, <3>2
      <4> QED
        BY <2>1, <4>1 DEF Gaps, HasToolCall
    <3> QED
      BY <3>1, <3>2
  <2>3. p \in Nat /\ i + p <= n
    BY <1>0, <2>1
  <2>4. e[i + p] = e[i] + p
    <3> DEFINE j == i + p
    <3>1. i \in 1..Len(s) /\ j \in i..Len(s) /\ j - i = p
      BY <1>0, <2>3 DEF n
    <3>2. ASSUME NEW k \in i..(j - 1) PROVE k \notin Gaps(s)
      <4>1. k - i \in 0..(p - 1) /\ i + (k - i) = k
        BY <1>0, <2>3
      <4> QED
        BY <2>2, <4>1
    <3> HIDE DEF j
    <3>3. e[j] = e[i] + (j - i)
      BY <3>1, <3>2, FilledSteady
    <3> QED
      BY <3>1, <3>3 DEF j
  <2> QED
    BY <1>0, <2>1, <2>4
\* A message with calls is followed by a result.
<1>6. ASSUME NEW i \in 1..n, HasToolCall(s[i]) PROVE Begun(t, e[i])
  <2>1. HasToolCall(t[e[i]])
    BY <1>2, <1>6 DEF HasToolCall, Same
  <2>2. CASE i \in Gaps(s)
    <3>1. e[i] + 1 \in 1..m /\ t[e[i] + 1].type = "tool"
      BY <1>0, <1>2, <1>6, <2>2 DEF Invented
    <3> QED
      BY <1>1, <2>1, <3>1 DEF Begun
  <2>3. CASE i \notin Gaps(s)
    <3>1. Begun(s, i) /\ 1 \in DOMAIN s[i].calls
      BY <1>0, <1>6, <2>3 DEF Gaps
    <3>2. i + 1 \in 1..n /\ e[i + 1] = e[i] + 1 /\ s[i + 1].type = "tool"
      BY <1>5, <3>1
    <3>3. e[i] + 1 \in 1..m /\ t[e[i] + 1].type = "tool"
      BY <1>2, <3>2 DEF Same
    <3> QED
      BY <1>1, <2>1, <3>3 DEF Begun
  <2> QED
    BY <2>2, <2>3
<1>7. Blocks(t)
  <2> SUFFICES ASSUME NEW k \in DOMAIN t, Begun(t, k), NEW p \in DOMAIN t[k].calls
               PROVE  k + p \in DOMAIN t /\ t[k + p].type = "tool" /\ t[k + p].call = t[k].calls[p]
    BY DEF Blocks
  <2>1. PICK i \in 1..n : k = e[i] /\ Same(t[k], s[i])
    BY <1>1, <1>4 DEF Begun, HasToolCall
  <2>2. HasToolCall(s[i]) /\ t[k].calls = s[i].calls /\ p \in 1..Len(s[i].calls)
    BY <1>0, <2>1 DEF Begun, HasToolCall, Same
  <2>3. CASE i \in Gaps(s)
    BY <1>1, <1>2, <2>1, <2>2, <2>3 DEF Invented
  <2>4. CASE i \notin Gaps(s)
    <3>1. Begun(s, i) /\ p \in DOMAIN s[i].calls
      BY <1>0, <2>2, <2>4 DEF Gaps
    <3>2. i + p \in 1..n /\ e[i + p] = k + p /\ s[i + p].type = "tool" /\ s[i + p].call = s[i].calls[p]
      BY <1>5, <2>1, <3>1
    <3>3. Same(t[k + p], s[i + p]) /\ k + p \in 1..m
      BY <1>2, <3>2
    <3> QED
      BY <1>1, <2>2, <3>2, <3>3 DEF Same
  <2> QED
    BY <2>3, <2>4
<1>8. Owned(t)
  <2> SUFFICES ASSUME NEW k \in DOMAIN t, t[k].type = "tool"
               PROVE  \E i \in 1..(k - 1) : Begun(t, i) /\ k - i \in DOMAIN t[i].calls
    BY DEF Owned
  <2>1. ASSUME NEW i \in 1..n, HasToolCall(s[i]), k - e[i] \in 1..Len(s[i].calls)
        PROVE  e[i] \in 1..(k - 1) /\ Begun(t, e[i]) /\ k - e[i] \in DOMAIN t[e[i]].calls
    <3>1. Begun(t, e[i]) /\ Same(t[e[i]], s[i]) /\ e[i] \in 1..m
      BY <1>2, <1>6, <2>1
    <3>2. k \in 1..m
      BY <1>1
    <3>3. e[i] \in 1..(k - 1)
      <4>1. k - e[i] >= 1 /\ e[i] \in Nat /\ k \in Nat /\ e[i] >= 1
        BY <1>0, <1>1, <2>1, <3>1, <3>2
      <4> QED
        BY <4>1
    <3> QED
      BY <1>0, <2>1, <3>1, <3>3 DEF Same
  <2>2. CASE \E l \in 1..n : k = e[l] /\ Same(t[k], s[l])
    <3>1. PICK l \in 1..n : k = e[l] /\ Same(t[k], s[l])
      BY <2>2
    <3>2. PICK i \in 1..(l - 1) : Begun(s, i) /\ l - i \in DOMAIN s[i].calls
      BY <1>0, <3>1 DEF Shape, Owned, Same
    <3>3. i \in 1..n /\ i + (l - i) = l
      BY <1>0
    <3>4. e[i + (l - i)] = e[i] + (l - i)
      BY <1>5, <3>2, <3>3
    <3>5. k - e[i] = l - i
      <4>1. e[i] \in Nat /\ e[l] = e[i] + (l - i)
        BY <1>0, <1>2, <3>3, <3>4
      <4> QED
        BY <1>0, <3>1, <4>1
    <3> QED
      BY <1>0, <2>1, <3>2, <3>3, <3>5 DEF Begun
  <2>3. CASE \E i \in Gaps(s) : k - e[i] \in 1..Len(s[i].calls)
    BY <1>0, <2>1, <2>3 DEF Gaps
  <2> QED
    BY <1>1, <1>3, <2>2, <2>3
<1>9. CallsOnce(t)
  <2> SUFFICES ASSUME NEW k \in DOMAIN t, NEW l \in DOMAIN t, NEW p \in DOMAIN t[k].calls,
                      NEW q \in DOMAIN t[l].calls, t[k].calls[p] = t[l].calls[q]
               PROVE  k = l /\ p = q
    BY DEF CallsOnce
  <2>1. t[k].calls # <<>> /\ t[l].calls # <<>>
    OBVIOUS
  <2>2. PICK i \in 1..n : k = e[i] /\ Same(t[k], s[i])
    BY <1>1, <1>4, <2>1
  <2>3. PICK j \in 1..n : l = e[j] /\ Same(t[l], s[j])
    BY <1>1, <1>4, <2>1
  <2>4. i = j /\ p = q
    <3>1. i \in DOMAIN s /\ j \in DOMAIN s /\ t[k].calls = s[i].calls /\ t[l].calls = s[j].calls
      BY <1>0, <2>2, <2>3 DEF Same
    <3> QED
      BY <3>1 DEF Shape, CallsOnce
  <2> QED
    BY <2>2, <2>3, <2>4
<1>10. Gaps(t) = {}
  <2> SUFFICES ASSUME NEW k \in DOMAIN t, HasToolCall(t[k]) PROVE Begun(t, k)
    BY DEF Gaps
  <2>1. PICK i \in 1..n : k = e[i] /\ Same(t[k], s[i])
    BY <1>1, <1>4 DEF HasToolCall
  <2>2. HasToolCall(s[i])
    BY <2>1 DEF HasToolCall, Same
  <2> QED
    BY <1>6, <2>1, <2>2
<1> QED
  BY <1>7, <1>8, <1>9, <1>10 DEF Shape

\* One message in front of others.
LEMMA ConsPlaces ==
  ASSUME NEW x \in Msg, NEW rest \in Seq(Msg), NEW all, all = <<x>> \o rest
  PROVE  /\ all \in Seq(Msg) /\ Len(rest) \in Nat /\ Len(all) = 1 + Len(rest) /\ all[1] = x
         /\ \A k \in 1..Len(rest) : all[1 + k] = rest[k]
PROOF
<1> DEFINE one == <<x>>
<1>1. one \in Seq(Msg) /\ Len(one) = 1 /\ one[1] = x
  BY OneOf
<1>2. all = one \o rest
  OBVIOUS
<1> HIDE DEF one
<1>3. all \in Seq(Msg) /\ Len(rest) \in Nat /\ Len(all) = Len(one) + Len(rest)
  BY <1>1, <1>2, ConcatPlaces
<1>4. \A k \in 1..Len(one) : all[k] = one[k]
  BY <1>1, <1>2, ConcatPlaces DEF Prefix
<1>5. \A k \in 1..Len(rest) : all[Len(one) + k] = rest[k]
  BY <1>1, <1>2, ConcatPlaces
<1>6. 1 \in 1..Len(one)
  BY <1>1
<1> QED
  BY <1>1, <1>3, <1>4, <1>5, <1>6

\* What _fake_tool_message makes for a call.
LEMMA FakesAre ==
  ASSUME NEW m \in Msg
  PROVE  /\ Fakes(m) \in Seq(Msg) /\ Len(Fakes(m)) = Len(m.calls) /\ Len(m.calls) \in Nat
         /\ \A p \in 1..Len(m.calls) : Invented(Fakes(m)[p], m, p)
PROOF
<1>1. m.calls \in Seq(Nat) /\ m.turn \in Nat
  BY DEF Msg
<1>2. DOMAIN m.calls = 1..Len(m.calls) /\ Len(m.calls) \in Nat /\ \A p \in 1..Len(m.calls) : m.calls[p] \in Nat
  BY <1>1, LenProperties, ElementOfSeq
<1> DEFINE F(p) == [Tool(0, m.calls[p], m.turn) EXCEPT !.fake = TRUE]
<1>3. ASSUME NEW p \in 1..Len(m.calls) PROVE F(p) \in Msg /\ Invented(F(p), m, p)
  <2> DEFINE x == Tool(0, m.calls[p], m.turn)
  <2>1. <<>> \in Seq(Nat) /\ m.calls[p] \in Nat
    BY <1>2, EmptySeq
  <2>2. x \in Msg /\ x.type = "tool" /\ x.calls = <<>> /\ x.call = m.calls[p] /\ x.turn = m.turn
    BY <1>1, <2>1 DEF Tool, Msg, Types
  <2>3. F(p) = [x EXCEPT !.fake = TRUE]
    OBVIOUS
  <2> HIDE DEF x, F
  <2>4. /\ F(p) \in Msg /\ F(p).type = x.type /\ F(p).calls = x.calls /\ F(p).call = x.call
        /\ F(p).turn = x.turn /\ F(p).fake = TRUE
    BY <2>2, <2>3 DEF Msg
  <2> QED
    BY <2>2, <2>4 DEF Invented
<1>4. Fakes(m) = [p \in DOMAIN m.calls |-> F(p)]
  BY DEF Fakes
<1> HIDE DEF F
<1>5. Fakes(m) \in [1..Len(m.calls) -> Msg]
  BY <1>2, <1>3, <1>4
<1>6. Fakes(m) \in Seq(Msg) /\ Len(Fakes(m)) = Len(m.calls)
  BY <1>2, <1>5, FunSeq
<1> QED
  BY <1>2, <1>3, <1>4, <1>6

\* A call that waits for its result has none anywhere.
LEMMA GapUnanswered ==
  ASSUME NEW s \in Seq(Msg), Shape(s), NEW i \in Gaps(s), NEW p \in DOMAIN s[i].calls,
         NEW j \in DOMAIN s, s[j].type = "tool"
  PROVE  s[j].call # s[i].calls[p]
PROOF
<1>0. Len(s) \in Nat /\ DOMAIN s = 1..Len(s)
  BY LenProperties
<1>1. PICK l \in 1..(j - 1) : Begun(s, l) /\ j - l \in DOMAIN s[l].calls
  BY DEF Shape, Owned
<1>2. l \in DOMAIN s /\ i \in DOMAIN s /\ l + (j - l) = j
  BY <1>0 DEF Gaps
<1>3. s[j].call = s[l].calls[j - l]
  <2>1. s[l + (j - l)].call = s[l].calls[j - l]
    BY <1>1, <1>2 DEF Shape, Blocks
  <2> QED
    BY <1>2, <2>1
<1>4. l # i
  BY <1>1 DEF Gaps
<1> QED
  BY <1>1, <1>2, <1>3, <1>4 DEF Shape, CallsOnce

\* complete_tool_calls fills in the results of every gap, and of nothing else.
LEMMA CompleteFills ==
  ASSUME NEW s \in Seq(Msg), Shape(s)
  PROVE  CompleteToolCalls(s) \in Seq(Msg) /\ \E e : Filled(CompleteToolCalls(s), s, e)
PROOF
<1> DEFINE n == Len(s)
           answered == {s[i].call : i \in {j \in DOMAIN s : s[j].type = "tool"}}
           open(m) == {j \in DOMAIN m.calls : m.calls[j] \notin answered}
           missing(m) == IF HasToolCall(m) THEN Chosen(m.calls, open(m)) ELSE <<>>
           results(m) == [j \in DOMAIN missing(m) |-> [Tool(0, missing(m)[j], m.turn) EXCEPT !.fake = TRUE]]
           P == [i \in DOMAIN s |-> <<s[i]>> \o results(s[i])]
           t == CompleteToolCalls(s)
<1>0. /\ n \in Nat /\ DOMAIN s = 1..n
      /\ \A i \in 1..n :
           /\ s[i] \in Msg /\ s[i].calls \in Seq(Nat) /\ Len(s[i].calls) \in Nat
           /\ DOMAIN s[i].calls = 1..Len(s[i].calls)
  BY Fields
<1>1. t = FlattenSeq(P)
  BY DEF CompleteToolCalls
<1>2. ASSUME NEW i \in 1..n, i \in Gaps(s) PROVE results(s[i]) = Fakes(s[i])
  <2>1. HasToolCall(s[i])
    BY <1>2 DEF Gaps
  <2>2. 1..Len(s[i].calls) \subseteq open(s[i])
    BY <1>0, <1>2, GapUnanswered
  <2>3. Chosen(s[i].calls, open(s[i])) = s[i].calls
    <3> HIDE DEF open
    <3> QED
      BY <1>0, <2>2, ChosenAll
  <2>4. missing(s[i]) = s[i].calls
    BY <2>1, <2>3
  <2> HIDE DEF missing
  <2> QED
    BY <2>4 DEF Fakes
<1>3. ASSUME NEW i \in 1..n, i \notin Gaps(s) PROVE results(s[i]) = <<>>
  <2>1. missing(s[i]) = <<>>
    <3>1. CASE ~HasToolCall(s[i])
      BY <3>1
    <3>2. CASE HasToolCall(s[i])
      <4>1. Begun(s, i)
        BY <1>0, <1>3, <3>2 DEF Gaps
      <4>2. \A p \in 1..Len(s[i].calls) : p \notin open(s[i])
        <5>1. ASSUME NEW p \in 1..Len(s[i].calls) PROVE s[i].calls[p] \in answered
          BY <1>0, <4>1 DEF Shape, Blocks
        <5> QED
          BY <5>1
      <4>3. Chosen(s[i].calls, open(s[i])) = <<>>
        <5> HIDE DEF open
        <5> QED
          BY <1>0, <4>2, ChosenNone
      <4> QED
        BY <4>3
    <3> QED
      BY <3>1, <3>2
  <2> HIDE DEF missing
  <2>2. results(s[i]) \in [1..0 -> Msg]
    BY <2>1
  <2> HIDE DEF results
  <2>3. results(s[i]) \in Seq(Msg) /\ Len(results(s[i])) = 0
    BY <2>2, FunSeq
  <2> QED
    BY <2>3, EmptySeq
<1> DEFINE fill(i) == IF i \in Gaps(s) THEN Fakes(s[i]) ELSE <<>>
<1>4. ASSUME NEW i \in 1..n
      PROVE  fill(i) \in Seq(Msg) /\ Len(fill(i)) = IF i \in Gaps(s) THEN Len(s[i].calls) ELSE 0
  BY <1>0, FakesAre, EmptySeq
<1>5. ASSUME NEW i \in 1..n PROVE P[i] = <<s[i]>> \o fill(i)
  <2>1. P[i] = <<s[i]>> \o results(s[i])
    BY <1>0
  <2>2. results(s[i]) = fill(i)
    <3> HIDE DEF results
    <3> QED
      BY <1>2, <1>3
  <2> HIDE DEF results, fill, P
  <2> QED
    BY <2>1, <2>2
<1>6. P \in [1..n -> Seq(Msg)]
  <2>1. DOMAIN P = 1..n /\ P = [i \in DOMAIN P |-> P[i]]
    BY <1>0
  <2> HIDE DEF P, fill
  <2>2. ASSUME NEW i \in 1..n PROVE P[i] \in Seq(Msg)
    <3>1. <<s[i]>> \in Seq(Msg) /\ fill(i) \in Seq(Msg)
      BY <1>0, <1>4, OneOf
    <3> QED
      BY <1>5, <3>1, ConcatProperties
  <2> QED
    BY <2>1, <2>2
<1> HIDE DEF P, fill, results, t
<1>7. P \in Seq(Seq(Msg)) /\ Len(P) = n
  BY <1>0, <1>6, FunSeq
<1>8. ASSUME NEW i \in 1..n
      PROVE  /\ Len(P[i]) = 1 + Len(fill(i)) /\ P[i][1] = s[i]
             /\ \A p \in 1..Len(fill(i)) : P[i][1 + p] = fill(i)[p]
  <2>1. s[i] \in Msg /\ fill(i) \in Seq(Msg) /\ P[i] = <<s[i]>> \o fill(i)
    BY <1>0, <1>4, <1>5
  <2> QED
    BY <2>1, ConsPlaces
<1>9. t \in Seq(Msg) /\ \E off : Placed(P, n, t, off)
  BY <1>1, <1>7, FlattenAt
<1>10. PICK off : Placed(P, n, t, off)
  BY <1>9
<1>11. /\ off \in [1..(n + 1) -> Nat] /\ off[1] = 0 /\ Len(t) = off[n + 1]
       /\ \A i \in 1..n :
            /\ off[i + 1] = off[i] + Len(P[i]) /\ off[i + 1] <= off[n + 1]
            /\ \A m \in 1..Len(P[i]) : t[off[i] + m] = P[i][m]
  BY <1>10 DEF Placed
<1>12. \A i \in 1..(n + 1) : off[i] \in Nat
  BY <1>11
<1> DEFINE e == [i \in 1..(n + 1) |-> off[i] + 1]
<1>13. e \in [1..(n + 1) -> Nat] /\ (\A i \in 1..(n + 1) : e[i] = off[i] + 1)
  BY <1>12
<1> HIDE DEF e
<1>14. e[1] = 1 /\ Len(t) + 1 = e[n + 1]
  <2>1. 1 \in 1..(n + 1) /\ n + 1 \in 1..(n + 1)
    BY <1>0
  <2> QED
    BY <1>11, <1>13, <2>1
<1>15. ASSUME NEW i \in 1..n PROVE FilledAt(t, s, e, i)
  <2>1. i \in 1..(n + 1) /\ i + 1 \in 1..(n + 1) /\ n + 1 \in 1..(n + 1)
    BY <1>0
  <2>2. Len(fill(i)) \in Nat /\ (i \in Gaps(s) => fill(i) = Fakes(s[i]) /\ Len(fill(i)) = Len(s[i].calls))
        /\ (i \notin Gaps(s) => Len(fill(i)) = 0)
    <3>1. Len(fill(i)) \in Nat
      BY <1>4, LenProperties
    <3> QED
      BY <1>4, <3>1 DEF fill
  <2>3. off[i + 1] = off[i] + 1 + Len(fill(i)) /\ off[i + 1] <= Len(t)
    BY <1>8, <1>11, <1>12, <2>1, <2>2
  <2>4. t[e[i]] = s[i]
    <3>1. 1 \in 1..Len(P[i])
      BY <1>8, <2>2
    <3>2. t[off[i] + 1] = P[i][1]
      BY <1>11, <3>1
    <3> QED
      BY <1>8, <1>13, <2>1, <3>2
  <2>a. off[i] \in Nat /\ off[i + 1] \in Nat /\ off[n + 1] \in Nat /\ Len(t) = off[n + 1]
        /\ e[i] = off[i] + 1 /\ e[i + 1] = off[i + 1] + 1
    BY <1>11, <1>12, <1>13, <2>1
  <2>b. Len(fill(i)) \in Nat
    BY <2>2
  <2>5. e[i] \in 1..Len(t)
    BY <2>3, <2>a, <2>b
  <2>6. e[i + 1] = e[i] + 1 + (IF i \in Gaps(s) THEN Len(s[i].calls) ELSE 0)
    <3>1. e[i + 1] = e[i] + 1 + Len(fill(i))
      BY <2>3, <2>a, <2>b
    <3>2. Len(fill(i)) = IF i \in Gaps(s) THEN Len(s[i].calls) ELSE 0
      BY <1>4
    <3> QED
      BY <3>1, <3>2
  <2>7. ASSUME i \in Gaps(s), NEW p \in 1..Len(s[i].calls)
        PROVE  e[i] + p \in 1..Len(t) /\ Invented(t[e[i] + p], s[i], p)
    <3>1. p \in 1..Len(fill(i)) /\ 1 + p \in 1..Len(P[i]) /\ P[i][1 + p] = Fakes(s[i])[p]
      BY <1>8, <2>2, <2>7
    <3>2. t[off[i] + (1 + p)] = P[i][1 + p]
      BY <1>11, <3>1
    <3>3. off[i] + (1 + p) = e[i] + p /\ e[i] + p \in 1..Len(t)
      <4>1. p \in Nat /\ 1 <= p /\ p <= Len(fill(i))
        <5>1. p \in 1..Len(fill(i))
          BY <3>1
        <5> QED
          BY <2>b, <5>1
      <4>2. ASSUME NEW a \in Nat, NEW b \in Nat, NEW c \in Nat, NEW x \in Nat, NEW y \in Nat, NEW z \in Nat,
                   b = a + 1 + z, b <= c, x = a + 1, y <= z, 1 <= y
            PROVE  a + (1 + y) = x + y /\ x + y \in 1..c
        BY <4>2
      <4> HIDE DEF fill
      <4>3. e[i] \in Nat /\ Len(t) \in Nat
        BY <2>a
      <4> QED
        BY <2>3, <2>a, <2>b, <4>1, <4>2, <4>3
    <3>4. Invented(Fakes(s[i])[p], s[i], p)
      BY <1>0, FakesAre
    <3> QED
      BY <3>1, <3>2, <3>3, <3>4
  <2> QED
    BY <2>4, <2>5, <2>6, <2>7 DEF FilledAt, Same
<1>16. ASSUME NEW k \in 1..Len(t)
       PROVE  \E i \in 1..n : k = e[i] \/ (i \in Gaps(s) /\ k - e[i] \in 1..Len(s[i].calls))
  <2>1. PICK i \in 1..n : k - off[i] \in 1..Len(P[i])
    BY <1>7, <1>10, PlacedCovers
  <2>2. i \in 1..(n + 1) /\ off[i] \in Nat /\ e[i] = off[i] + 1 /\ k \in Nat
    BY <1>0, <1>12, <1>13
  <2>3. Len(fill(i)) = (IF i \in Gaps(s) THEN Len(s[i].calls) ELSE 0) /\ Len(P[i]) = 1 + Len(fill(i))
    BY <1>4, <1>8
  <2>4. Len(s[i].calls) \in Nat
    BY <1>0
  <2>5. CASE i \in Gaps(s)
    <3>1. k - off[i] \in 1..(1 + Len(s[i].calls))
      BY <2>1, <2>3, <2>5
    <3>2. k = e[i] \/ k - e[i] \in 1..Len(s[i].calls)
      <4>1. ASSUME NEW a \in Nat, NEW b \in Nat, NEW c \in Nat, c - a \in 1..(1 + b)
            PROVE  c = a + 1 \/ c - (a + 1) \in 1..b
        BY <4>1
      <4> QED
        BY <2>2, <2>4, <3>1, <4>1
    <3> QED
      BY <2>5, <3>2
  <2>6. CASE i \notin Gaps(s)
    BY <2>1, <2>2, <2>3, <2>6
  <2> QED
    BY <2>5, <2>6
<1>17. Filled(t, s, e)
  BY <1>13, <1>14, <1>15, <1>16 DEF Filled, n
<1> QED
  BY <1>9, <1>17 DEF t

---------------------------------------------------------------------------
(* tool_call_order fills in the results of the gaps, too.                 *)

\* How many results go before the i-th message, and the offsets of what comes.
Before(s, i) == IF i - 1 \in Gaps(s) THEN Len(s[i - 1].calls) ELSE 0
FilledBefore(t, s, O) ==
  /\ O \in [1..(Len(s) + 1) -> Nat] /\ O[1] = 0 /\ O[Len(s) + 1] = Len(t)
  /\ \A i \in 1..Len(s) :
       /\ O[i + 1] = O[i] + Before(s, i) + 1 /\ O[i + 1] \in 1..Len(t) /\ Same(t[O[i + 1]], s[i])
       /\ \A p \in 1..Before(s, i) : Invented(t[O[i] + p], s[i - 1], p)
  /\ \A k \in 1..Len(t) : \E i \in 1..Len(s) : k - O[i] \in 1..(Before(s, i) + 1)

\* A list whose gaps are filled up to its end is filled.
LEMMA FilledBeforeIsFilled ==
  ASSUME NEW s \in Seq(Msg), Len(s) # 0, Len(s) \notin Gaps(s), NEW t \in Seq(Msg), NEW O, FilledBefore(t, s, O)
  PROVE  \E e : Filled(t, s, e)
PROOF
<1> DEFINE n == Len(s)
           e == [i \in 1..(n + 1) |-> IF i = n + 1 THEN O[n + 1] + 1 ELSE O[i + 1]]
<1>0. /\ n \in Nat /\ n >= 1 /\ DOMAIN s = 1..n /\ Len(t) \in Nat /\ Gaps(s) \subseteq 1..n
      /\ \A i \in 1..n : Len(s[i].calls) \in Nat
  <2>1. n \in Nat /\ DOMAIN s = 1..n /\ \A i \in 1..n : Len(s[i].calls) \in Nat
    BY Fields
  <2>2. Gaps(s) \subseteq 1..n
    BY <2>1 DEF Gaps
  <2>3. n >= 1
    BY <2>1
  <2> QED
    BY <2>1, <2>2, <2>3, LenProperties
<1>1. \A i \in 1..(n + 1) : O[i] \in Nat
  BY DEF FilledBefore
<1>2. /\ O[1] = 0 /\ O[n + 1] = Len(t)
      /\ \A i \in 1..n :
           /\ O[i + 1] = O[i] + Before(s, i) + 1 /\ O[i + 1] \in 1..Len(t) /\ Same(t[O[i + 1]], s[i])
           /\ \A p \in 1..Before(s, i) : Invented(t[O[i] + p], s[i - 1], p)
      /\ \A k \in 1..Len(t) : \E i \in 1..n : k - O[i] \in 1..(Before(s, i) + 1)
  BY DEF FilledBefore
<1>3. /\ \A i \in 1..n : e[i] = O[i + 1] /\ i + 1 \in 1..(n + 1) /\ O[i + 1] \in Nat
      /\ e[n + 1] = O[n + 1] + 1 /\ e \in [1..(n + 1) -> Nat]
  <2>1. \A i \in 1..n : i + 1 \in 1..(n + 1) /\ i # n + 1 /\ i \in 1..(n + 1)
    BY <1>0
  <2>2. n + 1 \in 1..(n + 1)
    BY <1>0
  <2>3. \A i \in 1..(n + 1) : (IF i = n + 1 THEN O[n + 1] + 1 ELSE O[i + 1]) \in Nat
    <3>1. O[n + 1] + 1 \in Nat
      BY <1>1, <2>2
    <3>2. \A i \in 1..(n + 1) : i # n + 1 => i + 1 \in 1..(n + 1)
      BY <1>0
    <3> QED
      BY <1>1, <3>1, <3>2
  <2>4. e \in [1..(n + 1) -> Nat]
    BY <2>3
  <2> QED
    BY <1>1, <2>1, <2>2, <2>4
<1>4. Before(s, 1) = 0
  BY <1>0 DEF Before
<1> HIDE DEF e, n
<1>5. 1 \in 1..n
  BY <1>0
<1>6. e[1] = 1
  BY <1>2, <1>3, <1>4, <1>5
<1>7. Len(t) + 1 = e[n + 1]
  BY <1>2, <1>3
<1>8. ASSUME NEW i \in 1..n
      PROVE  e[i + 1] = e[i] + 1 + (IF i \in Gaps(s) THEN Len(s[i].calls) ELSE 0)
  <2>1. CASE i = n
    BY <1>0, <1>2, <1>3, <2>1 DEF n
  <2>2. CASE i # n
    <3>1. i + 1 \in 1..n /\ (i + 1) - 1 = i
      BY <1>0, <2>2
    <3>2. e[i + 1] = O[(i + 1) + 1] /\ e[i] = O[i + 1] /\ O[i + 1] \in Nat
      BY <1>3, <3>1
    <3>3. O[(i + 1) + 1] = O[i + 1] + Before(s, i + 1) + 1
      BY <1>2, <3>1
    <3>4. Before(s, i + 1) = IF i \in Gaps(s) THEN Len(s[i].calls) ELSE 0
      BY <3>1 DEF Before
    <3>5. (IF i \in Gaps(s) THEN Len(s[i].calls) ELSE 0) \in Nat
      BY <1>0
    <3> DEFINE v == IF i \in Gaps(s) THEN Len(s[i].calls) ELSE 0
    <3>6. v \in Nat /\ Before(s, i + 1) = v
      BY <3>4, <3>5
    <3> HIDE DEF v
    <3>7. e[i + 1] = e[i] + 1 + v
      BY <3>2, <3>3, <3>6
    <3> QED
      BY <3>7 DEF v
  <2> QED
    BY <2>1, <2>2
<1>9. ASSUME NEW i \in Gaps(s), NEW p \in 1..Len(s[i].calls)
      PROVE  e[i] + p \in 1..Len(t) /\ Invented(t[e[i] + p], s[i], p)
  <2>1. i \in 1..n /\ i # n
    BY <1>0 DEF n
  <2>2. i + 1 \in 1..n /\ (i + 1) - 1 = i
    BY <1>0, <2>1
  <2>3. Before(s, i + 1) = Len(s[i].calls)
    BY <2>2 DEF Before
  <2>4. Invented(t[O[i + 1] + p], s[(i + 1) - 1], p)
    BY <1>2, <2>2, <2>3
  <2>5. O[(i + 1) + 1] = O[i + 1] + Before(s, i + 1) + 1 /\ O[(i + 1) + 1] \in 1..Len(t)
    BY <1>2, <2>2
  <2>6. O[i + 1] + p \in 1..Len(t)
    <3>1. O[i + 1] \in Nat /\ Len(s[i].calls) \in Nat
      BY <1>0, <1>3, <2>1
    <3>2. ASSUME NEW a \in Nat, NEW b \in Nat, NEW c \in Nat, a + b + 1 \in 1..c, NEW q \in 1..b
          PROVE  a + q \in 1..c
      BY <3>2
    <3> QED
      BY <1>0, <2>3, <2>5, <3>1, <3>2
  <2> QED
    BY <1>3, <2>1, <2>2, <2>4, <2>6
<1>10. \A i \in 1..n : FilledAt(t, s, e, i)
  BY <1>2, <1>3, <1>8, <1>9 DEF FilledAt
<1>11. ASSUME NEW k \in 1..Len(t)
       PROVE  \E i \in 1..n : k = e[i] \/ (i \in Gaps(s) /\ k - e[i] \in 1..Len(s[i].calls))
  <2>1. PICK i \in 1..n : k - O[i] \in 1..(Before(s, i) + 1)
    BY <1>2
  <2>a. i \in 1..(n + 1) /\ k \in Nat
    BY <1>0
  <2>2. O[i] \in Nat /\ k \in Nat /\ e[i] = O[i] + Before(s, i) + 1
    BY <1>1, <1>2, <1>3, <2>a DEF n
  <2>3. CASE i - 1 \in Gaps(s)
    <3>1. i - 1 \in 1..n /\ (i - 1) + 1 = i
      BY <1>0, <2>3
    <3>2. e[i - 1] = O[i] /\ Before(s, i) = Len(s[i - 1].calls) /\ Len(s[i - 1].calls) \in Nat
      BY <1>0, <1>3, <2>3, <3>1 DEF Before
    <3>3. k = e[i] \/ k - e[i - 1] \in 1..Len(s[i - 1].calls)
      <4>1. ASSUME NEW a \in Nat, NEW b \in Nat, NEW c \in Nat, c - a \in 1..(b + 1), c # a + b + 1
            PROVE  c - a \in 1..b
        BY <4>1
      <4> QED
        BY <2>1, <2>2, <3>2, <4>1
    <3> QED
      BY <2>3, <3>1, <3>3
  <2>4. CASE i - 1 \notin Gaps(s)
    <3>1. Before(s, i) = 0
      BY <2>4 DEF Before
    <3>2. k = e[i]
      BY <2>1, <2>2, <3>1
    <3> QED
      BY <3>2
  <2> QED
    BY <2>3, <2>4
<1> QED
  BY <1>3, <1>6, <1>7, <1>10, <1>11 DEF Filled, n

\* Without gaps nothing is filled in.
LEMMA FilledSelf ==
  ASSUME NEW s \in Seq(Msg), Gaps(s) = {}
  PROVE  \E e : Filled(s, s, e)
PROOF
<1> DEFINE n == Len(s)
           e == [i \in 1..(n + 1) |-> i]
<1>0. n \in Nat
  BY LenProperties
<1>1. e \in [1..(n + 1) -> Nat] /\ \A i \in 1..(n + 1) : e[i] = i
  BY <1>0
<1> HIDE DEF e
<1>2. \A i \in 1..n : FilledAt(s, s, e, i)
  BY <1>0, <1>1 DEF FilledAt, Same
<1>3. e[1] = 1 /\ e[n + 1] = Len(s) + 1
  BY <1>0, <1>1
<1>4. \A k \in 1..n : \E i \in 1..n : k = e[i]
  BY <1>0, <1>1
<1> QED
  BY <1>1, <1>2, <1>3, <1>4 DEF Filled

\* Where results are missing.
LEMMA BrokenAre ==
  ASSUME NEW s \in Seq(Msg)
  PROVE  /\ \A i \in Int : i \in Broken(s) <=> i \in 2..Len(s) /\ i - 1 \in Gaps(s)
         /\ Broken(s) \subseteq Int
         /\ \A i \in Gaps(s) : i \in 1..Len(s) /\ (i # Len(s) => i + 1 \in Broken(s))
PROOF
<1>0. Len(s) \in Nat /\ DOMAIN s = 1..Len(s)
  BY Fields
<1>1. ASSUME NEW i \in 2..Len(s)
      PROVE  i \in Broken(s) <=> i - 1 \in Gaps(s)
  <2>1. i - 1 \in 1..Len(s) /\ i \in 1..Len(s) /\ (i - 1) + 1 = i
    BY <1>0
  <2> QED
    BY <1>0, <2>1 DEF Broken, Gaps, Begun, NotToolResult
<1>2. Broken(s) \subseteq 2..Len(s)
  BY DEF Broken
<1>3. ASSUME NEW i \in Gaps(s)
      PROVE  i \in 1..Len(s) /\ (i # Len(s) => i + 1 \in Broken(s))
  <2>1. i \in 1..Len(s)
    BY <1>0 DEF Gaps
  <2>2. i # Len(s) => i + 1 \in 2..Len(s) /\ (i + 1) - 1 = i
    <3>1. ASSUME NEW n \in Nat, NEW j \in 1..n, j # n PROVE j + 1 \in 2..n /\ (j + 1) - 1 = j
      BY <3>1
    <3> QED
      BY <1>0, <2>1, <3>1
  <2> QED
    BY <1>1, <2>1, <2>2
<1>4. ASSUME NEW i \in Int PROVE i \in Broken(s) <=> i \in 2..Len(s) /\ i - 1 \in Gaps(s)
  BY <1>1, <1>2
<1>5. Broken(s) \subseteq Int
  BY <1>0, <1>2
<1> QED
  BY <1>3, <1>4, <1>5

\* add_messages gives messages without an id the next ones.
LEMMA NumberedAre ==
  ASSUME NEW s \in Seq(Msg), NEW f \in Nat
  PROVE  /\ Numbered(s, f) \in Seq(Msg) /\ Len(Numbered(s, f)) = Len(s)
         /\ \A i \in 1..Len(s) : Numbered(s, f)[i].id = f + i - 1 /\ Same(Numbered(s, f)[i], s[i])
PROOF
<1>0. Len(s) \in Nat /\ DOMAIN s = 1..Len(s) /\ \A i \in 1..Len(s) : s[i] \in Msg
  BY Fields
<1> DEFINE F(i) == [s[i] EXCEPT !.id = f + i - 1]
<1>1. ASSUME NEW i \in 1..Len(s) PROVE F(i) \in Msg /\ F(i).id = f + i - 1 /\ Same(F(i), s[i])
  <2> DEFINE x == s[i]
             v == f + i - 1
  <2>1. x \in Msg /\ F(i) = [x EXCEPT !.id = v]
    BY <1>0
  <2>v. v \in Nat
    BY <1>0
  <2> HIDE DEF x, v, F
  <2>2. /\ F(i) \in Msg /\ F(i).id = v /\ F(i).type = x.type /\ F(i).calls = x.calls
        /\ F(i).call = x.call /\ F(i).turn = x.turn /\ F(i).fake = x.fake
    BY <2>1, <2>v DEF Msg
  <2> QED
    BY <2>2 DEF Same, x, v
<1>2. Numbered(s, f) = [i \in 1..Len(s) |-> F(i)]
  BY <1>0 DEF Numbered
<1> HIDE DEF F
<1>3. Numbered(s, f) \in [1..Len(s) -> Msg]
  BY <1>1, <1>2
<1>4. Numbered(s, f) \in Seq(Msg) /\ Len(Numbered(s, f)) = Len(s)
  BY <1>0, <1>3, FunSeq
<1> QED
  BY <1>1, <1>2, <1>4


\* tool_call_order keeps every message, numbers the ones it moves again, and fills the gaps.
LEMMA OrderFills ==
  ASSUME NEW s \in Seq(Msg), UniqueIds(s), Len(s) # 0, Len(s) \notin Gaps(s),
         NEW f \in Nat, \A i \in DOMAIN s : s[i].id < f,
         NEW u, u = ToolCallOrder(s, f), NEW t, t = AddMessages(s, u.new, u.remove)
  PROVE  /\ t \in Seq(Msg) /\ Len(u.new) \in Nat /\ \E e : Filled(t, s, e)
         /\ UniqueIds(t)
         /\ \A i \in DOMAIN t : \/ i \in DOMAIN s /\ t[i] = s[i]
                                \/ t[i].id \in f..(f + Len(u.new) - 1)
PROOF
<1> DEFINE n == Len(s)
<1>0. /\ n \in Nat /\ n >= 1 /\ DOMAIN s = 1..n
      /\ \A i \in 1..n : s[i] \in Msg /\ Len(s[i].calls) \in Nat /\ s[i].id \in Nat
  <2>1. n \in Nat /\ DOMAIN s = 1..n /\ \A i \in 1..n : s[i] \in Msg /\ Len(s[i].calls) \in Nat
    BY Fields
  <2>2. \A i \in 1..n : s[i].id \in Nat
    BY <2>1 DEF Msg
  <2> QED
    BY <2>1, <2>2
<1>1. CASE Broken(s) = {}
  <2>1. u.new = <<>> /\ u.remove = {}
    BY <1>1 DEF ToolCallOrder
  <2>2. <<>> \in Seq(Msg) /\ Len(<<>>) = 0 /\ DOMAIN <<>> = {}
    BY EmptySeq
  <2>3. AddMessages(s, <<>>, {}) = Drop(s, {}) \o <<>>
    BY <2>2, AddFresh
  <2>4. t = s
    BY <2>1, <2>3, DropNothing, ConcatEmptySeq
  <2>5. Gaps(s) = {}
    BY <1>1, BrokenAre
  <2> QED
    BY <2>1, <2>2, <2>4, <2>5, FilledSelf
<1>2. CASE Broken(s) # {}
  <2> DEFINE k == CHOOSE i \in Broken(s) : \A j \in Broken(s) : i <= j
             piece(i) == IF i \in Broken(s) THEN Fakes(s[i - 1]) \o <<s[i]>> ELSE <<s[i]>>
             Q == [i \in 1..(n - k + 1) |-> piece(k + i - 1)]
             F == FlattenSeq(Q)
             a == SubSeq(s, 1, k - 1)
             new == Numbered(F, f)
  <2>1. u.new = new /\ u.remove = Ids(SubSeq(s, k, n))
    BY <1>2 DEF ToolCallOrder
  <2>2. k \in Broken(s) /\ \A j \in Broken(s) : k <= j
    <3>1. Broken(s) \in SUBSET Nat
      BY <1>0, BrokenAre
    <3> QED
      BY <1>2, <3>1, LeastExists
  <2>3. k \in 2..n /\ k \in 1..n /\ k - 1 \in 1..n
    BY <1>0, <2>2, BrokenAre
  <2> HIDE DEF k
  <2>4. ASSUME NEW i \in 1..n
        PROVE  /\ piece(i) \in Seq(Msg) /\ Before(s, i) \in Nat /\ Len(piece(i)) = Before(s, i) + 1
               /\ piece(i)[Before(s, i) + 1] = s[i]
               /\ \A p \in 1..Before(s, i) : Invented(piece(i)[p], s[i - 1], p)
    <3>1. CASE i \in Broken(s)
      <4>1. i - 1 \in Gaps(s) /\ i - 1 \in 1..n
        BY <1>0, <3>1, BrokenAre
      <4> DEFINE b == Fakes(s[i - 1])
                 one == <<s[i]>>
                 all == piece(i)
      <4>2. b \in Seq(Msg) /\ Len(b) = Before(s, i) /\ Before(s, i) \in Nat
            /\ \A p \in 1..Before(s, i) : Invented(b[p], s[i - 1], p)
        BY <1>0, <4>1, FakesAre DEF Before
      <4>3. one \in Seq(Msg) /\ Len(one) = 1 /\ one[1] = s[i] /\ all = b \o one
        BY <1>0, <3>1, OneOf
      <4> HIDE DEF b, one, all
      <4>c. b \in Seq(Msg) /\ one \in Seq(Msg) /\ all = b \o one
        BY <4>2, <4>3
      <4>4. all \in Seq(Msg) /\ Len(all) = Len(b) + Len(one)
        BY <4>c, ConcatPlaces
      <4>5. \A p \in 1..Len(b) : all[p] = b[p]
        BY <4>c, ConcatPlaces DEF Prefix
      <4>6. \A p \in 1..Len(one) : all[Len(b) + p] = one[p]
        BY <4>c, ConcatPlaces
      <4>7. 1 \in 1..Len(one)
        BY <4>3
      <4>8. all[Len(b) + 1] = s[i]
        BY <4>3, <4>6, <4>7
      <4>9. \A p \in 1..Before(s, i) : Invented(all[p], s[i - 1], p)
        BY <4>2, <4>5
      <4> QED
        BY <4>2, <4>3, <4>4, <4>8, <4>9 DEF all
    <3>2. CASE i \notin Broken(s)
      <4>1. i - 1 \notin Gaps(s)
        <5>1. i # 1 => i \in 2..n
          BY <1>0
        <5>2. i = 1 => i - 1 \notin 1..n
          BY <1>0
        <5> QED
          BY <1>0, <3>2, <5>1, <5>2, BrokenAre
      <4>2. Before(s, i) = 0
        BY <4>1 DEF Before
      <4>3. piece(i) = <<s[i]>>
        BY <3>2
      <4> HIDE DEF piece
      <4>4. piece(i) \in Seq(Msg) /\ Len(piece(i)) = 1 /\ piece(i)[1] = s[i]
        BY <1>0, <4>3, OneOf
      <4> QED
        BY <4>2, <4>4
    <3> QED
      BY <3>1, <3>2
  <2> DEFINE m == n - k + 1
  <2>5. m \in Nat /\ m >= 1 /\ \A j \in 1..m : k + j - 1 \in 1..n
    BY <1>0, <2>3
  <2>6. Q \in Seq(Seq(Msg)) /\ Len(Q) = m /\ \A j \in 1..m : Q[j] = piece(k + j - 1)
    <3>1. Q \in [1..m -> Seq(Msg)] /\ \A j \in 1..m : Q[j] = piece(k + j - 1)
      <4> HIDE DEF piece
      <4> QED
        BY <2>4, <2>5
    <3> HIDE DEF Q, m
    <3> QED
      BY <2>5, <3>1, FunSeq
  <2> HIDE DEF Q, piece
  <2>7. F \in Seq(Msg) /\ \E off : Placed(Q, m, F, off)
    BY <2>6, FlattenAt
  <2>8. PICK off : Placed(Q, m, F, off)
    BY <2>7
  <2> HIDE DEF F
  <2>9. /\ new \in Seq(Msg) /\ Len(new) = Len(F) /\ Len(F) \in Nat
        /\ \A i \in 1..Len(F) : new[i].id = f + i - 1 /\ Same(new[i], F[i])
    BY <2>7, NumberedAre, LenProperties
  <2> HIDE DEF new
  <2>10. \A i \in 1..Len(F) : \A j \in 1..n : new[i].id # s[j].id /\ new[i].id \in Nat /\ new[i].id >= f
    BY <1>0, <2>9
  <2>11. DOMAIN new = 1..Len(F)
    BY <2>9, LenProperties
  <2>12. t = Drop(s, Ids(SubSeq(s, k, n))) \o new
    <3>1. Ids(SubSeq(s, k, n)) \subseteq Ids(s)
      <4> DEFINE z == SubSeq(s, k, n)
      <4>1. z \in Seq(Msg) /\ Len(z) = n - k + 1 /\ \A i \in 1..(n - k + 1) : z[i] = s[k + i - 1]
        BY <1>0, <2>3, SubSeqProperties
      <4>2. DOMAIN z = 1..(n - k + 1)
        BY <4>1, LenProperties
      <4> HIDE DEF z
      <4> QED
        BY <1>0, <2>5, <4>1, <4>2 DEF Ids, z
    <3>2. \A i \in DOMAIN new : new[i].id \notin Ids(s)
      BY <1>0, <2>10, <2>11 DEF Ids
    <3> DEFINE removed == Ids(SubSeq(s, k, n))
    <3>3. removed \subseteq Ids(s) /\ t = AddMessages(s, new, removed)
      BY <2>1, <3>1
    <3> HIDE DEF removed
    <3>4. AddMessages(s, new, removed) = Drop(s, removed) \o new
      <4>1. new \in Seq(Msg)
        BY <2>9
      <4>2. \A i \in DOMAIN new : new[i].id \notin Ids(s) /\ new[i].id \notin removed
        BY <3>2, <3>3
      <4> QED
        BY <4>1, <4>2, AddFresh
    <3> QED
      BY <3>3, <3>4 DEF removed
  <2>13. t = a \o new
    BY <2>3, <2>12, DropLast
  <2>14. a \in Seq(Msg) /\ Len(a) = k - 1 /\ \A i \in 1..(k - 1) : a[i] = s[i]
    <3>1. a \in Seq(Msg) /\ Len(a) = k - 1 /\ \A i \in 1..(k - 1) : a[i] = s[1 + i - 1]
      BY <1>0, <2>3, SubSeqProperties
    <3> QED
      BY <2>3, <3>1
  <2> HIDE DEF a, m
  <2>c. a \in Seq(Msg) /\ new \in Seq(Msg) /\ t = a \o new
    BY <2>9, <2>13, <2>14
  <2>d. t \in Seq(Msg) /\ Len(t) = Len(a) + Len(new)
    BY <2>c, ConcatPlaces
  <2>e. \A i \in 1..Len(a) : t[i] = a[i]
    BY <2>c, ConcatPlaces DEF Prefix
  <2>f. \A i \in 1..Len(new) : t[Len(a) + i] = new[i]
    BY <2>c, ConcatPlaces
  <2>15. t \in Seq(Msg) /\ Len(t) = k - 1 + Len(F)
    BY <2>9, <2>14, <2>d
  <2>16. \A i \in 1..(k - 1) : t[i] = s[i]
    BY <2>14, <2>e
  <2>17. \A i \in 1..Len(F) : t[k - 1 + i] = new[i]
    BY <2>9, <2>14, <2>f
  <2>18. DOMAIN t = 1..Len(t) /\ Len(t) \in Nat
    BY <2>15, LenProperties
  <2>19. /\ off \in [1..(m + 1) -> Nat] /\ off[1] = 0 /\ Len(F) = off[m + 1]
         /\ \A j \in 1..m :
              /\ off[j + 1] = off[j] + Len(Q[j]) /\ off[j + 1] <= off[m + 1]
              /\ \A q \in 1..Len(Q[j]) : F[off[j] + q] = Q[j][q]
    BY <2>8 DEF Placed
  <2>20. \A j \in 1..(m + 1) : off[j] \in Nat
    BY <2>19
  <2> DEFINE O == [i \in 1..(n + 1) |-> IF i <= k THEN i - 1 ELSE (k - 1) + off[i - k + 1]]
  <2>21. /\ O \in [1..(n + 1) -> Nat] /\ (\A i \in 1..k : O[i] = i - 1)
         /\ \A j \in 1..(m + 1) : k + j - 1 \in 1..(n + 1) /\ O[k + j - 1] = (k - 1) + off[j]
    <3>1. ASSUME NEW i \in 1..(n + 1), ~(i <= k) PROVE i - k + 1 \in 1..(m + 1)
      BY <1>0, <2>3, <3>1 DEF m
    <3>2. O \in [1..(n + 1) -> Nat]
      BY <1>0, <2>3, <2>20, <3>1
    <3>3. \A i \in 1..k : O[i] = i - 1
      BY <1>0, <2>3
    <3>4. ASSUME NEW j \in 1..(m + 1) PROVE k + j - 1 \in 1..(n + 1) /\ O[k + j - 1] = (k - 1) + off[j]
      <4> DEFINE i == k + j - 1
      <4>1. i \in 1..(n + 1) /\ i - k + 1 = j /\ (i <= k => j = 1 /\ i = k)
        BY <1>0, <2>3 DEF m
      <4> HIDE DEF i
      <4>2. O[i] = (k - 1) + off[j]
        BY <2>3, <2>19, <4>1
      <4> QED
        BY <4>1, <4>2 DEF i
    <3> QED
      BY <3>2, <3>3, <3>4
  <2> HIDE DEF O
  <2>22. O[1] = 0 /\ O[n + 1] = Len(t)
    <3>1. 1 \in 1..k /\ m + 1 \in 1..(m + 1) /\ k + (m + 1) - 1 = n + 1
      <4>1. 1 \in 1..k /\ m + 1 \in 1..(m + 1)
        BY <2>3, <2>5
      <4>2. k \in Nat /\ m = n - k + 1
        BY <2>3 DEF m
      <4> QED
        BY <1>0, <4>1, <4>2
    <3>2. O[k + (m + 1) - 1] = (k - 1) + off[m + 1]
      BY <2>21, <3>1
    <3> QED
      BY <2>15, <2>19, <2>21, <3>1, <3>2
  <2>23. ASSUME NEW i \in 1..n
         PROVE  /\ O[i + 1] = O[i] + Before(s, i) + 1 /\ O[i + 1] \in 1..Len(t) /\ Same(t[O[i + 1]], s[i])
                /\ \A p \in 1..Before(s, i) : Invented(t[O[i] + p], s[i - 1], p)
    <3>1. CASE i < k
      <4>1. i \in 1..k /\ i + 1 \in 1..k /\ i \in 1..(k - 1) /\ (i + 1) - 1 = i
        BY <1>0, <2>3, <3>1
      <4>2. i \notin Broken(s)
        BY <2>2, <2>3, <3>1
      <4>3. i - 1 \notin Gaps(s)
        <5>1. i # 1 => i \in 2..n
          BY <1>0
        <5>2. i = 1 => i - 1 \notin 1..n
          BY <1>0
        <5> QED
          BY <1>0, <4>2, <5>1, <5>2, BrokenAre
      <4>4. Before(s, i) = 0
        BY <4>3 DEF Before
      <4>5. O[i] = i - 1 /\ O[i + 1] = i
        BY <2>21, <4>1
      <4>6. i \in 1..Len(t)
        BY <2>9, <2>15, <4>1, <2>3
      <4>7. t[i] = s[i]
        BY <2>16, <4>1
      <4> QED
        BY <4>4, <4>5, <4>6, <4>7 DEF Same
    <3>2. CASE ~(i < k)
      <4> DEFINE j == i - k + 1
      <4>1. j \in 1..m /\ j \in 1..(m + 1) /\ j + 1 \in 1..(m + 1) /\ k + j - 1 = i /\ k + (j + 1) - 1 = i + 1
            /\ m + 1 \in 1..(m + 1)
        BY <1>0, <2>3, <3>2 DEF m
      <4> HIDE DEF j
      <4>2. O[i] = (k - 1) + off[j] /\ O[i + 1] = (k - 1) + off[j + 1] /\ off[j] \in Nat /\ off[j + 1] \in Nat
        BY <2>20, <2>21, <4>1
      <4>3. Q[j] = piece(i) /\ Len(Q[j]) = Before(s, i) + 1 /\ Before(s, i) \in Nat
        BY <2>4, <2>6, <4>1
      <4>4. off[j + 1] = off[j] + (Before(s, i) + 1) /\ off[j + 1] <= Len(F)
        BY <2>19, <4>1, <4>3
      <4>5. O[i + 1] = O[i] + Before(s, i) + 1
        <5>1. k \in Nat
          BY <2>3
        <5>2. ASSUME NEW x \in Nat, NEW y \in Nat, NEW z \in Nat, NEW w \in Nat, w = y + (z + 1)
              PROVE  (x - 1) + w = (x - 1) + y + z + 1
          BY <5>2
        <5>3. Before(s, i) \in Nat /\ off[j] \in Nat /\ off[j + 1] \in Nat
          BY <4>2, <4>3
        <5>4. (k - 1) + off[j + 1] = (k - 1) + off[j] + Before(s, i) + 1
          <6> DEFINE y == off[j]
                     z == Before(s, i)
                     w == off[j + 1]
          <6>1. y \in Nat /\ z \in Nat /\ w \in Nat /\ w = y + (z + 1)
            BY <4>4, <5>3
          <6> HIDE DEF y, z, w
          <6>2. (k - 1) + w = (k - 1) + y + z + 1
            BY <5>1, <5>2, <6>1
          <6> QED
            BY <6>2 DEF y, z, w
        <5> QED
          BY <4>2, <5>4
      <4>6. ASSUME NEW q \in 1..(Before(s, i) + 1)
            PROVE  O[i] + q \in 1..Len(t) /\ Same(t[O[i] + q], piece(i)[q])
        <5>1. F[off[j] + q] = piece(i)[q]
          BY <2>19, <4>1, <4>3
        <5>2. off[j] + q \in 1..Len(F)
          <6>1. Len(F) \in Nat
            BY <2>9
          <6> QED
            BY <4>2, <4>3, <4>4, <6>1
        <5>3. t[k - 1 + (off[j] + q)] = new[off[j] + q]
          BY <2>17, <5>2
        <5>4. O[i] + q = k - 1 + (off[j] + q) /\ O[i] + q \in 1..Len(t)
          <6>1. k \in Nat /\ k >= 1 /\ q \in Nat /\ Len(F) \in Nat
            BY <2>3, <2>9, <4>3
          <6>2. ASSUME NEW x \in Nat, x >= 1, NEW y \in Nat, NEW z \in Nat, NEW w \in Nat, y + z \in 1..w
                PROVE  ((x - 1) + y) + z = x - 1 + (y + z) /\ ((x - 1) + y) + z \in 1..(x - 1 + w)
            BY <6>2
          <6>3. off[j] \in Nat
            BY <4>2
          <6>4. ((k - 1) + off[j]) + q = k - 1 + (off[j] + q) /\ ((k - 1) + off[j]) + q \in 1..(k - 1 + Len(F))
            BY <5>2, <6>1, <6>2, <6>3
          <6> QED
            BY <2>15, <4>2, <6>4
        <5>5. Same(new[off[j] + q], F[off[j] + q])
          BY <2>9, <5>2
        <5> QED
          BY <5>1, <5>3, <5>4, <5>5
      <4>7. Before(s, i) + 1 \in 1..(Before(s, i) + 1) /\ \A p \in 1..Before(s, i) : p \in 1..(Before(s, i) + 1)
        BY <4>3
      <4>8. O[i] + (Before(s, i) + 1) = O[i + 1]
        <5>1. O[i] \in Nat
          BY <2>3, <4>2
        <5> QED
          BY <4>3, <4>5, <5>1
      <4>9. O[i + 1] \in 1..Len(t) /\ Same(t[O[i + 1]], s[i])
        BY <2>4, <4>6, <4>7, <4>8
      <4>10. \A p \in 1..Before(s, i) : Invented(t[O[i] + p], s[i - 1], p)
        <5>1. ASSUME NEW p \in 1..Before(s, i) PROVE Invented(t[O[i] + p], s[i - 1], p)
          <6>1. Same(t[O[i] + p], piece(i)[p]) /\ Invented(piece(i)[p], s[i - 1], p)
            BY <2>4, <4>6, <4>7
          <6> QED
            BY <6>1 DEF Invented, Same
        <5> QED
          BY <5>1
      <4> QED
        BY <4>5, <4>9, <4>10
    <3> QED
      BY <3>1, <3>2
  <2>24. ASSUME NEW l \in 1..Len(t) PROVE \E i \in 1..n : l - O[i] \in 1..(Before(s, i) + 1)
    <3>1. CASE l < k
      <4>1. l \in 1..n /\ l \in 1..k
        BY <1>0, <2>3, <3>1
      <4>2. O[l] = l - 1 /\ Before(s, l) \in Nat
        BY <2>4, <2>21, <4>1
      <4>3. l - O[l] = 1
        BY <4>1, <4>2
      <4>4. 1 \in 1..(Before(s, l) + 1)
        BY <4>2
      <4> QED
        BY <4>1, <4>3, <4>4
    <3>2. CASE ~(l < k)
      <4> DEFINE x == l - (k - 1)
      <4>1. x \in 1..Len(F) /\ x \in Nat /\ l = (k - 1) + x
        BY <2>3, <2>9, <2>15, <2>18, <3>2
      <4> HIDE DEF x
      <4>2. PICK j \in 1..m : x - off[j] \in 1..Len(Q[j])
        BY <2>6, <2>8, <4>1, PlacedCovers
      <4> DEFINE i == k + j - 1
      <4>3. i \in 1..n /\ j \in 1..(m + 1)
        BY <1>0, <2>3 DEF m
      <4>4. O[i] = (k - 1) + off[j] /\ off[j] \in Nat
        BY <2>20, <2>21, <4>3
      <4>5. Len(Q[j]) = Before(s, i) + 1
        BY <2>4, <2>6, <4>3
      <4> HIDE DEF i
      <4>6. l - O[i] = x - off[j]
        BY <2>3, <4>1, <4>4
      <4> QED
        BY <4>2, <4>3, <4>5, <4>6
    <3> QED
      BY <3>1, <3>2
  <2>25. FilledBefore(t, s, O)
    BY <2>21, <2>22, <2>23, <2>24 DEF FilledBefore
  <2>26. \E e : Filled(t, s, e)
    BY <2>15, <2>25, FilledBeforeIsFilled
  <2>27. ASSUME NEW i \in 1..Len(t)
         PROVE  (i \in 1..(k - 1) /\ t[i] = s[i]) \/ (i - (k - 1) \in 1..Len(F) /\ t[i].id = f + (i - (k - 1)) - 1)
    <3>1. CASE i < k
      BY <2>3, <2>16, <3>1
    <3>2. CASE ~(i < k)
      <4> DEFINE x == i - (k - 1)
      <4>1. x \in 1..Len(F) /\ x \in Nat /\ i = k - 1 + x
        BY <2>3, <2>9, <2>15, <2>18, <3>2
      <4> HIDE DEF x
      <4>2. t[i].id = f + x - 1
        BY <2>9, <2>17, <4>1
      <4> QED
        BY <4>1, <4>2 DEF x
    <3> QED
      BY <3>1, <3>2
  <2>28. \A i \in 1..Len(t) : (i \in DOMAIN s /\ t[i] = s[i]) \/ t[i].id \in f..(f + Len(F) - 1)
    <3>1. \A i \in 1..(k - 1) : i \in DOMAIN s
      BY <1>0, <2>3
    <3>2. \A x \in 1..Len(F) : f + x - 1 \in f..(f + Len(F) - 1)
      BY <2>9
    <3> QED
      BY <2>27, <3>1, <3>2
  <2>29. UniqueIds(t)
    <3>1. ASSUME NEW i \in 1..Len(t), NEW j \in 1..Len(t), t[i].id = t[j].id
          PROVE  i = j
      <4>1. CASE i \in 1..(k - 1) /\ j \in 1..(k - 1)
        <5>1. i \in DOMAIN s /\ j \in DOMAIN s /\ t[i] = s[i] /\ t[j] = s[j]
          BY <1>0, <2>3, <2>16, <4>1
        <5> QED
          BY <3>1, <5>1 DEF UniqueIds
      <4>2. CASE i \in 1..(k - 1) /\ j \notin 1..(k - 1)
        <5>1. i \in DOMAIN s /\ t[i] = s[i] /\ t[i].id < f /\ t[i].id \in Nat
          BY <1>0, <2>3, <2>16, <4>2
        <5>2. j - (k - 1) \in 1..Len(F) /\ t[j].id = f + (j - (k - 1)) - 1
          BY <2>27, <4>2
        <5> QED
          BY <2>9, <3>1, <5>1, <5>2
      <4>3. CASE i \notin 1..(k - 1) /\ j \in 1..(k - 1)
        <5>1. j \in DOMAIN s /\ t[j] = s[j] /\ t[j].id < f /\ t[j].id \in Nat
          <6>1. j \in 1..n
            BY <1>0, <2>3, <4>3
          <6> QED
            BY <1>0, <2>16, <4>3, <6>1
        <5>2. i - (k - 1) \in 1..Len(F) /\ t[i].id = f + (i - (k - 1)) - 1
          BY <2>27, <4>3
        <5> QED
          BY <2>9, <3>1, <5>1, <5>2
      <4>4. CASE i \notin 1..(k - 1) /\ j \notin 1..(k - 1)
        BY <1>0, <2>3, <2>9, <2>18, <2>27, <3>1, <4>4
      <4> QED
        BY <4>1, <4>2, <4>3, <4>4
    <3> QED
      BY <2>18, <3>1 DEF UniqueIds
  <2> QED
    BY <2>1, <2>9, <2>15, <2>18, <2>26, <2>28, <2>29
<1> QED
  BY <1>1, <1>2

---------------------------------------------------------------------------
(* Merging the system messages.                                           *)

\* Neighbours that are chosen stay neighbours.
LEMMA ChosenSteady ==
  ASSUME NEW s \in Seq(Msg), NEW K, NEW c, NEW off, ChosenBy(s, K, Len(s), c, off),
         NEW i \in 1..Len(s), NEW j \in i..Len(s), \A k \in (i + 1)..j : k \in K
  PROVE  off[j + 1] = off[i + 1] + (j - i)
PROOF
<1> DEFINE n == Len(s)
<1>0. n \in Nat /\ i \in 1..n /\ j \in i..n /\ i \in Nat /\ j \in Nat
  BY LenProperties
<1>1. /\ \A l \in 1..(n + 1) : off[l] \in Nat
      /\ \A l \in 1..n : off[l + 1] = off[l] + (IF l \in K THEN 1 ELSE 0)
  BY DEF ChosenBy
<1> HIDE DEF n
<1> DEFINE Bad == {l \in i..j : off[l + 1] # off[i + 1] + (l - i)}
<1>2. ASSUME Bad # {} PROVE FALSE
  <2>1. Bad \in SUBSET Nat
    BY <1>0
  <2>2. PICK l \in Bad : \A k \in Bad : l <= k
    <3> HIDE DEF Bad
    <3> QED
      BY <1>2, <2>1, LeastExists
  <2>3. l \in i..j /\ off[l + 1] # off[i + 1] + (l - i)
    OBVIOUS
  <2>4. off[i + 1] \in Nat
    BY <1>0, <1>1
  <2>5. l # i
    BY <1>0, <2>3, <2>4
  <2>6. l - 1 \in i..j /\ ~(l <= l - 1) /\ l \in (i + 1)..j /\ l \in 1..n /\ (l - 1) + 1 = l
    BY <1>0, <2>3, <2>5
  <2>7. l - 1 \notin Bad
    <3> HIDE DEF Bad
    <3> QED
      BY <2>2, <2>6
  <2>8. off[l] = off[i + 1] + ((l - 1) - i)
    BY <2>6, <2>7
  <2>9. off[l + 1] = off[l] + 1
    BY <1>1, <2>6
  <2>10. l \in Nat
    BY <1>0, <2>6
  <2> QED
    BY <1>0, <2>3, <2>4, <2>8, <2>9, <2>10
<1>3. j \in i..j
  BY <1>0
<1> QED
  BY <1>2, <1>3

\* Messages that belong together are chosen together.
LEMMA ChosenShape ==
  ASSUME NEW s \in Seq(Msg), Shape(s), Gaps(s) = {},
         NEW K, \A i \in DOMAIN s : s[i].type # "system" <=> i \in K,
         NEW c, c = Chosen(s, K)
  PROVE  /\ c \in Seq(Msg) /\ Blocks(c) /\ Owned(c) /\ Gaps(c) = {}
         /\ \A i \in DOMAIN s : s[i].type # "system" => \E k \in DOMAIN c : c[k] = s[i]
PROOF
<1> DEFINE n == Len(s)
<1>0. /\ n \in Nat /\ DOMAIN s = 1..n
      /\ \A i \in 1..n :
           /\ Len(s[i].calls) \in Nat /\ DOMAIN s[i].calls = 1..Len(s[i].calls)
           /\ HasToolCall(s[i]) => 1 \in 1..Len(s[i].calls)
  BY Fields
<1>1. c \in Seq(Msg) /\ \E off : ChosenBy(s, K, n, c, off)
  BY ChosenAt
<1>2. PICK off : ChosenBy(s, K, n, c, off)
  BY <1>1
<1>3. Len(c) \in Nat /\ DOMAIN c = 1..Len(c)
  BY <1>1, Fields
<1>4. /\ \A i \in 1..n : i \in K => off[i + 1] \in 1..Len(c) /\ c[off[i + 1]] = s[i]
      /\ \A k \in 1..Len(c) : \E i \in 1..n : i \in K /\ k = off[i + 1]
      /\ \A i \in 1..(n + 1) : off[i] \in Nat
  BY <1>2 DEF ChosenBy
<1> HIDE DEF n
<1>5. ASSUME NEW i \in 1..n, HasToolCall(s[i]), NEW p \in 1..Len(s[i].calls)
      PROVE  /\ i \in K /\ i + p \in 1..n /\ i + p \in K /\ off[i + p + 1] = off[i + 1] + p
             /\ s[i + p].type = "tool" /\ s[i + p].call = s[i].calls[p]
  <2>1. Begun(s, i)
    BY <1>0, <1>5 DEF Gaps
  <2>2. \A q \in 1..Len(s[i].calls) : i + q \in 1..n /\ s[i + q].type = "tool" /\ s[i + q].call = s[i].calls[q]
    BY <1>0, <2>1 DEF Shape, Blocks
  <2>3. i \in K
    BY <1>0, <1>5 DEF HasToolCall
  <2> DEFINE j == i + p
  <2>4. j \in i..n /\ j - i = p /\ j \in 1..n
    BY <1>0, <2>2
  <2>5. ASSUME NEW k \in (i + 1)..j PROVE k \in K
    <3>1. k - i \in 1..Len(s[i].calls) /\ i + (k - i) = k
      BY <1>0
    <3>2. k \in 1..n /\ s[k].type = "tool"
      BY <2>2, <3>1
    <3> QED
      BY <1>0, <3>2
  <2> HIDE DEF j
  <2>6. off[j + 1] = off[i + 1] + (j - i)
    BY <1>2, <2>4, <2>5, ChosenSteady DEF n
  <2>7. off[j + 1] = off[i + 1] + p /\ j \in K
    <3>1. j \in K
      BY <1>0, <2>2 DEF j
    <3> QED
      BY <2>4, <2>6, <3>1
  <2> QED
    BY <2>2, <2>3, <2>4, <2>7 DEF j
<1>6. ASSUME NEW i \in 1..n, HasToolCall(s[i]) PROVE Begun(c, off[i + 1])
  <2>1. /\ 1 \in 1..Len(s[i].calls) /\ i \in K /\ i + 1 \in 1..n /\ i + 1 \in K
        /\ off[(i + 1) + 1] = off[i + 1] + 1 /\ s[i + 1].type = "tool"
    BY <1>0, <1>5, <1>6
  <2>2. c[off[i + 1]] = s[i] /\ off[i + 1] + 1 \in 1..Len(c) /\ c[off[i + 1] + 1] = s[i + 1]
    BY <1>4, <2>1
  <2> QED
    BY <1>3, <1>6, <2>1, <2>2 DEF Begun
<1>7. Blocks(c)
  <2> SUFFICES ASSUME NEW k \in DOMAIN c, Begun(c, k), NEW p \in DOMAIN c[k].calls
               PROVE  k + p \in DOMAIN c /\ c[k + p].type = "tool" /\ c[k + p].call = c[k].calls[p]
    BY DEF Blocks
  <2>1. PICK i \in 1..n : i \in K /\ k = off[i + 1] /\ c[k] = s[i]
    BY <1>3, <1>4
  <2>2. HasToolCall(s[i]) /\ p \in 1..Len(s[i].calls)
    BY <1>0, <2>1 DEF Begun
  <2>3. /\ i + p \in 1..n /\ i + p \in K /\ off[i + p + 1] = k + p
        /\ s[i + p].type = "tool" /\ s[i + p].call = s[i].calls[p]
    BY <1>5, <2>1, <2>2
  <2> DEFINE j == i + p
  <2>4. j \in 1..n /\ j \in K /\ off[j + 1] = k + p /\ s[j].type = "tool" /\ s[j].call = s[i].calls[p]
    BY <2>3
  <2> HIDE DEF j
  <2> QED
    BY <1>3, <1>4, <2>1, <2>4
<1>8. Owned(c)
  <2> SUFFICES ASSUME NEW k \in DOMAIN c, c[k].type = "tool"
               PROVE  \E i \in 1..(k - 1) : Begun(c, i) /\ k - i \in DOMAIN c[i].calls
    BY DEF Owned
  <2>1. PICK j \in 1..n : j \in K /\ k = off[j + 1] /\ c[k] = s[j]
    BY <1>3, <1>4
  <2>2. PICK i \in 1..(j - 1) : Begun(s, i) /\ j - i \in DOMAIN s[i].calls
    BY <1>0, <2>1 DEF Shape, Owned
  <2>3. i \in 1..n /\ HasToolCall(s[i]) /\ j - i \in 1..Len(s[i].calls) /\ i + (j - i) = j
    BY <1>0, <2>2 DEF Begun
  <2>4. i \in K /\ off[i + (j - i) + 1] = off[i + 1] + (j - i)
    BY <1>5, <2>3
  <2>5. k = off[i + 1] + (j - i) /\ off[i + 1] \in 1..Len(c) /\ c[off[i + 1]] = s[i] /\ Begun(c, off[i + 1])
    BY <1>4, <1>6, <2>1, <2>3, <2>4
  <2>6. off[i + 1] \in 1..(k - 1) /\ k - off[i + 1] = j - i
    <3> DEFINE a == off[i + 1]
               b == j - i
    <3>1. a \in Nat /\ a >= 1 /\ b \in Nat /\ b >= 1 /\ k = a + b
      BY <1>0, <1>3, <2>3, <2>5
    <3> HIDE DEF a, b
    <3>2. a \in 1..(k - 1) /\ k - a = b
      BY <3>1
    <3> QED
      BY <3>2 DEF a, b
  <2> QED
    BY <2>2, <2>5, <2>6
<1>9. Gaps(c) = {}
  <2> SUFFICES ASSUME NEW k \in DOMAIN c, HasToolCall(c[k]) PROVE Begun(c, k)
    BY DEF Gaps
  <2>1. PICK i \in 1..n : k = off[i + 1] /\ c[k] = s[i]
    BY <1>3, <1>4
  <2> QED
    BY <1>6, <2>1
<1> QED
  BY <1>0, <1>1, <1>3, <1>4, <1>7, <1>8, <1>9

\* coalesce_system_messages keeps calls and results together, and every other message.
LEMMA CoalescePaired ==
  ASSUME NEW s \in Seq(Msg), Shape(s), Gaps(s) = {}, NEW t, t = CoalesceSystem(s)
  PROVE  /\ Paired(t)
         /\ \A i \in DOMAIN s : s[i].type # "system" => \E k \in DOMAIN t : t[k] = s[i]
PROOF
<1> DEFINE n == Len(s)
           sys == {i \in DOMAIN s : s[i].type = "system"}
           rest == DOMAIN s \ sys
           c == Chosen(s, rest)
           h == Chosen(s, sys)
<1>0. n \in Nat /\ DOMAIN s = 1..n /\ \A i \in 1..n : s[i] \in Msg
  BY Fields
<1>1. t = (IF sys = {} THEN <<>> ELSE <<Head(h)>>) \o c
  BY DEF CoalesceSystem
<1>2. \A i \in DOMAIN s : s[i].type # "system" <=> i \in rest
  OBVIOUS
<1>3. /\ c \in Seq(Msg) /\ Blocks(c) /\ Owned(c) /\ Gaps(c) = {}
      /\ \A i \in DOMAIN s : s[i].type # "system" => \E k \in DOMAIN c : c[k] = s[i]
  <2> HIDE DEF rest
  <2> QED
    BY <1>2, ChosenShape
<1> HIDE DEF c, h
<1>4. CASE sys = {}
  <2>1. t = c
    BY <1>1, <1>3, <1>4, ConcatEmptySeq
  <2> QED
    BY <1>3, <2>1, ShapeIsPaired
<1>5. CASE sys # {}
  <2>1. Head(h) \in Msg /\ \E i \in sys : Head(h) = s[i]
    <3>1. h \in Seq(Msg) /\ \E off : ChosenBy(s, sys, n, h, off)
      <4> HIDE DEF sys
      <4> QED
        BY ChosenAt DEF h
    <3>2. PICK off : ChosenBy(s, sys, n, h, off)
      BY <3>1
    <3>3. /\ \A i \in sys : off[i + 1] \in 1..Len(h) /\ h[off[i + 1]] = s[i]
          /\ \A k \in 1..Len(h) : \E i \in sys : k = off[i + 1]
      BY <1>0, <3>2 DEF ChosenBy
    <3> HIDE DEF sys
    <3>4. Len(h) \in Nat /\ 1 \in 1..Len(h)
      BY <1>5, <3>1, <3>3, LenProperties
    <3>5. h # <<>> /\ Head(h) = h[1]
      BY <3>1, <3>4, EmptySeq, HeadTailProperties
    <3>6. \E i \in sys : h[1] = s[i]
      BY <3>3, <3>4
    <3> QED
      BY <1>0, <3>5, <3>6 DEF sys
  <2> DEFINE m == Head(h)
             one == <<m>>
  <2>2. PICK i \in sys : m = s[i]
    BY <2>1
  <2>3. \A p, q \in DOMAIN m.calls : m.calls[p] = m.calls[q] => p = q
    BY <2>2 DEF Shape, CallsOnce
  <2>4. one \in Seq(Msg) /\ Shape(one) /\ Gaps(one) = {} /\ t = one \o c
    <3>1. t = one \o c
      BY <1>1, <1>5
    <3>2. m \in Msg /\ m.type = "system" /\ m.type # "tool" /\ ~HasToolCall(m)
      BY <2>1, <2>2 DEF HasToolCall
    <3> HIDE DEF m
    <3>3. one \in Seq(Msg) /\ Shape(one) /\ Gaps(one) = IF HasToolCall(m) THEN {1} ELSE {}
      BY <2>3, <3>2, OneShape
    <3> QED
      BY <3>1, <3>2, <3>3
  <2>5. /\ t \in Seq(Msg) /\ Len(t) = 1 + Len(c) /\ \A k \in 1..Len(c) : t[1 + k] = c[k]
    BY <1>3, <2>1, <2>4, ConsPlaces
  <2> HIDE DEF one
  <2>6. Blocks(t) /\ Owned(t) /\ Gaps(t) = {}
    BY <1>3, <2>4, ConcatShape DEF Shape
  <2>7. Paired(t)
    BY <2>5, <2>6, ShapeIsPaired
  <2>8. DOMAIN t = 1..(1 + Len(c)) /\ DOMAIN c = 1..Len(c) /\ Len(c) \in Nat
    BY <1>3, <2>5, LenProperties
  <2>9. \A k \in DOMAIN c : 1 + k \in DOMAIN t /\ t[1 + k] = c[k]
    BY <2>5, <2>8
  <2> QED
    BY <1>3, <2>7, <2>9
<1> QED
  BY <1>4, <1>5

---------------------------------------------------------------------------
(* Where find_safe_cut_point cuts, for every list of messages and every    *)
(* target, and what that means for the messages that compaction keeps.     *)

\* A set of positions has a largest one: the least distance from the end.
LEMMA LargestExists ==
  ASSUME NEW n \in Nat, NEW S \in SUBSET (1..n), S # {}
  PROVE  \E i \in S : \A j \in S : j <= i
PROOF
<1> DEFINE R == {p \in Nat \X Nat : p[1] < p[2]}
           T == {n - i : i \in S}
<1>1. IsWellFoundedOn(R, Nat)
  BY NatLessThanWellFounded DEF OpToRel
<1>2. T \subseteq Nat /\ T # {}
  <2>1. \A i \in S : i \in 1..n /\ n - i \in Nat
    OBVIOUS
  <2> QED
    BY <2>1
<1>3. PICK d \in T : \A e \in T : ~(<<e, d>> \in R)
  BY <1>1, <1>2, WFMin
<1>4. PICK i \in S : d = n - i
  OBVIOUS
<1>5. ASSUME NEW j \in S PROVE j <= i
  <2>1. n - j \in T /\ n - j \in Nat /\ d \in Nat
    BY <1>2
  <2>2. ~(n - j < d)
    BY <1>3, <2>1
  <2>3. i \in Int /\ j \in Int
    OBVIOUS
  <2> QED
    BY <1>4, <2>2, <2>3
<1> QED
  BY <1>5

\* LastBefore yields a position up to the target, and one of a message of the
\* types asked for unless it is the first.
LEMMA LastBeforeProperties ==
  ASSUME NEW s \in Seq(Msg), NEW t \in 1..Len(s), NEW types
  PROVE  LET c == LastBefore(s, t, types)
         IN c \in 1..t /\ (c = 1 \/ s[c].type \in types)
PROOF
<1> DEFINE hits == {i \in 2..t : s[i].type \in types}
<1>1. CASE hits = {}
  BY <1>1 DEF LastBefore
<1>2. CASE hits # {}
  <2>1. \E i \in hits : \A j \in hits : j <= i
    <3>1. hits \in SUBSET (1..t) /\ t \in Nat
      OBVIOUS
    <3> QED
      BY <1>2, <3>1, LargestExists
  <2>2. (CHOOSE i \in hits : \A j \in hits : j <= i) \in hits
    BY <2>1
  <2> QED
    BY <1>2, <2>2 DEF LastBefore
<1> QED
  BY <1>1, <1>2

\* find_safe_cut_point returns a position of the list that is not behind the
\* target, and never that of a tool result, but for the first message.
THEOREM SafeCut ==
  ASSUME NEW s \in Seq(Msg), s # <<>>, NEW target \in Nat \ {0}
  PROVE  /\ FindSafeCutPoint(s, target) \in 1..Len(s)
         /\ FindSafeCutPoint(s, target) <= target
         /\ FindSafeCutPoint(s, target) = 1 \/ s[FindSafeCutPoint(s, target)].type # "tool"
PROOF
<1> DEFINE t == IF target > Len(s) THEN Len(s) ELSE target
           human == LastBefore(s, t, {"human"})
           other == LastBefore(s, t, {"human", "ai", "system"})
<1>1. t \in 1..Len(s) /\ t <= target
  OBVIOUS
<1>2. FindSafeCutPoint(s, target) = IF human > 1 THEN human ELSE other
  BY DEF FindSafeCutPoint
<1>3. human \in 1..t /\ (human = 1 \/ s[human].type \in {"human"})
  BY <1>1, LastBeforeProperties
<1>4. other \in 1..t /\ (other = 1 \/ s[other].type \in {"human", "ai", "system"})
  BY <1>1, LastBeforeProperties
<1> QED
  <2> HIDE DEF t, human, other
  <2> QED
    BY <1>1, <1>2, <1>3, <1>4

\* Compaction never keeps a tool result whose call it has summarized: when every
\* result of the list follows its call, so does every result of the messages
\* kept by compact_conversation, whatever recent window was asked for.
THEOREM KeptResultsHaveCalls ==
  ASSUME NEW s \in Seq(Msg), s # <<>>, NEW target \in Nat \ {0},
         NoOrphanResults(s)
  PROVE  NoOrphanResults(SubSeq(s, FindSafeCutPoint(s, target), Len(s)))
PROOF
<1> DEFINE c == FindSafeCutPoint(s, target)
           kept == SubSeq(s, c, Len(s))
<1>1. c \in 1..Len(s) /\ (c = 1 \/ s[c].type # "tool")
  BY SafeCut
<1> HIDE DEF c
<1>2. /\ Len(kept) = Len(s) - c + 1 /\ DOMAIN kept = 1..Len(kept)
      /\ \A i \in 1..Len(kept) : kept[i] = s[c + i - 1]
  BY <1>1
<1> HIDE DEF kept
<1>3. SUFFICES ASSUME NEW j \in 1..Len(kept), kept[j].type = "tool"
               PROVE  \E i \in 1..(j - 1) : HasToolCall(kept[i]) /\ j \in RunAfter(kept, i)
                                           /\ kept[j].call \in Range(kept[i].calls)
  BY <1>2 DEF NoOrphanResults, kept, c
<1> DEFINE J == c + j - 1
<1>4. J \in 1..Len(s) /\ s[J] = kept[j] /\ J \in DOMAIN s
  BY <1>1, <1>2
<1>5. PICK I \in 1..(J - 1) : /\ HasToolCall(s[I]) /\ J \in RunAfter(s, I)
                              /\ s[J].call \in Range(s[I].calls)
  BY <1>3, <1>4 DEF NoOrphanResults
<1>6. I >= c
  <2> SUFFICES ASSUME I < c PROVE FALSE
    BY <1>1
  <2>1. c \in (I + 1)..J
    BY <1>1, <1>4
  <2>2. s[c].type = "tool"
    BY <1>5, <2>1 DEF RunAfter
  <2>3. c = 1
    BY <1>1, <2>2
  <2> QED
    BY <2>3
<1> DEFINE i == I - c + 1
<1>7. i \in 1..(j - 1) /\ kept[i] = s[I] /\ i \in Nat
  <2>1. Len(s) \in Nat
    BY LenProperties
  <2>2. i \in 1..(j - 1) /\ i \in 1..Len(kept) /\ c + i - 1 = I
    BY <1>1, <1>2, <1>4, <1>6, <2>1
  <2> HIDE DEF i
  <2> QED
    BY <1>2, <2>2
<1>8. j \in RunAfter(kept, i)
  <2> SUFFICES ASSUME NEW k \in (i + 1)..j PROVE kept[k].type = "tool"
    BY <1>7 DEF RunAfter
  <2>1. c + k - 1 \in (I + 1)..J /\ kept[k] = s[c + k - 1]
    BY <1>1, <1>2, <1>6, <1>7
  <2> QED
    BY <1>5, <2>1 DEF RunAfter
<1> QED
  BY <1>4, <1>5, <1>7, <1>8

\* t is s from a message on that is no result, with what is added.
CutTo(t, s, new) ==
  \E c \in 1..Len(s) : s[c].type # "tool" /\ t = SubSeq(s, c, Len(s)) \o new

\* Compaction removes the messages before one that is no result, and may add a summary.
LEMMA CompactKeeps ==
  ASSUME NEW s \in Seq(Msg), UniqueIds(s), Len(s) # 0, s[1].type # "tool",
         NEW r \in Nat \ {0}, FindSafeCutPoint(s, r) > 1, NEW summarized,
         NEW f \in Nat, \A i \in DOMAIN s : s[i].id < f,
         NEW u, u = Compact(s, r, summarized, f), NEW t, t = AddMessages(s, u.new, u.remove)
  PROVE  CutTo(t, s, u.new) /\ (u.new = <<>> \/ u.new = <<Summary(f)>>)
PROOF
<1> DEFINE c == FindSafeCutPoint(s, r)
           removed == Ids(SubSeq(s, 1, c - 1))
<1>0. Len(s) \in Nat /\ DOMAIN s = 1..Len(s) /\ s # <<>>
  BY Fields, EmptySeq
<1>1. c \in 1..Len(s) /\ s[c].type # "tool"
  BY <1>0, SafeCut
<1>2. u.remove = removed /\ (u.new = <<>> \/ u.new = <<Summary(f)>>)
  BY DEF Compact
<1> HIDE DEF c
<1>3. removed \subseteq Ids(s)
  <2> DEFINE z == SubSeq(s, 1, c - 1)
  <2>1. z \in Seq(Msg) /\ Len(z) = c - 1 /\ \A i \in 1..(c - 1) : z[i] = s[i]
    <3>1. \A i \in 1..(c - 1) : s[i] \in Msg
      BY <1>0, <1>1, Fields
    <3>2. /\ z \in Seq(Msg) /\ Len(z) = IF 1 <= c - 1 THEN (c - 1) - 1 + 1 ELSE 0
          /\ \A i \in 1..((c - 1) - 1 + 1) : z[i] = s[1 + i - 1]
      BY <1>0, <1>1, <3>1, SubSeqProperties
    <3> HIDE DEF z
    <3> QED
      BY <1>0, <1>1, <3>2
  <2>2. DOMAIN z = 1..(c - 1)
    BY <2>1, LenProperties
  <2> HIDE DEF z
  <2>3. \A i \in 1..(c - 1) : i \in DOMAIN s
    BY <1>0, <1>1
  <2> QED
    BY <2>1, <2>2, <2>3 DEF Ids, z
<1> HIDE DEF removed
<1>4. u.new \in Seq(Msg) /\ \A i \in DOMAIN u.new : u.new[i].id = f
  <2>1. CASE u.new = <<>>
    BY <2>1, EmptySeq
  <2>2. CASE u.new = <<Summary(f)>>
    <3> DEFINE x == Summary(f)
    <3>1. <<>> \in Seq(Nat)
      BY EmptySeq
    <3>2. x \in Msg /\ x.id = f
      BY <3>1 DEF Msg, Types, Summary
    <3> HIDE DEF x
    <3>3. <<x>> \in Seq(Msg) /\ DOMAIN <<x>> = {1} /\ <<x>>[1] = x
      BY <3>2, OneOf
    <3> QED
      BY <2>2, <3>2, <3>3 DEF x
  <2> QED
    BY <1>2, <2>1, <2>2
<1>5. f \notin Ids(s)
  <2>1. \A i \in DOMAIN s : s[i].id \in Nat
    BY <1>0, Fields DEF Msg
  <2> QED
    BY <2>1 DEF Ids
<1> DEFINE new == u.new
<1>6. new \in Seq(Msg) /\ \A i \in DOMAIN new : new[i].id \notin Ids(s) /\ new[i].id \notin removed
  BY <1>3, <1>4, <1>5
<1> HIDE DEF new
<1>7. AddMessages(s, new, removed) = Drop(s, removed) \o new
  BY <1>6, AddFresh
<1>8. Drop(s, removed) = SubSeq(s, c, Len(s))
  BY <1>1, DropFirst DEF removed
<1> QED
  BY <1>1, <1>2, <1>7, <1>8 DEF new, CutTo

---------------------------------------------------------------------------
(* What the nodes make of good messages.                                  *)

\* What followed an old question never comes after a later one.
Ordered(s) ==
  \A i, j \in DOMAIN s :
    i < j /\ s[i].type = "human" /\ s[j].type \in {"human", "ai"} => s[i].turn <= s[j].turn
\* The messages of the turns up to v, whose ids and calls are below f.
Good(s, f, v) ==
  /\ s \in Seq(Msg) /\ UniqueIds(s) /\ Ordered(s) /\ Shape(s)
  /\ \A i \in DOMAIN s :
       s[i].id < f /\ s[i].turn <= v /\ \A p \in DOMAIN s[i].calls : s[i].calls[p] < f
\* Every message of t is one of s or has a new id.
NewOrOld(t, s, f) == \A k \in DOMAIN t : t[k].id >= f \/ \E i \in DOMAIN s : t[k] = s[i]

\* The shape does not depend on ids.
LEMMA SameShape ==
  ASSUME NEW s \in Seq(Msg), NEW t \in Seq(Msg), Len(t) = Len(s), \A i \in DOMAIN s : Same(t[i], s[i])
  PROVE  (Shape(s) => Shape(t)) /\ Gaps(t) = Gaps(s)
PROOF
<1>0. DOMAIN s = DOMAIN t /\ DOMAIN s = 1..Len(s) /\ Len(s) \in Nat
  BY LenProperties
<1>1. \A i \in DOMAIN s : /\ t[i].type = s[i].type /\ t[i].calls = s[i].calls /\ t[i].call = s[i].call
                          /\ HasToolCall(t[i]) <=> HasToolCall(s[i])
  BY DEF Same, HasToolCall
<1>2. \A i \in DOMAIN s : Begun(t, i) <=> Begun(s, i)
  BY <1>0, <1>1 DEF Begun
<1>3. Gaps(t) = Gaps(s)
  BY <1>0, <1>1, <1>2 DEF Gaps
<1>4. ASSUME Shape(s) PROVE Shape(t)
  <2>1. Blocks(t)
    BY <1>0, <1>1, <1>2, <1>4 DEF Shape, Blocks
  <2>2. Owned(t)
    <3>1. \A j \in DOMAIN s : \A i \in 1..(j - 1) : i \in DOMAIN s
      BY <1>0
    <3> QED
      BY <1>0, <1>1, <1>2, <1>4, <3>1 DEF Shape, Owned
  <2>3. CallsOnce(t)
    BY <1>0, <1>1, <1>4 DEF Shape, CallsOnce
  <2> QED
    BY <2>1, <2>2, <2>3 DEF Shape
<1> QED
  BY <1>3, <1>4

\* What may come after s: messages of the turn w with ids of their own below g.
Later(m, s, g, w) ==
  /\ m.id < g /\ m.id \notin Ids(s)
  /\ m.turn = w \/ (m.type = "system" /\ m.turn <= w)
  /\ \A p \in DOMAIN m.calls : m.calls[p] < g
Follow(new, s, g, w) ==
  new \in Seq(Msg) /\ UniqueIds(new) /\ \A i \in DOMAIN new : Later(new[i], s, g, w)
Within(a, s) == \A i \in DOMAIN a : \E k \in DOMAIN s : a[i] = s[k]

\* New messages of a later turn after good ones.
LEMMA GoodConcat ==
  ASSUME NEW f \in Nat, NEW v \in Nat, NEW g \in Nat, NEW w \in Nat, f <= g, v <= w,
         NEW s, Good(s, f, v), NEW new, Follow(new, s, g, w), NEW t, t = s \o new, Shape(t)
  PROVE  Good(t, g, w)
PROOF
<1> DEFINE m == Len(s)
           n == Len(new)
<1>a. /\ new \in Seq(Msg) /\ UniqueIds(new)
      /\ \A i \in DOMAIN new :
           /\ new[i].id < g /\ new[i].id \notin Ids(s)
           /\ new[i].turn = w \/ (new[i].type = "system" /\ new[i].turn <= w)
           /\ \A p \in DOMAIN new[i].calls : new[i].calls[p] < g
  BY DEF Follow, Later
<1>0. /\ s \in Seq(Msg) /\ m \in Nat /\ DOMAIN s = 1..m /\ n \in Nat /\ DOMAIN new = 1..n
      /\ \A i \in 1..m : /\ s[i] \in Msg /\ s[i].id \in Nat /\ s[i].turn \in Nat
                         /\ s[i].calls \in Seq(Nat) /\ s[i].id < f /\ s[i].turn <= v
                         /\ \A p \in DOMAIN s[i].calls : s[i].calls[p] < f
  <2>1. s \in Seq(Msg)
    BY DEF Good
  <2>2. m \in Nat /\ DOMAIN s = 1..m /\ n \in Nat /\ DOMAIN new = 1..n /\ \A i \in 1..m : s[i] \in Msg
    BY <1>a, <2>1, Fields
  <2>3. \A i \in 1..m : s[i].id \in Nat /\ s[i].turn \in Nat /\ s[i].calls \in Seq(Nat)
    BY <2>2 DEF Msg
  <2> QED
    BY <2>1, <2>2, <2>3 DEF Good
<1>1. t \in Seq(Msg) /\ Len(t) = m + n
  BY <1>0, <1>a, ConcatPlaces
<1>2. \A i \in 1..m : t[i] = s[i]
  BY <1>0, <1>a, ConcatPlaces DEF Prefix
<1>3. \A i \in 1..n : t[m + i] = new[i]
  BY <1>0, <1>a, ConcatPlaces
<1>4. DOMAIN t = 1..(m + n)
  BY <1>1, LenProperties
<1> HIDE DEF m, n
<1>5. \A k \in 1..(m + n) : (k \in 1..m /\ t[k] = s[k]) \/ (k - m \in 1..n /\ t[k] = new[k - m] /\ k > m)
  <2> SUFFICES ASSUME NEW k \in 1..(m + n), k \notin 1..m
               PROVE  k - m \in 1..n /\ t[k] = new[k - m] /\ k > m
    BY <1>2
  <2>1. k - m \in 1..n /\ m + (k - m) = k /\ k > m
    BY <1>0
  <2>2. t[m + (k - m)] = new[k - m]
    BY <1>3, <2>1
  <2> QED
    BY <2>1, <2>2
<1>6. \A i \in 1..n : new[i].turn \in Nat
  BY <1>0, <1>a, Fields DEF Msg
<1>7. UniqueIds(t)
  <2> SUFFICES ASSUME NEW k \in 1..(m + n), NEW l \in 1..(m + n), t[k].id = t[l].id PROVE k = l
    BY <1>4 DEF UniqueIds
  <2>1. CASE k \in 1..m /\ l \in 1..m
    BY <1>0, <1>2, <2>1 DEF Good, UniqueIds
  <2>2. CASE k \in 1..m /\ l \notin 1..m
    <3>1. k \in DOMAIN s /\ t[k] = s[k] /\ l - m \in DOMAIN new /\ t[l] = new[l - m]
      BY <1>0, <1>2, <1>5, <2>2
    <3> QED
      BY <1>a, <3>1 DEF Ids
  <2>3. CASE k \notin 1..m /\ l \in 1..m
    <3>1. l \in DOMAIN s /\ t[l] = s[l] /\ k - m \in DOMAIN new /\ t[k] = new[k - m]
      BY <1>0, <1>2, <1>5, <2>3
    <3> QED
      BY <1>a, <3>1 DEF Ids
  <2>4. CASE k \notin 1..m /\ l \notin 1..m
    <3>1. k - m \in DOMAIN new /\ l - m \in DOMAIN new /\ new[k - m].id = new[l - m].id
      BY <1>0, <1>5, <2>4
    <3>2. k - m = l - m
      BY <1>a, <3>1 DEF UniqueIds
    <3> QED
      BY <1>0, <3>2
  <2> QED
    BY <2>1, <2>2, <2>3, <2>4
<1>8. Ordered(t)
  <2> SUFFICES ASSUME NEW k \in 1..(m + n), NEW l \in 1..(m + n), k < l,
                      t[k].type = "human", t[l].type \in {"human", "ai"}
               PROVE  t[k].turn <= t[l].turn
    BY <1>4 DEF Ordered
  <2>1. CASE l \in 1..m
    <3>1. k \in 1..m
      BY <1>0, <2>1
    <3> QED
      BY <1>0, <1>2, <2>1, <3>1 DEF Good, Ordered
  <2>2. CASE l \notin 1..m
    <3>1. t[l].turn = w
      <4>1. l - m \in DOMAIN new /\ t[l] = new[l - m]
        BY <1>0, <1>5, <2>2
      <4> QED
        BY <1>a, <4>1
    <3>2. t[k].turn <= w
      <4>1. CASE k \in 1..m
        BY <1>0, <1>2, <4>1
      <4>2. CASE k \notin 1..m
        <5>1. k - m \in DOMAIN new /\ k - m \in 1..n /\ t[k] = new[k - m]
          BY <1>0, <1>5, <4>2
        <5>2. new[k - m].turn = w \/ new[k - m].turn <= w
          BY <1>a, <5>1
        <5> QED
          BY <1>6, <5>1, <5>2
      <4> QED
        BY <4>1, <4>2
    <3> QED
      BY <3>1, <3>2
  <2> QED
    BY <2>1, <2>2
<1>9. ASSUME NEW k \in 1..(m + n)
      PROVE  t[k].id < g /\ t[k].turn <= w /\ \A p \in DOMAIN t[k].calls : t[k].calls[p] < g
  <2>1. CASE k \in 1..m
    <3>1. t[k] = s[k] /\ \A p \in DOMAIN s[k].calls : s[k].calls[p] \in Nat /\ s[k].calls[p] < f
      BY <1>0, <1>2, <2>1, ElementOfSeq
    <3> QED
      BY <1>0, <2>1, <3>1
  <2>2. CASE k \notin 1..m
    <3>1. k - m \in DOMAIN new /\ t[k] = new[k - m]
      BY <1>0, <1>5, <2>2
    <3>2. /\ new[k - m].turn = w \/ new[k - m].turn <= w
          /\ new[k - m].id < g /\ \A p \in DOMAIN new[k - m].calls : new[k - m].calls[p] < g
      BY <1>a, <3>1
    <3> QED
      BY <3>1, <3>2
  <2> QED
    BY <2>1, <2>2
<1> QED
  BY <1>1, <1>4, <1>7, <1>8, <1>9 DEF Good

\* A part of good messages that has the shape.
LEMMA GoodPart ==
  ASSUME NEW f \in Nat, NEW v \in Nat, NEW s, Good(s, f, v), NEW a \in Seq(Msg), Shape(a),
         NEW c \in Nat, Part(a, s, c)
  PROVE  Good(a, f, v) /\ Within(a, s)
PROOF
<1>0. /\ s \in Seq(Msg) /\ Len(s) \in Nat /\ DOMAIN s = 1..Len(s) /\ Len(a) \in Nat /\ DOMAIN a = 1..Len(a)
      /\ \A i \in 1..Len(a) : c + i - 1 \in 1..Len(s) /\ a[i] = s[c + i - 1]
  BY LenProperties DEF Good, Part
<1>1. UniqueIds(a)
  <2> SUFFICES ASSUME NEW i \in DOMAIN a, NEW j \in DOMAIN a, a[i].id = a[j].id PROVE i = j
    BY DEF UniqueIds
  <2>1. c + i - 1 \in DOMAIN s /\ c + j - 1 \in DOMAIN s /\ s[c + i - 1].id = s[c + j - 1].id
    BY <1>0
  <2>2. c + i - 1 = c + j - 1
    BY <2>1 DEF Good, UniqueIds
  <2> QED
    BY <1>0, <2>2
<1>2. Ordered(a)
  <2> SUFFICES ASSUME NEW i \in DOMAIN a, NEW j \in DOMAIN a, i < j,
                      a[i].type = "human", a[j].type \in {"human", "ai"}
               PROVE  a[i].turn <= a[j].turn
    BY DEF Ordered
  <2>1. c + i - 1 \in DOMAIN s /\ c + j - 1 \in DOMAIN s /\ a[i] = s[c + i - 1] /\ a[j] = s[c + j - 1]
    BY <1>0
  <2>2. c + i - 1 < c + j - 1
    BY <1>0
  <2> QED
    BY <2>1, <2>2 DEF Good, Ordered
<1>3. \A i \in DOMAIN a : c + i - 1 \in DOMAIN s /\ a[i] = s[c + i - 1]
  BY <1>0
<1> QED
  BY <1>1, <1>2, <1>3 DEF Good, Within

\* tool_call_order.
LEMMA RepairGood ==
  ASSUME NEW f \in Nat, NEW v \in Nat, NEW s, Good(s, f, v), Len(s) # 0, ~HasToolCall(s[Len(s)]),
         NEW u, u = ToolCallOrder(s, f), NEW t, t = AddMessages(s, u.new, u.remove)
  PROVE  /\ Len(u.new) \in Nat /\ Good(t, f + Len(u.new), v) /\ NewOrOld(t, s, f)
         /\ Gaps(t) = {} /\ Len(t) # 0 /\ ~HasToolCall(t[Len(t)])
         /\ \A i \in DOMAIN s : \E k \in DOMAIN t : Same(t[k], s[i])
         /\ \E e : Filled(t, s, e)
PROOF
<1>0. /\ s \in Seq(Msg) /\ UniqueIds(s) /\ Shape(s) /\ Ordered(s) /\ Len(s) \in Nat /\ DOMAIN s = 1..Len(s)
      /\ Len(s) \notin Gaps(s)
      /\ \A i \in DOMAIN s :
           s[i].id < f /\ s[i].turn <= v /\ \A p \in DOMAIN s[i].calls : s[i].calls[p] < f
  BY LenProperties DEF Good, Gaps
<1>1. /\ t \in Seq(Msg) /\ Len(u.new) \in Nat /\ (\E e : Filled(t, s, e)) /\ UniqueIds(t)
      /\ \A i \in DOMAIN t : (i \in DOMAIN s /\ t[i] = s[i]) \/ t[i].id \in f..(f + Len(u.new) - 1)
  BY <1>0, OrderFills
<1>2. PICK e : Filled(t, s, e)
  BY <1>1
<1>3. Shape(t) /\ Gaps(t) = {}
  BY <1>0, <1>1, <1>2, FilledShape
<1>4. Len(t) \in Nat /\ DOMAIN t = 1..Len(t)
  BY <1>1, LenProperties
<1> DEFINE n == Len(s)
           m == Len(t)
           x == Len(u.new)
<1>5. \A i \in 1..n : e[i] \in 1..m /\ Same(t[e[i]], s[i])
  BY <1>2 DEF Filled, FilledAt
<1>6. m # 0
  BY <1>0, <1>4, <1>5
<1>7. ~HasToolCall(t[m])
  <2>1. m \in DOMAIN t /\ m + 1 \notin DOMAIN t
    BY <1>4, <1>6
  <2> QED
    BY <1>3, <2>1 DEF Gaps, Begun
<1>8. \A k \in 1..m : \/ \E i \in 1..n : k = e[i] /\ Same(t[k], s[i])
                      \/ \E i \in 1..n : Invented(t[k], s[i], k - e[i])
  <2>1. \A i \in Gaps(s) : i \in 1..n
    BY <1>0 DEF Gaps
  <2> QED
    BY <1>0, <1>2, <2>1, FilledFrom
<1>9. ASSUME NEW k \in 1..m
      PROVE  t[k].turn <= v /\ \A p \in DOMAIN t[k].calls : t[k].calls[p] < f
  <2>1. CASE \E i \in 1..n : k = e[i] /\ Same(t[k], s[i])
    BY <1>0, <2>1 DEF Same
  <2>2. CASE \E i \in 1..n : Invented(t[k], s[i], k - e[i])
    <3>1. PICK i \in 1..n : Invented(t[k], s[i], k - e[i])
      BY <2>2
    <3>2. t[k].turn <= v /\ t[k].calls = <<>>
      BY <1>0, <3>1 DEF Invented
    <3>3. DOMAIN t[k].calls = {}
      BY <3>2, EmptySeq
    <3> QED
      BY <3>2, <3>3
  <2> QED
    BY <1>8, <2>1, <2>2
<1>10. \A k \in 1..m : t[k].id \in Nat /\ t[k].calls \in Seq(Nat)
  BY <1>1, <1>4, Fields DEF Msg
<1> HIDE DEF m, n, x
<1>11. \A k \in 1..m : t[k].id < f + x
  <2> SUFFICES ASSUME NEW k \in 1..m PROVE t[k].id < f + x
    OBVIOUS
  <2>1. CASE k \in DOMAIN s /\ t[k] = s[k]
    <3>1. t[k].id < f /\ t[k].id \in Nat /\ x \in Nat
      BY <1>0, <1>1, <1>10, <2>1 DEF x
    <3> QED
      BY <3>1
  <2>2. CASE t[k].id \in f..(f + x - 1)
    <3>1. x \in Nat
      BY <1>1 DEF x
    <3> QED
      BY <2>2, <3>1
  <2> QED
    BY <1>1, <1>4, <2>1, <2>2 DEF m, x
<1>12. ASSUME NEW k \in 1..m, NEW p \in DOMAIN t[k].calls PROVE t[k].calls[p] < f + x
  <2>1. t[k].calls[p] \in Nat /\ t[k].calls[p] < f
    BY <1>9, <1>10, ElementOfSeq, LenProperties DEF m
  <2>2. x \in Nat
    BY <1>1 DEF x
  <2> QED
    BY <2>1, <2>2
<1>13. Ordered(t)
  <2> SUFFICES ASSUME NEW k \in 1..m, NEW l \in 1..m, k < l,
                      t[k].type = "human", t[l].type \in {"human", "ai"}
               PROVE  t[k].turn <= t[l].turn
    BY <1>4 DEF Ordered, m
  <2>1. PICK i \in 1..n : k = e[i] /\ Same(t[k], s[i])
    BY <1>8 DEF Invented
  <2>2. PICK j \in 1..n : l = e[j] /\ Same(t[l], s[j])
    BY <1>8 DEF Invented
  <2>3. i < j
    <3>1. i # j
      BY <1>4, <2>1, <2>2
    <3>2. CASE j < i
      <4>1. i \in (j + 1)..Len(s) /\ j \in 1..Len(s)
        BY <1>0, <3>2 DEF n
      <4>2. e[j] < e[i]
        BY <1>0, <1>2, <4>1, FilledGrows
      <4>3. k \in Nat /\ l \in Nat
        BY <1>4 DEF m
      <4> QED
        BY <2>1, <2>2, <4>2, <4>3
    <3> QED
      BY <1>0, <3>1, <3>2
  <2>4. s[i].type = "human" /\ s[j].type \in {"human", "ai"} /\ i \in DOMAIN s /\ j \in DOMAIN s
    BY <1>0, <2>1, <2>2 DEF Same, n
  <2>5. s[i].turn <= s[j].turn
    BY <1>0, <2>3, <2>4 DEF Ordered
  <2> QED
    BY <2>1, <2>2, <2>5 DEF Same
<1>14. NewOrOld(t, s, f)
  <2>1. \A k \in DOMAIN t : (k \in DOMAIN s /\ t[k] = s[k]) \/ t[k].id >= f
    BY <1>1
  <2> QED
    BY <2>1 DEF NewOrOld
<1>15. \A i \in DOMAIN s : \E k \in DOMAIN t : Same(t[k], s[i])
  BY <1>0, <1>4, <1>5 DEF m, n
<1>16. Good(t, f + x, v)
  BY <1>1, <1>3, <1>4, <1>9, <1>11, <1>12, <1>13 DEF Good, m
<1> QED
  BY <1>1, <1>3, <1>6, <1>7, <1>14, <1>15, <1>16 DEF m, x

\* compact_conversation.
LEMMA CompactGood ==
  ASSUME NEW f \in Nat, NEW v \in Nat, NEW s, Good(s, f, v), Len(s) # 0, ~HasToolCall(s[Len(s)]),
         NEW r \in Nat \ {0}, FindSafeCutPoint(s, r) > 1, NEW summarized,
         NEW u, u = Compact(s, r, summarized, f), NEW t, t = AddMessages(s, u.new, u.remove)
  PROVE  /\ Len(u.new) \in Nat /\ Good(t, f + Len(u.new), v) /\ NewOrOld(t, s, f)
         /\ Len(t) # 0 /\ ~HasToolCall(t[Len(t)])
         /\ \A i \in DOMAIN s : (\A j \in (i + 1)..Len(s) : s[j].type = "tool")
              /\ s[i].type # "tool" => \E k \in DOMAIN t : Same(t[k], s[i])
PROOF
<1> DEFINE n == Len(s)
<1>0. /\ s \in Seq(Msg) /\ UniqueIds(s) /\ Shape(s) /\ n \in Nat /\ DOMAIN s = 1..n /\ 1 \in 1..n
      /\ \A i \in DOMAIN s : s[i].id < f /\ s[i].id \in Nat
  <2>1. s \in Seq(Msg) /\ UniqueIds(s) /\ Shape(s) /\ \A i \in DOMAIN s : s[i].id < f
    BY DEF Good
  <2>2. n \in Nat /\ DOMAIN s = 1..n
    BY <2>1, LenProperties
  <2>3. \A i \in 1..n : s[i] \in Msg
    BY <2>1, Fields
  <2>4. \A i \in DOMAIN s : s[i].id \in Nat
    BY <2>2, <2>3 DEF Msg
  <2>5. 1 \in 1..n
    BY <2>2
  <2> QED
    BY <2>1, <2>2, <2>4, <2>5
<1>1. s[1].type # "tool"
  <2>1. 1..(1 - 1) = {}
    OBVIOUS
  <2> QED
    BY <1>0, <2>1 DEF Shape, Owned
<1>a. CutTo(t, s, u.new) /\ (u.new = <<>> \/ u.new = <<Summary(f)>>)
  <2>1. \A i \in DOMAIN s : s[i].id < f
    BY <1>0
  <2> QED
    BY <1>0, <1>1, <2>1, CompactKeeps
<1>2. PICK c \in 1..n : s[c].type # "tool" /\ t = SubSeq(s, c, n) \o u.new
  BY <1>a DEF CutTo
<1> DEFINE a == SubSeq(s, c, n)
<1>3. /\ a \in Seq(Msg) /\ Shape(a) /\ Len(a) = n - c + 1 /\ (\A i \in 1..Len(a) : a[i] = s[c + i - 1])
  <2>1. a \in Seq(Msg) /\ Shape(a) /\ Len(a) = n - c + 1 /\ Part(a, s, c)
    BY <1>0, <1>2, SuffixShape
  <2> QED
    BY <2>1 DEF Part
<1> HIDE DEF a
<1>4. /\ \A i \in 1..Len(a) : c + i - 1 \in 1..n
      /\ DOMAIN a = 1..Len(a) /\ Len(a) \in Nat /\ Len(a) >= 1 /\ c \in Nat
      /\ \A i \in c..n : i - c + 1 \in 1..Len(a) /\ c + (i - c + 1) - 1 = i
  BY <1>0, <1>3, LenProperties
<1>5. Good(a, f, v) /\ \A i \in DOMAIN a : \E k \in DOMAIN s : a[i] = s[k]
  <2>1. a \in Seq(Msg) /\ Shape(a) /\ c \in Nat
    BY <1>3, <1>4
  <2>2. Part(a, s, c)
    BY <1>3, <1>4 DEF Part
  <2>3. Good(a, f, v) /\ Within(a, s)
    BY <2>1, <2>2, GoodPart
  <2> QED
    BY <2>3 DEF Within
<1>6. \A i \in c..n : \E k \in DOMAIN a : a[k] = s[i]
  <2> SUFFICES ASSUME NEW i \in c..n PROVE \E k \in DOMAIN a : a[k] = s[i]
    OBVIOUS
  <2> DEFINE k == i - c + 1
  <2>1. k \in 1..Len(a) /\ c + k - 1 = i
    BY <1>4
  <2> HIDE DEF k
  <2>2. a[k] = s[i]
    BY <1>3, <2>1
  <2> QED
    BY <1>4, <2>1, <2>2
<1>7. ASSUME NEW i \in DOMAIN s, s[i].type # "tool", \A j \in (i + 1)..Len(s) : s[j].type = "tool"
      PROVE  \E k \in DOMAIN a : a[k] = s[i]
  <2>1. c <= i
    <3>1. CASE c > i
      <4>1. c \in (i + 1)..n
        BY <1>0, <3>1
      <4> QED
        BY <1>2, <1>7, <4>1
    <3> QED
      BY <1>0, <3>1
  <2> QED
    BY <1>0, <1>6, <2>1
<1>8. CASE u.new = <<>>
  <2>1. t = a /\ Len(u.new) = 0 /\ f + Len(u.new) = f
    <3>1. t = a \o <<>>
      BY <1>2, <1>8 DEF a
    <3> QED
      BY <1>3, <1>8, <3>1, ConcatEmptySeq, EmptySeq
  <2>2. a[Len(a)] = s[n] /\ Len(a) \in 1..Len(a)
    <3>1. Len(a) \in 1..Len(a) /\ c + Len(a) - 1 = n
      BY <1>0, <1>3, <1>4
    <3> QED
      BY <1>3, <3>1
  <2>3. NewOrOld(a, s, f)
    BY <1>5 DEF NewOrOld
  <2>4. \A i \in DOMAIN s : (\A j \in (i + 1)..Len(s) : s[j].type = "tool")
           /\ s[i].type # "tool" => \E k \in DOMAIN a : Same(a[k], s[i])
    BY <1>7 DEF Same
  <2> QED
    BY <1>4, <1>5, <2>1, <2>2, <2>3, <2>4
<1>9. CASE u.new = <<Summary(f)>>
  <2> DEFINE x == Summary(f)
             new == <<x>>
  <2>1. x \in Msg /\ x.id = f /\ x.type = "system" /\ x.calls = <<>> /\ x.turn = 0 /\ DOMAIN x.calls = {}
    <3>1. <<>> \in Seq(Nat) /\ DOMAIN <<>> = {}
      BY EmptySeq
    <3> QED
      BY <3>1 DEF Msg, Types, Summary
  <2>2. ~HasToolCall(x) /\ x.type # "tool"
    BY <2>1 DEF HasToolCall
  <2> HIDE DEF x
  <2>3. new \in Seq(Msg) /\ Shape(new) /\ Len(new) = 1 /\ new[1] = x /\ DOMAIN new = {1}
    BY <2>1, <2>2, OneShape
  <2>4. u.new = new /\ t = a \o new
    BY <1>2, <1>9 DEF a, x
  <2> HIDE DEF new
  <2>5. f \notin Ids(a)
    BY <1>0, <1>5 DEF Ids
  <2>6. Shape(t)
    <3>1. \A i \in DOMAIN new : DOMAIN new[i].calls = {}
      BY <2>1, <2>3
    <3> QED
      BY <1>3, <2>3, <2>4, <3>1, ConcatShape DEF Shape
  <2>7. Good(t, f + 1, v)
    <3>1. f + 1 \in Nat /\ f <= f + 1 /\ v <= v
      OBVIOUS
    <3>2. UniqueIds(new)
      BY <2>3 DEF UniqueIds
    <3>3. Follow(new, a, f + 1, v)
      BY <2>1, <2>3, <2>5, <3>2 DEF Follow, Later
    <3>4. Good(a, f, v) /\ t = a \o new
      BY <1>5, <2>4
    <3> QED
      BY <2>6, <3>1, <3>3, <3>4, GoodConcat
  <2>c. a \in Seq(Msg) /\ new \in Seq(Msg) /\ t = a \o new
    BY <1>3, <2>3, <2>4
  <2>d. t \in Seq(Msg) /\ Len(t) = Len(a) + Len(new)
    BY <2>c, ConcatPlaces
  <2>8. t \in Seq(Msg) /\ Len(t) = Len(a) + 1
    BY <2>3, <2>d
  <2>9. \A i \in 1..Len(a) : t[i] = a[i]
    BY <2>c, ConcatPlaces DEF Prefix
  <2>10. t[Len(a) + 1] = x
    <3>1. \A i \in 1..Len(new) : t[Len(a) + i] = new[i]
      BY <2>c, ConcatPlaces
    <3>2. 1 \in 1..Len(new)
      BY <2>3
    <3> QED
      BY <2>3, <3>1, <3>2
  <2>11. DOMAIN t = 1..(Len(a) + 1)
    BY <2>8, LenProperties
  <2>12. NewOrOld(t, s, f)
    <3>1. \A k \in DOMAIN t : k \in 1..Len(a) \/ k = Len(a) + 1
      BY <1>4, <2>11
    <3> QED
      BY <1>4, <1>5, <2>1, <2>9, <2>10, <3>1 DEF NewOrOld
  <2>13. \A i \in DOMAIN s : (\A j \in (i + 1)..Len(s) : s[j].type = "tool")
            /\ s[i].type # "tool" => \E k \in DOMAIN t : Same(t[k], s[i])
    <3>1. \A k \in DOMAIN a : k \in DOMAIN t /\ t[k] = a[k]
      BY <1>4, <2>9, <2>11
    <3> QED
      BY <1>7, <3>1 DEF Same
  <2>14. Len(u.new) = 1 /\ Len(t) # 0 /\ t[Len(t)] = x
    BY <1>4, <2>3, <2>4, <2>8, <2>10
  <2> QED
    BY <2>2, <2>7, <2>12, <2>13, <2>14
<1> QED
  BY <1>a, <1>8, <1>9

\* Replacing the last message.
LEMMA ReplaceLast ==
  ASSUME NEW a \in Seq(Msg), NEW c, c = Len(a), c # 0, NEW m \in Msg
  PROVE  [a EXCEPT ![c] = m] = SubSeq(a, 1, c - 1) \o <<m>>
PROOF
<1> DEFINE b == SubSeq(a, 1, c - 1)
           one == <<m>>
           x == b \o one
           y == [a EXCEPT ![c] = m]
<1>0. c \in Nat \ {0} /\ DOMAIN a = 1..c /\ (\A i \in 1..c : a[i] \in Msg) /\ a \in [1..c -> Msg]
  BY Fields, LenProperties
<1>1. b \in Seq(Msg) /\ Len(b) = c - 1 /\ \A i \in 1..(c - 1) : b[i] = a[i]
  <2>1. \A i \in 1..(c - 1) : a[i] \in Msg
    BY <1>0
  <2>2. /\ b \in Seq(Msg) /\ Len(b) = IF 1 <= c - 1 THEN (c - 1) - 1 + 1 ELSE 0
        /\ \A i \in 1..((c - 1) - 1 + 1) : b[i] = a[1 + i - 1]
    BY <1>0, <2>1, SubSeqProperties
  <2> HIDE DEF b
  <2> QED
    BY <1>0, <2>2
<1>2. one \in Seq(Msg) /\ Len(one) = 1 /\ one[1] = m
  BY OneOf
<1>3. x = b \o one
  OBVIOUS
<1> HIDE DEF b, one, x
<1>c. x \in Seq(Msg) /\ Joined(x, b, one)
  BY <1>1, <1>2, <1>3, ConcatJoins
<1>4. x \in Seq(Msg) /\ Len(x) = Len(b) + Len(one)
  BY <1>c DEF Joined
<1>5. \A i \in 1..Len(b) : x[i] = b[i]
  BY <1>c DEF Joined
<1>6. \A i \in 1..Len(one) : x[Len(b) + i] = one[i]
  BY <1>c DEF Joined
<1>7. Len(x) = c /\ (\A i \in 1..(c - 1) : x[i] = a[i]) /\ x[c] = m
  <2>1. Len(x) = c /\ \A i \in 1..(c - 1) : x[i] = a[i]
    BY <1>0, <1>1, <1>2, <1>4, <1>5
  <2>2. 1 \in 1..Len(one) /\ Len(b) + 1 = c
    BY <1>0, <1>1, <1>2
  <2> QED
    BY <1>2, <1>6, <2>1, <2>2
<1>8. x \in [1..c -> Msg]
  BY <1>4, <1>7, LenProperties
<1>9. y \in [1..c -> Msg] /\ y[c] = m /\ \A i \in 1..c : i # c => y[i] = a[i]
  BY <1>0
<1> HIDE DEF y
<1>10. \A i \in 1..c : x[i] = y[i]
  <2>1. \A i \in 1..c : i # c => i \in 1..(c - 1)
    BY <1>0
  <2> QED
    BY <1>7, <1>9, <2>1
<1>11. x = y
  BY <1>8, <1>9, <1>10
<1> QED
  BY <1>3, <1>11 DEF x, y, b, one

\* Chat.query: the question comes last, and what followed an old one is gone.
LEMMA QueryGood ==
  ASSUME NEW f \in Nat, NEW v \in Nat, NEW s, Good(s, f, v), NEW id \in Nat, id <= f,
         \A i \in DOMAIN s : s[i].id = id => s[i].type = "human",
         NEW g, g = IF id = f THEN f + 1 ELSE f,
         NEW h, h = Human(id, v + 1), NEW t, t = AddMessages(DropAfter(s, id), <<h>>, {})
  PROVE  /\ Good(t, g, v + 1) /\ Len(t) # 0 /\ t[Len(t)] = h
         /\ \A k \in DOMAIN t : t[k] = h \/ t[k].id # id
         /\ \A k \in DOMAIN t : t[k] = h \/ \E i \in DOMAIN s : t[k] = s[i]
PROOF
<1> DEFINE n == Len(s)
           new == <<h>>
<1>0. /\ s \in Seq(Msg) /\ UniqueIds(s) /\ Shape(s) /\ n \in Nat /\ DOMAIN s = 1..n
      /\ \A i \in 1..n : s[i] \in Msg
  <2>1. s \in Seq(Msg) /\ UniqueIds(s) /\ Shape(s)
    BY DEF Good
  <2> QED
    BY <2>1, Fields
<1>1. /\ h \in Msg /\ h.id = id /\ h.type = "human" /\ h.calls = <<>> /\ h.turn = v + 1 /\ DOMAIN h.calls = {}
      /\ ~HasToolCall(h) /\ h.type # "tool"
  <2>1. <<>> \in Seq(Nat) /\ DOMAIN <<>> = {}
    BY EmptySeq
  <2>2. h \in Msg /\ h.id = id /\ h.type = "human" /\ h.calls = <<>> /\ h.turn = v + 1
    BY <2>1 DEF Msg, Types, Human
  <2> QED
    BY <2>1, <2>2 DEF HasToolCall
<1>2. new \in Seq(Msg) /\ Shape(new) /\ Len(new) = 1 /\ new[1] = h /\ DOMAIN new = {1}
  BY <1>1, OneShape
<1>n. new = <<h>>
  OBVIOUS
<1> HIDE DEF new
<1>3. ASSUME NEW a \in Seq(Msg), Shape(a), Part(a, s, 1), id \notin Ids(a), t = a \o new
      PROVE  /\ Good(t, g, v + 1) /\ Len(t) # 0 /\ t[Len(t)] = h
             /\ \A k \in DOMAIN t : t[k] = h \/ t[k].id # id
             /\ \A k \in DOMAIN t : t[k] = h \/ \E i \in DOMAIN s : t[k] = s[i]
  <2>1. Good(a, f, v) /\ Within(a, s)
    BY <1>3, GoodPart
  <2>2. Shape(t)
    <3>1. \A i \in DOMAIN new : DOMAIN new[i].calls = {}
      BY <1>1, <1>2
    <3> QED
      BY <1>2, <1>3, <3>1, ConcatShape DEF Shape
  <2>3. g \in Nat /\ f <= g /\ v + 1 \in Nat /\ v <= v + 1 /\ id < g
    OBVIOUS
  <2>4. Follow(new, a, g, v + 1)
    <3>1. UniqueIds(new)
      BY <1>2 DEF UniqueIds
    <3> QED
      BY <1>1, <1>2, <1>3, <2>3, <3>1 DEF Follow, Later
  <2>5. Good(t, g, v + 1)
    BY <1>3, <2>1, <2>2, <2>3, <2>4, GoodConcat
  <2>c. a \in Seq(Msg) /\ new \in Seq(Msg) /\ t = a \o new /\ Len(a) \in Nat
    BY <1>2, <1>3, LenProperties
  <2>d. t \in Seq(Msg) /\ Joined(t, a, new)
    BY <2>c, ConcatJoins
  <2>6. t \in Seq(Msg) /\ Len(t) = Len(a) + Len(new)
    BY <2>d DEF Joined
  <2>7. \A i \in 1..Len(a) : t[i] = a[i]
    BY <2>d DEF Joined
  <2>8. t[Len(a) + 1] = h
    <3>1. \A i \in 1..Len(new) : t[Len(a) + i] = new[i]
      BY <2>d DEF Joined
    <3>2. 1 \in 1..Len(new)
      BY <1>2
    <3> QED
      BY <1>2, <3>1, <3>2
  <2>9. Len(t) = Len(a) + 1 /\ Len(t) # 0 /\ DOMAIN t = 1..(Len(a) + 1) /\ DOMAIN a = 1..Len(a)
    BY <1>2, <2>c, <2>6, LenProperties
  <2>10. \A k \in DOMAIN t : t[k] = h \/ (k \in DOMAIN a /\ t[k] = a[k])
    <3>1. \A k \in DOMAIN t : k \in 1..Len(a) \/ k = Len(a) + 1
      BY <2>c, <2>9
    <3> QED
      BY <2>7, <2>8, <2>9, <3>1
  <2>11. \A k \in DOMAIN t : t[k] = h \/ t[k].id # id
    BY <1>3, <2>10 DEF Ids
  <2>12. \A k \in DOMAIN t : t[k] = h \/ \E i \in DOMAIN s : t[k] = s[i]
    BY <2>1, <2>10 DEF Within
  <2> QED
    BY <2>5, <2>8, <2>9, <2>11, <2>12
<1>4. CASE id \notin Ids(s)
  <2>1. t = AddMessages(s, new, {})
    BY <1>4, <1>n DEF DropAfter
  <2>2. AddMessages(s, new, {}) = Drop(s, {}) \o new
    <3>1. \A i \in DOMAIN new : new[i].id \notin Ids(s) /\ new[i].id \notin {}
      BY <1>1, <1>2, <1>4
    <3> QED
      BY <1>0, <1>2, <3>1, AddFresh
  <2>3. t = s \o new
    BY <1>0, <2>1, <2>2, DropNothing
  <2>4. Part(s, s, 1)
    BY <1>0 DEF Part
  <2> QED
    BY <1>0, <1>3, <1>4, <2>3, <2>4
<1>5. CASE id \in Ids(s)
  <2> DEFINE c == CHOOSE i \in DOMAIN s : s[i].id = id
             b == SubSeq(s, 1, c)
             a == SubSeq(s, 1, c - 1)
  <2>1. c \in DOMAIN s /\ s[c].id = id
    BY <1>5 DEF Ids
  <2>2. DropAfter(s, id) = b
    BY <1>5 DEF DropAfter
  <2> HIDE DEF c
  <2>3. c \in 1..n /\ s[c].type # "tool" /\ c - 1 \in 0..(n - 1) /\ (c - 1) + 1 = c
    BY <1>0, <2>1
  <2>4. a \in Seq(Msg) /\ Shape(a) /\ Len(a) = c - 1 /\ Part(a, s, 1)
    <3> DEFINE d == c - 1
    <3>1. d \in 0..(Len(s) - 1) /\ d + 1 = c /\ s[d + 1].type # "tool" /\ a = SubSeq(s, 1, d)
      BY <2>3
    <3> HIDE DEF d
    <3>2. a \in Seq(Msg) /\ Shape(a) /\ Len(a) = d /\ Part(a, s, 1)
      BY <1>0, <3>1, PrefixShape
    <3> QED
      BY <3>2 DEF d
  <2>5. b \in Seq(Msg) /\ Len(b) = c /\ \A i \in 1..c : b[i] = s[i]
    <3>1. \A i \in 1..c : s[i] \in Msg
      BY <1>0, <2>3
    <3>2. /\ b \in Seq(Msg) /\ Len(b) = (IF 1 <= c THEN c - 1 + 1 ELSE 0)
          /\ \A i \in 1..(c - 1 + 1) : b[i] = s[1 + i - 1]
      BY <1>0, <2>3, <3>1, SubSeqProperties
    <3> HIDE DEF b
    <3>3. c \in Nat /\ 1 <= c
      BY <2>3
    <3>4. Len(b) = c
      BY <3>2, <3>3
    <3>5. \A i \in 1..c : b[i] = s[i]
      BY <3>2, <3>3
    <3> QED
      BY <3>2, <3>4, <3>5
  <2>6. SubSeq(b, 1, c - 1) = a
    <3> DEFINE z == SubSeq(b, 1, c - 1)
    <3>1. z \in Seq(Msg) /\ Len(z) = c - 1 /\ \A i \in 1..(c - 1) : z[i] = b[i]
      <4>1. \A i \in 1..(c - 1) : b[i] \in Msg
        BY <1>0, <2>3, <2>5
      <4>2. /\ z \in Seq(Msg) /\ Len(z) = (IF 1 <= c - 1 THEN (c - 1) - 1 + 1 ELSE 0)
            /\ \A i \in 1..((c - 1) - 1 + 1) : z[i] = b[1 + i - 1]
        BY <2>3, <4>1, SubSeqProperties
      <4> HIDE DEF z
      <4> QED
        BY <2>3, <4>2
    <3> HIDE DEF z, a, b
    <3>2. \A i \in 1..(c - 1) : a[i] = s[i] /\ i \in 1..c
      BY <2>3, <2>4 DEF Part
    <3>3. DOMAIN z = 1..(c - 1) /\ DOMAIN a = 1..(c - 1)
      BY <2>4, <3>1, LenProperties
    <3>4. z \in [1..(c - 1) -> Msg] /\ a \in [1..(c - 1) -> Msg]
      BY <2>4, <3>1, LenProperties
    <3>5. \A i \in 1..(c - 1) : z[i] = a[i]
      BY <2>5, <3>1, <3>2
    <3>6. z = a
      <4> DEFINE D == 1..(c - 1)
      <4>1. z \in [D -> Msg] /\ a \in [D -> Msg] /\ \A i \in D : z[i] = a[i]
        BY <3>4, <3>5
      <4> HIDE DEF D
      <4> QED
        BY <4>1
    <3> QED
      BY <3>6 DEF z
  <2> HIDE DEF a, b
  <2>7. UniqueIds(b) /\ b # <<>> /\ b[Len(b)].id = id
    <3>1. DOMAIN b = 1..c /\ \A i \in 1..c : i \in DOMAIN s
      BY <1>0, <2>3, <2>5, LenProperties
    <3>2. UniqueIds(b)
      BY <1>0, <2>5, <3>1 DEF UniqueIds
    <3>3. c \in 1..c
      BY <2>3
    <3> QED
      BY <2>1, <2>3, <2>5, <3>2, <3>3, EmptySeq
  <2>8. AddMessages(b, new, {}) = [b EXCEPT ![Len(b)] = h]
    BY <1>1, <1>n, <2>5, <2>7, AddAgain
  <2>9. [b EXCEPT ![Len(b)] = h] = SubSeq(b, 1, c - 1) \o new
    <3>1. c # 0 /\ c = Len(b)
      BY <2>3, <2>5
    <3>2. [b EXCEPT ![c] = h] = SubSeq(b, 1, c - 1) \o <<h>>
      BY <1>1, <2>5, <3>1, ReplaceLast
    <3> QED
      BY <1>n, <2>5, <3>2
  <2>10. t = a \o new
    BY <1>n, <2>2, <2>6, <2>8, <2>9
  <2>11. id \notin Ids(a)
    <3>1. ASSUME NEW i \in DOMAIN a PROVE a[i].id # id
      <4>1. i \in 1..(c - 1) /\ i \in DOMAIN s /\ a[i] = s[1 + i - 1] /\ 1 + i - 1 = i /\ i # c
        BY <1>0, <2>3, <2>4, LenProperties DEF Part
      <4>2. a[i] = s[i]
        BY <4>1
      <4> QED
        BY <1>0, <2>1, <4>1, <4>2 DEF UniqueIds
    <3> QED
      BY <3>1 DEF Ids
  <2> QED
    BY <1>3, <2>4, <2>10, <2>11
<1> QED
  BY <1>4, <1>5

\* The calls of one list are none of the other's.
Apart(a, b) ==
  \A i \in DOMAIN a, j \in DOMAIN b : \A p \in DOMAIN a[i].calls, q \in DOMAIN b[j].calls :
    a[i].calls[p] # b[j].calls[q]

\* Two conversations without an id or a call in common make one.
LEMMA ConcatsApart ==
  ASSUME NEW a \in Seq(Msg), NEW b \in Seq(Msg), Blocks(a), Owned(a), CallsOnce(a),
         Blocks(b), Owned(b), CallsOnce(b), Apart(a, b), NEW t, t = a \o b
  PROVE  Shape(t)
PROOF
  BY ConcatShape DEF Apart, Shape

\* The model's answer, or what is left of it when the query is aborted.
LEMMA AnswerGood ==
  ASSUME NEW f \in Nat, NEW v \in Nat, NEW s, Good(s, f, v), NEW n \in Nat,
         NEW calls, calls = <<>> \/ calls = [j \in 1..n |-> f + j], NEW stopped,
         NEW ai, ai = AI(f, calls, v), NEW one, one = <<ai>>,
         NEW new, new = Numbered(IF stopped THEN CompleteToolCalls(one) ELSE one, f),
         NEW t, t = AddMessages(s, new, {})
  PROVE  /\ Good(t, f + 1 + n, v) /\ NewOrOld(t, s, f) /\ Len(t) # 0 /\ t[Len(t)].turn = v
         /\ calls = <<>> => ~HasToolCall(t[Len(t)])
PROOF
<1> DEFINE g == f + 1 + n
<1>0. /\ s \in Seq(Msg) /\ Shape(s) /\ Len(s) \in Nat /\ DOMAIN s = 1..Len(s)
      /\ \A i \in DOMAIN s : s[i] \in Msg /\ s[i].id < f /\ \A p \in DOMAIN s[i].calls : s[i].calls[p] < f
  <2>1. s \in Seq(Msg) /\ Shape(s)
    BY DEF Good
  <2>2. Len(s) \in Nat /\ DOMAIN s = 1..Len(s) /\ \A i \in DOMAIN s : s[i] \in Msg
    BY <2>1, Fields
  <2> QED
    BY <2>1, <2>2 DEF Good
<1>1. /\ calls \in Seq(Nat) /\ Len(calls) \in Nat /\ Len(calls) <= n /\ DOMAIN calls = 1..Len(calls)
      /\ \A p \in DOMAIN calls : calls[p] = f + p /\ p \in Nat /\ p >= 1 /\ p <= n
  <2>1. CASE calls = <<>>
    BY <2>1, EmptySeq
  <2>2. CASE calls = [j \in 1..n |-> f + j]
    <3>1. calls \in [1..n -> Nat] /\ \A p \in 1..n : calls[p] = f + p
      BY <2>2
    <3>2. calls \in Seq(Nat) /\ Len(calls) = n /\ DOMAIN calls = 1..n
      BY <3>1, FunSeq
    <3> QED
      BY <3>1, <3>2
  <2> QED
    BY <2>1, <2>2
<1>2. ai \in Msg /\ ai.calls = calls /\ ai.turn = v /\ ai.type = "ai"
  BY <1>1 DEF AI, Msg, Types
<1>3. /\ one \in Seq(Msg) /\ Shape(one) /\ Len(one) = 1 /\ one[1] = ai /\ DOMAIN one = {1}
      /\ Gaps(one) = IF HasToolCall(ai) THEN {1} ELSE {}
  <2>1. ai.type # "tool" /\ \A p, q \in DOMAIN ai.calls : ai.calls[p] = ai.calls[q] => p = q
    <3>1. ASSUME NEW p \in DOMAIN calls, NEW q \in DOMAIN calls, calls[p] = calls[q] PROVE p = q
      <4>1. calls[p] = f + p /\ calls[q] = f + q /\ p \in Nat /\ q \in Nat
        BY <1>1
      <4>2. f + p = f + q
        BY <3>1, <4>1
      <4> QED
        BY <4>1, <4>2
    <3> QED
      BY <1>2, <3>1
  <2>2. /\ <<ai>> \in Seq(Msg) /\ Shape(<<ai>>) /\ Len(<<ai>>) = 1 /\ <<ai>>[1] = ai /\ DOMAIN <<ai>> = {1}
        /\ Gaps(<<ai>>) = IF HasToolCall(ai) THEN {1} ELSE {}
    BY <1>2, <2>1, OneShape
  <2> QED
    BY <2>2
\* What the answer becomes.
<1> DEFINE x == IF stopped THEN CompleteToolCalls(one) ELSE one
<1>4. /\ x \in Seq(Msg) /\ Shape(x) /\ Len(x) \in 1..(1 + n)
      /\ \A k \in 1..Len(x) : x[k].turn = v /\ (x[k].calls = calls \/ x[k].calls = <<>>) /\ x[k].type # "human"
  <2>1. CASE ~stopped
    <3>1. x = one
      BY <2>1
    <3>2. 1 \in 1..(1 + n) /\ \A k \in 1..1 : k = 1
      OBVIOUS
    <3> HIDE DEF x
    <3> QED
      BY <1>2, <1>3, <3>1, <3>2
  <2>2. CASE stopped
    <3>1. x = CompleteToolCalls(one)
      BY <2>2
    <3> HIDE DEF x
    <3>2. x \in Seq(Msg) /\ \E e : Filled(x, one, e)
      BY <1>3, <3>1, CompleteFills
    <3>3. PICK e : Filled(x, one, e)
      BY <3>2
    <3>4. Shape(x)
      BY <1>3, <3>2, <3>3, FilledShape
    <3>5. e[1] = 1 /\ Len(x) + 1 = e[2] /\ FilledAt(x, one, e, 1)
      BY <1>3, <3>3 DEF Filled
    <3>6. e[2] = e[1] + 1 + (IF 1 \in Gaps(one) THEN Len(calls) ELSE 0) /\ Len(x) \in Nat
      BY <1>2, <1>3, <3>2, <3>5, LenProperties DEF FilledAt
    <3>7. Len(x) \in 1..(1 + n)
      <4>1. CASE 1 \in Gaps(one)
        <5>1. Len(x) + 1 = 1 + 1 + Len(calls) /\ Len(x) \in Nat
          BY <3>5, <3>6, <4>1
        <5>2. Len(calls) \in Nat /\ Len(calls) <= n
          BY <1>1
        <5>3. ASSUME NEW a \in Nat, NEW b \in Nat, a + 1 = 1 + 1 + b, b <= n PROVE a \in 1..(1 + n)
          BY <5>3
        <5> QED
          BY <5>1, <5>2, <5>3
      <4>2. CASE 1 \notin Gaps(one)
        BY <3>5, <3>6, <4>2
      <4> QED
        BY <4>1, <4>2
    <3>8. ASSUME NEW k \in 1..Len(x)
          PROVE  x[k].turn = v /\ (x[k].calls = calls \/ x[k].calls = <<>>) /\ x[k].type # "human"
      <4>1. k = e[1] \/ (1 \in Gaps(one) /\ k - e[1] \in 1..Len(ai.calls))
        <5>1. PICK i \in 1..1 : k = e[i] \/ (i \in Gaps(one) /\ k - e[i] \in 1..Len(one[i].calls))
          BY <1>3, <3>3 DEF Filled
        <5>2. i = 1
          BY <5>1
        <5> QED
          BY <1>3, <5>1, <5>2
      <4>2. CASE k = e[1]
        BY <1>2, <1>3, <3>5, <4>2 DEF Same, FilledAt
      <4>3. CASE 1 \in Gaps(one) /\ k - e[1] \in 1..Len(ai.calls)
        <5>1. e[1] + (k - e[1]) = k
          BY <3>5
        <5>2. Invented(x[e[1] + (k - e[1])], ai, k - e[1])
          BY <1>3, <3>5, <4>3 DEF FilledAt
        <5> QED
          BY <1>2, <5>1, <5>2 DEF Invented
      <4> QED
        BY <4>1, <4>2, <4>3
    <3> QED
      BY <3>2, <3>4, <3>7, <3>8
  <2> QED
    BY <2>1, <2>2
<1>5. new = Numbered(x, f)
  OBVIOUS
<1> HIDE DEF x
<1>6. /\ new \in Seq(Msg) /\ Len(new) = Len(x)
      /\ \A i \in 1..Len(x) : new[i].id = f + i - 1 /\ Same(new[i], x[i])
  BY <1>4, <1>5, NumberedAre
<1>7. DOMAIN new = 1..Len(x) /\ DOMAIN x = 1..Len(x) /\ Len(x) \in Nat
  BY <1>4, <1>6, LenProperties
<1>8. Shape(new)
  BY <1>4, <1>6, <1>7, SameShape
<1>9. \A i \in DOMAIN new : /\ new[i].turn = v /\ (new[i].calls = calls \/ new[i].calls = <<>>)
                            /\ new[i].id >= f /\ new[i].id < g /\ new[i].id \in Nat
  <2>1. ASSUME NEW i \in DOMAIN new
        PROVE  /\ new[i].turn = v /\ (new[i].calls = calls \/ new[i].calls = <<>>)
               /\ new[i].id >= f /\ new[i].id < g /\ new[i].id \in Nat
    <3>1. new[i].turn = v /\ (new[i].calls = calls \/ new[i].calls = <<>>)
      <4>1. Same(new[i], x[i]) /\ x[i].turn = v /\ (x[i].calls = calls \/ x[i].calls = <<>>)
        BY <1>4, <1>6, <1>7
      <4> QED
        BY <4>1 DEF Same
    <3>2. new[i].id = f + i - 1 /\ i \in 1..Len(x)
      BY <1>6, <1>7
    <3>3. Len(x) <= 1 + n /\ Len(x) \in Nat
      BY <1>4
    <3> QED
      BY <3>1, <3>2, <3>3
  <2> QED
    BY <2>1
<1> HIDE DEF g
<1>10. g \in Nat /\ f <= g /\ \A p \in DOMAIN calls : calls[p] < g
  <2>1. g \in Nat /\ f <= g
    BY DEF g
  <2>2. ASSUME NEW p \in DOMAIN calls PROVE calls[p] < g
    <3>1. calls[p] = f + p /\ p \in Nat /\ p <= n
      BY <1>1
    <3>2. f + p < g
      BY <3>1 DEF g
    <3> QED
      BY <3>1, <3>2
  <2> QED
    BY <2>1, <2>2
<1>e. DOMAIN <<>> = {}
  BY EmptySeq
<1>11. \A i \in DOMAIN new : new[i].id \notin Ids(s)
  <2>1. ASSUME NEW i \in DOMAIN new, NEW j \in DOMAIN s PROVE new[i].id # s[j].id
    <3>1. new[i].id >= f /\ new[i].id \in Nat
      BY <1>9
    <3>2. s[j].id < f
      BY <1>0
    <3>3. s[j].id \in Nat
      <4>1. s[j] \in Msg
        BY <1>0, ElementOfSeq, LenProperties
      <4> QED
        BY <4>1 DEF Msg
    <3>4. ASSUME NEW a \in Nat, NEW b \in Nat, a >= f, b < f PROVE a # b
      BY <3>4, <1>0
    <3> QED
      BY <3>1, <3>2, <3>3, <3>4
  <2> QED
    BY <2>1 DEF Ids
<1>12. t = s \o new
  <2>1. \A i \in DOMAIN new : new[i].id \notin Ids(s) /\ new[i].id \notin {}
    BY <1>11
  <2>2. AddMessages(s, new, {}) = Drop(s, {}) \o new
    BY <1>0, <1>6, <2>1, AddFresh
  <2> QED
    BY <1>0, <2>2, DropNothing
<1>13. Shape(t)
  <2>1. ASSUME NEW i \in DOMAIN s, NEW j \in DOMAIN new, NEW p \in DOMAIN s[i].calls, NEW q \in DOMAIN new[j].calls
        PROVE  s[i].calls[p] # new[j].calls[q]
    <3>1. s[i].calls[p] < f /\ s[i].calls[p] \in Nat
      <4>1. s[i].calls \in Seq(Nat) /\ DOMAIN s[i].calls = 1..Len(s[i].calls)
        BY <1>0, Fields
      <4> QED
        BY <1>0, <4>1, ElementOfSeq
    <3>2. q \in DOMAIN calls /\ new[j].calls[q] = calls[q]
      BY <1>9, <1>e, <2>1
    <3>3. new[j].calls[q] = f + q /\ q \in Nat
      BY <1>1, <3>2
    <3> QED
      BY <3>1, <3>3
  <2> QED
    <3>1. /\ Blocks(s) /\ Owned(s) /\ CallsOnce(s) /\ Blocks(new) /\ Owned(new) /\ CallsOnce(new)
          /\ s \in Seq(Msg) /\ new \in Seq(Msg)
      BY <1>0, <1>6, <1>8 DEF Shape
    <3>2. Apart(s, new)
      BY <2>1 DEF Apart
    <3> QED
      BY <1>12, <3>1, <3>2, ConcatsApart
<1>14. Follow(new, s, g, v)
  <2>1. UniqueIds(new)
    <3> SUFFICES ASSUME NEW i \in DOMAIN new, NEW j \in DOMAIN new, new[i].id = new[j].id PROVE i = j
      BY DEF UniqueIds
    <3>1. i \in 1..Len(x) /\ j \in 1..Len(x)
      BY <1>7
    <3>2. f + i - 1 = f + j - 1
      BY <1>6, <3>1
    <3>3. i \in Nat /\ j \in Nat
      BY <1>7, <3>1
    <3> QED
      BY <3>2, <3>3
  <2> QED
    <3>1. ASSUME NEW i \in DOMAIN new PROVE \A p \in DOMAIN new[i].calls : new[i].calls[p] < g
      <4>1. CASE new[i].calls = calls
        BY <1>10, <4>1
      <4>2. CASE new[i].calls = <<>>
        BY <1>e, <4>2
      <4> QED
        BY <1>9, <4>1, <4>2
    <3>2. ASSUME NEW i \in DOMAIN new
          PROVE  /\ new[i].id < g /\ new[i].id \notin Ids(s) /\ new[i].turn = v
                 /\ \A p \in DOMAIN new[i].calls : new[i].calls[p] < g
      BY <1>9, <1>11, <3>1
    <3>3. new \in Seq(Msg)
      BY <1>6
    <3>4. ASSUME NEW i \in DOMAIN new PROVE Later(new[i], s, g, v)
      BY <3>2 DEF Later
    <3> QED
      BY <2>1, <3>3, <3>4 DEF Follow
<1>15. Good(t, g, v)
  <2>1. v <= v
    OBVIOUS
  <2> QED
    BY <1>10, <1>12, <1>13, <1>14, <2>1, GoodConcat
<1>16. t \in Seq(Msg) /\ Joined(t, s, new)
  BY <1>0, <1>6, <1>12, ConcatJoins
<1>17. Len(t) = Len(s) + Len(x) /\ DOMAIN t = 1..Len(t) /\ Len(t) # 0
  BY <1>0, <1>4, <1>6, <1>7, <1>16, LenProperties DEF Joined
<1>18. t[Len(t)] = new[Len(x)] /\ Len(x) \in DOMAIN new
  <2>1. Len(x) \in 1..Len(new)
    BY <1>4, <1>6
  <2> QED
    BY <1>6, <1>7, <1>16, <1>17, <2>1 DEF Joined
<1>19. NewOrOld(t, s, f)
  <2> SUFFICES ASSUME NEW k \in DOMAIN t PROVE t[k].id >= f \/ \E i \in DOMAIN s : t[k] = s[i]
    BY DEF NewOrOld
  <2>1. CASE k \in 1..Len(s)
    BY <1>0, <1>16, <2>1 DEF Joined
  <2>2. CASE k \notin 1..Len(s)
    <3>1. k - Len(s) \in 1..Len(new) /\ Len(s) + (k - Len(s)) = k
      BY <1>0, <1>6, <1>7, <1>17, <2>2
    <3>2. t[Len(s) + (k - Len(s))] = new[k - Len(s)]
      BY <1>16, <3>1 DEF Joined
    <3> QED
      BY <1>6, <1>7, <1>9, <3>1, <3>2
  <2> QED
    BY <2>1, <2>2
<1>20. t[Len(t)].turn = v /\ (calls = <<>> => ~HasToolCall(t[Len(t)]))
  BY <1>9, <1>18 DEF HasToolCall
<1> QED
  BY <1>15, <1>17, <1>19, <1>20 DEF g

\* The results of the tools.
ResultsOf(f, calls, v) == [j \in DOMAIN calls |-> Tool(f + j - 1, calls[j], v)]

Added(s, t, f, v, n, calls) ==
  /\ Good(t, f + Len(calls), v) /\ NewOrOld(t, s, f) /\ Len(calls) \in Nat
  /\ n \in 1..(Len(t) - 1) /\ Begun(t, n) /\ Len(t) - n \in DOMAIN t[n].calls
  /\ t[n] = s[n] /\ Len(t) # 0 /\ t[Len(t)].type = "tool"

\* The results of the tools complete the turn, or some of them are lost.
LEMMA ToolsGood ==
  ASSUME NEW f \in Nat, NEW v \in Nat, NEW s, Good(s, f, v), NEW n, n = Len(s), n # 0, HasToolCall(s[n]),
         NEW calls, calls = s[n].calls,
         NEW new, new = ResultsOf(f, calls, v),
         NEW t, t = AddMessages(s, new, {})
  PROVE  Added(s, t, f, v, n, calls)
PROOF
<1> DEFINE m == Len(calls)
           g == f + m
<1>0. /\ s \in Seq(Msg) /\ Shape(s) /\ n \in Nat /\ DOMAIN s = 1..n /\ n \in 1..n
      /\ \A i \in DOMAIN s : s[i] \in Msg /\ s[i].id < f
  <2>1. s \in Seq(Msg) /\ Shape(s)
    BY DEF Good
  <2>2. n \in Nat /\ DOMAIN s = 1..n /\ \A i \in DOMAIN s : s[i] \in Msg
    BY <2>1, Fields
  <2>3. n \in 1..n
    BY <2>2
  <2> QED
    BY <2>1, <2>2, <2>3 DEF Good
<1>1. calls \in Seq(Nat) /\ m \in Nat /\ DOMAIN calls = 1..m /\ 1 \in 1..m /\ \A p \in 1..m : calls[p] \in Nat
  <2>1. calls \in Seq(Nat) /\ m \in Nat /\ DOMAIN calls = 1..m /\ 1 \in 1..m
    BY <1>0, Fields
  <2> QED
    BY <2>1, ElementOfSeq
<1> HIDE DEF m
<1>2. ASSUME NEW p \in 1..m
      PROVE  LET x == Tool(f + p - 1, calls[p], v)
             IN x \in Msg /\ x.id = f + p - 1 /\ x.type = "tool" /\ x.calls = <<>> /\ x.call = calls[p] /\ x.turn = v
  <2>1. <<>> \in Seq(Nat) /\ f + p - 1 \in Nat /\ calls[p] \in Nat
    BY <1>1, EmptySeq
  <2> QED
    BY <2>1 DEF Tool, Msg, Types
<1>3. new \in [1..m -> Msg] /\ \A p \in 1..m : /\ new[p].id = f + p - 1 /\ new[p].type = "tool"
                                               /\ new[p].calls = <<>> /\ new[p].call = calls[p] /\ new[p].turn = v
  BY <1>1, <1>2 DEF ResultsOf
<1>4. new \in Seq(Msg) /\ Len(new) = m /\ DOMAIN new = 1..m
  BY <1>1, <1>3, FunSeq
<1>5. Results(new, s[n].calls)
  BY <1>3, <1>4 DEF Results, m
<1>e. DOMAIN <<>> = {}
  BY EmptySeq
<1>6. \A i \in DOMAIN new : new[i].id \notin Ids(s) /\ new[i].id >= f /\ new[i].id < g
  <2>1. ASSUME NEW i \in DOMAIN new PROVE new[i].id = f + i - 1 /\ i \in 1..m
    BY <1>3, <1>4
  <2>2. \A j \in DOMAIN s : s[j].id \in Nat /\ s[j].id < f
    BY <1>0 DEF Msg
  <2>3. ASSUME NEW i \in 1..m PROVE f + i - 1 >= f /\ f + i - 1 < g
    BY <1>1
  <2>4. ASSUME NEW i \in 1..m, NEW j \in DOMAIN s PROVE f + i - 1 # s[j].id
    BY <1>1, <2>2
  <2>5. ASSUME NEW i \in DOMAIN new
        PROVE  new[i].id >= f /\ new[i].id < g /\ \A j \in DOMAIN s : new[i].id # s[j].id
    <3>1. new[i].id = f + i - 1 /\ i \in 1..m
      BY <2>1
    <3> HIDE DEF g
    <3> QED
      BY <2>3, <2>4, <3>1
  <2> HIDE DEF g
  <2> QED
    BY <2>5 DEF Ids
<1>7. t = s \o new
  <2>1. \A i \in DOMAIN new : new[i].id \notin Ids(s) /\ new[i].id \notin {}
    BY <1>6
  <2>2. AddMessages(s, new, {}) = Drop(s, {}) \o new
    BY <1>0, <1>4, <2>1, AddFresh
  <2> QED
    BY <1>0, <2>2, DropNothing
<1>8. Shape(t) /\ Begun(t, n)
  BY <1>0, <1>4, <1>5, <1>7, ToolsShape
<1> HIDE DEF g
<1>9. Follow(new, s, g, v)
  <2>1. UniqueIds(new)
    <3> SUFFICES ASSUME NEW i \in DOMAIN new, NEW j \in DOMAIN new, new[i].id = new[j].id PROVE i = j
      BY DEF UniqueIds
    <3>1. i \in 1..m /\ j \in 1..m
      BY <1>4
    <3>2. f + i - 1 = f + j - 1
      BY <1>3, <3>1
    <3>3. i \in Nat /\ j \in Nat
      <4>1. m \in Nat
        BY <1>1
      <4> QED
        BY <3>1, <4>1
    <3> QED
      BY <3>2, <3>3
  <2>2. ASSUME NEW i \in DOMAIN new PROVE new[i].turn = v /\ \A p \in DOMAIN new[i].calls : new[i].calls[p] < g
    BY <1>3, <1>4, <1>e
  <2>3. ASSUME NEW i \in DOMAIN new
        PROVE  /\ new[i].id < g /\ new[i].id \notin Ids(s) /\ new[i].turn = v
               /\ \A p \in DOMAIN new[i].calls : new[i].calls[p] < g
    BY <1>6, <2>2
  <2>4. new \in Seq(Msg)
    BY <1>4
  <2>5. ASSUME NEW i \in DOMAIN new PROVE Later(new[i], s, g, v)
    BY <2>3 DEF Later
  <2> QED
    BY <2>1, <2>4, <2>5 DEF Follow
<1>10. Good(t, g, v)
  <2>1. v <= v /\ g \in Nat /\ f <= g
    BY <1>1 DEF g
  <2> QED
    BY <1>7, <1>8, <1>9, <2>1, GoodConcat
<1>11. t \in Seq(Msg) /\ Joined(t, s, new)
  BY <1>0, <1>4, <1>7, ConcatJoins
<1>12. Len(t) = n + m /\ DOMAIN t = 1..(n + m) /\ t[n] = s[n]
  <2>1. Len(t) = n + m /\ DOMAIN t = 1..Len(t)
    BY <1>4, <1>11, LenProperties DEF Joined
  <2>2. t[n] = s[n]
    BY <1>0, <1>11 DEF Joined
  <2> QED
    BY <2>1, <2>2
<1>13. n \in 1..(Len(t) - 1) /\ Len(t) - n = m /\ Len(t) # 0 /\ m \in 1..m
  BY <1>0, <1>1, <1>12
<1>14. t[Len(t)].type = "tool"
  <2>1. t[n + m] = new[m]
    BY <1>4, <1>11, <1>13 DEF Joined
  <2>2. t[Len(t)] = new[m] /\ m \in 1..m
    BY <1>12, <1>13, <2>1
  <2>3. new[m].type = "tool"
    BY <1>3, <2>2
  <2> QED
    BY <2>2, <2>3
<1>15. NewOrOld(t, s, f)
  <2> SUFFICES ASSUME NEW k \in DOMAIN t PROVE t[k].id >= f \/ \E i \in DOMAIN s : t[k] = s[i]
    BY DEF NewOrOld
  <2>1. CASE k \in 1..n
    BY <1>0, <1>11, <2>1 DEF Joined
  <2>2. CASE k \notin 1..n
    <3>1. k - n \in 1..m /\ n + (k - n) = k
      BY <1>0, <1>1, <1>12, <2>2
    <3>2. t[n + (k - n)] = new[k - n]
      BY <1>4, <1>11, <3>1 DEF Joined
    <3> QED
      BY <1>4, <1>6, <3>1, <3>2
  <2> QED
    BY <2>1, <2>2
<1>16. Len(t) - n \in DOMAIN t[n].calls
  BY <1>1, <1>12, <1>13
<1> QED
  BY <1>1, <1>8, <1>10, <1>12, <1>13, <1>14, <1>15, <1>16 DEF g, m, Added

---------------------------------------------------------------------------
(* The inductive invariant of the graph.                                  *)

\* The user messages a client may resend are messages of users.
AskedTyped ==
  /\ asked \in Seq(Nat)
  /\ \A p \in DOMAIN asked :
       asked[p] < fresh /\ \A i \in DOMAIN msgs : msgs[i].id = asked[p] => msgs[i].type = "human"

StepsLeft ==
  /\ left \in Int /\ compactions \in Nat
  /\ node \in {"idle", "before", "agent", "model", "tools"}
  /\ node = "before" => left >= 0
  /\ node = "tools" => left >= 1

\* What is before before_agent: a question, or the results of the turn's answer.
Asks(s, v) ==
  \/ s[Len(s)].type = "human" /\ s[Len(s)].turn = v
  \/ /\ s[Len(s)].type = "tool"
     /\ \E i \in 1..(Len(s) - 1) : Begun(s, i) /\ Len(s) - i \in DOMAIN s[i].calls /\ s[i].turn = v
\* Something of the turn is there.
Speaks(s, v) == \E i \in DOMAIN s : s[i].type \in {"human", "ai"} /\ s[i].turn = v

\* The last message is one that the next node can deal with.
LastMessage ==
  /\ node = "tools" => Len(msgs) # 0 /\ HasToolCall(msgs[Len(msgs)]) /\ msgs[Len(msgs)].turn = turn
  /\ node = "before" => Len(msgs) # 0 /\ Asks(msgs, turn)
  /\ node \in {"agent", "model"} => Len(msgs) # 0 /\ ~HasToolCall(msgs[Len(msgs)]) /\ Speaks(msgs, turn)

\* The list has no gap when the model is called, and when the limit ends the query.
Repaired == node \in {"agent", "model"} /\ compactions = 0 => Gaps(msgs) = {}
LimitRepaired == outcome = "limit" => node = "idle" /\ (compactions = 0 => Gaps(msgs) = {})

PromptRight == Paired(prompt) /\ QuestionAsked

IInv ==
  /\ fresh \in Nat /\ turn \in Nat /\ Good(msgs, fresh, turn)
  /\ AskedTyped /\ StepsLeft /\ LastMessage /\ Repaired /\ LimitRepaired /\ PromptRight

\* There is nothing at first.
LEMMA InitIInv == Init => IInv
PROOF
<1> SUFFICES ASSUME Init PROVE IInv
  OBVIOUS
<1>1. msgs = <<>> /\ node = "idle" /\ left = 0 /\ turn = 0 /\ prompt = <<>> /\ outcome = "none"
      /\ fresh = 1 /\ asked = <<>> /\ compactions = 0
  BY DEF Init
<1>2. DOMAIN <<>> = {} /\ <<>> \in Seq(Msg) /\ <<>> \in Seq(Nat)
  BY EmptySeq
<1>3. DOMAIN msgs = {} /\ DOMAIN prompt = {} /\ msgs \in Seq(Msg)
  BY <1>1, <1>2
<1>4. Good(msgs, fresh, turn)
  BY <1>3 DEF Good, UniqueIds, Ordered, Shape, Blocks, Owned, CallsOnce
<1>5. AskedTyped
  BY <1>1, <1>2 DEF AskedTyped
<1>6. StepsLeft
  BY <1>1 DEF StepsLeft
<1>7. LastMessage /\ Repaired /\ LimitRepaired
  BY <1>1 DEF LastMessage, Repaired, LimitRepaired
<1>8. PromptRight
  BY <1>1, <1>3 DEF PromptRight, QuestionAsked, Paired, Answered, NoOrphanResults
<1> QED
  BY <1>1, <1>4, <1>5, <1>6, <1>7, <1>8 DEF IInv

\* What is asked stays what users have said when the messages are new or old.
LEMMA AskedKept ==
  ASSUME AskedTyped, Good(msgs, fresh, turn), UNCHANGED asked, fresh \in Nat, fresh' \in Nat, fresh <= fresh',
         NewOrOld(msgs', msgs, fresh)
  PROVE  AskedTyped'
PROOF
<1>1. asked \in Seq(Nat) /\ asked' = asked /\ asked' \in Seq(Nat)
  BY DEF AskedTyped
<1>2. \A p \in DOMAIN asked : asked[p] \in Nat
  BY <1>1, ElementOfSeq, LenProperties
<1>3. ASSUME NEW p \in DOMAIN asked PROVE asked[p] < fresh'
  <2>1. asked[p] < fresh /\ asked[p] \in Nat
    BY <1>2 DEF AskedTyped
  <2> QED
    BY <2>1
<1>4. ASSUME NEW p \in DOMAIN asked, NEW i \in DOMAIN msgs', msgs'[i].id = asked[p]
      PROVE  msgs'[i].type = "human"
  <2>1. asked[p] < fresh /\ asked[p] \in Nat
    BY <1>2 DEF AskedTyped
  <2>2. ~(msgs'[i].id >= fresh)
    BY <1>4, <2>1
  <2>3. PICK j \in DOMAIN msgs : msgs'[i] = msgs[j]
    BY <2>2 DEF NewOrOld
  <2> QED
    BY <1>4, <2>3 DEF AskedTyped
<1> QED
  BY <1>1, <1>3, <1>4 DEF AskedTyped

\* Between two nodes nothing is said.
LEMMA StillGood ==
  ASSUME IInv, UNCHANGED <<msgs, turn, prompt, fresh, asked, compactions>>
  PROVE  /\ fresh' \in Nat /\ turn' \in Nat /\ Good(msgs', fresh', turn') /\ AskedTyped' /\ compactions' \in Nat
         /\ Paired(prompt')
PROOF
<1>1. msgs' = msgs /\ turn' = turn /\ prompt' = prompt /\ fresh' = fresh /\ asked' = asked /\ compactions' = compactions
  OBVIOUS
<1>2. AskedTyped'
  BY <1>1 DEF IInv, AskedTyped
<1> QED
  BY <1>1, <1>2 DEF IInv, StepsLeft, PromptRight

\* Chat.query, for a new question and for one that is asked again.
LEMMA QueryKeeps ==
  ASSUME IInv, NEW id \in {fresh} \cup Range(asked), NEW limit \in RecursionLimits, Query(id, limit)
  PROVE  IInv'
PROOF
<1>1. fresh \in Nat /\ turn \in Nat /\ Good(msgs, fresh, turn) /\ AskedTyped
  BY DEF IInv
<1>2. limit \in Nat /\ limit >= 1
  BY BoundsAssumption
<1>3. asked \in Seq(Nat) /\ DOMAIN asked = 1..Len(asked) /\ Len(asked) \in Nat /\ \A p \in DOMAIN asked : asked[p] \in Nat
  BY <1>1, LenProperties, ElementOfSeq DEF AskedTyped
<1>4. id = fresh \/ \E p \in DOMAIN asked : id = asked[p]
  BY DEF Range
<1>5. id \in Nat /\ id <= fresh
  <2>1. CASE id = fresh
    BY <1>1, <2>1
  <2>2. CASE id # fresh
    <3>1. PICK p \in DOMAIN asked : id = asked[p]
      BY <1>4, <2>2
    <3>2. asked[p] \in Nat /\ asked[p] < fresh
      BY <1>1, <1>3 DEF AskedTyped
    <3> QED
      BY <1>1, <3>1, <3>2
  <2> QED
    BY <2>1, <2>2
<1>6. ASSUME NEW i \in DOMAIN msgs, msgs[i].id = id PROVE msgs[i].type = "human"
  <2>1. CASE id = fresh
    <3>1. msgs[i].id < fresh
      BY <1>1 DEF Good
    <3> QED
      BY <1>1, <1>6, <2>1, <3>1
  <2>2. CASE id # fresh
    <3>1. PICK p \in DOMAIN asked : id = asked[p]
      BY <1>4, <2>2
    <3> QED
      BY <1>1, <1>6, <3>1 DEF AskedTyped
  <2> QED
    BY <2>1, <2>2
<1> DEFINE h == Human(id, turn + 1)
           g == IF id = fresh THEN fresh + 1 ELSE fresh
           t == AddMessages(DropAfter(msgs, id), <<h>>, {})
<1>7. /\ turn' = turn + 1 /\ msgs' = t /\ fresh' = g /\ node' = "before" /\ left' = limit - 1
      /\ outcome' = "none" /\ prompt' = prompt /\ compactions' = compactions /\ asked' = AskedAfter(id)
  BY DEF Query
<1>8. /\ Good(t, g, turn + 1) /\ Len(t) # 0 /\ t[Len(t)] = h
      /\ \A k \in DOMAIN t : t[k] = h \/ t[k].id # id
      /\ \A k \in DOMAIN t : t[k] = h \/ \E i \in DOMAIN msgs : t[k] = msgs[i]
  BY <1>1, <1>5, <1>6, QueryGood
<1>9. h.type = "human" /\ h.turn = turn + 1 /\ h.id = id
  BY DEF Human
<1>10. g \in Nat /\ fresh <= g /\ id < g
  BY <1>1, <1>5
<1> HIDE DEF h, g, t
<1>11. asked' \in Seq(Nat) /\ \A p \in DOMAIN asked' : asked'[p] = id \/ \E q \in DOMAIN asked : asked'[p] = asked[q]
  <2>1. CASE id \notin Range(asked)
    <3>1. asked' = Append(asked, id)
      BY <1>7, <2>1 DEF AskedAfter
    <3>2. /\ asked' \in Seq(Nat) /\ Len(asked') = Len(asked) + 1 /\ DOMAIN asked' = 1..Len(asked')
          /\ \A p \in 1..Len(asked) : asked'[p] = asked[p]
          /\ asked'[Len(asked) + 1] = id
      BY <1>3, <1>5, <3>1, AppendProperties, LenProperties
    <3>3. ASSUME NEW p \in DOMAIN asked' PROVE p \in DOMAIN asked \/ p = Len(asked) + 1
      BY <1>3, <3>2
    <3> QED
      BY <1>3, <3>2, <3>3
  <2>2. CASE id \in Range(asked)
    <3> DEFINE c == CHOOSE p \in DOMAIN asked : asked[p] = id
    <3>1. asked' = SubSeq(asked, 1, c)
      BY <1>7, <2>2 DEF AskedAfter
    <3>2. c \in DOMAIN asked
      BY <2>2 DEF Range
    <3> HIDE DEF c
    <3>3. c \in 1..Len(asked)
      BY <1>3, <3>2
    <3>4. asked' \in Seq(Nat) /\ \A p \in DOMAIN asked' : p \in DOMAIN asked /\ asked'[p] = asked[p]
      <4>1. asked' \in Seq(Nat) /\ Len(asked') = c /\ \A p \in 1..c : asked'[p] = asked[p]
        BY <1>3, <3>1, <3>3, SubSeqProperties
      <4>2. DOMAIN asked' = 1..c
        BY <4>1, LenProperties
      <4>3. \A p \in 1..c : p \in 1..Len(asked)
        BY <1>3, <3>3
      <4> QED
        BY <1>3, <4>1, <4>2, <4>3
    <3> QED
      BY <3>4
  <2> QED
    BY <2>1, <2>2
<1>12. AskedTyped'
  <2>1. ASSUME NEW p \in DOMAIN asked'
        PROVE  asked'[p] < fresh' /\ \A i \in DOMAIN msgs' : msgs'[i].id = asked'[p] => msgs'[i].type = "human"
    <3>1. CASE asked'[p] = id
      <4>1. asked'[p] < fresh'
        BY <1>7, <1>10, <3>1
      <4> QED
        BY <1>7, <1>8, <1>9, <3>1, <4>1
    <3>2. CASE asked'[p] # id
      <4>1. PICK q \in DOMAIN asked : asked'[p] = asked[q]
        BY <1>11, <3>2
      <4>2. asked[q] \in Nat /\ asked[q] < fresh
        BY <1>1, <1>3 DEF AskedTyped
      <4>3. asked'[p] < fresh'
        BY <1>1, <1>7, <1>10, <4>1, <4>2
      <4>4. ASSUME NEW i \in DOMAIN msgs', msgs'[i].id = asked'[p] PROVE msgs'[i].type = "human"
        <5>1. CASE msgs'[i] = h
          BY <1>9, <5>1
        <5>2. CASE msgs'[i] # h
          <6>1. PICK j \in DOMAIN msgs : msgs'[i] = msgs[j]
            BY <1>7, <1>8, <5>2
          <6> QED
            BY <1>1, <4>1, <4>4, <6>1 DEF AskedTyped
        <5> QED
          BY <5>1, <5>2
      <4> QED
        BY <4>3, <4>4
    <3> QED
      BY <3>1, <3>2
  <2> QED
    BY <1>11, <2>1 DEF AskedTyped
<1>13. StepsLeft'
  BY <1>2, <1>7 DEF IInv, StepsLeft
<1>14. LastMessage' /\ Repaired' /\ LimitRepaired'
  BY <1>7, <1>8, <1>9 DEF LastMessage, Asks, Repaired, LimitRepaired
<1>15. PromptRight'
  BY <1>7 DEF IInv, PromptRight, QuestionAsked
<1>16. fresh' \in Nat /\ turn' \in Nat /\ Good(msgs', fresh', turn')
  BY <1>1, <1>7, <1>8, <1>10
<1> QED
  BY <1>12, <1>13, <1>14, <1>15, <1>16 DEF IInv

\* The last message of a query that is about to be answered asks for no tools.
LEMMA AsksNoTools ==
  ASSUME NEW s, NEW v, Asks(s, v)
  PROVE  ~HasToolCall(s[Len(s)])
PROOF
  BY DEF Asks, HasToolCall

\* A message of the turn that only results follow.
LEMMA AskedInTurn ==
  ASSUME NEW s \in Seq(Msg), Shape(s), Len(s) # 0, NEW v, Asks(s, v)
  PROVE  \E i \in DOMAIN s : /\ s[i].type \in {"human", "ai"} /\ s[i].turn = v
                             /\ \A j \in (i + 1)..Len(s) : s[j].type = "tool"
PROOF
<1>0. Len(s) \in Nat /\ DOMAIN s = 1..Len(s) /\ \A i \in 1..Len(s) : DOMAIN s[i].calls = 1..Len(s[i].calls) /\ Len(s[i].calls) \in Nat
  BY Fields
<1>1. CASE s[Len(s)].type = "human" /\ s[Len(s)].turn = v
  <2>1. Len(s) \in DOMAIN s /\ (Len(s) + 1)..Len(s) = {}
    BY <1>0
  <2> QED
    BY <1>1, <2>1
<1>2. CASE \E i \in 1..(Len(s) - 1) : Begun(s, i) /\ Len(s) - i \in DOMAIN s[i].calls /\ s[i].turn = v
  <2>1. PICK i \in 1..(Len(s) - 1) : Begun(s, i) /\ Len(s) - i \in DOMAIN s[i].calls /\ s[i].turn = v
    BY <1>2
  <2>2. i \in DOMAIN s
    BY <1>0
  <2>3. s[i].type = "ai"
    BY <2>1 DEF Begun, HasToolCall
  <2>4. \A p \in DOMAIN s[i].calls : s[i + p].type = "tool"
    BY <1>0, <2>1, <2>2 DEF Shape, Blocks
  <2>5. ASSUME NEW j \in (i + 1)..Len(s) PROVE s[j].type = "tool"
    <3>1. j - i \in DOMAIN s[i].calls /\ i + (j - i) = j
      BY <1>0, <2>1, <2>2
    <3> QED
      BY <2>4, <3>1
  <2> QED
    BY <2>1, <2>2, <2>3, <2>5
<1> QED
  BY <1>1, <1>2 DEF Asks

\* _before_agent repairs and compacts the messages.
LEMMA BeforeAgentKeeps ==
  ASSUME IInv, NEW r \in 0..Len(msgs), NEW summarized, BeforeAgent(r, summarized)
  PROVE  IInv'
PROOF
<1> DEFINE u == IF Compacts(r) THEN Compact(msgs, r, summarized, fresh) ELSE ToolCallOrder(msgs, fresh)
           t == AddMessages(msgs, u.new, u.remove)
<1>0. /\ fresh \in Nat /\ turn \in Nat /\ Good(msgs, fresh, turn) /\ Len(msgs) # 0 /\ Asks(msgs, turn)
      /\ node = "before" /\ left \in Int /\ compactions \in Nat
  BY DEF IInv, LastMessage, StepsLeft, BeforeAgent
<1>1. /\ msgs' = t /\ fresh' = fresh + Len(u.new) /\ node' = "agent" /\ left' = left - 1 /\ turn' = turn
      /\ outcome' = outcome /\ prompt' = prompt /\ asked' = asked
      /\ compactions' = IF Compacts(r) THEN compactions + 1 ELSE compactions
  BY DEF BeforeAgent
<1>2. msgs \in Seq(Msg) /\ Shape(msgs) /\ ~HasToolCall(msgs[Len(msgs)])
  BY <1>0, AsksNoTools DEF Good
<1>3. PICK i \in DOMAIN msgs : /\ msgs[i].type \in {"human", "ai"} /\ msgs[i].turn = turn
                               /\ \A j \in (i + 1)..Len(msgs) : msgs[j].type = "tool"
  BY <1>0, <1>2, AskedInTurn
<1>4. /\ Len(u.new) \in Nat /\ Good(t, fresh + Len(u.new), turn) /\ NewOrOld(t, msgs, fresh)
      /\ Len(t) # 0 /\ ~HasToolCall(t[Len(t)]) /\ \E k \in DOMAIN t : Same(t[k], msgs[i])
  <2>1. CASE Compacts(r)
    <3>1. r \in Nat \ {0} /\ FindSafeCutPoint(msgs, r) > 1
      <4>1. Len(msgs) \in Nat
        BY <1>2, LenProperties
      <4> QED
        BY <2>1, <4>1 DEF Compacts
    <3>2. u = Compact(msgs, r, summarized, fresh)
      BY <2>1
    <3> HIDE DEF u
    <3>3. msgs[i].type # "tool"
      BY <1>3
    <3> QED
      BY <1>0, <1>2, <1>3, <3>1, <3>2, <3>3, CompactGood
  <2>2. CASE ~Compacts(r)
    <3>2. u = ToolCallOrder(msgs, fresh)
      BY <2>2
    <3> HIDE DEF u
    <3> QED
      BY <1>0, <1>2, <1>3, <3>2, RepairGood
  <2> QED
    BY <2>1, <2>2
<1>5. ~Compacts(r) => Gaps(t) = {}
  <2> SUFFICES ASSUME ~Compacts(r) PROVE Gaps(t) = {}
    OBVIOUS
  <2>1. u = ToolCallOrder(msgs, fresh)
    OBVIOUS
  <2> HIDE DEF u
  <2> QED
    BY <1>0, <1>2, <2>1, RepairGood
<1> HIDE DEF t, u
<1>6. fresh' \in Nat /\ turn' \in Nat /\ Good(msgs', fresh', turn') /\ fresh <= fresh'
  BY <1>0, <1>1, <1>4
<1>7. AskedTyped'
  BY <1>0, <1>1, <1>4, <1>6, AskedKept DEF IInv
<1>8. StepsLeft'
  BY <1>0, <1>1 DEF StepsLeft
<1>9. LastMessage'
  <2>1. Speaks(t, turn)
    BY <1>3, <1>4 DEF Speaks, Same
  <2> QED
    BY <1>1, <1>4, <2>1 DEF LastMessage
<1>10. Repaired'
  <2>1. compactions' = 0 => ~Compacts(r)
    BY <1>0, <1>1
  <2> QED
    BY <1>1, <1>5, <2>1 DEF Repaired
<1>11. LimitRepaired'
  BY <1>0, <1>1 DEF IInv, LimitRepaired
<1>12. PromptRight'
  BY <1>1 DEF IInv, PromptRight, QuestionAsked
<1> QED
  BY <1>6, <1>7, <1>8, <1>9, <1>10, <1>11, <1>12 DEF IInv

\* _call_model asks the model with a complete prompt.
LEMMA CallModelKeeps == IInv /\ CallModel => IInv'
PROOF
<1> SUFFICES ASSUME IInv, CallModel PROVE IInv'
  OBVIOUS
<1> DEFINE c == CompleteToolCalls(msgs)
           t == CoalesceSystem(c)
<1>1. /\ prompt' = t /\ node = "agent" /\ node' = "model" /\ left' = left /\ outcome' = outcome
      /\ UNCHANGED <<msgs, turn, fresh, asked, compactions>>
  BY DEF CallModel
<1>2. msgs \in Seq(Msg) /\ Shape(msgs) /\ DOMAIN msgs = 1..Len(msgs)
  BY LenProperties DEF IInv, Good
<1>3. c \in Seq(Msg) /\ \E e : Filled(c, msgs, e)
  BY <1>2, CompleteFills
<1>4. PICK e : Filled(c, msgs, e)
  BY <1>3
<1>5. Shape(c) /\ Gaps(c) = {}
  BY <1>2, <1>3, <1>4, FilledShape
<1>6. Paired(t) /\ \A i \in DOMAIN c : c[i].type # "system" => \E k \in DOMAIN t : t[k] = c[i]
  BY <1>3, <1>5, CoalescePaired
<1>7. DOMAIN c = 1..Len(c)
  BY <1>3, LenProperties
<1> HIDE DEF c, t
<1>8. ASSUME NEW i \in DOMAIN msgs, msgs[i].type = "human" PROVE \E k \in DOMAIN t : t[k].type = "human" /\ t[k].turn = msgs[i].turn
  <2>1. e[i] \in 1..Len(c) /\ Same(c[e[i]], msgs[i])
    BY <1>2, <1>4 DEF Filled, FilledAt
  <2>2. e[i] \in DOMAIN c /\ c[e[i]].type = "human" /\ c[e[i]].turn = msgs[i].turn
    BY <1>7, <1>8, <2>1 DEF Same
  <2>3. PICK k \in DOMAIN t : t[k] = c[e[i]]
    BY <1>6, <2>2
  <2> QED
    BY <2>2, <2>3
<1>9. PromptRight'
  <2> SUFFICES ASSUME \A i \in DOMAIN msgs : msgs[i].type = "ai" => msgs[i].turn # turn
               PROVE  \E k \in DOMAIN t : t[k].type = "human" /\ t[k].turn = turn
    BY <1>1, <1>6 DEF PromptRight, QuestionAsked
  <2>1. PICK i \in DOMAIN msgs : msgs[i].type \in {"human", "ai"} /\ msgs[i].turn = turn
    BY <1>1 DEF IInv, LastMessage, Speaks
  <2>2. msgs[i].type = "human"
    BY <2>1
  <2> QED
    BY <1>8, <2>1, <2>2
<1>10. /\ fresh' \in Nat /\ turn' \in Nat /\ Good(msgs', fresh', turn') /\ AskedTyped'
  BY <1>1 DEF IInv, AskedTyped
<1>11. StepsLeft' /\ LastMessage' /\ Repaired' /\ LimitRepaired'
  BY <1>1 DEF IInv, StepsLeft, LastMessage, Repaired, LimitRepaired
<1> QED
  BY <1>9, <1>10, <1>11 DEF IInv

\* The answer, or a part of it, follows the messages.
LEMMA AnswerKeeps ==
  ASSUME IInv, NEW n \in 0..MaxCalls, Answer(n)
  PROVE  IInv'
PROOF
<1> DEFINE calls == IF MoreStepsNeeded THEN <<>> ELSE [j \in 1..n |-> fresh + j]
           ai == AI(fresh, calls, turn)
           one == <<ai>>
           new == Numbered(IF abort THEN CompleteToolCalls(one) ELSE one, fresh)
           t == AddMessages(msgs, new, {})
<1>0. fresh \in Nat /\ turn \in Nat /\ Good(msgs, fresh, turn) /\ left \in Int /\ n \in Nat
  BY BoundsAssumption DEF IInv, StepsLeft
<1>1. /\ msgs' = t /\ fresh' = fresh + 1 + n /\ node = "model" /\ node' = After(t) /\ left' = left - 1
      /\ outcome' = (IF node' = "idle" THEN "done" ELSE outcome)
      /\ turn' = turn /\ prompt' = prompt /\ asked' = asked /\ compactions' = compactions
  BY DEF Answer
<1>2. calls = <<>> \/ calls = [j \in 1..n |-> fresh + j]
  OBVIOUS
<1>3. calls # <<>> => left >= 2
  BY <1>0 DEF MoreStepsNeeded
<1>4. /\ Good(t, fresh + 1 + n, turn) /\ NewOrOld(t, msgs, fresh) /\ Len(t) # 0 /\ t[Len(t)].turn = turn
      /\ calls = <<>> => ~HasToolCall(t[Len(t)])
  <2> HIDE DEF calls
  <2>1. ai = AI(fresh, calls, turn) /\ one = <<ai>>
    OBVIOUS
  <2> HIDE DEF ai, one
  <2>2. new = Numbered(IF abort THEN CompleteToolCalls(one) ELSE one, fresh) /\ t = AddMessages(msgs, new, {})
    OBVIOUS
  <2> HIDE DEF new, t
  <2> QED
    BY <1>0, <1>2, <2>1, <2>2, AnswerGood
<1> HIDE DEF calls, ai, one, new, t
<1>5. node' = IF HasToolCall(t[Len(t)]) THEN "tools" ELSE "idle"
  BY <1>1 DEF After, Last
<1>6. fresh' \in Nat /\ turn' \in Nat /\ Good(msgs', fresh', turn') /\ fresh <= fresh'
  BY <1>0, <1>1, <1>4
<1>7. AskedTyped'
  BY <1>0, <1>1, <1>4, <1>6, AskedKept DEF IInv
<1>8. StepsLeft'
  <2>1. node' = "tools" => left >= 2
    BY <1>3, <1>4, <1>5
  <2> QED
    BY <1>0, <1>1, <1>5, <2>1 DEF IInv, StepsLeft
<1>9. LastMessage' /\ Repaired'
  BY <1>1, <1>4, <1>5 DEF LastMessage, Repaired
<1>10. LimitRepaired'
  BY <1>1, <1>5 DEF IInv, LimitRepaired
<1>11. PromptRight'
  BY <1>1, <1>5 DEF IInv, PromptRight, QuestionAsked
<1> QED
  BY <1>6, <1>7, <1>8, <1>9, <1>10, <1>11 DEF IInv

\* The tools run, and each of them has its result.
LEMMA RunToolsKeeps == IInv /\ RunTools => IInv'
PROOF
<1> SUFFICES ASSUME IInv, RunTools PROVE IInv'
  OBVIOUS
<1> DEFINE n == Len(msgs)
           calls == msgs[n].calls
           new == [j \in DOMAIN calls |-> Tool(fresh + j - 1, calls[j], turn)]
           t == AddMessages(msgs, new, {})
<1>0. /\ fresh \in Nat /\ turn \in Nat /\ Good(msgs, fresh, turn) /\ left \in Int /\ left >= 1
      /\ n # 0 /\ HasToolCall(msgs[n]) /\ msgs[n].turn = turn /\ node = "tools"
  BY DEF IInv, StepsLeft, LastMessage, RunTools
<1>1. /\ msgs' = t /\ fresh' = fresh + Len(calls) /\ node' = "before" /\ left' = left - 1
      /\ outcome' = outcome /\ turn' = turn /\ prompt' = prompt /\ asked' = asked /\ compactions' = compactions
  BY DEF RunTools, Last
<1>2. /\ Good(t, fresh + Len(calls), turn) /\ NewOrOld(t, msgs, fresh) /\ Len(calls) \in Nat
      /\ n \in 1..(Len(t) - 1) /\ Begun(t, n) /\ Len(t) - n \in DOMAIN t[n].calls
      /\ t[n] = msgs[n] /\ Len(t) # 0 /\ t[Len(t)].type = "tool"
  <2>1. n = Len(msgs) /\ calls = msgs[n].calls
    OBVIOUS
  <2> HIDE DEF n, calls
  <2>2. new = [j \in DOMAIN calls |-> Tool(fresh + j - 1, calls[j], turn)] /\ t = AddMessages(msgs, new, {})
    OBVIOUS
  <2>4. new = ResultsOf(fresh, calls, turn)
    BY <2>2 DEF ResultsOf
  <2> HIDE DEF new, t
  <2>3. fresh \in Nat /\ turn \in Nat /\ Good(msgs, fresh, turn) /\ n # 0 /\ HasToolCall(msgs[n])
    BY <1>0
  <2>5. t = AddMessages(msgs, new, {})
    BY <2>2
  <2> QED
    <3>1. Added(msgs, t, fresh, turn, n, calls)
      BY <2>1, <2>3, <2>4, <2>5, ToolsGood
    <3> QED
      BY <3>1 DEF Added
<1> HIDE DEF n, calls, new, t
<1>3. Asks(t, turn)
  BY <1>0, <1>2 DEF Asks
<1>4. fresh' \in Nat /\ turn' \in Nat /\ Good(msgs', fresh', turn') /\ fresh <= fresh'
  BY <1>0, <1>1, <1>2
<1>5. AskedTyped'
  BY <1>0, <1>1, <1>2, <1>4, AskedKept DEF IInv
<1>6. StepsLeft'
  BY <1>0, <1>1 DEF IInv, StepsLeft
<1>7. LastMessage' /\ Repaired'
  BY <1>1, <1>2, <1>3 DEF LastMessage, Repaired
<1>8. LimitRepaired'
  BY <1>0, <1>1 DEF IInv, LimitRepaired
<1>9. PromptRight'
  BY <1>1 DEF IInv, PromptRight, QuestionAsked
<1> QED
  BY <1>4, <1>5, <1>6, <1>7, <1>8, <1>9 DEF IInv

\* A query that is aborted before the model is called.
LEMMA CallSkippedKeeps == IInv /\ CallSkipped => IInv'
PROOF
<1> SUFFICES ASSUME IInv, CallSkipped PROVE IInv'
  OBVIOUS
<1>1. UNCHANGED <<msgs, turn, prompt, fresh, asked, compactions>> /\ node = "agent" /\ left' = left - 1
  BY DEF CallSkipped
<1>2. node' = "idle" /\ outcome' = "done"
  BY <1>1 DEF CallSkipped, After, Last, IInv, LastMessage
<1>3. StepsLeft'
  BY <1>1, <1>2 DEF IInv, StepsLeft
<1>4. LastMessage' /\ Repaired' /\ LimitRepaired'
  BY <1>1, <1>2 DEF LastMessage, Repaired, LimitRepaired
<1>5. QuestionAsked'
  BY <1>2 DEF QuestionAsked
<1> QED
  BY <1>1, <1>3, <1>4, <1>5, StillGood DEF IInv, PromptRight

\* An abort changes no message.
LEMMA AbortKeeps == IInv /\ Abort => IInv'
PROOF
<1> SUFFICES ASSUME IInv, Abort PROVE IInv'
  OBVIOUS
<1>1. /\ UNCHANGED <<msgs, turn, prompt, fresh, asked, compactions>>
      /\ node' = node /\ left' = left /\ outcome' = outcome
  BY DEF Abort
<1>2. StepsLeft' /\ LastMessage' /\ Repaired' /\ LimitRepaired' /\ QuestionAsked'
  BY <1>1 DEF IInv, StepsLeft, LastMessage, Repaired, LimitRepaired, PromptRight, QuestionAsked
<1> QED
  BY <1>1, <1>2, StillGood DEF IInv, PromptRight

\* A query that fails or reaches the limit leaves what it has.
LEMMA EndsKeep == IInv /\ (Fails \/ LimitReached) => IInv'
PROOF
<1> SUFFICES ASSUME IInv, Fails \/ LimitReached PROVE IInv'
  OBVIOUS
<1>1. /\ UNCHANGED <<msgs, turn, prompt, fresh, asked, compactions>>
      /\ node' = "idle" /\ left' = left
  BY DEF Fails, LimitReached, End
<1>2. outcome' = "limit" => node = "agent"
  <2>1. CASE Fails
    BY <2>1 DEF Fails, End
  <2>2. CASE LimitReached
    BY <2>2 DEF LimitReached, IInv, StepsLeft
  <2> QED
    BY <2>1, <2>2
<1>3. LimitRepaired'
  BY <1>1, <1>2 DEF IInv, Repaired, LimitRepaired
<1>4. StepsLeft' /\ LastMessage' /\ Repaired' /\ QuestionAsked'
  BY <1>1 DEF IInv, StepsLeft, LastMessage, Repaired, QuestionAsked
<1> QED
  BY <1>1, <1>3, <1>4, StillGood DEF IInv, PromptRight

\* Every step of the graph keeps the invariant.
LEMMA NextIInv == IInv /\ [AllNext]_<<served, vars, fileVars>> => IInv'
PROOF
<1> SUFFICES ASSUME IInv, [AllNext]_<<served, vars, fileVars>> PROVE IInv'
  OBVIOUS
<1>1. CASE Next
  <2>1. CASE \E id \in {fresh} \cup Range(asked), limit \in RecursionLimits : Query(id, limit)
    BY <2>1, QueryKeeps
  <2>2. CASE \E r \in (IF compactions < MaxCompactions THEN 0..Len(msgs) ELSE {0}), sum \in BOOLEAN :
               (r = 0 => sum) /\ BeforeAgent(r, sum)
    <3>1. Len(msgs) \in Nat
      BY LenProperties DEF IInv, Good
    <3>2. PICK r \in 0..Len(msgs), sum \in BOOLEAN : BeforeAgent(r, sum)
      BY <2>2, <3>1
    <3> QED
      BY <3>2, BeforeAgentKeeps
  <2>3. CASE \E n \in 0..MaxCalls : Answer(n)
    BY <2>3, AnswerKeeps
  <2> QED
    BY <1>1, <2>1, <2>2, <2>3, CallSkippedKeeps, CallModelKeeps, RunToolsKeeps, AbortKeeps, EndsKeep DEF Next
<1>2. CASE UNCHANGED vars
  <2>1. /\ UNCHANGED <<msgs, turn, prompt, fresh, asked, compactions>>
        /\ node' = node /\ left' = left /\ outcome' = outcome
    BY <1>2 DEF vars
  <2>2. StepsLeft' /\ LastMessage' /\ Repaired' /\ LimitRepaired' /\ QuestionAsked'
    BY <2>1 DEF IInv, StepsLeft, LastMessage, Repaired, LimitRepaired, PromptRight, QuestionAsked
  <2> QED
    BY <2>1, <2>2, StillGood DEF IInv, PromptRight
<1> QED
  BY <1>1, <1>2 DEF AllNext

\* The invariant holds throughout.
LEMMA Invariance == AllSpec => []IInv
PROOF
<1>1. AllInit => IInv
  BY InitIInv DEF AllInit
<1> QED
  BY <1>1, NextIInv, PTL DEF AllSpec

\* Whatever crash, failure, abort, resend or compaction the list has gone through,
\* each prompt pairs every tool call with its results (_call_model's
\* complete_tool_calls on what tool_call_order has left).
THEOREM PromptsArePaired == AllSpec => []PromptPaired
PROOF
<1>1. IInv => PromptPaired
  BY DEF IInv, PromptRight, PromptPaired
<1> QED
  BY <1>1, Invariance, PTL

\* The checkpoint is repaired when the model is called and when the recursion limit
\* ends a query, unless it was compacted; the prompt holds the question, and nothing
\* that followed an old question comes after a later one (tool_call_order,
\* _check_more_steps_needed, compact_conversation, _remove_messages_for_resend).
THEOREM HistoryIsKept == AllSpec => []HistoryKept
PROOF
<1>1. ASSUME IInv PROVE HistoryKept
  <2>1. msgs \in Seq(Msg) /\ Shape(msgs) /\ Ordered(msgs)
    BY <1>1 DEF IInv, Good
  <2>2. Gaps(msgs) = {} => Paired(msgs)
    BY <2>1, ShapeIsPaired DEF Shape
  <2>3. HistoryRepaired
    BY <1>1, <2>2 DEF IInv, Repaired, HistoryRepaired
  <2>4. LimitAnswered
    BY <1>1, <2>2 DEF IInv, LimitRepaired, LimitAnswered, Paired
  <2>5. QuestionAsked
    BY <1>1 DEF IInv, PromptRight
  <2>6. ResendCuts
    BY <2>1 DEF Ordered, ResendCuts
  <2> QED
    BY <2>3, <2>4, <2>5, <2>6 DEF HistoryKept
<1> QED
  BY <1>1, Invariance, PTL

---------------------------------------------------------------------------
(* What the messages say.                                                 *)

\* P holds the elements of Q at the places e, and nothing between them.
Spread(P, Q, e) ==
  /\ e \in [1..(Len(Q) + 1) -> Nat] /\ e[1] = 1 /\ e[Len(Q) + 1] = Len(P) + 1
  /\ \A i \in 1..Len(Q) :
       /\ 1 <= e[i] /\ e[i] < e[i + 1] /\ e[i + 1] <= Len(P) + 1
       /\ P[e[i]] = Q[i]
       /\ \A k \in (e[i] + 1)..(e[i + 1] - 1) : P[k] = <<>>

\* Empty sequences add nothing.
Blank(P, a, b) == \A k \in (a + 1)..b : P[k] = <<>>

\* Sequences that are empty add nothing.
LEMMA PartialSteady ==
  ASSUME NEW T, NEW P \in Seq(Seq(T)), NEW m, m = Len(P), NEW g \in [0..m -> Seq(T)], Partial(P, g, m),
         NEW a \in 0..m, NEW b \in a..m, Blank(P, a, b)
  PROVE  g[b] = g[a]
PROOF
<1>0. m \in Nat
  BY LenProperties
<1> DEFINE Bad == {k \in a..b : g[k] # g[a]}
<1>1. SUFFICES ASSUME g[b] # g[a] PROVE FALSE
  OBVIOUS
<1>2. b \in Bad
  BY <1>1
<1>3. Bad \in SUBSET Nat
  BY <1>0
<1>4. PICK k \in Bad : \A j \in Bad : k <= j
  <2> HIDE DEF Bad
  <2> QED
    BY <1>2, <1>3, LeastExists
<1>5. k \in a..b /\ g[k] # g[a] /\ k # a
  OBVIOUS
<1>6. k \in (a + 1)..b /\ k - 1 \in a..b /\ ~(k <= k - 1) /\ k \in 1..m /\ k - 1 \in 0..m
  BY <1>0, <1>5
<1>7. g[k - 1] = g[a]
  <2>1. k - 1 \notin Bad
    <3> HIDE DEF Bad
    <3> QED
      BY <1>4, <1>6
  <2> QED
    BY <1>6, <2>1
<1>8. g[k] = g[k - 1] \o P[k] /\ P[k] = <<>>
  BY <1>6 DEF Partial, Blank
<1>9. g[k - 1] \o <<>> = g[k - 1]
  <2>1. g[k - 1] \in Seq(T)
    BY <1>0, <1>6
  <2> QED
    BY <2>1, ConcatEmptySeq
<1> QED
  BY <1>5, <1>7, <1>8, <1>9

\* A sequence with others spread between its elements is what comes from all of them.
LEMMA SpreadFlattens ==
  ASSUME NEW T, NEW P \in Seq(Seq(T)), NEW Q \in Seq(Seq(T)), NEW e, Spread(P, Q, e)
  PROVE  FlattenSeq(P) = FlattenSeq(Q)
PROOF
<1> DEFINE m == Len(P)
           n == Len(Q)
<1>0. m \in Nat /\ n \in Nat
  BY LenProperties
<1>1. PICK g \in [0..m -> Seq(T)] : Partial(P, g, m)
  BY PartialExists
<1>2. FlattenSeq(P) = g[m]
  BY <1>1, FlattenIsPartial
<1> DEFINE h == [i \in 0..n |-> g[e[i + 1] - 1]]
<1> HIDE DEF m, n
<1>3. /\ e[1] = 1 /\ e[n + 1] = m + 1
      /\ \A i \in 1..n :
           /\ e[i] \in Nat /\ e[i + 1] \in Nat /\ 1 <= e[i] /\ e[i] < e[i + 1] /\ e[i + 1] <= m + 1
           /\ P[e[i]] = Q[i]
           /\ \A k \in (e[i] + 1)..(e[i + 1] - 1) : P[k] = <<>>
  <2>1. \A i \in 1..n : i \in 1..(n + 1) /\ i + 1 \in 1..(n + 1)
    BY <1>0
  <2>2. e \in [1..(n + 1) -> Nat]
    BY DEF Spread, n
  <2> QED
    BY <2>1, <2>2 DEF Spread, m, n
<1>4. h[0] = <<>>
  <2>1. 0 \in 0..n /\ e[0 + 1] - 1 = 0
    BY <1>0, <1>3
  <2>2. g[0] = <<>>
    BY <1>1 DEF Partial
  <2> QED
    BY <2>1, <2>2
<1>5. ASSUME NEW i \in 1..n PROVE h[i] = h[i - 1] \o Q[i]
  <2>1. h[i] = g[e[i + 1] - 1] /\ h[i - 1] = g[e[i] - 1]
    <3>1. i \in 0..n /\ i - 1 \in 0..n /\ (i - 1) + 1 = i
      BY <1>0
    <3> QED
      BY <3>1
  <2> HIDE DEF h
  <2> DEFINE a == e[i]
             b == e[i + 1] - 1
  <2>2. a \in 1..m /\ a \in 0..m /\ b \in a..m
    <3>1. e[i] \in Nat /\ e[i + 1] \in Nat /\ 1 <= e[i] /\ e[i] < e[i + 1] /\ e[i + 1] <= m + 1
      BY <1>3
    <3>2. ASSUME NEW x \in Nat, NEW y \in Nat, 1 <= x, x < y, y <= m + 1
          PROVE  x \in 1..m /\ x \in 0..m /\ y - 1 \in x..m
      BY <1>0, <3>2
    <3> QED
      BY <3>1, <3>2
  <2>3. Blank(P, a, b)
    BY <1>3 DEF Blank
  <2>4. P[a] = Q[i]
    BY <1>3
  <2> HIDE DEF a, b
  <2>5. g[b] = g[a]
    <3>1. m = Len(P) /\ g \in [0..m -> Seq(T)] /\ Partial(P, g, m)
      BY <1>1 DEF m
    <3>2. a \in 0..m /\ b \in a..m
      BY <2>2
    <3> QED
      BY <2>3, <3>1, <3>2, PartialSteady
  <2>6. g[a] = g[a - 1] \o P[a]
    BY <1>1, <2>2 DEF Partial
  <2> QED
    BY <2>1, <2>4, <2>5, <2>6 DEF a, b
<1>6. h[n] = g[m]
  <2>1. n \in 0..n /\ e[n + 1] - 1 = m
    BY <1>0, <1>3
  <2> QED
    BY <2>1
<1> HIDE DEF h
<1>7. Partial(Q, h, Len(Q))
  BY <1>4, <1>5 DEF Partial, n
<1>8. FlattenSeq(Q) = h[n]
  BY <1>7, FlattenIsPartial DEF n
<1> QED
  BY <1>2, <1>6, <1>8

\* What a message says, in a sequence.
Says(m) == IF m.fake THEN <<>> ELSE <<[m EXCEPT !.id = 0]>>

\* Messages that differ in nothing but the id say the same.
LEMMA SameSays ==
  ASSUME NEW x \in Msg, NEW y \in Msg, Same(x, y)
  PROVE  Says(x) = Says(y)
PROOF
<1> DEFINE a == [x EXCEPT !.id = 0]
           b == [y EXCEPT !.id = 0]
<1>1. /\ a \in Msg /\ a.id = 0 /\ a.type = x.type /\ a.calls = x.calls /\ a.call = x.call
      /\ a.turn = x.turn /\ a.fake = x.fake
  BY DEF Msg
<1>2. /\ b \in Msg /\ b.id = 0 /\ b.type = y.type /\ b.calls = y.calls /\ b.call = y.call
      /\ b.turn = y.turn /\ b.fake = y.fake
  BY DEF Msg
<1> HIDE DEF a, b
<1>3. a = b
  <2>1. /\ a = [id |-> a.id, type |-> a.type, calls |-> a.calls, call |-> a.call, turn |-> a.turn, fake |-> a.fake]
        /\ b = [id |-> b.id, type |-> b.type, calls |-> b.calls, call |-> b.call, turn |-> b.turn, fake |-> b.fake]
    BY <1>1, <1>2 DEF Msg
  <2>2. /\ a.id = b.id /\ a.type = b.type /\ a.calls = b.calls /\ a.call = b.call
        /\ a.turn = b.turn /\ a.fake = b.fake
    BY <1>1, <1>2 DEF Same
  <2> QED
    BY <2>1, <2>2
<1>4. Says(x) = (IF x.fake THEN <<>> ELSE <<a>>) /\ Says(y) = (IF y.fake THEN <<>> ELSE <<b>>)
  BY DEF Says, a, b
<1> QED
  BY <1>3, <1>4 DEF Same

\* What a message says is a sequence of messages.
LEMMA SaysIn ==
  ASSUME NEW m \in Msg
  PROVE  Says(m) \in Seq(Msg)
PROOF
<1> DEFINE a == [m EXCEPT !.id = 0]
<1>1. a \in Msg
  BY DEF Msg
<1> HIDE DEF a
<1>2. <<a>> \in Seq(Msg) /\ <<>> \in Seq(Msg)
  BY <1>1, OneOf, EmptySeq
<1> QED
  BY <1>2 DEF Says, a

\* A list with invented results says what it said without them.
LEMMA FilledSays ==
  ASSUME NEW s \in Seq(Msg), NEW t \in Seq(Msg), NEW e, Filled(t, s, e)
  PROVE  Contents(t) = Contents(s)
PROOF
<1> DEFINE n == Len(s)
           m == Len(t)
           P == [k \in 1..m |-> Says(t[k])]
           Q == [i \in 1..n |-> Says(s[i])]
<1>0. /\ n \in Nat /\ DOMAIN s = 1..n /\ \A i \in 1..n : s[i] \in Msg /\ Len(s[i].calls) \in Nat
  BY Fields
<1>1. m \in Nat /\ DOMAIN t = 1..m /\ \A k \in 1..m : t[k] \in Msg
  BY Fields
<1>2. Contents(t) = FlattenSeq(P) /\ Contents(s) = FlattenSeq(Q)
  BY <1>0, <1>1 DEF Contents, Says
<1> HIDE DEF n, m
<1>3. P \in [1..m -> Seq(Msg)] /\ Q \in [1..n -> Seq(Msg)]
  BY <1>0, <1>1, SaysIn
<1>4. (\A k \in 1..m : P[k] = Says(t[k])) /\ (\A i \in 1..n : Q[i] = Says(s[i]))
  OBVIOUS
<1> HIDE DEF P, Q
<1>5. P \in Seq(Seq(Msg)) /\ Len(P) = m /\ Q \in Seq(Seq(Msg)) /\ Len(Q) = n
  BY <1>0, <1>1, <1>3, FunSeq
<1>6. e \in [1..(n + 1) -> Nat] /\ e[1] = 1 /\ e[n + 1] = m + 1
  BY DEF Filled, n, m
<1>7. ASSUME NEW i \in 1..n
      PROVE  /\ 1 <= e[i] /\ e[i] < e[i + 1] /\ e[i + 1] <= m + 1
             /\ P[e[i]] = Q[i]
             /\ \A k \in (e[i] + 1)..(e[i + 1] - 1) : P[k] = <<>>
  <2>0. i + 1 \in 1..(n + 1) /\ e[i] \in Nat /\ e[i + 1] \in Nat
    BY <1>0, <1>6
  <2>1. /\ e[i] \in 1..m /\ Same(t[e[i]], s[i])
        /\ e[i + 1] = e[i] + 1 + (IF i \in Gaps(s) THEN Len(s[i].calls) ELSE 0)
        /\ i \in Gaps(s) => \A p \in 1..Len(s[i].calls) :
                              e[i] + p \in 1..m /\ Invented(t[e[i] + p], s[i], p)
    BY DEF Filled, FilledAt, n, m
  <2>2. 1 <= e[i] /\ e[i] < e[i + 1]
    BY <1>0, <2>0, <2>1
  <2>3. e[i + 1] <= m + 1
    <3>1. CASE i = n
      BY <1>1, <1>6, <3>1
    <3>2. CASE i # n
      <4>1. i + 1 \in 1..n
        BY <1>0, <3>2
      <4>2. e[i + 1] \in 1..m
        BY <4>1 DEF Filled, FilledAt, n, m
      <4> QED
        BY <1>1, <4>2
    <3> QED
      BY <3>1, <3>2
  <2>4. P[e[i]] = Q[i]
    BY <1>0, <1>1, <1>4, <2>1, SameSays
  <2>5. ASSUME NEW k \in (e[i] + 1)..(e[i + 1] - 1) PROVE P[k] = <<>>
    <3>1. i \in Gaps(s)
      BY <2>0, <2>1
    <3>2. k - e[i] \in 1..Len(s[i].calls) /\ e[i] + (k - e[i]) = k
      <4>1. Len(s[i].calls) \in Nat /\ e[i] \in Nat /\ e[i + 1] = e[i] + 1 + Len(s[i].calls)
        BY <1>0, <2>0, <2>1, <3>1
      <4>2. ASSUME NEW x \in Nat, NEW y \in Nat, NEW z \in (x + 1)..((x + 1 + y) - 1)
            PROVE  z - x \in 1..y /\ x + (z - x) = z
        OBVIOUS
      <4>3. k \in (e[i] + 1)..((e[i] + 1 + Len(s[i].calls)) - 1)
        BY <4>1
      <4> QED
        BY <4>1, <4>2, <4>3
    <3>3. k \in 1..m /\ Invented(t[k], s[i], k - e[i])
      BY <2>1, <3>1, <3>2
    <3> QED
      BY <1>4, <3>3 DEF Says, Invented
  <2> QED
    BY <2>2, <2>3, <2>4, <2>5
<1>8. Spread(P, Q, e)
  BY <1>5, <1>6, <1>7 DEF Spread
<1> QED
  BY <1>2, <1>5, <1>8, SpreadFlattens

\* The repair of before_agent moves, copies and completes messages, but it loses, adds
\* and swaps none of those that the user, the model and the tools have written
\* (tool_call_order, add_messages).
THEOREM RepairKeepsContents == AllSpec => RepairKeeps
PROOF
<1>1. ASSUME IInv, AllNext, node = "before", node' = "agent", compactions' = compactions
      PROVE  Contents(msgs') = Contents(msgs)
  <2>1. PICK r \in 0..Len(msgs), sum \in BOOLEAN : BeforeAgent(r, sum)
    <3>1. Len(msgs) \in Nat
      BY <1>1, LenProperties DEF IInv, Good
    <3>2. Next
      BY <1>1 DEF AllNext, vars
    <3> QED
      BY <1>1, <3>1, <3>2 DEF Next, Query, Answer, CallSkipped, CallModel, RunTools, Abort, Fails, LimitReached, End
  <2>2. compactions \in Nat /\ fresh \in Nat /\ turn \in Nat /\ Good(msgs, fresh, turn) /\ Len(msgs) # 0 /\ Asks(msgs, turn)
    BY <1>1 DEF IInv, StepsLeft, LastMessage
  <2>3. ~Compacts(r)
    BY <1>1, <2>1, <2>2 DEF BeforeAgent
  <2> DEFINE u == ToolCallOrder(msgs, fresh)
             t == AddMessages(msgs, u.new, u.remove)
  <2>4. msgs' = t
    BY <2>1, <2>3 DEF BeforeAgent
  <2> HIDE DEF u
  <2>5. ~HasToolCall(msgs[Len(msgs)])
    BY <2>2, AsksNoTools
  <2>6. Good(t, fresh + Len(u.new), turn) /\ \E e : Filled(t, msgs, e)
    BY <2>2, <2>5, RepairGood DEF u
  <2> HIDE DEF t
  <2>7. msgs \in Seq(Msg) /\ t \in Seq(Msg)
    BY <2>2, <2>6 DEF Good
  <2>8. PICK e : Filled(t, msgs, e)
    BY <2>6
  <2> QED
    BY <2>4, <2>7, <2>8, FilledSays
<1>2. IInv /\ [AllNext]_<<served, vars, fileVars>>
        => [node = "before" /\ node' = "agent" /\ compactions' = compactions => Contents(msgs') = Contents(msgs)]_vars
  BY <1>1 DEF vars
<1> QED
  BY <1>2, Invariance, PTL DEF AllSpec, RepairKeeps

---------------------------------------------------------------------------
(* Questions with files.                                                  *)

\* The same operator of the module of the files.
LEMMA FilesFlatten == \A P : Files!FlattenSeq(P) = FlattenSeq(P)
PROOF
  BY DEF Files!FlattenSeq, FlattenSeq

---------------------------------------------------------------------------
(* What the model is given of messages with files (PromptFiles).          *)

\* Places of files, what a block says, messages, and the rows of questions.
FileContents == {f.content : f \in Uploads}
FileNames == {f.name : f \in Uploads}
Place == [at : {"local", "url"}, content : FileContents, name : FileNames]
NoPlace == Files!NoLoc
Entry == Place \X (Place \cup {NoPlace})
Kinds == {"text", "info", "none", "url", "image", "doctext", "pdf", "call", "placeholder", "space"}
Told == [what : Kinds, of : Place \cup {NoPlace}, url : Place \cup {NoPlace}]
FileMsg == [type : {"human", "ai", "tool", "system"}, form : {"str", "list"}, blocks : Seq(Told),
            images : Seq(Place), docs : Seq(Place), calls : Nat, long : BOOLEAN]
Question == [at : Nat, files : Seq(Place), text : BOOLEAN, uploads : Nat, uniform : BOOLEAN]

\* A list of places: paths and their URLs in turn, or paths only.
InTurn(l) == Len(l) % 2 = 0 /\ \A i \in 1..Len(l) : l[i].at = IF i % 2 = 1 THEN "local" ELSE "url"
OnlyPaths(l) == \A i \in 1..Len(l) : l[i].at = "local"
Uniform(l, up) == IF up THEN InTurn(l) ELSE OnlyPaths(l)

\* NoLoc is no place, and no path.
LEMMA NoPlaceIsNone == NoPlace \notin Place /\ \A x \in Place : x # NoPlace
PROOF
<1>1. NoPlace.at = "none"
  BY DEF NoPlace, Files!NoLoc
<1>2. \A x \in Place : x.at \in {"local", "url"}
  BY DEF Place
<1> QED
  BY <1>1, <1>2

\* The entries of a list: each place, or each path with its URL.
LEMMA EntriesAre ==
  ASSUME NEW l \in Seq(Place)
  PROVE  /\ Files!Entries(l) \in Seq(Entry) /\ Len(l) \in Nat
         /\ IF Files!UsingOap(l)
              THEN /\ Len(Files!Entries(l)) = Len(l) \div 2 /\ Len(l) \div 2 \in Nat /\ Len(l) = 2 * (Len(l) \div 2)
                   /\ \A i \in 1..(Len(l) \div 2) :
                        /\ 2 * i - 1 \in 1..Len(l) /\ 2 * i \in 1..Len(l)
                        /\ Files!Entries(l)[i] = <<l[2 * i - 1], l[2 * i]>>
              ELSE /\ Len(Files!Entries(l)) = Len(l)
                   /\ \A i \in 1..Len(l) : Files!Entries(l)[i] = <<l[i], NoPlace>>
PROOF
<1>0. Len(l) \in Nat /\ DOMAIN l = 1..Len(l) /\ \A i \in 1..Len(l) : l[i] \in Place
  BY LenProperties, ElementOfSeq
<1>1. CASE Files!UsingOap(l)
  <2>1. Len(l) % 2 = 0
    BY <1>1 DEF Files!UsingOap
  <2> DEFINE n == Len(l) \div 2
             f == [i \in 1..n |-> <<l[2 * i - 1], l[2 * i]>>]
  <2>2. n \in Nat /\ Len(l) = 2 * n /\ \A i \in 1..n : 2 * i - 1 \in 1..Len(l) /\ 2 * i \in 1..Len(l)
    <3>1. ASSUME NEW x \in Nat, x % 2 = 0 PROVE x \div 2 \in Nat /\ x = 2 * (x \div 2)
      BY <3>1
    <3>2. n \in Nat /\ Len(l) = 2 * n
      BY <1>0, <2>1, <3>1
    <3>3. ASSUME NEW x \in Nat, NEW i \in 1..x PROVE 2 * i - 1 \in 1..(2 * x) /\ 2 * i \in 1..(2 * x)
      BY <3>3
    <3> HIDE DEF n
    <3> QED
      BY <3>2, <3>3
  <2>3. Files!Entries(l) = f
    BY <1>1 DEF Files!Entries
  <2> HIDE DEF n
  <2>4. f \in [1..n -> Entry]
    BY <1>0, <2>2 DEF Entry
  <2>5. f \in Seq(Entry) /\ Len(f) = n
    BY <2>2, <2>4, FunSeq
  <2>6. \A i \in 1..n : f[i] = <<l[2 * i - 1], l[2 * i]>>
    OBVIOUS
  <2> HIDE DEF f
  <2> QED
    BY <1>0, <1>1, <2>2, <2>3, <2>5, <2>6 DEF n
<1>2. CASE ~Files!UsingOap(l)
  <2> DEFINE f == [i \in 1..Len(l) |-> <<l[i], NoPlace>>]
  <2>1. Files!Entries(l) = f
    BY <1>0, <1>2 DEF Files!Entries, NoPlace
  <2>2. f \in [1..Len(l) -> Entry]
    BY <1>0 DEF Entry
  <2>3. f \in Seq(Entry) /\ Len(f) = Len(l)
    BY <1>0, <2>2, FunSeq
  <2> QED
    BY <1>0, <1>2, <2>1, <2>3
<1> QED
  BY <1>1, <1>2

\* Each path is the first of an entry, and a URL the second when the first of the
\* list is there.
LEMMA EntriesTell ==
  ASSUME NEW l \in Seq(Place), NEW up \in BOOLEAN, Uniform(l, up), NEW i \in 1..Len(l)
  PROVE  /\ l[i].at = "local" => \E k \in 1..Len(Files!Entries(l)) : Files!Entries(l)[k][1] = l[i]
         /\ l[i].at = "url" /\ Files!Exists(l[1])
              => \E k \in 1..Len(Files!Entries(l)) : Files!Entries(l)[k][2] = l[i]
PROOF
<1> DEFINE e == Files!Entries(l)
<1>0. Len(l) \in Nat /\ i \in Nat /\ 1 <= i /\ i <= Len(l) /\ (\A j \in 1..Len(l) : l[j] \in Place)
  BY LenProperties, ElementOfSeq
<1>1. CASE Files!UsingOap(l)
  <2> DEFINE n == Len(l) \div 2
  <2>1. /\ Len(e) = n /\ n \in Nat /\ Len(l) = 2 * n
        /\ \A k \in 1..n : e[k] = <<l[2 * k - 1], l[2 * k]>>
    BY <1>1, EntriesAre
  <2>2. up
    <3>1. l[2].at = "url" /\ Len(l) >= 2
      BY <1>1 DEF Files!UsingOap
    <3>2. 2 \in 1..Len(l)
      BY <1>0, <3>1
    <3> QED
      BY <3>1, <3>2 DEF Uniform, OnlyPaths
  <2>3. l[i].at = IF i % 2 = 1 THEN "local" ELSE "url"
    BY <2>2 DEF Uniform, InTurn
  <2> HIDE DEF n, e
  <2>4. CASE l[i].at = "local"
    <3>1. i % 2 = 1
      BY <2>3, <2>4
    <3>2. PICK k \in 1..n : i = 2 * k - 1
      <4>1. (i + 1) \div 2 \in 1..n /\ i = 2 * ((i + 1) \div 2) - 1
        BY <1>0, <2>1, <3>1
      <4> QED
        BY <4>1
    <3>3. e[k][1] = l[i]
      BY <2>1, <3>2
    <3> QED
      BY <2>1, <2>4, <3>2, <3>3 DEF e
  <2>5. CASE l[i].at = "url"
    <3>1. i % 2 = 0
      BY <1>0, <2>3, <2>5
    <3>2. PICK k \in 1..n : i = 2 * k
      <4>1. i \div 2 \in 1..n /\ i = 2 * (i \div 2)
        BY <1>0, <2>1, <3>1
      <4> QED
        BY <4>1
    <3>3. e[k][2] = l[i]
      BY <2>1, <3>2
    <3> QED
      BY <2>1, <2>5, <3>2, <3>3 DEF e
  <2>6. l[i].at \in {"local", "url"}
    BY <1>0 DEF Place
  <2> QED
    BY <2>4, <2>5, <2>6
<1>2. CASE ~Files!UsingOap(l)
  <2>1. Len(e) = Len(l) /\ e[i] = <<l[i], NoPlace>>
    BY <1>0, <1>2, EntriesAre
  <2>2. ASSUME l[i].at = "url", Files!Exists(l[1]) PROVE FALSE
    <3>1. InTurn(l)
      BY <2>2 DEF Uniform, OnlyPaths
    <3>2. Len(l) % 2 = 0 /\ Len(l) >= 2
      BY <1>0, <3>1 DEF InTurn
    <3>3. l[2].at = "url"
      BY <1>0, <3>1, <3>2 DEF InTurn
    <3> QED
      BY <1>2, <2>2, <3>2, <3>3 DEF Files!UsingOap
  <2> HIDE DEF e
  <2>3. e[i][1] = l[i] /\ i \in 1..Len(e)
    BY <1>0, <2>1
  <2> QED
    BY <2>2, <2>3 DEF e
<1> QED
  BY <1>1, <1>2

\* FlattenSeq has the elements of all its sequences, and no other.
LEMMA FlattenHas ==
  ASSUME NEW T, NEW P \in Seq(Seq(T))
  PROVE  /\ FlattenSeq(P) \in Seq(T) /\ Len(FlattenSeq(P)) \in Nat
         /\ \A k \in 1..Len(P) : \A x \in 1..Len(P[k]) :
              \E j \in 1..Len(FlattenSeq(P)) : FlattenSeq(P)[j] = P[k][x]
         /\ \A j \in 1..Len(FlattenSeq(P)) :
              \E k \in 1..Len(P) : \E x \in 1..Len(P[k]) : FlattenSeq(P)[j] = P[k][x]
PROOF
<1> DEFINE n == Len(P)
           F == FlattenSeq(P)
<1>0. n \in Nat /\ (\A i \in 1..n : P[i] \in Seq(T)) /\ (\A i \in 1..n : Len(P[i]) \in Nat)
  BY LenProperties, ElementOfSeq
<1>1. F \in Seq(T) /\ \E off : Placed(P, n, F, off)
  BY FlattenAt
<1>2. Len(F) \in Nat
  BY <1>1, LenProperties
<1>7. n = Len(P) /\ F = FlattenSeq(P) /\ F \in Seq(T) /\ \E off : Placed(P, n, F, off)
  BY <1>1
<1> HIDE DEF n, F
<1>3. PICK off : Placed(P, n, F, off)
  BY <1>7
<1>4. ASSUME NEW k \in 1..n, NEW x \in 1..Len(P[k])
      PROVE  \E j \in 1..Len(F) : F[j] = P[k][x]
  <2>1. /\ off[k] \in Nat /\ off[k + 1] \in Nat /\ off[n + 1] = Len(F)
        /\ off[k + 1] = off[k] + Len(P[k]) /\ off[k + 1] <= off[n + 1]
    <3>1. k \in 1..(n + 1) /\ k + 1 \in 1..(n + 1)
      BY <1>0
    <3> QED
      BY <1>3, <3>1 DEF Placed
  <2>2. off[k] + x \in 1..Len(F)
    <3>1. ASSUME NEW o \in Nat, NEW w \in Nat, NEW y \in 1..w, NEW z \in Nat, o + w <= z
          PROVE  o + y \in 1..z
      BY <3>1
    <3> QED
      BY <1>0, <1>2, <2>1, <3>1
  <2>3. F[off[k] + x] = P[k][x]
    BY <1>3 DEF Placed
  <2> QED
    BY <2>2, <2>3
<1>5. ASSUME NEW j \in 1..Len(F)
      PROVE  \E k \in 1..n : \E x \in 1..Len(P[k]) : F[j] = P[k][x]
  <2>1. PICK k \in 1..n : j - off[k] \in 1..Len(P[k])
    BY <1>3, <1>7, PlacedCovers
  <2>2. F[off[k] + (j - off[k])] = P[k][j - off[k]]
    BY <1>3, <2>1 DEF Placed
  <2>3. off[k] \in Nat /\ j \in Nat
    <3>1. k \in 1..(n + 1) /\ Len(F) \in Nat
      BY <1>0, <1>2
    <3> QED
      BY <1>3, <3>1 DEF Placed
  <2>4. off[k] + (j - off[k]) = j
    BY <2>3
  <2> QED
    BY <2>1, <2>2, <2>4
<1> QED
  BY <1>2, <1>4, <1>5, <1>7

\* v has the elements of all sequences of P, and no other.
AllOf(v, P) ==
  /\ \A k \in 1..Len(P) : \A x \in 1..Len(P[k]) : \E j \in 1..Len(v) : v[j] = P[k][x]
  /\ \A j \in 1..Len(v) : \E k \in 1..Len(P) : \E x \in 1..Len(P[k]) : v[j] = P[k][x]

LEMMA FlattenAllOf ==
  ASSUME NEW T, NEW P \in Seq(Seq(T)), NEW v, v = FlattenSeq(P)
  PROVE  v \in Seq(T) /\ Len(v) \in Nat /\ AllOf(v, P)
PROOF
<1> DEFINE F == FlattenSeq(P)
<1>1. F \in Seq(T) /\ Len(F) \in Nat /\ AllOf(F, P)
  BY FlattenHas DEF AllOf
<1>2. v = F
  OBVIOUS
<1> HIDE DEF F
<1> QED
  BY <1>1, <1>2

\* A path with its URL, or a path.
Bit(p, up) ==
  IF up THEN Len(p) = 2 /\ p[1].at = "local" /\ p[2].at = "url"
  ELSE Len(p) = 1 /\ p[1].at = "local"

\* What is even somewhere at first and of the same parity from each position to the
\* next is even.
LEMMA StaysEven ==
  ASSUME NEW n \in Nat, NEW f, f[1] = 0, \A i \in 1..(n + 1) : f[i] \in Nat,
         \A i \in 1..n : f[i] % 2 = 0 => f[i + 1] % 2 = 0
  PROVE  \A i \in 1..(n + 1) : f[i] % 2 = 0
PROOF
<1> DEFINE Odd == {i \in 1..(n + 1) : f[i] % 2 # 0}
<1>1. ASSUME Odd # {} PROVE FALSE
  <2>1. Odd \in SUBSET Nat
    OBVIOUS
  <2>2. PICK i \in Odd : \A j \in Odd : i <= j
    <3> HIDE DEF Odd
    <3> QED
      BY <1>1, <2>1, LeastExists
  <2>3. i \in 1..(n + 1) /\ f[i] % 2 # 0 /\ i # 1
    OBVIOUS
  <2>4. i - 1 \in 1..n /\ i - 1 \in 1..(n + 1) /\ ~(i <= i - 1) /\ (i - 1) + 1 = i
    BY <2>3
  <2>5. i - 1 \notin Odd
    BY <2>2, <2>4
  <2>6. f[i - 1] % 2 = 0
    BY <2>4, <2>5
  <2>7. f[(i - 1) + 1] % 2 = 0
    BY <2>4, <2>6
  <2> QED
    BY <2>3, <2>4, <2>7
<1> QED
  BY <1>1

\* Of such bits a list is made that is all of one kind.
LEMMA FlattenUniform ==
  ASSUME NEW P \in Seq(Seq(Place)), NEW up \in BOOLEAN,
         \A i \in 1..Len(P) : P[i] = <<>> \/ Bit(P[i], up)
  PROVE  Uniform(FlattenSeq(P), up)
PROOF
<1> DEFINE n == Len(P)
           F == FlattenSeq(P)
<1>0. n \in Nat /\ \A i \in 1..n : P[i] \in Seq(Place)
  BY LenProperties, ElementOfSeq
<1>1. F \in Seq(Place) /\ \E off : Placed(P, n, F, off)
  BY FlattenAt
<1>2. Len(F) \in Nat
  BY <1>1, LenProperties
<1>8. n = Len(P) /\ F = FlattenSeq(P) /\ F \in Seq(Place) /\ \E off : Placed(P, n, F, off)
  BY <1>1
<1>4. \A i \in 1..n : (P[i] = <<>> /\ Len(P[i]) = 0) \/ Bit(P[i], up)
  BY EmptySeq
<1> HIDE DEF n, F
<1>3. PICK off : Placed(P, n, F, off)
  BY <1>8
<1>5. ASSUME NEW j \in 1..Len(F)
      PROVE  \E k \in 1..n : j - off[k] \in 1..Len(P[k]) /\ F[j] = P[k][j - off[k]]
  <2>1. PICK k \in 1..n : j - off[k] \in 1..Len(P[k])
    BY <1>3, <1>8, PlacedCovers
  <2>2. F[off[k] + (j - off[k])] = P[k][j - off[k]]
    BY <1>3, <2>1 DEF Placed
  <2>3. off[k] \in Nat /\ j \in Nat
    <3>1. k \in 1..(n + 1) /\ Len(F) \in Nat
      BY <1>0, <1>2
    <3> QED
      BY <1>3, <3>1 DEF Placed
  <2>4. off[k] + (j - off[k]) = j
    BY <2>3
  <2> QED
    BY <2>1, <2>2, <2>4
<1>6. CASE ~up
  <2>1. ASSUME NEW j \in 1..Len(F) PROVE F[j].at = "local"
    <3>1. PICK k \in 1..n : j - off[k] \in 1..Len(P[k]) /\ F[j] = P[k][j - off[k]]
      BY <1>5
    <3>2. Len(P[k]) = 1 /\ P[k][1].at = "local"
      BY <1>4, <1>6, <3>1 DEF Bit
    <3> QED
      BY <3>1, <3>2
  <2> QED
    BY <1>6, <2>1 DEF Uniform, OnlyPaths, F
<1>7. CASE up
  <2>0. \A i \in 1..(n + 1) : off[i] \in Nat
    BY <1>3 DEF Placed
  <2>1. \A i \in 1..(n + 1) : off[i] % 2 = 0
    <3>1. off[1] = 0
      BY <1>3 DEF Placed
    <3>2. ASSUME NEW i \in 1..n, off[i] % 2 = 0 PROVE off[i + 1] % 2 = 0
      <4>1. off[i + 1] = off[i] + Len(P[i])
        BY <1>3 DEF Placed
      <4>2. Len(P[i]) = 0 \/ Len(P[i]) = 2
        BY <1>4, <1>7 DEF Bit
      <4>3. off[i] \in Nat
        BY <1>0, <2>0
      <4>4. ASSUME NEW x \in Nat, x % 2 = 0 PROVE (x + 0) % 2 = 0 /\ (x + 2) % 2 = 0
        BY <4>4
      <4> QED
        BY <3>2, <4>1, <4>2, <4>3, <4>4
    <3> QED
      BY <1>0, <2>0, <3>1, <3>2, StaysEven
  <2>2. Len(F) % 2 = 0
    BY <1>0, <1>3, <2>1 DEF Placed
  <2>3. ASSUME NEW j \in 1..Len(F) PROVE F[j].at = IF j % 2 = 1 THEN "local" ELSE "url"
    <3>1. PICK k \in 1..n : j - off[k] \in 1..Len(P[k]) /\ F[j] = P[k][j - off[k]]
      BY <1>5
    <3>2. Len(P[k]) = 2 /\ P[k][1].at = "local" /\ P[k][2].at = "url"
      BY <1>4, <1>7, <3>1 DEF Bit
    <3>3. off[k] \in Nat /\ off[k] % 2 = 0 /\ j \in Nat
      BY <1>0, <1>2, <2>0, <2>1
    <3>4. ASSUME NEW o \in Nat, o % 2 = 0, NEW y \in Nat, y - o \in 1..2
          PROVE  (y - o = 1 /\ y % 2 = 1) \/ (y - o = 2 /\ y % 2 # 1)
      <4>1. y = o + 1 \/ y = o + 2
        BY <3>4
      <4>2. (o + 1) % 2 = 1 /\ (o + 2) % 2 = 0
        <5>1. o % 2 = 0
          BY <3>4
        <5>2. PICK w \in Nat : o = 2 * w
          <6>1. o \div 2 \in Nat /\ o = 2 * (o \div 2)
            BY <5>1
          <6> QED
            BY <6>1
        <5> QED
          BY <5>2
      <4>3. (o + 1) - o = 1 /\ (o + 2) - o = 2
        BY <3>4
      <4> QED
        BY <4>1, <4>2, <4>3
    <3> QED
      BY <3>1, <3>2, <3>3, <3>4
  <2> QED
    BY <1>7, <2>2, <2>3 DEF Uniform, InTurn, F
<1> QED
  BY <1>6, <1>7

\* Two such lists make one.
LEMMA ConcatUniform ==
  ASSUME NEW a \in Seq(Place), NEW b \in Seq(Place), NEW up \in BOOLEAN, Uniform(a, up), Uniform(b, up)
  PROVE  Uniform(a \o b, up)
PROOF
<1> DEFINE c == a \o b
<1>1. c \in Seq(Place) /\ Joined(c, a, b)
  BY ConcatJoins
<1> HIDE DEF c
<1>2. ASSUME NEW j \in 1..Len(c)
      PROVE  (j \in 1..Len(a) /\ c[j] = a[j]) \/ (j - Len(a) \in 1..Len(b) /\ c[j] = b[j - Len(a)])
  <2>1. ASSUME NEW x \in Nat, NEW y \in Nat, NEW k \in 1..(x + y)
        PROVE  k \in 1..x \/ (k - x \in 1..y /\ x + (k - x) = k)
    OBVIOUS
  <2> QED
    BY <1>1, <2>1 DEF Joined
<1>3. CASE ~up
  <2>1. ASSUME NEW j \in 1..Len(c) PROVE c[j].at = "local"
    BY <1>2, <1>3 DEF Uniform, OnlyPaths
  <2> QED
    BY <1>3, <2>1 DEF Uniform, OnlyPaths, c
<1>4. CASE up
  <2>1. Len(a) \in Nat /\ Len(b) \in Nat /\ Len(a) % 2 = 0 /\ Len(b) % 2 = 0 /\ Len(c) = Len(a) + Len(b)
    BY <1>1, <1>4 DEF Joined, Uniform, InTurn
  <2>2. Len(c) % 2 = 0
    BY <2>1
  <2>3. ASSUME NEW j \in 1..Len(c) PROVE c[j].at = IF j % 2 = 1 THEN "local" ELSE "url"
    <3>1. j - Len(a) \in 1..Len(b) => (j - Len(a)) % 2 = j % 2
      <4>1. ASSUME NEW x \in Nat, x % 2 = 0, NEW k \in Nat, NEW y \in Nat, k - x \in 1..y
            PROVE  (k - x) % 2 = k % 2
        BY <4>1
      <4> DEFINE x == Len(a)
                 y == Len(b)
      <4>2. x \in Nat /\ x % 2 = 0 /\ y \in Nat /\ j \in Nat
        BY <2>1
      <4> HIDE DEF x, y
      <4>3. j - x \in 1..y => (j - x) % 2 = j % 2
        BY <4>1, <4>2
      <4> QED
        BY <4>3 DEF x, y
    <3>2. InTurn(a) /\ InTurn(b)
      BY <1>4 DEF Uniform
    <3>3. CASE j \in 1..Len(a) /\ c[j] = a[j]
      BY <3>2, <3>3 DEF InTurn
    <3>4. CASE j - Len(a) \in 1..Len(b) /\ c[j] = b[j - Len(a)]
      <4>1. b[j - Len(a)].at = IF (j - Len(a)) % 2 = 1 THEN "local" ELSE "url"
        BY <3>2, <3>4 DEF InTurn
      <4> QED
        BY <3>1, <3>4, <4>1
    <3> QED
      BY <1>2, <3>3, <3>4
  <2> QED
    BY <1>4, <2>2, <2>3 DEF Uniform, InTurn, c
<1> QED
  BY <1>3, <1>4

\* What each entry of a row gives to the images (or to the documents).
Shares(l, image) ==
  [i \in DOMAIN Files!Entries(l) |->
     IF Files!IsImage(Files!Entries(l)[i][1]) # image THEN <<>>
     ELSE IF Files!Entries(l)[i][2] = NoPlace THEN <<Files!Entries(l)[i][1]>> ELSE Files!Entries(l)[i]]

LEMMA SharesAre ==
  ASSUME NEW l \in Seq(Place), NEW image \in BOOLEAN
  PROVE  /\ Shares(l, image) \in Seq(Seq(Place)) /\ Files!Divided(l, image) = FlattenSeq(Shares(l, image))
         /\ Len(l) \in Nat /\ \A i \in 1..Len(l) : l[i] \in Place
         /\ IF Files!UsingOap(l)
              THEN /\ Len(Shares(l, image)) = Len(l) \div 2 /\ Len(l) = 2 * (Len(l) \div 2) /\ Len(l) \div 2 \in Nat
                   /\ \A i \in 1..(Len(l) \div 2) :
                        /\ 2 * i - 1 \in 1..Len(l) /\ 2 * i \in 1..Len(l)
                        /\ Shares(l, image)[i] = IF Files!IsImage(l[2 * i - 1]) # image THEN <<>>
                                                 ELSE <<l[2 * i - 1], l[2 * i]>>
              ELSE /\ Len(Shares(l, image)) = Len(l)
                   /\ \A i \in 1..Len(l) :
                        Shares(l, image)[i] = IF Files!IsImage(l[i]) # image THEN <<>> ELSE <<l[i]>>
PROOF
<1> DEFINE e == Files!Entries(l)
           n == Len(e)
           P == Shares(l, image)
<1>0. Len(l) \in Nat /\ \A i \in 1..Len(l) : l[i] \in Place
  BY LenProperties, ElementOfSeq
<1>1. e \in Seq(Entry)
  BY EntriesAre
<1>2. n \in Nat /\ DOMAIN e = 1..n /\ \A i \in 1..n : e[i] \in Entry
  BY <1>1, LenProperties, ElementOfSeq
<1>3. Files!Divided(l, image) = FlattenSeq(P)
  <2> DEFINE Q == [i \in DOMAIN Files!Entries(l) |->
                     LET x == Files!Entries(l)[i]
                     IN IF Files!IsImage(x[1]) # image THEN <<>>
                        ELSE IF x[2] = Files!NoLoc THEN <<x[1]>> ELSE x]
  <2>1. Q = P
    BY DEF Shares, NoPlace
  <2>2. Files!Divided(l, image) = FlattenSeq(Q)
    BY FilesFlatten DEF Files!Divided
  <2> HIDE DEF Q, P
  <2> QED
    BY <2>1, <2>2
<1>4. P = [i \in 1..n |-> IF Files!IsImage(e[i][1]) # image THEN <<>>
                           ELSE IF e[i][2] = NoPlace THEN <<e[i][1]>> ELSE e[i]]
  BY <1>2 DEF Shares
<1> HIDE DEF P, e, n
<1>5. ASSUME NEW i \in 1..n
      PROVE  (IF Files!IsImage(e[i][1]) # image THEN <<>>
              ELSE IF e[i][2] = NoPlace THEN <<e[i][1]>> ELSE e[i]) \in Seq(Place)
  <2>1. PICK x \in Place, y \in Place \cup {NoPlace} : e[i] = <<x, y>>
    BY <1>2 DEF Entry
  <2>2. <<x>> \in Seq(Place) /\ (y \in Place => <<x, y>> \in Seq(Place)) /\ <<>> \in Seq(Place)
    OBVIOUS
  <2>3. e[i][1] = x /\ e[i][2] = y
    BY <2>1
  <2> QED
    BY <2>1, <2>2, <2>3
<1>6. P \in [1..n -> Seq(Place)]
  BY <1>4, <1>5
<1>7. P \in Seq(Seq(Place)) /\ Len(P) = n
  BY <1>2, <1>6, FunSeq
<1>8. CASE Files!UsingOap(l)
  <2>1. /\ n = Len(l) \div 2 /\ Len(l) \div 2 \in Nat /\ Len(l) = 2 * (Len(l) \div 2)
        /\ \A i \in 1..(Len(l) \div 2) :
             /\ 2 * i - 1 \in 1..Len(l) /\ 2 * i \in 1..Len(l)
             /\ e[i] = <<l[2 * i - 1], l[2 * i]>>
    BY <1>8, EntriesAre DEF e, n
  <2>2. ASSUME NEW i \in 1..n
        PROVE  P[i] = IF Files!IsImage(l[2 * i - 1]) # image THEN <<>> ELSE <<l[2 * i - 1], l[2 * i]>>
    <3>1. e[i] = <<l[2 * i - 1], l[2 * i]>> /\ 2 * i \in 1..Len(l)
      BY <2>1
    <3>2. l[2 * i] # NoPlace
      BY <1>0, <3>1, NoPlaceIsNone
    <3>3. e[i][1] = l[2 * i - 1] /\ e[i][2] = l[2 * i]
      BY <3>1
    <3>4. P[i] = IF Files!IsImage(e[i][1]) # image THEN <<>>
                 ELSE IF e[i][2] = NoPlace THEN <<e[i][1]>> ELSE e[i]
      BY <1>4
    <3> QED
      BY <3>1, <3>2, <3>3, <3>4
  <2> QED
    BY <1>0, <1>3, <1>7, <1>8, <2>1, <2>2 DEF P
<1>9. CASE ~Files!UsingOap(l)
  <2>1. n = Len(l) /\ \A i \in 1..Len(l) : e[i] = <<l[i], NoPlace>>
    BY <1>9, EntriesAre DEF e, n
  <2>2. ASSUME NEW i \in 1..n
        PROVE  P[i] = IF Files!IsImage(l[i]) # image THEN <<>> ELSE <<l[i]>>
    <3>1. e[i][1] = l[i] /\ e[i][2] = NoPlace
      BY <2>1
    <3>2. P[i] = IF Files!IsImage(e[i][1]) # image THEN <<>>
                 ELSE IF e[i][2] = NoPlace THEN <<e[i][1]>> ELSE e[i]
      BY <1>4
    <3> QED
      BY <3>1, <3>2
  <2> QED
    BY <1>0, <1>3, <1>7, <1>9, <2>1, <2>2 DEF P
<1> QED
  BY <1>8, <1>9

\* a and b are the images and the documents of l.
Parted(l, a, b) ==
  /\ \A i \in 1..Len(l) : (\E j \in 1..Len(a) : a[j] = l[i]) \/ (\E j \in 1..Len(b) : b[j] = l[i])
  /\ \A j \in 1..Len(a) : \E i \in 1..Len(l) : a[j] = l[i]
  /\ \A j \in 1..Len(b) : \E i \in 1..Len(l) : b[j] = l[i]
  /\ \A j \in 1..Len(a) : a[j].at = "local" => Files!IsImage(a[j])
  /\ \A j \in 1..Len(b) : b[j].at = "local" => ~Files!IsImage(b[j])

\* A row falls into lists of its own kind, unless the first file is gone and another is
\* stored under a name of another kind.
LEMMA DividedUniform ==
  ASSUME NEW l \in Seq(Place), NEW up \in BOOLEAN, Uniform(l, up), NEW image \in BOOLEAN,
         Files!SameKind(l) \/ Files!Exists(l[1])
  PROVE  Uniform(Files!Divided(l, image), up)
PROOF
<1> DEFINE P == Shares(l, image)
           n == Len(l)
           F == Files!Divided(l, image)
<1>0. P \in Seq(Seq(Place)) /\ F = FlattenSeq(P) /\ n \in Nat /\ \A i \in 1..n : l[i] \in Place
  BY SharesAre
<1>1. CASE Files!UsingOap(l)
  <2>1. up
    <3>1. l[2].at = "url" /\ 2 \in 1..n
      BY <1>0, <1>1 DEF Files!UsingOap
    <3> QED
      BY <3>1 DEF Uniform, OnlyPaths
  <2>2. InTurn(l)
    BY <2>1 DEF Uniform
  <2> DEFINE m == n \div 2
  <2>3. Len(P) = m /\ \A i \in 1..m : /\ 2 * i - 1 \in 1..n /\ 2 * i \in 1..n
                                      /\ P[i] = IF Files!IsImage(l[2 * i - 1]) # image THEN <<>>
                                                ELSE <<l[2 * i - 1], l[2 * i]>>
    BY <1>1, SharesAre
  <2> HIDE DEF P, m
  <2>4. ASSUME NEW i \in 1..m PROVE P[i] = <<>> \/ Bit(P[i], up)
    <3>1. l[2 * i - 1].at = "local" /\ l[2 * i].at = "url"
      <4>1. (2 * i - 1) % 2 = 1 /\ (2 * i) % 2 = 0
        OBVIOUS
      <4>2. 2 * i - 1 \in 1..n /\ 2 * i \in 1..n
        BY <2>3
      <4>3. \A x \in 1..n : l[x].at = IF x % 2 = 1 THEN "local" ELSE "url"
        BY <2>2 DEF InTurn
      <4>4. ASSUME NEW x \in 1..n PROVE l[x].at = IF x % 2 = 1 THEN "local" ELSE "url"
        BY <4>3
      <4> HIDE DEF n
      <4>5. l[2 * i - 1].at = IF (2 * i - 1) % 2 = 1 THEN "local" ELSE "url"
        BY <4>2, <4>4
      <4>6. l[2 * i].at = IF (2 * i) % 2 = 1 THEN "local" ELSE "url"
        BY <4>2, <4>4
      <4> QED
        BY <4>1, <4>5, <4>6
    <3>2. ASSUME P[i] # <<>> PROVE Bit(P[i], up)
      <4>1. P[i] = <<l[2 * i - 1], l[2 * i]>>
        BY <2>3, <3>2
      <4> QED
        BY <2>1, <3>1, <4>1 DEF Bit
    <3> QED
      BY <3>2
  <2> QED
    BY <1>0, <2>3, <2>4, FlattenUniform
<1>2. CASE ~Files!UsingOap(l)
  <2>1. Len(P) = n /\ \A i \in 1..n : P[i] = IF Files!IsImage(l[i]) # image THEN <<>> ELSE <<l[i]>>
    BY <1>2, SharesAre
  <2> HIDE DEF P
  <2>2. CASE ~up
    <3>1. ASSUME NEW i \in 1..n PROVE P[i] = <<>> \/ Bit(P[i], up)
      <4>1. l[i].at = "local"
        BY <2>2 DEF Uniform, OnlyPaths
      <4>2. P[i] = <<>> \/ (Len(P[i]) = 1 /\ P[i][1] = l[i])
        BY <2>1, OneOf
      <4> QED
        BY <2>2, <4>1, <4>2 DEF Bit
    <3> QED
      BY <1>0, <2>1, <3>1, FlattenUniform
  <2>3. CASE up
    <3>1. InTurn(l)
      BY <2>3 DEF Uniform
    <3>2. PICK m \in Nat : n = 2 * m
      <4>1. n % 2 = 0
        BY <3>1 DEF InTurn
      <4>2. n \div 2 \in Nat /\ n = 2 * (n \div 2)
        BY <1>0, <4>1
      <4> QED
        BY <4>2
    <3>3. \A k \in 1..m : /\ 2 * k - 1 \in 1..n /\ 2 * k \in 1..n /\ (2 * k - 1) % 2 = 1 /\ (2 * k) % 2 = 0
                          /\ 2 * k - 1 \in 1..(n - 1) /\ (2 * k - 1) + 1 = 2 * k
      BY <3>2
    <3>4. \A k \in 1..m : l[2 * k - 1].at = "local" /\ l[2 * k].at = "url"
      BY <3>1, <3>3 DEF InTurn
    <3>5. \A k \in 1..m : Files!IsImage(l[2 * k - 1]) = Files!IsImage(l[2 * k])
      <4>1. CASE Files!SameKind(l)
        BY <3>3, <3>4, <4>1 DEF Files!SameKind
      <4>2. CASE Files!Exists(l[1]) /\ m # 0
        <5>1. 1 \in 1..m /\ 2 * 1 = 2 /\ Len(l) >= 2
          BY <3>2, <4>2
        <5>2. l[2].at = "url"
          BY <3>4, <5>1
        <5> QED
          BY <1>2, <3>1, <4>2, <5>1, <5>2 DEF Files!UsingOap, InTurn
      <4> QED
        BY <4>1, <4>2
    <3>6. F \in Seq(Place) /\ Len(F) \in Nat /\ \E off : Placed(P, n, F, off)
      <4>1. F \in Seq(Place) /\ \E off : Placed(P, n, F, off)
        BY <1>0, <2>1, FlattenAt
      <4> QED
        BY <4>1, LenProperties
    <3> HIDE DEF n, F
    <3>7. PICK off : Placed(P, n, F, off)
      BY <3>6
    <3>8. \A i \in 1..n : Len(P[i]) = IF Files!IsImage(l[i]) # image THEN 0 ELSE 1
      BY <2>1, OneOf, EmptySeq
    <3>9. (\A i \in 1..(n + 1) : off[i] \in Nat) /\ (\A i \in 1..n : off[i + 1] = off[i] + Len(P[i]))
          /\ off[1] = 0 /\ Len(F) = off[n + 1]
      BY <3>7 DEF Placed
    <3>10. \A k \in 1..m : /\ off[2 * k - 1] \in Nat
                           /\ off[2 * k] = off[2 * k - 1] + Len(P[2 * k - 1])
                           /\ off[2 * k + 1] = off[2 * k] + Len(P[2 * k])
                           /\ Len(P[2 * k - 1]) = Len(P[2 * k])
      <4>1. SUFFICES ASSUME NEW k \in 1..m
                     PROVE  /\ off[2 * k - 1] \in Nat
                            /\ off[2 * k] = off[2 * k - 1] + Len(P[2 * k - 1])
                            /\ off[2 * k + 1] = off[2 * k] + Len(P[2 * k])
                            /\ Len(P[2 * k - 1]) = Len(P[2 * k])
        OBVIOUS
      <4>2. 2 * k - 1 \in 1..n /\ 2 * k \in 1..n /\ (2 * k - 1) + 1 = 2 * k /\ 2 * k - 1 \in 1..(n + 1)
        <5>1. \A x \in 1..n : x \in 1..(n + 1)
          BY <1>0 DEF n
        <5> QED
          BY <3>3, <5>1
      <4>3. off[(2 * k - 1) + 1] = off[2 * k - 1] + Len(P[2 * k - 1])
        BY <3>9, <4>2
      <4>4. Len(P[2 * k - 1]) = Len(P[2 * k])
        BY <3>5, <3>8, <4>2
      <4> QED
        BY <3>9, <4>2, <4>3, <4>4
    <3> DEFINE f == [k \in 1..(m + 1) |-> off[2 * k - 1]]
    <3>11. \A k \in 1..(m + 1) : f[k] = off[2 * k - 1]
      OBVIOUS
    <3>12. \A k \in 1..(m + 1) : f[k] \in Nat
      <4>1. \A k \in 1..(m + 1) : 2 * k - 1 \in 1..(n + 1)
        BY <3>2
      <4> QED
        BY <3>9, <3>11, <4>1
    <3> HIDE DEF f
    <3>13. \A k \in 1..(m + 1) : f[k] % 2 = 0
      <4>1. f[1] = 0
        <5>1. 1 \in 1..(m + 1) /\ 2 * 1 - 1 = 1
          OBVIOUS
        <5> QED
          BY <3>9, <3>11, <5>1
      <4>2. ASSUME NEW k \in 1..m, f[k] % 2 = 0 PROVE f[k + 1] % 2 = 0
        <5>1. k \in 1..(m + 1) /\ k + 1 \in 1..(m + 1) /\ 2 * (k + 1) - 1 = 2 * k + 1
          OBVIOUS
        <5>2. f[k] = off[2 * k - 1] /\ f[k + 1] = off[2 * k + 1]
          BY <3>11, <5>1
        <5>3. Len(P[2 * k]) = 0 \/ Len(P[2 * k]) = 1
          BY <3>3, <3>8
        <5>4. f[k] \in Nat /\ (f[k + 1] = f[k] + 0 \/ f[k + 1] = (f[k] + 1) + 1)
          <6>1. /\ off[2 * k - 1] \in Nat /\ off[2 * k] = off[2 * k - 1] + Len(P[2 * k - 1])
                /\ off[2 * k + 1] = off[2 * k] + Len(P[2 * k]) /\ Len(P[2 * k - 1]) = Len(P[2 * k])
            BY <3>10
          <6>2. f[k] \in Nat /\ f[k + 1] = (f[k] + Len(P[2 * k])) + Len(P[2 * k])
            BY <5>2, <6>1
          <6>3. CASE Len(P[2 * k]) = 0
            BY <6>2, <6>3
          <6>4. CASE Len(P[2 * k]) = 1
            BY <6>2, <6>4
          <6> QED
            BY <5>3, <6>2, <6>3, <6>4
        <5>5. ASSUME NEW x \in Nat, x % 2 = 0 PROVE (x + 0) % 2 = 0 /\ ((x + 1) + 1) % 2 = 0
          BY <5>5
        <5> QED
          BY <4>2, <5>4, <5>5
      <4> QED
        BY <3>12, <4>1, <4>2, StaysEven
    <3>14. Len(F) % 2 = 0
      <4>1. m + 1 \in 1..(m + 1) /\ 2 * (m + 1) - 1 = n + 1
        BY <3>2
      <4> QED
        BY <3>9, <3>11, <3>13, <4>1
    <3>15. ASSUME NEW j \in 1..Len(F) PROVE F[j].at = IF j % 2 = 1 THEN "local" ELSE "url"
      <4>1. PICK i \in 1..n : j - off[i] \in 1..Len(P[i])
        BY <1>0, <2>1, <3>7, PlacedCovers
      <4>2. Files!IsImage(l[i]) = image /\ Len(P[i]) = 1 /\ P[i] = <<l[i]>>
        BY <2>1, <3>8, <4>1
      <4>3. off[i] \in Nat /\ j \in Nat /\ j = off[i] + 1
        <5>1. off[i] \in Nat /\ j \in Nat
          <6>1. i \in 1..(n + 1)
            BY <1>0 DEF n
          <6> QED
            BY <3>6, <3>9, <6>1
        <5> QED
          BY <4>1, <4>2, <5>1
      <4>4. F[j] = l[i]
        <5>1. 1 \in 1..Len(P[i])
          BY <4>2
        <5>2. F[off[i] + 1] = P[i][1]
          BY <3>7, <5>1 DEF Placed
        <5> QED
          BY <4>2, <4>3, <5>2
      <4>5. PICK k \in 1..m : i = 2 * k - 1 \/ i = 2 * k
        <5>1. ASSUME NEW y \in 1..(2 * m) PROVE \E k \in 1..m : y = 2 * k - 1 \/ y = 2 * k
          <6>1. CASE y % 2 = 0
            <7>1. y \div 2 \in 1..m /\ y = 2 * (y \div 2)
              BY <6>1
            <7> QED
              BY <7>1
          <6>2. CASE y % 2 = 1
            <7>1. (y + 1) \div 2 \in 1..m /\ y = 2 * ((y + 1) \div 2) - 1
              BY <6>2
            <7> QED
              BY <7>1
          <6>3. y % 2 \in {0, 1}
            OBVIOUS
          <6> QED
            BY <6>1, <6>2, <6>3
        <5> QED
          BY <3>2, <5>1
      <4>6. f[k] = off[2 * k - 1] /\ f[k] % 2 = 0 /\ f[k] \in Nat
        <5>1. k \in 1..(m + 1)
          OBVIOUS
        <5> QED
          BY <3>11, <3>12, <3>13, <5>1
      <4>7. ASSUME NEW x \in Nat, x % 2 = 0 PROVE (x + 1) % 2 = 1 /\ ((x + 1) + 1) % 2 = 0
        BY <4>7
      <4>8. CASE i = 2 * k - 1
        <5>1. j % 2 = 1
          BY <4>3, <4>6, <4>7, <4>8
        <5> QED
          BY <3>4, <4>4, <4>8, <5>1
      <4>9. CASE i = 2 * k
        <5>1. Len(P[2 * k - 1]) = 1 /\ off[i] = f[k] + 1
          BY <3>10, <4>2, <4>6, <4>9
        <5>2. j % 2 = 0
          BY <4>3, <4>6, <4>7, <5>1
        <5> QED
          BY <3>4, <4>4, <4>9, <5>2
      <4> QED
        BY <4>5, <4>8, <4>9
    <3> QED
      BY <2>3, <3>14, <3>15 DEF Uniform, InTurn, F
  <2> QED
    BY <2>2, <2>3
<1> QED
  BY <1>1, <1>2

\* Each number up to 2 m is odd or even.
LEMMA HalfOf ==
  ASSUME NEW m \in Nat, NEW i \in 1..(2 * m)
  PROVE  \E k \in 1..m : (i = 2 * k - 1 /\ i % 2 = 1) \/ (i = 2 * k /\ i % 2 = 0 /\ i - 1 = 2 * k - 1)
PROOF
<1>1. CASE i % 2 = 0
  <2>1. i \div 2 \in 1..m /\ i = 2 * (i \div 2)
    BY <1>1
  <2> QED
    BY <1>1, <2>1
<1>2. CASE i % 2 = 1
  <2>1. (i + 1) \div 2 \in 1..m /\ i = 2 * ((i + 1) \div 2) - 1
    BY <1>2
  <2> QED
    BY <1>2, <2>1
<1>3. i % 2 \in {0, 1}
  OBVIOUS
<1> QED
  BY <1>1, <1>2, <1>3

\* Where a place of a row goes: a URL with its path, if it is known to be one.
GoesWith(l, i) == IF Files!UsingOap(l) /\ i % 2 = 0 THEN Files!IsImage(l[i - 1]) ELSE Files!IsImage(l[i])

\* What the images (or the documents) of a row are.
LEMMA DividedHas ==
  ASSUME NEW l \in Seq(Place), NEW image \in BOOLEAN
  PROVE  LET d == Files!Divided(l, image)
         IN /\ d \in Seq(Place) /\ Len(d) \in Nat
            /\ \A j \in 1..Len(d) : \E i \in 1..Len(l) : d[j] = l[i]
            /\ \A i \in 1..Len(l) : GoesWith(l, i) = image => \E j \in 1..Len(d) : d[j] = l[i]
            /\ (\E up \in BOOLEAN : Uniform(l, up))
                 => \A j \in 1..Len(d) : d[j].at = "local" => Files!IsImage(d[j]) = image
PROOF
<1> DEFINE P == Shares(l, image)
           d == Files!Divided(l, image)
<1>0. P \in Seq(Seq(Place)) /\ d = FlattenSeq(P) /\ Len(l) \in Nat /\ \A i \in 1..Len(l) : l[i] \in Place
  BY SharesAre
<1>a. IF Files!UsingOap(l)
      THEN /\ Len(P) = Len(l) \div 2 /\ Len(l) = 2 * (Len(l) \div 2) /\ Len(l) \div 2 \in Nat
           /\ \A i \in 1..(Len(l) \div 2) :
                /\ 2 * i - 1 \in 1..Len(l) /\ 2 * i \in 1..Len(l)
                /\ P[i] = IF Files!IsImage(l[2 * i - 1]) # image THEN <<>> ELSE <<l[2 * i - 1], l[2 * i]>>
      ELSE /\ Len(P) = Len(l)
           /\ \A i \in 1..Len(l) : P[i] = IF Files!IsImage(l[i]) # image THEN <<>> ELSE <<l[i]>>
  BY SharesAre
<1> HIDE DEF P, d
<1>1. /\ d \in Seq(Place) /\ Len(d) \in Nat
      /\ \A k \in 1..Len(P) : \A x \in 1..Len(P[k]) : \E j \in 1..Len(d) : d[j] = P[k][x]
      /\ \A j \in 1..Len(d) : \E k \in 1..Len(P) : \E x \in 1..Len(P[k]) : d[j] = P[k][x]
  <2>1. d \in Seq(Place) /\ Len(d) \in Nat /\ AllOf(d, P)
    BY <1>0, FlattenAllOf
  <2> QED
    BY <2>1 DEF AllOf
<1>2. CASE Files!UsingOap(l)
  <2> DEFINE m == Len(l) \div 2
  <2>1. /\ Len(P) = m /\ Len(l) = 2 * m /\ m \in Nat
        /\ \A i \in 1..m :
             /\ 2 * i - 1 \in 1..Len(l) /\ 2 * i \in 1..Len(l)
             /\ P[i] = IF Files!IsImage(l[2 * i - 1]) # image THEN <<>> ELSE <<l[2 * i - 1], l[2 * i]>>
    BY <1>a, <1>2
  <2> HIDE DEF m
  <2>2. ASSUME NEW j \in 1..Len(d)
        PROVE  \E k \in 1..m : Files!IsImage(l[2 * k - 1]) = image /\ (d[j] = l[2 * k - 1] \/ d[j] = l[2 * k])
    <3>1. PICK k \in 1..m : \E x \in 1..Len(P[k]) : d[j] = P[k][x]
      BY <1>1, <2>1
    <3>2. PICK x \in 1..Len(P[k]) : d[j] = P[k][x]
      BY <3>1
    <3>3. Files!IsImage(l[2 * k - 1]) = image /\ P[k] = <<l[2 * k - 1], l[2 * k]>>
      <4>1. CASE Files!IsImage(l[2 * k - 1]) # image
        <5>1. P[k] = <<>>
          BY <2>1, <4>1
        <5> QED
          BY <3>2, <5>1
      <4> QED
        BY <2>1, <4>1
    <3>4. x \in 1..2 /\ P[k][1] = l[2 * k - 1] /\ P[k][2] = l[2 * k]
      BY <3>2, <3>3
    <3>5. x = 1 \/ x = 2
      BY <3>4
    <3> QED
      BY <3>2, <3>3, <3>4, <3>5
  <2>3. ASSUME NEW j \in 1..Len(d), NEW up \in BOOLEAN, Uniform(l, up), d[j].at = "local"
        PROVE  Files!IsImage(d[j]) = image
    <3>1. PICK k \in 1..m : Files!IsImage(l[2 * k - 1]) = image /\ (d[j] = l[2 * k - 1] \/ d[j] = l[2 * k])
      BY <2>2
    <3>2. ASSUME d[j] = l[2 * k] PROVE FALSE
      <4>1. up
        <5>1. l[2].at = "url" /\ 2 \in 1..Len(l)
          BY <1>0, <1>2 DEF Files!UsingOap
        <5> QED
          BY <2>3, <5>1 DEF Uniform, OnlyPaths
      <4>2. (2 * k) % 2 # 1 /\ 2 * k \in 1..Len(l)
        BY <2>1
      <4>3. ASSUME NEW x \in 1..Len(l) PROVE l[x].at = IF x % 2 = 1 THEN "local" ELSE "url"
        BY <2>3, <4>1 DEF Uniform, InTurn
      <4>4. l[2 * k].at = IF (2 * k) % 2 = 1 THEN "local" ELSE "url"
        BY <4>2, <4>3
      <4> QED
        BY <2>3, <3>2, <4>2, <4>4
    <3> QED
      BY <3>1, <3>2
  <2>4. ASSUME NEW i \in 1..Len(l), GoesWith(l, i) = image
        PROVE  \E j \in 1..Len(d) : d[j] = l[i]
    <3>1. PICK k \in 1..m : (i = 2 * k - 1 /\ i % 2 = 1) \/ (i = 2 * k /\ i % 2 = 0 /\ i - 1 = 2 * k - 1)
      BY <2>1, HalfOf
    <3>2. Files!IsImage(l[2 * k - 1]) = image
      BY <1>2, <2>4, <3>1 DEF GoesWith
    <3>3. P[k] = <<l[2 * k - 1], l[2 * k]>>
      BY <2>1, <3>2
    <3>4. \A x \in 1..2 : \E j \in 1..Len(d) : d[j] = P[k][x]
      <4>1. Len(P[k]) = 2
        BY <3>3
      <4> QED
        BY <1>1, <2>1, <4>1
    <3>5. P[k][1] = l[2 * k - 1] /\ P[k][2] = l[2 * k] /\ 1 \in 1..2 /\ 2 \in 1..2
      BY <3>3
    <3> QED
      BY <3>1, <3>4, <3>5
  <2> QED
    BY <1>1, <2>1, <2>2, <2>3, <2>4 DEF d
<1>3. CASE ~Files!UsingOap(l)
  <2>1. Len(P) = Len(l) /\ \A i \in 1..Len(l) : P[i] = IF Files!IsImage(l[i]) # image THEN <<>> ELSE <<l[i]>>
    BY <1>a, <1>3
  <2>2. ASSUME NEW j \in 1..Len(d)
        PROVE  \E k \in 1..Len(l) : Files!IsImage(l[k]) = image /\ d[j] = l[k]
    <3>1. PICK k \in 1..Len(l) : \E x \in 1..Len(P[k]) : d[j] = P[k][x]
      BY <1>1, <2>1
    <3>2. PICK x \in 1..Len(P[k]) : d[j] = P[k][x]
      BY <3>1
    <3>3. Files!IsImage(l[k]) = image /\ P[k] = <<l[k]>>
      <4>1. CASE Files!IsImage(l[k]) # image
        <5>1. P[k] = <<>>
          BY <2>1, <4>1
        <5> QED
          BY <3>2, <5>1
      <4> QED
        BY <2>1, <4>1
    <3> QED
      BY <3>2, <3>3
  <2>3. ASSUME NEW i \in 1..Len(l), GoesWith(l, i) = image
        PROVE  \E j \in 1..Len(d) : d[j] = l[i]
    <3>1. P[i] = <<l[i]>>
      BY <1>3, <2>1, <2>3 DEF GoesWith
    <3>2. 1 \in 1..Len(P[i]) /\ P[i][1] = l[i]
      BY <3>1
    <3> QED
      BY <1>1, <2>1, <3>2
  <2> QED
    BY <1>1, <2>2, <2>3 DEF d
<1> QED
  BY <1>2, <1>3

\* A row is parted into its images and its documents.
LEMMA DividedParts ==
  ASSUME NEW l \in Seq(Place), \E up \in BOOLEAN : Uniform(l, up)
  PROVE  Parted(l, Files!Divided(l, TRUE), Files!Divided(l, FALSE))
PROOF
<1> DEFINE a == Files!Divided(l, TRUE)
           b == Files!Divided(l, FALSE)
<1>1. /\ \A j \in 1..Len(a) : \E i \in 1..Len(l) : a[j] = l[i]
      /\ \A i \in 1..Len(l) : GoesWith(l, i) = TRUE => \E j \in 1..Len(a) : a[j] = l[i]
      /\ \A j \in 1..Len(a) : a[j].at = "local" => Files!IsImage(a[j]) = TRUE
  BY DividedHas
<1>2. /\ \A j \in 1..Len(b) : \E i \in 1..Len(l) : b[j] = l[i]
      /\ \A i \in 1..Len(l) : GoesWith(l, i) = FALSE => \E j \in 1..Len(b) : b[j] = l[i]
      /\ \A j \in 1..Len(b) : b[j].at = "local" => Files!IsImage(b[j]) = FALSE
  BY DividedHas
<1>3. \A i \in 1..Len(l) : GoesWith(l, i) \in BOOLEAN
  BY DEF GoesWith, Files!IsImage
<1> HIDE DEF a, b
<1>4. Parted(l, a, b)
  BY <1>1, <1>2, <1>3 DEF Parted
<1> QED
  BY <1>4 DEF a, b

\* Where an upload is stored: by the names D, and at a URL or not.
PlacesBy(f, D, url) ==
  <<[at |-> "local", content |-> f.content, name |-> D[f.content]]>> \o (IF url THEN <<Files!Url(f)>> ELSE <<>>)
ListingOf(fs, D, U, image) ==
  [i \in DOMAIN fs |->
     IF Files!IsImage(PlacesBy(fs[i], D, i \in U)[1]) = image THEN PlacesBy(fs[i], D, i \in U) ELSE <<>>]

LEMMA PlacesAre ==
  ASSUME NEW f \in Uploads, NEW D, D[f.content] \in FileNames, NEW url \in BOOLEAN
  PROVE  LET p == PlacesBy(f, D, url)
         IN /\ p \in Seq(Place) /\ Len(p) \in Nat /\ 1 \in 1..Len(p) /\ p[1].at = "local"
            /\ \A x \in 1..Len(p) : x = 1 \/ (x = 2 /\ p[x].at = "url")
            /\ Bit(p, url)
PROOF
<1> DEFINE l == [at |-> "local", content |-> f.content, name |-> D[f.content]]
           u == Files!Url(f)
           p == PlacesBy(f, D, url)
<1>1. l \in Place /\ u \in Place /\ l.at = "local" /\ u.at = "url"
  BY DEF Place, FileContents, FileNames, Files!Url
<1>2. p = <<l>> \o (IF url THEN <<u>> ELSE <<>>)
  BY DEF PlacesBy
<1> HIDE DEF l, u, p
<1>3. CASE url
  <2>1. p = <<l>> \o <<u>>
    BY <1>2, <1>3
  <2>2. /\ <<l>> \in Seq(Place) /\ Len(<<l>>) = 1 /\ <<l>>[1] = l
        /\ <<u>> \in Seq(Place) /\ Len(<<u>>) = 1 /\ <<u>>[1] = u
    BY <1>1
  <2>3. p \in Seq(Place) /\ Joined(p, <<l>>, <<u>>)
    BY <2>1, <2>2, ConcatJoins
  <2>4. Len(p) = 2 /\ p[1] = l /\ p[2] = u
    <3>1. /\ Len(p) = 1 + 1 /\ \A k \in 1..1 : p[k] = <<l>>[k]
          /\ \A k \in 1..1 : p[1 + k] = <<u>>[k]
      BY <2>2, <2>3 DEF Joined
    <3>2. 1 \in 1..1 /\ 1 + 1 = 2
      OBVIOUS
    <3>3. p[1] = <<l>>[1] /\ p[1 + 1] = <<u>>[1]
      BY <3>1, <3>2
    <3> QED
      BY <2>2, <3>1, <3>2, <3>3
  <2>5. \A x \in 1..Len(p) : x = 1 \/ (x = 2 /\ p[x].at = "url")
    <3>1. \A x \in 1..2 : x = 1 \/ x = 2
      OBVIOUS
    <3> QED
      BY <1>1, <2>4, <3>1
  <2>6. Bit(p, url)
    BY <1>1, <1>3, <2>4 DEF Bit
  <2>7. 1 \in 1..Len(p) /\ Len(p) \in Nat /\ p[1].at = "local"
    BY <1>1, <2>4
  <2> QED
    BY <2>3, <2>5, <2>6, <2>7 DEF p
<1>4. CASE ~url
  <2>1. p = <<l>>
    BY <1>2, <1>4
  <2> QED
    BY <1>1, <1>4, <2>1 DEF Bit, p
<1> QED
  BY <1>3, <1>4

\* The list a is of images (or of documents), and of one kind if all uploads are.
ListOf(a, fs, U, image) ==
  /\ \A j \in 1..Len(a) : a[j].at = "local" => Files!IsImage(a[j]) = image
  /\ \A up \in BOOLEAN : (\A i \in DOMAIN fs : (i \in U) = up) => Uniform(a, up)

\* What comes of an upload is images or documents.
LEMMA ListingAre ==
  ASSUME NEW fs \in Seq(Uploads), NEW D, \A i \in DOMAIN fs : D[fs[i].content] \in FileNames,
         NEW U, NEW image \in BOOLEAN, NEW a, a = FlattenSeq(ListingOf(fs, D, U, image))
  PROVE  a \in Seq(Place) /\ ListOf(a, fs, U, image)
PROOF
<1> DEFINE n == Len(fs)
           p(i) == PlacesBy(fs[i], D, i \in U)
           P == ListingOf(fs, D, U, image)
<1>0. n \in Nat /\ DOMAIN fs = 1..n /\ \A i \in 1..n : fs[i] \in Uploads
  BY LenProperties, ElementOfSeq
<1>1. \A i \in 1..n : /\ p(i) \in Seq(Place) /\ Len(p(i)) \in Nat /\ 1 \in 1..Len(p(i)) /\ p(i)[1].at = "local"
                      /\ \A x \in 1..Len(p(i)) : x = 1 \/ (x = 2 /\ p(i)[x].at = "url")
                      /\ Bit(p(i), i \in U)
  <2>1. ASSUME NEW i \in 1..n
        PROVE  /\ p(i) \in Seq(Place) /\ Len(p(i)) \in Nat /\ 1 \in 1..Len(p(i)) /\ p(i)[1].at = "local"
               /\ \A x \in 1..Len(p(i)) : x = 1 \/ (x = 2 /\ p(i)[x].at = "url")
               /\ Bit(p(i), i \in U)
    <3>1. fs[i] \in Uploads /\ D[fs[i].content] \in FileNames /\ (i \in U) \in BOOLEAN
      BY <1>0
    <3> HIDE DEF n
    <3> QED
      BY <3>1, PlacesAre
  <2> QED
    BY <2>1
<1>2. P = [i \in 1..n |-> IF Files!IsImage(p(i)[1]) = image THEN p(i) ELSE <<>>]
  BY <1>0 DEF ListingOf
<1> HIDE DEF p, P, n
<1>3. P \in [1..n -> Seq(Place)]
  BY <1>1, <1>2, EmptySeq
<1>4. P \in Seq(Seq(Place)) /\ Len(P) = n
  BY <1>0, <1>3, FunSeq
<1>5. /\ a \in Seq(Place) /\ Len(a) \in Nat
      /\ \A j \in 1..Len(a) : \E k \in 1..Len(P) : \E x \in 1..Len(P[k]) : a[j] = P[k][x]
  <2>1. a = FlattenSeq(P)
    BY DEF P
  <2>2. a \in Seq(Place) /\ Len(a) \in Nat /\ AllOf(a, P)
    BY <1>4, <2>1, FlattenAllOf
  <2> QED
    BY <2>2 DEF AllOf
<1>6. ASSUME NEW j \in 1..Len(a), a[j].at = "local" PROVE Files!IsImage(a[j]) = image
  <2>1. PICK k \in 1..n : \E x \in 1..Len(P[k]) : a[j] = P[k][x]
    BY <1>4, <1>5
  <2>2. PICK x \in 1..Len(P[k]) : a[j] = P[k][x]
    BY <2>1
  <2>3. Files!IsImage(p(k)[1]) = image /\ P[k] = p(k)
    <3>1. P[k] = IF Files!IsImage(p(k)[1]) = image THEN p(k) ELSE <<>>
      BY <1>2
    <3>2. CASE Files!IsImage(p(k)[1]) # image
      <4>1. P[k] = <<>>
        BY <3>1, <3>2
      <4> QED
        BY <2>2, <4>1
    <3> QED
      BY <3>1, <3>2
  <2>4. x = 1 \/ p(k)[x].at = "url"
    BY <1>1, <2>2, <2>3
  <2> QED
    BY <1>6, <2>2, <2>3, <2>4
<1>7. ASSUME NEW up \in BOOLEAN, \A i \in DOMAIN fs : (i \in U) = up PROVE Uniform(a, up)
  <2>1. ASSUME NEW i \in 1..Len(P) PROVE P[i] = <<>> \/ Bit(P[i], up)
    <3>1. i \in 1..n /\ (i \in U) = up
      BY <1>0, <1>4, <1>7, <2>1
    <3>2. Bit(p(i), up)
      BY <1>1, <3>1
    <3>3. P[i] = IF Files!IsImage(p(i)[1]) = image THEN p(i) ELSE <<>>
      BY <1>2, <3>1
    <3> QED
      BY <3>2, <3>3
  <2>2. Uniform(FlattenSeq(P), up)
    BY <1>4, <2>1, FlattenUniform
  <2> QED
    BY <2>2 DEF P
<1> QED
  BY <1>5, <1>6, <1>7 DEF ListOf

\* The row of a question is its images and its documents.
LEMMA JoinedParts ==
  ASSUME NEW a \in Seq(Place), NEW b \in Seq(Place),
         \A j \in 1..Len(a) : a[j].at = "local" => Files!IsImage(a[j]),
         \A j \in 1..Len(b) : b[j].at = "local" => ~Files!IsImage(b[j])
  PROVE  a \o b \in Seq(Place) /\ Parted(a \o b, a, b)
PROOF
<1> DEFINE c == a \o b
<1>1. c \in Seq(Place) /\ Joined(c, a, b)
  BY ConcatJoins
<1> HIDE DEF c
<1>2. Len(a) \in Nat /\ Len(b) \in Nat /\ Len(c) = Len(a) + Len(b)
  BY <1>1 DEF Joined
<1>3. ASSUME NEW i \in 1..Len(c)
      PROVE  (\E j \in 1..Len(a) : a[j] = c[i]) \/ (\E j \in 1..Len(b) : b[j] = c[i])
  <2>1. i \in 1..Len(a) \/ (i - Len(a) \in 1..Len(b) /\ Len(a) + (i - Len(a)) = i)
    BY <1>2
  <2> QED
    BY <1>1, <2>1 DEF Joined
<1>4. ASSUME NEW j \in 1..Len(a) PROVE \E i \in 1..Len(c) : a[j] = c[i]
  <2>1. j \in 1..Len(c)
    BY <1>2
  <2> QED
    BY <1>1, <2>1 DEF Joined
<1>5. ASSUME NEW j \in 1..Len(b) PROVE \E i \in 1..Len(c) : b[j] = c[i]
  <2>1. Len(a) + j \in 1..Len(c)
    BY <1>2
  <2> QED
    BY <1>1, <2>1 DEF Joined
<1>6. Parted(c, a, b)
  BY <1>3, <1>4, <1>5 DEF Parted
<1> QED
  BY <1>1, <1>6 DEF c

\* What blocks say of a file: its path and URL; a picture of it; its text.
Tells(w, e) == \E x \in 1..Len(w) : w[x].what = "info" /\ w[x].of = e[1] /\ w[x].url = e[2]
Pictures(w, l) == \E x \in 1..Len(w) : w[x].what \in {"image", "url"} /\ w[x].of = l
Reads(w, l) == \E x \in 1..Len(w) : w[x].what = "doctext" /\ w[x].of = l

LEMMA BlockTyped ==
  ASSUME NEW what \in Kinds, NEW of \in Place \cup {NoPlace}, NEW url \in Place \cup {NoPlace}
  PROVE  /\ Files!Block(what, of, url) \in Told
         /\ Files!Block(what, of, url).what = what
         /\ Files!Block(what, of, url).of = of /\ Files!Block(what, of, url).url = url
PROOF
  BY DEF Files!Block, Told

\* Two blocks in a row.
LEMMA TwoOf ==
  ASSUME NEW T, NEW x \in T, NEW y \in T
  PROVE  <<x, y>> \in Seq(T) /\ Len(<<x, y>>) = 2 /\ <<x, y>>[1] = x /\ <<x, y>>[2] = y
PROOF
  OBVIOUS

LEMMA ImageBlocksAre ==
  ASSUME NEW e \in Entry
  PROVE  LET w == Files!ImageBlocks(e)
         IN w \in Seq(Told) /\ Tells(w, e) /\ (Files!Exists(e[1]) => Pictures(w, e[1]))
PROOF
<1> DEFINE w == Files!ImageBlocks(e)
           x == IF e[2] # Files!NoLoc /\ model.urls THEN Files!Block("url", e[1], e[2])
                ELSE IF Files!Exists(e[1]) THEN Files!Block("image", e[1], Files!NoLoc) ELSE Files!None
           y == Files!Info(e)
<1>1. e[1] \in Place \cup {NoPlace} /\ e[2] \in Place \cup {NoPlace} /\ NoPlace \in Place \cup {NoPlace} /\ NoPlace = Files!NoLoc
  BY DEF Entry, NoPlace
<1>2. {"url", "image", "none", "info"} \subseteq Kinds
  BY DEF Kinds
<1>3. /\ y \in Told /\ y.what = "info" /\ y.of = e[1] /\ y.url = e[2]
      /\ x \in Told /\ (Files!Exists(e[1]) => x.what \in {"image", "url"} /\ x.of = e[1])
  <2>1. y \in Told /\ y.what = "info" /\ y.of = e[1] /\ y.url = e[2]
    BY <1>1, <1>2, BlockTyped DEF Files!Info
  <2>2. CASE x = Files!Block("url", e[1], e[2])
    <3>1. x \in Told /\ x.what = "url" /\ x.of = e[1]
      BY <1>1, <1>2, <2>2, BlockTyped
    <3> HIDE DEF x, y
    <3> QED
      BY <2>1, <3>1
  <2>3. CASE Files!Exists(e[1]) /\ x = Files!Block("image", e[1], Files!NoLoc)
    <3>1. x \in Told /\ x.what = "image" /\ x.of = e[1]
      BY <1>1, <1>2, <2>3, BlockTyped
    <3> HIDE DEF x, y
    <3> QED
      BY <2>1, <3>1
  <2>4. CASE ~Files!Exists(e[1]) /\ x = Files!None
    <3>1. x \in Told
      BY <1>1, <1>2, <2>4, BlockTyped DEF Files!None
    <3> HIDE DEF x, y
    <3> QED
      BY <2>1, <2>4, <3>1
  <2> QED
    BY <2>2, <2>3, <2>4
<1>4. w = <<x, y>>
  BY DEF Files!ImageBlocks
<1> HIDE DEF w, x, y
<1>5. w \in Seq(Told) /\ Len(w) = 2 /\ w[1] = x /\ w[2] = y /\ 1 \in 1..2 /\ 2 \in 1..2
  BY <1>3, <1>4, TwoOf
<1>6. w \in Seq(Told) /\ Tells(w, e) /\ (Files!Exists(e[1]) => Pictures(w, e[1]))
  BY <1>3, <1>5 DEF Tells, Pictures
<1> QED
  BY <1>6 DEF w

LEMMA DocumentBlocksAre ==
  ASSUME NEW e \in Entry
  PROVE  LET w == Files!DocumentBlocks(e)
         IN w \in Seq(Told) /\ Tells(w, e)
            /\ (Files!Exists(e[1]) /\ KindOf[e[1].name] = "text" => Reads(w, e[1]))
PROOF
<1> DEFINE w == Files!DocumentBlocks(e)
           x == IF Files!Exists(e[1]) THEN Files!Block("doctext", e[1], Files!NoLoc) ELSE Files!None
           z == Files!Block("pdf", e[1], Files!NoLoc)
           y == Files!Info(e)
<1>1. e[1] \in Place \cup {NoPlace} /\ e[2] \in Place \cup {NoPlace} /\ NoPlace \in Place \cup {NoPlace} /\ NoPlace = Files!NoLoc
  BY DEF Entry, NoPlace
<1>2. {"doctext", "pdf", "none", "info"} \subseteq Kinds
  BY DEF Kinds
<1>3. /\ y \in Told /\ y.what = "info" /\ y.of = e[1] /\ y.url = e[2] /\ z \in Told
      /\ x \in Told /\ (Files!Exists(e[1]) => x.what = "doctext" /\ x.of = e[1])
  <2>1. y \in Told /\ y.what = "info" /\ y.of = e[1] /\ y.url = e[2]
    BY <1>1, <1>2, BlockTyped DEF Files!Info
  <2>2. z \in Told
    BY <1>1, <1>2, BlockTyped
  <2>3. x \in Told
    BY <1>1, <1>2, BlockTyped DEF Files!None
  <2>4. ASSUME Files!Exists(e[1]) PROVE x.what = "doctext" /\ x.of = e[1]
    BY <1>1, <1>2, <2>4, BlockTyped
  <2> HIDE DEF x, y, z
  <2> QED
    BY <2>1, <2>2, <2>3, <2>4
<1>4. w = IF KindOf[e[1].name] = "text" THEN <<x, y>>
          ELSE IF KindOf[e[1].name] = "pdf" /\ model.urls /\ Files!Exists(e[1]) THEN <<z, y>> ELSE <<y>>
  BY DEF Files!DocumentBlocks
<1> HIDE DEF w, x, y, z
<1>5. CASE KindOf[e[1].name] = "text"
  <2>1. w \in Seq(Told) /\ Len(w) = 2 /\ w[1] = x /\ w[2] = y /\ 1 \in 1..2 /\ 2 \in 1..2
    BY <1>3, <1>4, <1>5, TwoOf
  <2> QED
    BY <1>3, <2>1 DEF Tells, Reads, w
<1>6. CASE KindOf[e[1].name] # "text" /\ w = <<z, y>>
  <2>1. w \in Seq(Told) /\ Len(w) = 2 /\ w[2] = y /\ 2 \in 1..2
    BY <1>3, <1>6, TwoOf
  <2> QED
    BY <1>3, <1>6, <2>1 DEF Tells, w
<1>7. CASE KindOf[e[1].name] # "text" /\ w = <<y>>
  <2>1. w \in Seq(Told) /\ Len(w) = 1 /\ w[1] = y /\ 1 \in 1..1
    BY <1>3, <1>7, OneOf
  <2> QED
    BY <1>3, <1>7, <2>1 DEF Tells, w
<1> QED
  BY <1>4, <1>5, <1>6, <1>7

\* All blocks of w are in v.
Holding(w, v) == \A x \in 1..Len(w) : \E y \in 1..Len(v) : v[y] = w[x]

LEMMA WithinTells ==
  ASSUME NEW w, NEW v, Holding(w, v)
  PROVE  /\ \A e : Tells(w, e) => Tells(v, e)
         /\ \A l : (Pictures(w, l) => Pictures(v, l)) /\ (Reads(w, l) => Reads(v, l))
PROOF
  BY DEF Holding, Tells, Pictures, Reads

\* Blocks are for each entry of a list what they are for the entry.
LEMMA FlattenWithin ==
  ASSUME NEW T, NEW P \in Seq(Seq(T)), NEW k \in 1..Len(P)
  PROVE  Holding(P[k], FlattenSeq(P))
PROOF
  BY FlattenHas DEF Holding

\* The blocks of the images, and of the documents, of a message.
ImagesOf(m) == FlattenSeq([i \in DOMAIN Files!Entries(m.images) |-> Files!ImageBlocks(Files!Entries(m.images)[i])])
DocumentsOf(m) == FlattenSeq([i \in DOMAIN Files!Entries(m.docs) |-> Files!DocumentBlocks(Files!Entries(m.docs)[i])])

LEMMA ImagesTold ==
  ASSUME NEW m, NEW e, e = Files!Entries(m.images), m.images \in Seq(Place)
  PROVE  /\ ImagesOf(m) \in Seq(Told)
         /\ m.images = <<>> => ImagesOf(m) = <<>>
         /\ \A k \in 1..Len(e) : /\ Tells(ImagesOf(m), e[k])
                                 /\ Files!Exists(e[k][1]) => Pictures(ImagesOf(m), e[k][1])
PROOF
<1> DEFINE n == Len(e)
           P == [i \in 1..n |-> Files!ImageBlocks(e[i])]
<1>1. e \in Seq(Entry) /\ (m.images = <<>> => n = 0)
  <2>1. Files!UsingOap(m.images) => Len(m.images) >= 2
    BY DEF Files!UsingOap
  <2>2. m.images = <<>> => Len(m.images) = 0
    BY EmptySeq
  <2> QED
    BY <2>1, <2>2, EntriesAre
<1>2. n \in Nat /\ DOMAIN e = 1..n /\ \A i \in 1..n : e[i] \in Entry
  BY <1>1, LenProperties, ElementOfSeq
<1>3. ImagesOf(m) = FlattenSeq(P)
  BY <1>2 DEF ImagesOf
<1> HIDE DEF n
<1>4. \A i \in 1..n : LET w == Files!ImageBlocks(e[i])
                      IN w \in Seq(Told) /\ Tells(w, e[i]) /\ (Files!Exists(e[i][1]) => Pictures(w, e[i][1]))
  BY <1>2, ImageBlocksAre
<1>5. P \in [1..n -> Seq(Told)]
  BY <1>4
<1>6. P \in Seq(Seq(Told)) /\ Len(P) = n
  BY <1>2, <1>5, FunSeq
<1>7. \A k \in 1..n : P[k] = Files!ImageBlocks(e[k])
  OBVIOUS
<1> HIDE DEF P
<1>8. FlattenSeq(P) \in Seq(Told)
  BY <1>6, FlattenHas
<1>9. \A k \in 1..n : Holding(P[k], ImagesOf(m))
  BY <1>3, <1>6, FlattenWithin
<1>10. ASSUME NEW k \in 1..n
       PROVE  Tells(ImagesOf(m), e[k]) /\ (Files!Exists(e[k][1]) => Pictures(ImagesOf(m), e[k][1]))
  <2>1. Holding(P[k], ImagesOf(m)) /\ Tells(P[k], e[k]) /\ (Files!Exists(e[k][1]) => Pictures(P[k], e[k][1]))
    BY <1>4, <1>7, <1>9
  <2> QED
    BY <2>1, WithinTells
<1>11. ASSUME n = 0 PROVE ImagesOf(m) = <<>>
  <2>1. Len(P) = 0
    BY <1>6, <1>11
  <2>2. P = <<>>
    BY <1>6, <2>1, EmptySeq
  <2> QED
    BY <1>3, <2>1, <2>2 DEF FlattenSeq
<1> QED
  BY <1>1, <1>3, <1>8, <1>10, <1>11 DEF n

LEMMA DocumentsTold ==
  ASSUME NEW m, NEW e, e = Files!Entries(m.docs), m.docs \in Seq(Place)
  PROVE  /\ DocumentsOf(m) \in Seq(Told)
         /\ m.docs = <<>> => DocumentsOf(m) = <<>>
         /\ \A k \in 1..Len(e) : /\ Tells(DocumentsOf(m), e[k])
                                 /\ Files!Exists(e[k][1]) /\ KindOf[e[k][1].name] = "text"
                                      => Reads(DocumentsOf(m), e[k][1])
PROOF
<1> DEFINE n == Len(e)
           P == [i \in 1..n |-> Files!DocumentBlocks(e[i])]
<1>1. e \in Seq(Entry) /\ (m.docs = <<>> => n = 0)
  <2>1. Files!UsingOap(m.docs) => Len(m.docs) >= 2
    BY DEF Files!UsingOap
  <2>2. m.docs = <<>> => Len(m.docs) = 0
    BY EmptySeq
  <2> QED
    BY <2>1, <2>2, EntriesAre
<1>2. n \in Nat /\ DOMAIN e = 1..n /\ \A i \in 1..n : e[i] \in Entry
  BY <1>1, LenProperties, ElementOfSeq
<1>3. DocumentsOf(m) = FlattenSeq(P)
  BY <1>2 DEF DocumentsOf
<1> HIDE DEF n
<1>4. \A i \in 1..n : LET w == Files!DocumentBlocks(e[i])
                      IN w \in Seq(Told) /\ Tells(w, e[i])
                         /\ (Files!Exists(e[i][1]) /\ KindOf[e[i][1].name] = "text" => Reads(w, e[i][1]))
  BY <1>2, DocumentBlocksAre
<1>5. P \in [1..n -> Seq(Told)]
  BY <1>4
<1>6. P \in Seq(Seq(Told)) /\ Len(P) = n
  BY <1>2, <1>5, FunSeq
<1>7. \A k \in 1..n : P[k] = Files!DocumentBlocks(e[k])
  OBVIOUS
<1> HIDE DEF P
<1>8. FlattenSeq(P) \in Seq(Told)
  BY <1>6, FlattenHas
<1>9. \A k \in 1..n : Holding(P[k], DocumentsOf(m))
  BY <1>3, <1>6, FlattenWithin
<1>10. ASSUME NEW k \in 1..n
       PROVE  /\ Tells(DocumentsOf(m), e[k])
              /\ Files!Exists(e[k][1]) /\ KindOf[e[k][1].name] = "text" => Reads(DocumentsOf(m), e[k][1])
  <2>1. /\ Holding(P[k], DocumentsOf(m)) /\ Tells(P[k], e[k])
        /\ Files!Exists(e[k][1]) /\ KindOf[e[k][1].name] = "text" => Reads(P[k], e[k][1])
    BY <1>4, <1>7, <1>9
  <2> QED
    BY <2>1, WithinTells
<1>11. ASSUME n = 0 PROVE DocumentsOf(m) = <<>>
  <2>1. Len(P) = 0
    BY <1>6, <1>11
  <2>2. P = <<>>
    BY <1>6, <2>1, EmptySeq
  <2> QED
    BY <1>3, <2>1, <2>2 DEF FlattenSeq
<1> QED
  BY <1>1, <1>3, <1>8, <1>10, <1>11 DEF n

\* What a model that only reads text is spared.
TextOnly(w) == \A x \in 1..Len(w) : w[x].what \notin {"image", "url", "pdf"}

\* Messages of the thread: results of tools are texts, only they can be too long, and a
\* question that is a string has no files.
Sound(m) ==
  /\ m.type \in {"human", "ai", "tool"}
  /\ m.type = "tool" => m.form = "str" /\ m.blocks # <<>>
  /\ m.type # "tool" => ~m.long
  /\ m.type = "human" /\ m.form = "str" => m.images = <<>> /\ m.docs = <<>> /\ TextOnly(m.blocks)

LEMMA ConcatWithin ==
  ASSUME NEW T, NEW a \in Seq(T), NEW b \in Seq(T)
  PROVE  a \o b \in Seq(T) /\ Holding(a, a \o b) /\ Holding(b, a \o b)
PROOF
<1> DEFINE c == a \o b
<1>1. c \in Seq(T) /\ Joined(c, a, b)
  BY ConcatJoins
<1> HIDE DEF c
<1>2. Len(a) \in Nat /\ Len(b) \in Nat /\ Len(c) = Len(a) + Len(b)
  BY <1>1 DEF Joined
<1>3. ASSUME NEW x \in 1..Len(a) PROVE \E y \in 1..Len(c) : c[y] = a[x]
  <2>1. x \in 1..Len(c)
    BY <1>2
  <2> QED
    BY <1>1, <2>1 DEF Joined
<1>4. ASSUME NEW x \in 1..Len(b) PROVE \E y \in 1..Len(c) : c[y] = b[x]
  <2>1. Len(a) + x \in 1..Len(c)
    BY <1>2
  <2> QED
    BY <1>1, <2>1 DEF Joined
<1>5. c \in Seq(T) /\ Holding(a, c) /\ Holding(b, c)
  BY <1>1, <1>3, <1>4 DEF Holding
<1> QED
  BY <1>5 DEF c

LEMMA WithinTransitive ==
  ASSUME NEW a, NEW b, NEW c, Holding(a, b), Holding(b, c)
  PROVE  Holding(a, c)
PROOF
  BY DEF Holding

LEMMA WithFilesAre ==
  ASSUME NEW m \in FileMsg, Sound(m), NEW g, g = Files!WithFiles(m)
  PROVE  /\ g \in FileMsg /\ Sound(g)
         /\ g.type = m.type /\ g.form = m.form /\ g.images = m.images /\ g.docs = m.docs
         /\ g.calls = m.calls /\ g.long = m.long
         /\ m.type # "human" => g = m
         /\ m.type = "human" => Holding(ImagesOf(m), g.blocks) /\ Holding(DocumentsOf(m), g.blocks)
PROOF
<1>1. CASE m.type # "human"
  <2>1. g = m
    BY <1>1 DEF Files!WithFiles
  <2> QED
    BY <1>1, <2>1
<1>2. CASE m.type = "human"
  <2> DEFINE a == ImagesOf(m)
             b == DocumentsOf(m)
             w == (m.blocks \o a) \o b
  <2>1. m.blocks \in Seq(Told) /\ m.images \in Seq(Place) /\ m.docs \in Seq(Place)
    BY DEF FileMsg
  <2>2. a \in Seq(Told) /\ (m.images = <<>> => a = <<>>)
    BY <2>1, ImagesTold
  <2>3. b \in Seq(Told) /\ (m.docs = <<>> => b = <<>>)
    BY <2>1, DocumentsTold
  <2>4. g = [m EXCEPT !.blocks = w]
    BY <1>2, FilesFlatten DEF Files!WithFiles, ImagesOf, DocumentsOf
  <2> HIDE DEF a, b
  <2>5. m.blocks \o a \in Seq(Told) /\ Holding(a, m.blocks \o a)
    BY <2>1, <2>2, ConcatWithin
  <2>6. w \in Seq(Told) /\ Holding(m.blocks \o a, w) /\ Holding(b, w)
    BY <2>3, <2>5, ConcatWithin
  <2>7. Holding(a, w)
    BY <2>5, <2>6, WithinTransitive
  <2>8. m.images = <<>> /\ m.docs = <<>> => w = m.blocks
    BY <2>1, <2>2, <2>3
  <2> HIDE DEF w
  <2>9. /\ g.blocks = w /\ g.type = m.type /\ g.form = m.form /\ g.images = m.images /\ g.docs = m.docs
        /\ g.calls = m.calls /\ g.long = m.long /\ g \in FileMsg
    BY <2>4, <2>6 DEF FileMsg
  <2>10. Sound(g)
    BY <1>2, <2>8, <2>9 DEF Sound
  <2> QED
    BY <1>2, <2>6, <2>7, <2>9, <2>10 DEF a, b
<1> QED
  BY <1>1, <1>2

\* What the blocks of a message show of the i-th place of a row.
AllThere(l) == \A j \in 1..Len(l) : Files!Exists(l[j]) \/ l[j].at = "url"
Shown(l, i, w) ==
  /\ l[i].at = "local" => \E x \in 1..Len(w) : w[x].what = "info" /\ w[x].of = l[i]
  /\ l[i].at = "url" /\ AllThere(l) => \E x \in 1..Len(w) : w[x].what = "info" /\ w[x].url = l[i]
  /\ Files!Exists(l[i]) /\ Files!IsImage(l[i]) => Pictures(w, l[i])
  /\ Files!Exists(l[i]) /\ KindOf[l[i].name] = "text" => Reads(w, l[i])

LEMMA FilesAreShown ==
  ASSUME NEW l \in Seq(Place), NEW m \in FileMsg, NEW up \in BOOLEAN,
         Uniform(m.images, up), Uniform(m.docs, up), Parted(l, m.images, m.docs),
         NEW w, Holding(ImagesOf(m), w), Holding(DocumentsOf(m), w), NEW i \in 1..Len(l)
  PROVE  Shown(l, i, w)
PROOF
<1> DEFINE a == m.images
           b == m.docs
           e == Files!Entries(a)
           f == Files!Entries(b)
<1>1. a \in Seq(Place) /\ b \in Seq(Place)
  BY DEF FileMsg
<1>2. \A k \in 1..Len(e) : Tells(w, e[k]) /\ (Files!Exists(e[k][1]) => Pictures(w, e[k][1]))
  <2>1. \A k \in 1..Len(e) : /\ Tells(ImagesOf(m), e[k])
                             /\ Files!Exists(e[k][1]) => Pictures(ImagesOf(m), e[k][1])
    BY <1>1, ImagesTold
  <2> HIDE DEF e
  <2> QED
    BY <2>1, WithinTells
<1>3. \A k \in 1..Len(f) : /\ Tells(w, f[k])
                           /\ Files!Exists(f[k][1]) /\ KindOf[f[k][1].name] = "text" => Reads(w, f[k][1])
  <2>1. \A k \in 1..Len(f) : /\ Tells(DocumentsOf(m), f[k])
                             /\ Files!Exists(f[k][1]) /\ KindOf[f[k][1].name] = "text"
                                  => Reads(DocumentsOf(m), f[k][1])
    BY <1>1, DocumentsTold
  <2> HIDE DEF f
  <2> QED
    BY <2>1, WithinTells
<1>4. ASSUME AllThere(l), NEW c, c = a \/ c = b, NEW j \in 1..Len(c) PROVE Files!Exists(c[1])
  <2>1. 1 \in 1..Len(c)
    <3>1. Len(c) \in Nat
      BY <1>1, <1>4, LenProperties
    <3> QED
      BY <3>1
  <2>2. c[1].at = "local"
    <3>1. Uniform(c, up) /\ 1 % 2 = 1
      BY <1>4
    <3> QED
      BY <2>1, <3>1 DEF Uniform, InTurn, OnlyPaths
  <2>3. \E x \in 1..Len(l) : c[1] = l[x]
    BY <1>4, <2>1 DEF Parted
  <2> QED
    BY <1>4, <2>2, <2>3 DEF AllThere
<1>5. \A j \in 1..Len(a) :
        /\ a[j].at = "local" => \E k \in 1..Len(e) : e[k][1] = a[j]
        /\ a[j].at = "url" /\ Files!Exists(a[1]) => \E k \in 1..Len(e) : e[k][2] = a[j]
  BY <1>1, EntriesTell
<1>6. \A j \in 1..Len(b) :
        /\ b[j].at = "local" => \E k \in 1..Len(f) : f[k][1] = b[j]
        /\ b[j].at = "url" /\ Files!Exists(b[1]) => \E k \in 1..Len(f) : f[k][2] = b[j]
  BY <1>1, EntriesTell
<1>7. Files!Exists(l[i]) => l[i].at = "local"
  BY DEF Files!Exists
<1>8. KindOf[l[i].name] = "text" => ~Files!IsImage(l[i])
  BY DEF Files!IsImage
<1>9. (\E j \in 1..Len(a) : a[j] = l[i]) \/ (\E j \in 1..Len(b) : b[j] = l[i])
  BY DEF Parted
<1> HIDE DEF e, f
<1>10. CASE \E j \in 1..Len(a) : a[j] = l[i]
  <2>1. PICK j \in 1..Len(a) : a[j] = l[i]
    BY <1>10
  <2>2. l[i].at = "local" => Files!IsImage(l[i])
    BY <2>1 DEF Parted
  <2>3. CASE l[i].at = "local"
    <3>1. PICK k \in 1..Len(e) : e[k][1] = l[i]
      BY <1>5, <2>1, <2>3
    <3>2. Tells(w, e[k]) /\ (Files!Exists(l[i]) => Pictures(w, l[i]))
      BY <1>2, <3>1
    <3>3. \E x \in 1..Len(w) : w[x].what = "info" /\ w[x].of = l[i]
      BY <3>1, <3>2 DEF Tells
    <3> QED
      BY <1>8, <2>2, <2>3, <3>2, <3>3 DEF Shown
  <2>4. CASE l[i].at # "local"
    <3>1. ASSUME l[i].at = "url", AllThere(l) PROVE \E x \in 1..Len(w) : w[x].what = "info" /\ w[x].url = l[i]
      <4>1. Files!Exists(a[1])
        BY <1>4, <2>1, <3>1
      <4>2. PICK k \in 1..Len(e) : e[k][2] = l[i]
        BY <1>5, <2>1, <3>1, <4>1
      <4>3. Tells(w, e[k])
        BY <1>2
      <4> QED
        BY <4>2, <4>3 DEF Tells
    <3> QED
      BY <1>7, <2>4, <3>1 DEF Shown
  <2> QED
    BY <2>3, <2>4
<1>11. CASE \E j \in 1..Len(b) : b[j] = l[i]
  <2>1. PICK j \in 1..Len(b) : b[j] = l[i]
    BY <1>11
  <2>2. l[i].at = "local" => ~Files!IsImage(l[i])
    BY <2>1 DEF Parted
  <2>3. CASE l[i].at = "local"
    <3>1. PICK k \in 1..Len(f) : f[k][1] = l[i]
      BY <1>6, <2>1, <2>3
    <3>2. Tells(w, f[k]) /\ (Files!Exists(l[i]) /\ KindOf[l[i].name] = "text" => Reads(w, l[i]))
      BY <1>3, <3>1
    <3>3. \E x \in 1..Len(w) : w[x].what = "info" /\ w[x].of = l[i]
      BY <3>1, <3>2 DEF Tells
    <3> QED
      BY <2>2, <2>3, <3>2, <3>3 DEF Shown
  <2>4. CASE l[i].at # "local"
    <3>1. ASSUME l[i].at = "url", AllThere(l) PROVE \E x \in 1..Len(w) : w[x].what = "info" /\ w[x].url = l[i]
      <4>1. Files!Exists(b[1])
        BY <1>4, <2>1, <3>1
      <4>2. PICK k \in 1..Len(f) : f[k][2] = l[i]
        BY <1>6, <2>1, <3>1, <4>1
      <4>3. Tells(w, f[k])
        BY <1>3
      <4> QED
        BY <4>2, <4>3 DEF Tells
    <3> QED
      BY <1>7, <2>4, <3>1 DEF Shown
  <2> QED
    BY <2>3, <2>4
<1> QED
  BY <1>9, <1>10, <1>11

\* What is left of blocks for a model that only reads text.
StrippedOf(w) ==
  FlattenSeq([i \in DOMAIN w |->
    IF w[i].what \in {"pdf", "none"} THEN <<>>
    ELSE IF w[i].what \in {"image", "url", "pdf", "none"}
      THEN <<Files!Block("placeholder", NoPlace, NoPlace)>> ELSE <<w[i]>>])

\* The blocks that say in words what w does are in v.
Worded(w, v) ==
  \A x \in 1..Len(w) : w[x].what \in {"info", "doctext"} => \E y \in 1..Len(v) : v[y] = w[x]

LEMMA StrippedBlocks ==
  ASSUME NEW w \in Seq(Told), NEW v, v = StrippedOf(w)
  PROVE  v \in Seq(Told) /\ TextOnly(v) /\ Worded(w, v)
PROOF
<1> DEFINE n == Len(w)
           h == Files!Block("placeholder", NoPlace, NoPlace)
           piece(i) == IF w[i].what \in {"pdf", "none"} THEN <<>>
                       ELSE IF w[i].what \in {"image", "url", "pdf", "none"} THEN <<h>> ELSE <<w[i]>>
           P == [i \in 1..n |-> piece(i)]
<1>0. n \in Nat /\ DOMAIN w = 1..n /\ \A i \in 1..n : w[i] \in Told
  BY LenProperties, ElementOfSeq
<1>1. v = FlattenSeq(P)
  BY <1>0 DEF StrippedOf
<1>2. h \in Told /\ h.what = "placeholder"
  <2>1. "placeholder" \in Kinds /\ NoPlace \in Place \cup {NoPlace}
    BY DEF Kinds
  <2> QED
    BY <2>1, BlockTyped
<1> HIDE DEF n, h
<1>3. ASSUME NEW i \in 1..n
      PROVE  \/ piece(i) = <<>> /\ w[i].what \in {"pdf", "none"}
             \/ piece(i) = <<h>> /\ w[i].what \notin {"info", "doctext"}
             \/ piece(i) = <<w[i]>> /\ w[i].what \notin {"image", "url", "pdf"}
  OBVIOUS
<1> HIDE DEF piece
<1>4. \A i \in 1..n : piece(i) \in Seq(Told)
  <2>1. ASSUME NEW i \in 1..n PROVE piece(i) \in Seq(Told)
    <3>1. w[i] \in Told
      BY <1>0
    <3> QED
      BY <1>2, <1>3, <3>1, OneOf, EmptySeq
  <2> QED
    BY <2>1
<1>5. P \in [1..n -> Seq(Told)] /\ \A i \in 1..n : P[i] = piece(i)
  BY <1>4
<1> HIDE DEF P
<1>6. P \in Seq(Seq(Told)) /\ Len(P) = n
  BY <1>0, <1>5, FunSeq
<1>7. /\ v \in Seq(Told) /\ Len(v) \in Nat
      /\ \A k \in 1..Len(P) : \A x \in 1..Len(P[k]) : \E j \in 1..Len(v) : v[j] = P[k][x]
      /\ \A j \in 1..Len(v) : \E k \in 1..Len(P) : \E x \in 1..Len(P[k]) : v[j] = P[k][x]
  <2>1. P \in Seq(Seq(Told))
    BY <1>6
  <2>2. v = FlattenSeq(P)
    BY <1>1
  <2>3. v \in Seq(Told) /\ Len(v) \in Nat /\ AllOf(v, P)
    BY <2>1, <2>2, FlattenAllOf
  <2> QED
    BY <2>3 DEF AllOf
<1>8. ASSUME NEW j \in 1..Len(v) PROVE v[j].what \notin {"image", "url", "pdf"}
  <2>1. PICK k \in 1..n : \E x \in 1..Len(P[k]) : v[j] = P[k][x]
    BY <1>6, <1>7
  <2>2. PICK x \in 1..Len(P[k]) : v[j] = P[k][x]
    BY <2>1
  <2>3. CASE piece(k) = <<>>
    BY <1>5, <2>2, <2>3
  <2>4. CASE piece(k) = <<h>>
    <3>1. v[j] = h
      BY <1>5, <2>2, <2>4
    <3> QED
      BY <1>2, <3>1
  <2>5. CASE piece(k) = <<w[k]>> /\ w[k].what \notin {"image", "url", "pdf"}
    <3>1. v[j] = w[k]
      BY <1>5, <2>2, <2>5
    <3> QED
      BY <2>5, <3>1
  <2> QED
    BY <1>3, <2>3, <2>4, <2>5
<1>9. ASSUME NEW x \in 1..n, w[x].what \in {"info", "doctext"} PROVE \E y \in 1..Len(v) : v[y] = w[x]
  <2>1. P[x] = <<w[x]>>
    BY <1>3, <1>5, <1>9
  <2>2. 1 \in 1..Len(P[x]) /\ P[x][1] = w[x]
    BY <2>1
  <2> QED
    BY <1>6, <1>7, <2>2
<1> QED
  BY <1>7, <1>8, <1>9 DEF TextOnly, Worded, n

LEMMA StrippedAre ==
  ASSUME NEW m \in FileMsg, m.type = "human" /\ m.form = "str" => TextOnly(m.blocks),
         NEW g, g = Files!Stripped(m)
  PROVE  /\ g \in FileMsg /\ g.type = m.type /\ g.calls = m.calls /\ g.long = m.long
         /\ m.type # "human" => g = m
         /\ m.type = "human" => TextOnly(g.blocks) /\ Worded(m.blocks, g.blocks)
PROOF
<1> DEFINE w == m.blocks
           plain == m.type # "human" \/ m.form = "str"
                      \/ ~(\E i \in DOMAIN w : w[i].what \in {"image", "url", "pdf", "none"})
<1>0. w \in Seq(Told) /\ Len(w) \in Nat /\ DOMAIN w = 1..Len(w)
  <2>1. w \in Seq(Told)
    BY DEF FileMsg
  <2> QED
    BY <2>1, LenProperties
<1>1. g = IF plain THEN m ELSE [m EXCEPT !.form = "str", !.blocks = StrippedOf(w)]
  BY FilesFlatten DEF Files!Stripped, StrippedOf, NoPlace
<1>2. CASE plain
  <2>1. g = m
    BY <1>1, <1>2
  <2>2. m.type = "human" => TextOnly(w)
    BY <1>0, <1>2 DEF TextOnly
  <2> QED
    BY <2>1, <2>2 DEF Worded
<1>3. CASE ~plain
  <2> DEFINE v == StrippedOf(w)
  <2>1. v \in Seq(Told) /\ TextOnly(v) /\ Worded(w, v)
    BY <1>0, StrippedBlocks
  <2>2. g = [m EXCEPT !.form = "str", !.blocks = v]
    BY <1>1, <1>3
  <2> HIDE DEF v, w
  <2>3. g \in FileMsg /\ g.type = m.type /\ g.calls = m.calls /\ g.long = m.long /\ g.blocks = v
    BY <2>1, <2>2 DEF FileMsg
  <2> QED
    BY <1>3, <2>1, <2>3 DEF w
<1> QED
  BY <1>2, <1>3

\* What is shown to the model: pictures only if it takes them.
ShownTo(l, i, w) ==
  /\ l[i].at = "local" => \E x \in 1..Len(w) : w[x].what = "info" /\ w[x].of = l[i]
  /\ l[i].at = "url" /\ AllThere(l) => \E x \in 1..Len(w) : w[x].what = "info" /\ w[x].url = l[i]
  /\ Files!Exists(l[i]) /\ Files!IsImage(l[i]) /\ Files!Vision => Pictures(w, l[i])
  /\ Files!Exists(l[i]) /\ KindOf[l[i].name] = "text" => Reads(w, l[i])

LEMMA WordedShows ==
  ASSUME NEW w, NEW v, Worded(w, v), ~Files!Vision, NEW l, NEW i, Shown(l, i, w)
  PROVE  ShownTo(l, i, v)
PROOF
<1>1. ASSUME NEW x \in 1..Len(w), w[x].what \in {"info", "doctext"} PROVE \E y \in 1..Len(v) : v[y] = w[x]
  BY <1>1 DEF Worded
<1>2. Reads(w, l[i]) => Reads(v, l[i])
  BY <1>1 DEF Reads
<1>3. (\E x \in 1..Len(w) : w[x].what = "info" /\ w[x].of = l[i])
        => \E x \in 1..Len(v) : v[x].what = "info" /\ v[x].of = l[i]
  BY <1>1
<1>4. (\E x \in 1..Len(w) : w[x].what = "info" /\ w[x].url = l[i])
        => \E x \in 1..Len(v) : v[x].what = "info" /\ v[x].url = l[i]
  BY <1>1
<1> QED
  BY <1>2, <1>3, <1>4 DEF Shown, ShownTo

\* A message as the stages that depend on the model give it.
LEMMA GivenAre ==
  ASSUME NEW m \in FileMsg, Sound(m), NEW g, g = Files!Given(m)
  PROVE  /\ g \in FileMsg /\ g.type = m.type /\ g.calls = m.calls /\ g.long = m.long
         /\ m.type # "human" => g = m
         /\ m.type = "human" => Files!Vision \/ TextOnly(g.blocks)
         /\ m.type = "human"
              => \A l, i : Shown(l, i, Files!WithFiles(m).blocks) => ShownTo(l, i, g.blocks)
PROOF
<1> DEFINE f == Files!WithFiles(m)
<1>1. /\ f \in FileMsg /\ Sound(f) /\ f.type = m.type /\ f.calls = m.calls /\ f.long = m.long
      /\ m.type # "human" => f = m
  BY WithFilesAre
<1>2. g = IF Files!Vision THEN f ELSE Files!Stripped(f)
  BY DEF Files!Given
<1> HIDE DEF f
<1>3. CASE Files!Vision
  <2>1. \A l, i : Shown(l, i, f.blocks) => ShownTo(l, i, f.blocks)
    BY DEF Shown, ShownTo
  <2> QED
    BY <1>1, <1>2, <1>3, <2>1 DEF f
<1>4. CASE ~Files!Vision
  <2>1. g = Files!Stripped(f)
    BY <1>2, <1>4
  <2>2. f.type = "human" /\ f.form = "str" => TextOnly(f.blocks)
    BY <1>1 DEF Sound
  <2>3. /\ g \in FileMsg /\ g.type = f.type /\ g.calls = f.calls /\ g.long = f.long
        /\ f.type # "human" => g = f
        /\ f.type = "human" => TextOnly(g.blocks) /\ Worded(f.blocks, g.blocks)
    BY <1>1, <2>1, <2>2, StrippedAre
  <2>4. ASSUME m.type = "human", NEW l, NEW i, Shown(l, i, f.blocks) PROVE ShownTo(l, i, g.blocks)
    BY <1>1, <1>4, <2>3, <2>4, WordedShows
  <2> QED
    BY <1>1, <2>3, <2>4 DEF f
<1> QED
  BY <1>3, <1>4

\* What the last stages make of a message.
FillOne(m) ==
  IF m.type \in {"system", "tool"} \/ m.blocks # <<>> \/ m.calls > 0 THEN m
  ELSE [m EXCEPT !.form = "str", !.blocks = <<Files!Block("space", NoPlace, NoPlace)>>]
Worked(m) == IF model.tools THEN m ELSE Files!InText(m)
ReadyOne(m) == Files!Truncated(FillOne(Files!Given(Worked(m))))

\* A message of a prompt is not empty, nor too long, and a question is what it is to be.
Readied(p, m) ==
  /\ p.type = m.type /\ p.blocks \in Seq(Told) /\ (p.blocks # <<>> \/ p.calls > 0) /\ ~p.long
  /\ m.type = "human"
       => /\ Files!Vision \/ TextOnly(p.blocks)
          /\ \A l, i : (l[i].at \in {"local", "url"} /\ Shown(l, i, Files!WithFiles(m).blocks)) => ShownTo(l, i, p.blocks)

LEMMA InTextAre ==
  ASSUME NEW m \in FileMsg, Sound(m), NEW t, t = Worked(m)
  PROVE  t \in FileMsg /\ Sound(t) /\ t.type = m.type /\ (m.type # "ai" => t = m)
PROOF
<1>1. CASE t = m
  BY <1>1
<1>2. CASE m.type = "ai" /\ t = Files!InText(m) /\ m.calls > 0
  <2> DEFINE b == [i \in 1..m.calls |-> Files!Block("call", Files!NoLoc, Files!NoLoc)]
             w == IF m.form = "list" THEN m.blocks ELSE m.blocks \o b
  <2>1. m.calls \in Nat /\ m.blocks \in Seq(Told)
    BY DEF FileMsg
  <2>2. b \in [1..m.calls -> Told]
    <3>1. "call" \in Kinds /\ Files!NoLoc \in Place \cup {NoPlace}
      BY DEF Kinds, NoPlace
    <3>2. Files!Block("call", Files!NoLoc, Files!NoLoc) \in Told
      BY <3>1, BlockTyped
    <3> QED
      BY <3>2
  <2>3. b \in Seq(Told)
    BY <2>1, <2>2, FunSeq
  <2> HIDE DEF b
  <2>4. w \in Seq(Told)
    BY <2>1, <2>3, ConcatWithin
  <2>5. t = [m EXCEPT !.form = "str", !.calls = 0, !.blocks = w]
    BY <1>2 DEF Files!InText, b
  <2> HIDE DEF w
  <2>6. t \in FileMsg /\ t.type = "ai" /\ t.long = m.long
    <3> DEFINE m1 == [m EXCEPT !.form = "str"]
               m2 == [m1 EXCEPT !.calls = 0]
    <3>1. m1 \in FileMsg /\ m1.type = "ai" /\ m1.long = m.long
      BY <1>2 DEF FileMsg
    <3>2. t = [m2 EXCEPT !.blocks = w]
      BY <2>5
    <3> HIDE DEF m1
    <3>3. m2 \in FileMsg /\ m2.type = "ai" /\ m2.long = m.long
      BY <3>1 DEF FileMsg
    <3> HIDE DEF m2
    <3> QED
      BY <2>4, <3>2, <3>3 DEF FileMsg
  <2>7. Sound(t)
    BY <1>2, <2>6 DEF Sound
  <2> QED
    BY <1>2, <2>6, <2>7
<1> QED
  BY <1>1, <1>2 DEF Worked, Files!InText

LEMMA ReadyOneAre ==
  ASSUME NEW m \in FileMsg, Sound(m), NEW p, p = ReadyOne(m)
  PROVE  p \in FileMsg /\ Readied(p, m)
PROOF
<1> DEFINE t == Worked(m)
           g == Files!Given(t)
           f == FillOne(g)
           s == Files!Block("space", NoPlace, NoPlace)
<1>1. t \in FileMsg /\ Sound(t) /\ t.type = m.type /\ (m.type # "ai" => t = m)
  BY InTextAre
<1> HIDE DEF t
<1>2. /\ g \in FileMsg /\ g.type = t.type /\ g.calls = t.calls /\ g.long = t.long
      /\ t.type # "human" => g = t
      /\ t.type = "human" => Files!Vision \/ TextOnly(g.blocks)
      /\ t.type = "human"
           => \A l, i : Shown(l, i, Files!WithFiles(t).blocks) => ShownTo(l, i, g.blocks)
  BY <1>1, GivenAre
<1>3. s \in Told /\ s.what = "space"
  <2>1. "space" \in Kinds /\ NoPlace \in Place \cup {NoPlace}
    BY DEF Kinds
  <2> QED
    BY <2>1, BlockTyped
<1>4. p = IF f.type = "tool" /\ f.form = "str" THEN [f EXCEPT !.long = FALSE] ELSE f
  BY DEF ReadyOne, Files!Truncated, t
<1> HIDE DEF g, s
<1>5. g.calls \in Nat /\ g.blocks \in Seq(Told)
  BY <1>2 DEF FileMsg
<1>6. CASE f = g
  <2>1. g.type # "system"
    BY <1>1, <1>2 DEF Sound
  <2>2. g.type = "tool" => g.form = "str" /\ g.blocks # <<>>
    BY <1>1, <1>2 DEF Sound
  <2>3. g.type # "tool" => ~g.long
    BY <1>1, <1>2 DEF Sound
  <2>4. p \in FileMsg /\ p.type = g.type /\ p.blocks = g.blocks /\ p.calls = g.calls /\ ~p.long
    <3>1. CASE g.type = "tool"
      <4>1. p = [g EXCEPT !.long = FALSE]
        BY <1>4, <1>6, <2>2, <3>1
      <4> QED
        BY <1>2, <4>1 DEF FileMsg
    <3>2. CASE g.type # "tool"
      BY <1>2, <1>4, <1>6, <2>3, <3>2
    <3> QED
      BY <3>1, <3>2
  <2>5. g.blocks # <<>> \/ g.calls > 0
    <3>1. CASE g.type = "tool"
      BY <2>2, <3>1
    <3>2. CASE g.type # "tool"
      <4>1. ASSUME g.blocks = <<>>, ~(g.calls > 0) PROVE FALSE
        <5>1. f = [g EXCEPT !.form = "str", !.blocks = <<s>>]
          BY <2>1, <3>2, <4>1 DEF FillOne, s
        <5>2. f.blocks = <<s>>
          BY <1>2, <5>1 DEF FileMsg
        <5> QED
          <6>1. Len(<<s>>) = 1 /\ Len(g.blocks) = 0
            BY <1>3, <4>1
          <6> QED
            BY <1>6, <5>2, <6>1
      <4> QED
        BY <4>1
    <3> QED
      BY <3>1, <3>2
  <2> QED
    BY <1>1, <1>2, <1>5, <2>4, <2>5 DEF Readied
<1>7. CASE f # g
  <2>1. f = [g EXCEPT !.form = "str", !.blocks = <<s>>] /\ g.type # "tool" /\ g.blocks = <<>>
    BY <1>7 DEF FillOne, s
  <2>2. <<s>> \in Seq(Told) /\ Len(<<s>>) = 1 /\ <<s>>[1] = s
    BY <1>3
  <2>3. /\ f \in FileMsg /\ f.type = g.type /\ f.calls = g.calls /\ f.long = g.long /\ f.blocks = <<s>>
    BY <1>2, <2>1, <2>2 DEF FileMsg
  <2>4. p = f /\ ~f.long
    BY <1>1, <1>2, <1>4, <2>1, <2>3 DEF Sound
  <2>5. TextOnly(<<s>>) /\ <<s>> # <<>>
    BY <1>3, <2>2 DEF TextOnly
  <2>6. ASSUME NEW l, NEW i, l[i].at \in {"local", "url"}, ShownTo(l, i, g.blocks) PROVE ShownTo(l, i, <<s>>)
    <3>1. Len(g.blocks) = 0
      BY <2>1
    <3>2. ~Pictures(g.blocks, l[i]) /\ ~Reads(g.blocks, l[i]) /\ ~(\E x \in 1..Len(g.blocks) : TRUE)
      BY <3>1 DEF Pictures, Reads
    <3> QED
      BY <2>6, <3>2 DEF ShownTo
  <2>7. p.blocks \in Seq(Told) /\ p.blocks # <<>> /\ p.type = m.type /\ ~p.long
    BY <1>1, <1>2, <2>2, <2>3, <2>4, <2>5
  <2>8. TextOnly(p.blocks) /\ p.blocks = <<s>>
    BY <2>3, <2>4, <2>5
  <2>9. ASSUME m.type = "human", NEW l, NEW i, l[i].at \in {"local", "url"}, Shown(l, i, Files!WithFiles(m).blocks)
        PROVE  ShownTo(l, i, p.blocks)
    <3>1. ShownTo(l, i, g.blocks)
      BY <1>1, <1>2, <2>9
    <3> QED
      BY <2>6, <2>8, <2>9, <3>1
  <2>10. p \in FileMsg
    BY <2>3, <2>4
  <2> HIDE DEF f
  <2> QED
    BY <2>7, <2>8, <2>9, <2>10 DEF Readied
<1> QED
  BY <1>6, <1>7

\* The prompt: a system message, then the messages as the stages make them.
LEMMA PreparedAre ==
  ASSUME NEW s \in Seq(FileMsg), \A i \in 1..Len(s) : Sound(s[i]), NEW P, P = Files!Prepared(s)
  PROVE  /\ Len(s) \in Nat /\ Len(P) = 1 + Len(s) /\ DOMAIN P = 1..(1 + Len(s))
         /\ P[1].type = "system" /\ P[1].blocks # <<>> /\ ~P[1].long
         /\ \A i \in 1..Len(s) : Readied(P[1 + i], s[i])
PROOF
<1> DEFINE n == Len(s)
           withTools == IF model.tools THEN s ELSE [i \in DOMAIN s |-> Files!InText(s[i])]
           G == [i \in DOMAIN s |-> Files!Given(withTools[i])]
           a == <<Files!System>>
           S == a \o G
           F == [i \in DOMAIN S |->
                  IF S[i].type \in {"system", "tool"} \/ S[i].blocks # <<>> \/ S[i].calls > 0 THEN S[i]
                  ELSE [S[i] EXCEPT !.form = "str", !.blocks = <<Files!Block("space", Files!NoLoc, Files!NoLoc)>>]]
<1>0. n \in Nat /\ DOMAIN s = 1..n /\ \A i \in 1..n : s[i] \in FileMsg
  BY LenProperties, ElementOfSeq
<1>1. P = [i \in DOMAIN F |-> Files!Truncated(F[i])]
  BY DEF Files!Prepared, Files!Filled
<1>2. \A i \in 1..n : withTools[i] = Worked(s[i])
  BY <1>0 DEF Worked
<1>3. \A i \in 1..n : Files!Given(Worked(s[i])) \in FileMsg
  <2>1. ASSUME NEW i \in 1..n PROVE Files!Given(Worked(s[i])) \in FileMsg
    <3>1. Worked(s[i]) \in FileMsg /\ Sound(Worked(s[i]))
      BY <1>0, InTextAre
    <3> QED
      BY <3>1, GivenAre
  <2> QED
    BY <2>1
<1> HIDE DEF n, withTools
<1>4. G \in [1..n -> FileMsg] /\ \A i \in 1..n : G[i] = Files!Given(Worked(s[i]))
  BY <1>0, <1>2, <1>3
<1> HIDE DEF G
<1>5. G \in Seq(FileMsg) /\ Len(G) = n
  BY <1>0, <1>4, FunSeq
<1>6. Files!System \in FileMsg /\ Files!System.type = "system" /\ Files!System.blocks # <<>> /\ ~Files!System.long
  <2>1. "text" \in Kinds /\ Files!NoLoc \in Place \cup {NoPlace}
    BY DEF Kinds, NoPlace
  <2>2. Files!Text \in Told
    BY <2>1, BlockTyped DEF Files!Text
  <2>3. <<Files!Text>> \in Seq(Told) /\ <<Files!Text>> # <<>> /\ <<>> \in Seq(Place)
    BY <2>2
  <2> QED
    BY <2>3 DEF Files!System, Files!Message, FileMsg
<1>7. a \in Seq(FileMsg) /\ Len(a) = 1 /\ a[1] = Files!System
  BY <1>6, OneOf
<1> HIDE DEF a
<1>8. S \in Seq(FileMsg) /\ Joined(S, a, G)
  BY <1>5, <1>7, ConcatJoins
<1> HIDE DEF S
<1>9. Len(S) = 1 + n /\ DOMAIN S = 1..(1 + n)
  BY <1>5, <1>7, <1>8, LenProperties DEF Joined
<1>10. S[1] = Files!System
  <2>1. 1 \in 1..1
    OBVIOUS
  <2> QED
    BY <1>7, <1>8, <2>1 DEF Joined
<1>11. \A i \in 1..n : S[1 + i] = Files!Given(Worked(s[i]))
  BY <1>4, <1>5, <1>7, <1>8 DEF Joined
<1>12. \A i \in 1..(1 + n) : F[i] = FillOne(S[i])
  BY <1>9 DEF FillOne, NoPlace
<1>13. DOMAIN F = 1..(1 + n)
  BY <1>9
<1> HIDE DEF F
<1>14. DOMAIN P = 1..(1 + n) /\ \A i \in 1..(1 + n) : P[i] = Files!Truncated(FillOne(S[i]))
  BY <1>1, <1>12, <1>13
<1>15. P[1] = Files!System
  <2>1. 1 \in 1..(1 + n)
    BY <1>0 DEF n
  <2>2. FillOne(Files!System) = Files!System
    BY <1>6 DEF FillOne
  <2>3. Files!Truncated(Files!System) = Files!System
    BY <1>6 DEF Files!Truncated
  <2> QED
    BY <1>10, <1>14, <2>1, <2>2, <2>3
<1>16. ASSUME NEW i \in 1..n PROVE Readied(P[1 + i], s[i])
  <2>1. 1 + i \in 1..(1 + n)
    BY <1>0 DEF n
  <2>2. P[1 + i] = ReadyOne(s[i])
    BY <1>11, <1>14, <2>1 DEF ReadyOne
  <2>3. s[i] \in FileMsg /\ Sound(s[i])
    BY <1>0 DEF n
  <2> QED
    BY <2>2, <2>3, ReadyOneAre
<1>17. Len(P) = 1 + n
  <2>1. P \in [1..(1 + n) -> {P[i] : i \in 1..(1 + n)}]
    BY <1>1, <1>13, <1>14
  <2>2. 1 + n \in Nat
    BY <1>0 DEF n
  <2> QED
    BY <2>1, <2>2, FunSeq
<1> QED
  BY <1>0, <1>6, <1>14, <1>15, <1>16, <1>17 DEF n

---------------------------------------------------------------------------
(* What the model is given shows the files: the invariant.                *)

\* A message has the files of a row: lists of one kind, as long as the row can be
\* told apart.
Fits(q, m) ==
  \E up \in BOOLEAN :
    /\ Uniform(q.files, up)
    /\ Files!SameKind(q.files) \/ Files!Exists(q.files[1])
         => Uniform(m.images, up) /\ Uniform(m.docs, up) /\ Parted(q.files, m.images, m.docs)

DiskTyped == DOMAIN disk \subseteq FileContents /\ \A c \in DOMAIN disk : disk[c] \in FileNames
ThreadSound == thread \in Seq(FileMsg) /\ \A i \in 1..Len(thread) : Sound(thread[i])
Asked(q) ==
  /\ q.at \in 1..Len(thread) /\ thread[q.at].type = "human"
  /\ q.uniform => Fits(q, thread[q.at])

\* Each message of the thread has one in the prompt.
PromptOf(s, p) ==
  /\ Len(p) = 1 + Len(s) /\ DOMAIN p = 1..(1 + Len(s))
  /\ p[1].type = "system" /\ p[1].blocks # <<>> /\ ~p[1].long
  /\ \A i \in 1..Len(s) :
       p[1 + i].type = s[i].type /\ (p[1 + i].blocks # <<>> \/ p[1 + i].calls > 0) /\ ~p[1 + i].long
QuestionShown(q) ==
  LET w == given[1 + q.at].blocks
  IN /\ w \in Seq(Told)
     /\ Files!Vision \/ TextOnly(w)
     /\ q.uniform /\ (Files!SameKind(q.files) \/ Files!Exists(q.files[1]))
          => \A i \in 1..Len(q.files) : ShownTo(q.files, i, w)

FilesInv ==
  /\ plugin \in BOOLEAN /\ DiskTyped /\ ThreadSound /\ sent \in Seq(Question)
  /\ sent # <<>> => Asked(sent[Len(sent)])
  /\ step # "idle" => sent # <<>>
  /\ step = "model" => PromptOf(thread, given) /\ QuestionShown(sent[Len(sent)])

LEMMA MessageAre ==
  ASSUME NEW type \in {"human", "ai", "tool"}, NEW form \in {"str", "list"}, NEW w \in Seq(Told),
         NEW a \in Seq(Place), NEW b \in Seq(Place), NEW calls \in Nat
  PROVE  LET m == Files!Message(type, form, w, a, b, calls)
         IN /\ m \in FileMsg /\ m.type = type /\ m.form = form /\ m.blocks = w /\ m.images = a /\ m.docs = b
            /\ m.calls = calls /\ ~m.long
PROOF
  BY DEF Files!Message, FileMsg

LEMMA TextTold == /\ Files!Text \in Told /\ <<Files!Text>> \in Seq(Told) /\ <<>> \in Seq(Told)
                  /\ TextOnly(<<Files!Text>>) /\ TextOnly(<<>>) /\ <<Files!Text>> # <<>>
PROOF
<1>1. "text" \in Kinds /\ Files!NoLoc \in Place \cup {NoPlace}
  BY DEF Kinds, NoPlace
<1>2. Files!Text \in Told /\ Files!Text.what = "text"
  BY <1>1, BlockTyped DEF Files!Text
<1> DEFINE t == Files!Text
<1> HIDE DEF t
<1>3. t \in Told /\ t.what = "text"
  BY <1>2 DEF t
<1>4. <<t>> \in Seq(Told) /\ Len(<<t>>) = 1 /\ <<t>>[1] = t /\ <<>> \in Seq(Told) /\ Len(<<>>) = 0
  BY <1>3
<1>5. TextOnly(<<t>>) /\ TextOnly(<<>>) /\ <<t>> # <<>>
  BY <1>3, <1>4 DEF TextOnly
<1> QED
  BY <1>3, <1>4, <1>5 DEF t

LEMMA AppendSound ==
  ASSUME ThreadSound, NEW m \in FileMsg, Sound(m), NEW s, s = Append(thread, m)
  PROVE  /\ s \in Seq(FileMsg) /\ (\A i \in 1..Len(s) : Sound(s[i]))
         /\ Len(thread) \in Nat /\ Len(s) = Len(thread) + 1 /\ s[Len(thread) + 1] = m
         /\ \A i \in 1..Len(thread) : i \in 1..Len(s) /\ s[i] = thread[i]
PROOF
<1>1. thread \in Seq(FileMsg) /\ Len(thread) \in Nat
  BY LenProperties DEF ThreadSound
<1>2. /\ s \in Seq(FileMsg) /\ Len(s) = Len(thread) + 1 /\ s[Len(thread) + 1] = m
      /\ \A i \in 1..Len(thread) : s[i] = thread[i]
  BY <1>1, AppendProperties
<1>3. ASSUME NEW i \in 1..Len(s) PROVE Sound(s[i])
  <2>1. i \in 1..Len(thread) \/ i = Len(thread) + 1
    BY <1>1, <1>2
  <2> QED
    BY <1>2, <2>1 DEF ThreadSound
<1> QED
  BY <1>1, <1>2, <1>3

\* What is stored is stored by the name of an upload.
LEMMA SavedTyped ==
  ASSUME DiskTyped, NEW fs \in Seq(Uploads)
  PROVE  /\ DOMAIN Files!Saved(fs) \subseteq FileContents
         /\ \A c \in DOMAIN Files!Saved(fs) : Files!Saved(fs)[c] \in FileNames
         /\ \A i \in DOMAIN fs : fs[i].content \in DOMAIN Files!Saved(fs)
PROOF
<1> DEFINE new == {fs[i].content : i \in DOMAIN fs}
           At(c) == {i \in DOMAIN fs : fs[i].content = c}
           D == Files!Saved(fs)
<1>0. DOMAIN fs = 1..Len(fs) /\ Len(fs) \in Nat /\ \A i \in DOMAIN fs : fs[i] \in Uploads
  BY LenProperties, ElementOfSeq
<1>1. D = [c \in DOMAIN disk \cup new |-> IF c \in DOMAIN disk THEN disk[c] ELSE fs[Files!Min(At(c))].name]
  BY DEF Files!Saved
<1>2. ASSUME NEW c \in new PROVE fs[Files!Min(At(c))].name \in FileNames
  <2>1. At(c) # {} /\ At(c) \in SUBSET Nat
    BY <1>0
  <2>2. \E i \in At(c) : \A j \in At(c) : i <= j
    <3> HIDE DEF At
    <3> QED
      BY <2>1, LeastExists
  <2>3. Files!Min(At(c)) \in At(c)
    <3> HIDE DEF At
    <3> QED
      BY <2>2 DEF Files!Min
  <2>4. fs[Files!Min(At(c))] \in Uploads
    BY <1>0, <2>3
  <2> QED
    BY <2>4 DEF FileNames
<1>3. new \subseteq FileContents
  BY <1>0 DEF FileContents
<1>4. ASSUME NEW c \in DOMAIN D PROVE D[c] \in FileNames
  BY <1>1, <1>2 DEF DiskTyped
<1> QED
  BY <1>1, <1>3, <1>4 DEF DiskTyped

LEMMA AskKeepsFiles ==
  ASSUME FilesInv, NEW fs \in Seq(Uploads), NEW failed \in SUBSET DOMAIN fs, plugin \/ failed = {},
         NEW text \in BOOLEAN, Files!Ask(fs, failed, text)
  PROVE  FilesInv'
PROOF
<1> DEFINE D == Files!Saved(fs)
           U == {i \in DOMAIN fs : plugin /\ i \notin failed}
           a == Files!Listed(fs, failed, TRUE)
           b == Files!Listed(fs, failed, FALSE)
           c == a \o b
           w == IF text THEN <<Files!Text>> ELSE <<>>
           m == Files!Message("human", "list", w, a, b, 0)
           q == [at |-> Len(thread) + 1, files |-> c, text |-> text, uploads |-> Len(fs),
                 uniform |-> failed = {} \/ failed = DOMAIN fs]
<1>1. disk' = D /\ thread' = Append(thread, m) /\ sent' = Append(sent, q) /\ step' = "agent"
      /\ plugin' = plugin
  BY DEF Files!Ask
<1>2. Len(fs) \in Nat /\ DOMAIN fs = 1..Len(fs) /\ Len(sent) \in Nat
  BY LenProperties DEF FilesInv
<1>3. /\ DOMAIN D \subseteq FileContents /\ \A x \in DOMAIN D : D[x] \in FileNames
      /\ \A i \in DOMAIN fs : D[fs[i].content] \in FileNames
  BY SavedTyped DEF FilesInv
<1> HIDE DEF D
<1>4. ASSUME NEW image \in BOOLEAN PROVE Files!Listed(fs, failed, image) = FlattenSeq(ListingOf(fs, D, U, image))
  <2> DEFINE L == [i \in DOMAIN fs |->
                     LET places == Files!Places(fs[i], i \in failed)
                     IN IF Files!IsImage(places[1]) = image THEN places ELSE <<>>]
  <2>1. \A i \in DOMAIN fs : Files!Places(fs[i], i \in failed) = PlacesBy(fs[i], D, i \in U)
    BY <1>1 DEF Files!Places, PlacesBy
  <2>2. L = ListingOf(fs, D, U, image)
    BY <2>1 DEF ListingOf
  <2>3. Files!Listed(fs, failed, image) = FlattenSeq(L)
    BY FilesFlatten DEF Files!Listed
  <2> HIDE DEF L
  <2> QED
    BY <2>2, <2>3
<1>5. a = FlattenSeq(ListingOf(fs, D, U, TRUE)) /\ b = FlattenSeq(ListingOf(fs, D, U, FALSE))
  BY <1>4
<1> HIDE DEF U, a, b
<1>6. /\ a \in Seq(Place)
      /\ \A j \in 1..Len(a) : a[j].at = "local" => Files!IsImage(a[j]) = TRUE
      /\ \A up \in BOOLEAN : (\A i \in DOMAIN fs : (i \in U) = up) => Uniform(a, up)
  <2>1. a \in Seq(Place) /\ ListOf(a, fs, U, TRUE)
    BY <1>3, <1>5, ListingAre
  <2> QED
    BY <2>1 DEF ListOf
<1>7. /\ b \in Seq(Place)
      /\ \A j \in 1..Len(b) : b[j].at = "local" => Files!IsImage(b[j]) = FALSE
      /\ \A up \in BOOLEAN : (\A i \in DOMAIN fs : (i \in U) = up) => Uniform(b, up)
  <2>1. b \in Seq(Place) /\ ListOf(b, fs, U, FALSE)
    BY <1>3, <1>5, ListingAre
  <2> QED
    BY <2>1 DEF ListOf
<1>8. c \in Seq(Place) /\ Parted(c, a, b)
  BY <1>6, <1>7, JoinedParts
<1> HIDE DEF c
<1>9. w \in Seq(Told)
  BY TextTold
<1> HIDE DEF w
<1>10. m \in FileMsg /\ m.type = "human" /\ m.form = "list" /\ m.images = a /\ m.docs = b /\ ~m.long
  BY <1>6, <1>7, <1>9, MessageAre
<1>11. Sound(m)
  BY <1>10 DEF Sound
<1> HIDE DEF m
<1>12. /\ thread' \in Seq(FileMsg) /\ (\A i \in 1..Len(thread') : Sound(thread'[i]))
       /\ Len(thread) \in Nat /\ Len(thread') = Len(thread) + 1 /\ thread'[Len(thread) + 1] = m
  BY <1>1, <1>10, <1>11, AppendSound DEF FilesInv
<1>13. q \in Question
  BY <1>2, <1>8, <1>12 DEF Question
<1>14. q.at = Len(thread) + 1 /\ q.files = c /\ (q.uniform <=> failed = {} \/ failed = DOMAIN fs)
  OBVIOUS
<1> HIDE DEF q
<1> DEFINE x == sent[Len(sent)]
<1>15. sent' \in Seq(Question) /\ x' = q
  <2>1. /\ sent' \in Seq(Question) /\ Len(sent') = Len(sent) + 1 /\ sent'[Len(sent) + 1] = q
    BY <1>1, <1>13, AppendProperties DEF FilesInv
  <2> QED
    BY <1>2, <2>1
<1>16. ASSUME failed = {} \/ failed = DOMAIN fs
       PROVE  \E up \in BOOLEAN : Uniform(c, up) /\ Uniform(a, up) /\ Uniform(b, up)
  <2> DEFINE up == failed = {} /\ plugin
  <2>1. \A i \in DOMAIN fs : (i \in U) = up
    BY <1>16 DEF U, FilesInv
  <2>2. up \in BOOLEAN
    BY DEF FilesInv
  <2> HIDE DEF up
  <2>3. Uniform(a, up) /\ Uniform(b, up)
    BY <1>6, <1>7, <2>1, <2>2
  <2>4. Uniform(c, up)
    BY <1>6, <1>7, <2>2, <2>3, ConcatUniform DEF c
  <2> QED
    BY <2>2, <2>3, <2>4
<1> HIDE DEF x
<1>17. Asked(x)'
  <2>1. x'.at \in 1..Len(thread') /\ thread'[x'.at] = m
    BY <1>12, <1>14, <1>15
  <2>2. x'.files = c /\ (x'.uniform <=> failed = {} \/ failed = DOMAIN fs)
    BY <1>14, <1>15
  <2>3. x'.uniform => \E up \in BOOLEAN : /\ Uniform(x'.files, up) /\ Uniform((thread'[x'.at]).images, up)
                                            /\ Uniform((thread'[x'.at]).docs, up)
    BY <1>10, <1>16, <2>1, <2>2
  <2>4. Parted(x'.files, (thread'[x'.at]).images, (thread'[x'.at]).docs)
    BY <1>8, <1>10, <2>1, <2>2
  <2>5. Fits(x, thread[x.at])' \/ ~x'.uniform
    BY <2>3, <2>4 DEF Fits, Parted, Files!IsImage
  <2> QED
    BY <1>10, <2>1, <2>5 DEF Asked
<1>18. DiskTyped' /\ ThreadSound' /\ Asked(sent[Len(sent)])'
  BY <1>1, <1>3, <1>12, <1>17 DEF DiskTyped, ThreadSound, x
<1> QED
  BY <1>1, <1>15, <1>18 DEF FilesInv

LEMMA RetryKeepsFiles ==
  ASSUME FilesInv, Files!Retry
  PROVE  FilesInv'
PROOF
<1> DEFINE q == sent[Len(sent)]
           a == Files!Divided(q.files, TRUE)
           b == Files!Divided(q.files, FALSE)
           w == IF q.text THEN <<Files!Text>> ELSE <<>>
           m == IF q.files = <<>> THEN Files!Message("human", "str", w, <<>>, <<>>, 0)
                ELSE Files!Message("human", "list", w, a, b, 0)
           s == SubSeq(thread, 1, q.at - 1)
<1>1. thread' = Append(s, m) /\ step' = "agent" /\ sent # <<>>
      /\ plugin' = plugin /\ disk' = disk /\ sent' = sent
  BY DEF Files!Retry, Files!Last
<1>2. q \in Question /\ Asked(q) /\ q.files \in Seq(Place)
  <2>1. q \in Question /\ Asked(q)
    BY <1>1, LenProperties, ElementOfSeq, EmptySeq DEF FilesInv
  <2> HIDE DEF q
  <2> QED
    BY <2>1 DEF Question
<1> HIDE DEF q
<1>3. a \in Seq(Place) /\ b \in Seq(Place)
  BY <1>2, DividedHas
<1>4. w \in Seq(Told) /\ TextOnly(w)
  BY TextTold
<1> HIDE DEF a, b, w
<1>5. /\ m \in FileMsg /\ m.type = "human" /\ ~m.long
      /\ IF q.files = <<>> THEN m.form = "str" /\ m.images = <<>> /\ m.docs = <<>> /\ m.blocks = w
         ELSE m.form = "list" /\ m.images = a /\ m.docs = b
  <2>1. <<>> \in Seq(Place)
    OBVIOUS
  <2>2. ASSUME NEW u \in Seq(Place), NEW v \in Seq(Place), NEW form \in {"str", "list"}
        PROVE  LET n == Files!Message("human", form, w, u, v, 0)
               IN n \in FileMsg /\ n.type = "human" /\ n.form = form /\ n.blocks = w /\ n.images = u /\ n.docs = v /\ ~n.long
    BY <1>4, MessageAre
  <2>3. CASE q.files = <<>>
    <3>1. m = Files!Message("human", "str", w, <<>>, <<>>, 0)
      BY <2>3
    <3> DEFINE e == <<>>
    <3>2. e \in Seq(Place) /\ m = Files!Message("human", "str", w, e, e, 0)
      BY <2>1, <3>1
    <3> HIDE DEF m, e
    <3>3. /\ m \in FileMsg /\ m.type = "human" /\ m.form = "str" /\ m.blocks = w /\ m.images = e /\ m.docs = e
          /\ ~m.long
      BY <2>2, <3>2
    <3> QED
      BY <2>3, <3>3 DEF e
  <2>4. CASE q.files # <<>>
    <3>1. m = Files!Message("human", "list", w, a, b, 0)
      BY <2>4
    <3> HIDE DEF m
    <3> QED
      BY <1>3, <2>2, <2>4, <3>1
  <2> QED
    BY <2>3, <2>4
<1>6. Sound(m)
  BY <1>4, <1>5 DEF Sound
<1> HIDE DEF m
<1>7. /\ s \in Seq(FileMsg) /\ q.at \in Nat /\ 1 <= q.at /\ Len(s) = q.at - 1
      /\ \A i \in 1..Len(s) : s[i] = thread[i] /\ i \in 1..Len(thread)
  <2>1. thread \in Seq(FileMsg) /\ Len(thread) \in Nat /\ q.at \in 1..Len(thread)
    BY <1>2, LenProperties DEF FilesInv, ThreadSound, Asked
  <2> QED
    BY <2>1
<1> HIDE DEF s
<1>8. /\ thread' \in Seq(FileMsg) /\ Len(thread') = q.at /\ thread'[q.at] = m
      /\ \A i \in 1..Len(thread') : Sound(thread'[i])
  <2>1. /\ thread' \in Seq(FileMsg) /\ Len(thread') = Len(s) + 1 /\ thread'[Len(s) + 1] = m
        /\ \A i \in 1..Len(s) : thread'[i] = s[i]
    BY <1>1, <1>5, <1>7, AppendProperties
  <2>2. Len(s) + 1 = q.at
    BY <1>7
  <2>3. ASSUME NEW i \in 1..Len(thread') PROVE Sound(thread'[i])
    <3>1. i \in 1..Len(s) \/ i = Len(s) + 1
      BY <1>7, <2>1, <2>2
    <3> QED
      BY <1>6, <1>7, <2>1, <3>1 DEF FilesInv, ThreadSound
  <2> QED
    BY <2>1, <2>2, <2>3
<1>9. ASSUME q.uniform PROVE Fits(q, m)
  <2>1. PICK up \in BOOLEAN : Uniform(q.files, up)
    BY <1>2, <1>9 DEF Asked, Fits
  <2>2. CASE q.files = <<>>
    <3>1. Len(q.files) = 0 /\ Len(<<>>) = 0 /\ 0 % 2 = 0
      BY <2>2
    <3>2. Uniform(<<>>, up)
      BY <3>1 DEF Uniform, InTurn, OnlyPaths
    <3>3. Parted(q.files, <<>>, <<>>)
      BY <3>1 DEF Parted
    <3> QED
      BY <1>5, <2>1, <2>2, <3>2, <3>3 DEF Fits
  <2>3. CASE q.files # <<>>
    <3>1. ASSUME Files!SameKind(q.files) \/ Files!Exists(q.files[1]) PROVE Uniform(a, up) /\ Uniform(b, up)
      BY <1>2, <2>1, <3>1, DividedUniform DEF a, b
    <3>2. Parted(q.files, a, b)
      BY <1>2, <2>1, DividedParts DEF a, b
    <3> QED
      BY <1>5, <2>1, <2>3, <3>1, <3>2 DEF Fits
  <2> QED
    BY <2>2, <2>3
<1> DEFINE x == sent[Len(sent)]
<1>10. x = q /\ x' = q
  BY <1>1 DEF q
<1> HIDE DEF x
<1>11. Asked(x)'
  <2>1. x'.at \in 1..Len(thread') /\ thread'[x'.at] = m
    BY <1>7, <1>8, <1>10
  <2>2. ASSUME x'.uniform PROVE Fits(x, thread[x.at])'
    <3>1. PICK up \in BOOLEAN :
            /\ Uniform(q.files, up)
            /\ Files!SameKind(q.files) \/ Files!Exists(q.files[1])
                 => Uniform(m.images, up) /\ Uniform(m.docs, up) /\ Parted(q.files, m.images, m.docs)
      BY <1>9, <1>10, <2>2 DEF Fits
    <3>2. /\ Files!SameKind(x.files)' <=> Files!SameKind(q.files)
          /\ Files!Exists(x.files[1])' <=> Files!Exists(q.files[1])
      BY <1>1, <1>10 DEF Files!SameKind, Files!Exists, Files!IsImage
    <3>3. Parted(q.files, m.images, m.docs) => Parted(x.files, (thread[x.at]).images, (thread[x.at]).docs)'
      BY <1>10, <2>1 DEF Parted, Files!IsImage
    <3> QED
      BY <1>10, <2>1, <3>1, <3>2, <3>3 DEF Fits
  <2> QED
    BY <1>5, <2>1, <2>2 DEF Asked
<1>12. DiskTyped' /\ ThreadSound' /\ Asked(sent[Len(sent)])' /\ (sent \in Seq(Question))' /\ (sent # <<>>)'
  BY <1>1, <1>8, <1>11 DEF FilesInv, DiskTyped, ThreadSound, x
<1> QED
  BY <1>1, <1>12 DEF FilesInv

\* Any other step leaves the rows and the disk, and what it adds is sound.
LEMMA AddKeepsFiles ==
  ASSUME FilesInv, NEW s \in Seq(FileMsg), \A i \in 1..Len(s) : Sound(s[i]), thread' = thread \o s, sent # <<>>,
         step' # "model", UNCHANGED <<plugin, disk, sent>>
  PROVE  FilesInv'
PROOF
<1> DEFINE x == sent[Len(sent)]
<1>1. thread \in Seq(FileMsg) /\ Len(thread) \in Nat /\ Asked(x)
  BY LenProperties DEF FilesInv, ThreadSound
<1>2. thread' \in Seq(FileMsg) /\ Joined(thread', thread, s)
  BY <1>1, ConcatJoins
<1>3. Len(s) \in Nat /\ Len(thread') = Len(thread) + Len(s)
  BY <1>2 DEF Joined
<1>4. ASSUME NEW i \in 1..Len(thread') PROVE Sound(thread'[i])
  <2>1. i \in 1..Len(thread) \/ (i - Len(thread) \in 1..Len(s) /\ Len(thread) + (i - Len(thread)) = i)
    BY <1>1, <1>3
  <2>2. CASE i \in 1..Len(thread)
    <3>1. thread'[i] = thread[i]
      BY <1>2, <2>2 DEF Joined
    <3> QED
      BY <2>2, <3>1 DEF FilesInv, ThreadSound
  <2>3. CASE i - Len(thread) \in 1..Len(s) /\ Len(thread) + (i - Len(thread)) = i
    <3>1. thread'[i] = s[i - Len(thread)]
      BY <1>2, <2>3 DEF Joined
    <3> QED
      BY <2>3, <3>1
  <2> QED
    BY <2>1, <2>2, <2>3
<1> HIDE DEF x
<1>5. x' = x
  BY DEF x
<1>6. Asked(x)'
  <2>1. x.at \in 1..Len(thread') /\ thread'[x.at] = thread[x.at]
    <3>1. x.at \in 1..Len(thread)
      BY <1>1 DEF Asked
    <3> QED
      BY <1>1, <1>2, <1>3, <3>1 DEF Joined
  <2>2. Fits(x, thread[x.at]) => Fits(x, thread[x.at])'
    BY <1>5, <2>1 DEF Fits, Files!SameKind, Files!Exists, Files!IsImage, Parted
  <2> QED
    BY <1>1, <1>5, <2>1, <2>2 DEF Asked
<1>7. DiskTyped' /\ ThreadSound' /\ Asked(sent[Len(sent)])'
  BY <1>2, <1>4, <1>6 DEF FilesInv, DiskTyped, ThreadSound, x
<1> QED
  BY <1>7 DEF FilesInv

LEMMA ReplyKeepsFiles ==
  ASSUME FilesInv, NEW form \in {"str", "list"}, NEW text \in BOOLEAN, NEW calls \in {0, 1},
         NEW written \in BOOLEAN, NEW parsed \in BOOLEAN, Files!Reply(form, text, calls, written, parsed)
  PROVE  FilesInv'
PROOF
<1> DEFINE found == form = "str" /\ written /\ parsed
           w == IF text \/ (written /\ ~found) THEN <<Files!Text>> ELSE <<>>
           k == calls + (IF found THEN 1 ELSE 0)
           m == Files!Message("ai", form, w, <<>>, <<>>, k)
<1>1. thread' = Append(thread, m) /\ step' \in {"tools", "idle"} /\ step = "model" /\ UNCHANGED <<plugin, disk, sent>>
  BY DEF Files!Reply
<1>2. w \in Seq(Told) /\ k \in Nat
  BY TextTold
<1> HIDE DEF w, k
<1>3. m \in FileMsg /\ m.type = "ai" /\ ~m.long
  <2> DEFINE e == <<>>
  <2>1. e \in Seq(Place)
    OBVIOUS
  <2> HIDE DEF e
  <2>2. LET n == Files!Message("ai", form, w, e, e, k)
        IN n \in FileMsg /\ n.type = "ai" /\ ~n.long
    BY <1>2, <2>1, MessageAre
  <2> QED
    BY <2>2 DEF e
<1> HIDE DEF m
<1>4. Sound(m)
  BY <1>3 DEF Sound
<1>5. <<m>> \in Seq(FileMsg) /\ Len(<<m>>) = 1 /\ <<m>>[1] = m
  BY <1>3
<1>6. \A i \in 1..Len(<<m>>) : Sound(<<m>>[i])
  BY <1>4, <1>5
<1>7. thread' = thread \o <<m>>
  BY <1>1, <1>3 DEF FilesInv, ThreadSound
<1>8. sent # <<>>
  BY <1>1 DEF FilesInv
<1> QED
  BY <1>1, <1>5, <1>6, <1>7, <1>8, AddKeepsFiles

LEMMA ToolsKeepFiles ==
  ASSUME FilesInv, NEW long \in BOOLEAN, Files!RunTools(long)
  PROVE  FilesInv'
PROOF
<1> DEFINE n == thread[Len(thread)].calls
           r == [Files!Message("tool", "str", <<Files!Text>>, <<>>, <<>>, 0) EXCEPT !.long = long]
           s == [i \in 1..n |-> r]
<1>1. thread' = thread \o s /\ step' = "agent" /\ step = "tools" /\ UNCHANGED <<plugin, disk, sent>>
  BY DEF Files!RunTools, Files!Last
<1>2. sent # <<>>
  BY <1>1 DEF FilesInv
<1>3. n \in Nat
  <2>1. thread \in Seq(FileMsg) /\ Len(thread) \in Nat /\ Len(thread) # 0
    BY <1>2, LenProperties DEF FilesInv, ThreadSound, Asked
  <2>2. thread[Len(thread)] \in FileMsg
    <3>1. Len(thread) \in 1..Len(thread)
      BY <2>1
    <3> QED
      BY <2>1, <3>1, ElementOfSeq
  <2> QED
    BY <2>2 DEF FileMsg
<1>4. r \in FileMsg /\ Sound(r)
  <2> DEFINE e == <<>>
             w == <<Files!Text>>
             m == Files!Message("tool", "str", w, e, e, 0)
  <2>1. e \in Seq(Place) /\ w \in Seq(Told) /\ w # <<>>
    BY TextTold
  <2> HIDE DEF e, w
  <2>2. m \in FileMsg /\ m.type = "tool" /\ m.form = "str" /\ m.blocks = w
    BY <2>1, MessageAre
  <2>3. r = [m EXCEPT !.long = long]
    BY DEF e, w
  <2> HIDE DEF m, r
  <2>4. r \in FileMsg /\ r.type = "tool" /\ r.form = "str" /\ r.blocks = w
    BY <2>2, <2>3 DEF FileMsg
  <2> QED
    BY <2>1, <2>4 DEF Sound
<1> HIDE DEF n, r
<1>5. s \in [1..n -> FileMsg] /\ \A i \in 1..n : s[i] = r
  BY <1>4
<1> HIDE DEF s
<1>6. s \in Seq(FileMsg) /\ Len(s) = n
  BY <1>3, <1>5, FunSeq
<1>7. \A i \in 1..Len(s) : Sound(s[i])
  BY <1>4, <1>5, <1>6
<1> QED
  BY <1>1, <1>2, <1>6, <1>7, AddKeepsFiles

\* A file that vanishes leaves less to be shown.
LEMMA VanishKeepsFiles ==
  ASSUME FilesInv, NEW c \in DOMAIN disk, Files!Vanish(c)
  PROVE  FilesInv'
PROOF
<1> DEFINE x == sent[Len(sent)]
<1>1. /\ disk' = [d \in DOMAIN disk \ {c} |-> disk[d]]
      /\ UNCHANGED <<model, plugin, thread, sent, given, step>>
  BY DEF Files!Vanish
<1>2. ASSUME NEW l, Files!Exists(l)' PROVE Files!Exists(l)
  BY <1>1, <1>2 DEF Files!Exists
<1>3. DiskTyped'
  BY <1>1 DEF FilesInv, DiskTyped
<1> HIDE DEF x
<1>4. x' = x /\ thread' = thread /\ given' = given
  BY <1>1 DEF x
<1>5. Asked(x) => Asked(x)'
  <2>1. ASSUME Fits(x, thread[x.at]) PROVE Fits(x, thread[x.at])'
    <3>1. PICK up \in BOOLEAN :
            /\ Uniform(x.files, up)
            /\ Files!SameKind(x.files) \/ Files!Exists(x.files[1])
                 => /\ Uniform((thread[x.at]).images, up) /\ Uniform((thread[x.at]).docs, up)
                    /\ Parted(x.files, (thread[x.at]).images, (thread[x.at]).docs)
      BY <2>1 DEF Fits
    <3>2. Files!SameKind(x.files)' <=> Files!SameKind(x.files)
      BY <1>4 DEF Files!SameKind, Files!IsImage
    <3>3. Files!Exists(x.files[1])' => Files!Exists(x.files[1])
      BY <1>1, <1>4 DEF Files!Exists
    <3>4. Parted(x.files, (thread[x.at]).images, (thread[x.at]).docs)
            => Parted(x.files, (thread[x.at]).images, (thread[x.at]).docs)'
      BY <1>4 DEF Parted, Files!IsImage
    <3> QED
      BY <1>4, <3>1, <3>2, <3>3, <3>4 DEF Fits
  <2> QED
    BY <1>4, <2>1 DEF Asked
<1>6. QuestionShown(x) => QuestionShown(x)'
  <2> DEFINE w == given[1 + x.at].blocks
  <2>1. w' = w /\ (Files!Vision' <=> Files!Vision)
    BY <1>1, <1>4 DEF Files!Vision
  <2> HIDE DEF w
  <2>2. ASSUME NEW i, ShownTo(x.files, i, w) PROVE ShownTo(x.files, i, w)'
    <3>1. Files!Exists(x.files[i])' => Files!Exists(x.files[i])
      BY <1>1, <1>4 DEF Files!Exists
    <3>2. AllThere(x.files)' => AllThere(x.files)
      BY <1>1, <1>4 DEF Files!Exists, AllThere
    <3> QED
      BY <1>4, <2>1, <2>2, <3>1, <3>2 DEF ShownTo, Pictures, Reads, Files!IsImage
  <2>3. Files!SameKind(x.files)' <=> Files!SameKind(x.files)
    BY <1>4 DEF Files!SameKind, Files!IsImage
  <2>4. Files!Exists(x.files[1])' => Files!Exists(x.files[1])
    BY <1>1, <1>4 DEF Files!Exists
  <2>5. ASSUME w \in Seq(Told), Files!Vision \/ TextOnly(w),
               x.uniform /\ (Files!SameKind(x.files) \/ Files!Exists(x.files[1]))
                 => \A i \in 1..Len(x.files) : ShownTo(x.files, i, w)
        PROVE  /\ (w \in Seq(Told))' /\ (Files!Vision \/ TextOnly(w))'
               /\ (x.uniform /\ (Files!SameKind(x.files) \/ Files!Exists(x.files[1]))
                     => \A i \in 1..Len(x.files) : ShownTo(x.files, i, w))'
    BY <1>4, <2>1, <2>2, <2>3, <2>4, <2>5 DEF TextOnly
  <2> QED
    BY <2>5 DEF QuestionShown, w
<1>7. ThreadSound' /\ (PromptOf(thread, given) => PromptOf(thread, given)')
  BY <1>4 DEF FilesInv, ThreadSound, PromptOf
<1> QED
  BY <1>1, <1>3, <1>5, <1>6, <1>7 DEF FilesInv, x

LEMMA ModelKeepsFiles ==
  ASSUME FilesInv, Files!CallModel
  PROVE  FilesInv'
PROOF
<1> DEFINE x == sent[Len(sent)]
           n == Len(thread)
<1>1. /\ given' = Files!Prepared(thread)
      /\ thread' = [i \in DOMAIN thread |-> Files!WithFiles(thread[i])]
      /\ step = "agent" /\ UNCHANGED <<model, plugin, disk, sent>>
  BY DEF Files!CallModel
<1>2. thread \in Seq(FileMsg) /\ n \in Nat /\ DOMAIN thread = 1..n /\ (\A i \in 1..n : thread[i] \in FileMsg /\ Sound(thread[i]))
  BY LenProperties, ElementOfSeq DEF FilesInv, ThreadSound
<1>3. \A i \in 1..n :
        /\ Files!WithFiles(thread[i]) \in FileMsg /\ Sound(Files!WithFiles(thread[i]))
        /\ Files!WithFiles(thread[i]).type = thread[i].type
        /\ Files!WithFiles(thread[i]).images = thread[i].images
        /\ Files!WithFiles(thread[i]).docs = thread[i].docs
  <2>1. ASSUME NEW i \in 1..n
        PROVE  /\ Files!WithFiles(thread[i]) \in FileMsg /\ Sound(Files!WithFiles(thread[i]))
               /\ Files!WithFiles(thread[i]).type = thread[i].type
               /\ Files!WithFiles(thread[i]).images = thread[i].images
               /\ Files!WithFiles(thread[i]).docs = thread[i].docs
    BY <1>2, WithFilesAre
  <2> QED
    BY <2>1
<1> HIDE DEF n
<1>4. /\ thread' \in [1..n -> FileMsg]
      /\ \A i \in 1..n : thread'[i] = Files!WithFiles(thread[i])
  BY <1>1, <1>2, <1>3
<1>5. thread' \in Seq(FileMsg) /\ Len(thread') = n
  BY <1>2, <1>4, FunSeq
<1>6. /\ Len(given') = 1 + n /\ DOMAIN given' = 1..(1 + n)
      /\ given'[1].type = "system" /\ given'[1].blocks # <<>> /\ ~given'[1].long
      /\ \A i \in 1..n : Readied(given'[1 + i], thread[i])
  BY <1>1, <1>2, PreparedAre DEF n
<1>7. sent # <<>> /\ Asked(x)
  BY <1>1 DEF FilesInv
<1>8. x \in Question
  BY <1>7, LenProperties, ElementOfSeq, EmptySeq DEF FilesInv
<1> HIDE DEF x
<1>9. x' = x /\ x.at \in 1..n /\ x.files \in Seq(Place)
  <2>1. x' = x
    BY <1>1 DEF x
  <2> QED
    BY <1>7, <1>8, <2>1 DEF Asked, Question, n
<1> DEFINE m == thread[x.at]
<1>10. m \in FileMsg /\ Sound(m) /\ m.type = "human" /\ (x.uniform => Fits(x, m))
  BY <1>2, <1>7, <1>9 DEF Asked
<1>11. Asked(x)'
  <2>1. thread'[x.at] = Files!WithFiles(m) /\ x.at \in 1..Len(thread')
    BY <1>4, <1>5, <1>9
  <2>2. (thread'[x.at]).type = "human" /\ (thread'[x.at]).images = m.images /\ (thread'[x.at]).docs = m.docs
    BY <1>3, <1>9, <1>10, <2>1
  <2>3. ASSUME x.uniform PROVE Fits(x, thread[x.at])'
    <3>1. PICK up \in BOOLEAN :
            /\ Uniform(x.files, up)
            /\ Files!SameKind(x.files) \/ Files!Exists(x.files[1])
                 => Uniform(m.images, up) /\ Uniform(m.docs, up) /\ Parted(x.files, m.images, m.docs)
      BY <1>10, <2>3 DEF Fits
    <3>2. /\ Files!SameKind(x.files)' <=> Files!SameKind(x.files)
          /\ Files!Exists(x.files[1])' <=> Files!Exists(x.files[1])
      BY <1>1, <1>9 DEF Files!SameKind, Files!Exists, Files!IsImage
    <3>3. Parted(x.files, m.images, m.docs) => Parted(x.files, (thread[x.at]).images, (thread[x.at]).docs)'
      <4> DEFINE a == m.images
                 b == m.docs
      <4>1. (thread[x.at].images)' = a /\ (thread[x.at].docs)' = b /\ (x.files)' = x.files
        BY <1>9, <2>2
      <4> HIDE DEF m, a, b
      <4>2. Parted(x.files, a, b) => Parted(x.files, (thread[x.at]).images, (thread[x.at]).docs)'
        BY <4>1 DEF Parted, Files!IsImage
      <4> QED
        BY <4>2 DEF a, b
    <3> HIDE DEF m
    <3> QED
      BY <1>9, <2>2, <3>1, <3>2, <3>3 DEF Fits
  <2> QED
    BY <1>9, <2>1, <2>2, <2>3 DEF Asked
<1>12. PromptOf(thread, given)'
  <2>1. ASSUME NEW i \in 1..n
        PROVE  /\ given'[1 + i].type = thread'[i].type
               /\ given'[1 + i].blocks # <<>> \/ given'[1 + i].calls > 0
               /\ ~given'[1 + i].long
    BY <1>3, <1>4, <1>6 DEF Readied
  <2> QED
    BY <1>5, <1>6, <2>1 DEF PromptOf
<1>13. QuestionShown(x)'
  <2> DEFINE w == given'[1 + x.at].blocks
             g == Files!WithFiles(m)
  <2>1. /\ w \in Seq(Told)
        /\ Files!Vision \/ TextOnly(w)
        /\ \A l, i : (l[i].at \in {"local", "url"} /\ Shown(l, i, g.blocks)) => ShownTo(l, i, w)
    BY <1>6, <1>9, <1>10 DEF Readied
  <2>2. Holding(ImagesOf(m), g.blocks) /\ Holding(DocumentsOf(m), g.blocks)
    BY <1>10, WithFilesAre
  <2> HIDE DEF m, w, g
  <2>3. ASSUME x.uniform, Files!SameKind(x.files) \/ Files!Exists(x.files[1]), NEW i \in 1..Len(x.files)
        PROVE  ShownTo(x.files, i, w)
    <3>1. PICK up \in BOOLEAN :
            Uniform(m.images, up) /\ Uniform(m.docs, up) /\ Parted(x.files, m.images, m.docs)
      BY <1>10, <2>3 DEF Fits
    <3>2. Shown(x.files, i, g.blocks)
      BY <1>9, <1>10, <2>2, <3>1, FilesAreShown
    <3>3. x.files[i] \in Place
      BY <1>9, ElementOfSeq
    <3>4. x.files[i].at \in {"local", "url"}
      BY <3>3 DEF Place
    <3> QED
      BY <2>1, <3>2, <3>4
  <2>4. w = (given[1 + x.at].blocks)'
    BY <1>9 DEF w
  <2>5. /\ Files!Vision' <=> Files!Vision
        /\ Files!SameKind(x.files)' <=> Files!SameKind(x.files)
        /\ Files!Exists(x.files[1])' <=> Files!Exists(x.files[1])
    BY <1>1, <1>9 DEF Files!Vision, Files!SameKind, Files!Exists, Files!IsImage
  <2>6. ASSUME NEW i, ShownTo(x.files, i, w) PROVE ShownTo(x.files, i, given[1 + x.at].blocks)'
    <3>1. Files!Exists(x.files[i])' <=> Files!Exists(x.files[i])
      BY <1>1, <1>9 DEF Files!Exists
    <3>2. AllThere(x.files)' <=> AllThere(x.files)
      BY <1>1, <1>9 DEF Files!Exists, AllThere
    <3> QED
      BY <1>9, <2>4, <2>5, <2>6, <3>1, <3>2 DEF ShownTo, Pictures, Reads, Files!IsImage
  <2>7. (Files!Vision \/ TextOnly(given[1 + x.at].blocks))' /\ (given[1 + x.at].blocks \in Seq(Told))'
    BY <2>1, <2>4, <2>5 DEF TextOnly
  <2>8. (x.uniform /\ (Files!SameKind(x.files) \/ Files!Exists(x.files[1]))
           => \A i \in 1..Len(x.files) : ShownTo(x.files, i, given[1 + x.at].blocks))'
    BY <1>9, <2>3, <2>5, <2>6
  <2> QED
    BY <2>7, <2>8 DEF QuestionShown
<1>14. DiskTyped' /\ ThreadSound'
  <2>1. \A i \in 1..Len(thread') : Sound(thread'[i])
    BY <1>3, <1>4, <1>5
  <2> QED
    BY <1>1, <1>5, <2>1 DEF FilesInv, DiskTyped, ThreadSound
<1> QED
  BY <1>1, <1>11, <1>12, <1>13, <1>14 DEF FilesInv, x

LEMMA FilesStay ==
  ASSUME FilesInv, UNCHANGED fileVars
  PROVE  FilesInv'
PROOF
<1> DEFINE x == sent[Len(sent)]
<1>1. UNCHANGED <<model, plugin, disk, thread, sent, given, step>>
  BY DEF fileVars
<1>2. DiskTyped' /\ ThreadSound'
  BY <1>1 DEF FilesInv, DiskTyped, ThreadSound
<1> HIDE DEF x
<1>3. x' = x /\ thread' = thread /\ given' = given /\ disk' = disk /\ model' = model
  BY <1>1 DEF x
<1>4. Asked(x) => Asked(x)'
  BY <1>3 DEF Asked, Fits, Files!SameKind, Files!Exists, Files!IsImage, Parted
<1>5. QuestionShown(x) => QuestionShown(x)'
  <2> DEFINE w == given[1 + x.at].blocks
  <2>1. w' = w
    BY <1>3
  <2> HIDE DEF w
  <2>2. /\ Files!Vision' <=> Files!Vision
        /\ Files!SameKind(x.files)' <=> Files!SameKind(x.files)
        /\ Files!Exists(x.files[1])' <=> Files!Exists(x.files[1])
    BY <1>3 DEF Files!Vision, Files!SameKind, Files!Exists, Files!IsImage
  <2>3. ASSUME NEW i, ShownTo(x.files, i, w) PROVE ShownTo(x.files, i, w)'
    <3>1. /\ Files!Exists(x.files[i])' <=> Files!Exists(x.files[i])
          /\ AllThere(x.files)' <=> AllThere(x.files)
      BY <1>3 DEF Files!Exists, AllThere
    <3> QED
      BY <1>3, <2>1, <2>2, <2>3, <3>1 DEF ShownTo, Pictures, Reads, Files!IsImage
  <2>4. ASSUME w \in Seq(Told), Files!Vision \/ TextOnly(w),
               x.uniform /\ (Files!SameKind(x.files) \/ Files!Exists(x.files[1]))
                 => \A i \in 1..Len(x.files) : ShownTo(x.files, i, w)
        PROVE  /\ (w \in Seq(Told))' /\ (Files!Vision \/ TextOnly(w))'
               /\ (x.uniform /\ (Files!SameKind(x.files) \/ Files!Exists(x.files[1]))
                     => \A i \in 1..Len(x.files) : ShownTo(x.files, i, w))'
    BY <1>3, <2>1, <2>2, <2>3, <2>4 DEF TextOnly
  <2> QED
    BY <2>4 DEF QuestionShown, w
<1>6. PromptOf(thread, given) => PromptOf(thread, given)'
  BY <1>3 DEF PromptOf
<1> QED
  BY <1>1, <1>2, <1>4, <1>5, <1>6 DEF FilesInv, x

LEMMA FilesBegin ==
  ASSUME AllInit
  PROVE  FilesInv
PROOF
<1>1. plugin \in BOOLEAN /\ disk = <<>> /\ thread = <<>> /\ sent = <<>> /\ step = "idle"
  BY DEF AllInit, Files!PromptInit
<1>2. DOMAIN disk = {} /\ thread \in Seq(FileMsg) /\ Len(thread) = 0 /\ sent \in Seq(Question)
  BY <1>1
<1> QED
  BY <1>1, <1>2 DEF FilesInv, DiskTyped, ThreadSound

LEMMA FilesStep ==
  ASSUME FilesInv, [AllNext]_<<served, vars, fileVars>>
  PROVE  FilesInv'
PROOF
<1>1. CASE UNCHANGED fileVars
  BY <1>1, FilesStay
<1>2. CASE Files!PromptNext
  <2>1. ASSUME NEW fs \in Files!Questions, NEW text \in BOOLEAN,
               NEW failed \in (IF plugin THEN SUBSET DOMAIN fs ELSE {{}}), Files!Ask(fs, failed, text)
        PROVE  FilesInv'
    <3>1. fs \in Seq(Uploads)
      <4>1. PICK n \in 0..MaxFiles : fs \in [1..n -> Uploads]
        BY FilesAssumption DEF Files!Questions, Files!SeqOf
      <4>2. n \in Nat
        BY FilesAssumption
      <4> QED
        BY <4>1, <4>2, FunSeq
    <3>2. failed \in SUBSET DOMAIN fs /\ (plugin \/ failed = {})
      OBVIOUS
    <3> QED
      BY <2>1, <3>1, <3>2, AskKeepsFiles
  <2>2. CASE Files!Retry
    BY <2>2, RetryKeepsFiles
  <2>3. CASE Files!CallModel
    BY <2>3, ModelKeepsFiles
  <2>4. ASSUME NEW c \in DOMAIN disk, Files!Vanish(c) PROVE FilesInv'
    BY <2>4, VanishKeepsFiles
  <2>5. ASSUME NEW form \in {"str", "list"}, NEW text \in BOOLEAN, NEW written \in BOOLEAN, NEW parsed \in BOOLEAN,
               NEW calls \in (IF model.tools THEN {0, 1} ELSE {0}), Files!Reply(form, text, calls, written, parsed)
        PROVE  FilesInv'
    <3>1. calls \in {0, 1}
      OBVIOUS
    <3> QED
      BY <2>5, <3>1, ReplyKeepsFiles
  <2>6. ASSUME NEW long \in BOOLEAN, Files!RunTools(long) PROVE FilesInv'
    BY <2>6, ToolsKeepFiles
  <2> QED
    BY <1>2, <2>1, <2>2, <2>3, <2>4, <2>5, <2>6 DEF Files!PromptNext
<1> QED
  BY <1>1, <1>2 DEF AllNext

\* Each file of the last question is told, and shown.
LEMMA FilesAreTold ==
  ASSUME FilesInv
  PROVE  PromptShows
PROOF
<1> SUFFICES ASSUME step = "model" PROVE Files!PromptShows
  BY DEF PromptShows, Files!PromptShows
<1> DEFINE q == sent[Len(sent)]
           types(s) == [i \in DOMAIN s |-> s[i].type]
           w == given[q.at + 1].blocks
           h == <<"system">>
           t == types(thread)
           p == types(given)
<1>1. /\ ThreadSound /\ sent \in Seq(Question) /\ sent # <<>> /\ Asked(q)
      /\ PromptOf(thread, given) /\ QuestionShown(q)
  BY DEF FilesInv
<1>2. q \in Question
  BY <1>1, LenProperties, ElementOfSeq, EmptySeq
<1> HIDE DEF q
<1>3. q.at \in Nat /\ q.files \in Seq(Place) /\ q.at + 1 = 1 + q.at
  BY <1>2 DEF Question
<1>4. Len(thread) \in Nat /\ DOMAIN thread = 1..Len(thread)
  BY <1>1, LenProperties DEF ThreadSound
<1>5. p = h \o t
  <2> DEFINE n == Len(thread)
  <2>1. t \in [1..n -> {t[i] : i \in 1..n}]
    BY <1>4
  <2>2. t \in Seq({t[i] : i \in 1..n}) /\ Len(t) = n
    BY <1>4, <2>1, FunSeq
  <2>3. DOMAIN given = 1..(1 + n) /\ given[1].type = "system" /\ \A i \in 1..n : given[1 + i].type = thread[i].type
    BY <1>1 DEF PromptOf
  <2>4. DOMAIN p = 1..(1 + n) /\ p[1] = "system"
    <3>1. 1 \in 1..(1 + n)
      BY <1>4
    <3> QED
      BY <2>3, <3>1
  <2>5. \A i \in 1..n : t[i] = thread[i].type /\ p[1 + i] = thread[i].type
    <3>1. \A i \in 1..n : 1 + i \in 1..(1 + n)
      BY <1>4
    <3> QED
      BY <1>4, <2>3, <3>1
  <2>6. p = [i \in 1..(1 + n) |-> p[i]]
    BY <2>3
  <2> HIDE DEF p, t
  <2>7. h \o t = [i \in 1..(1 + n) |-> IF i <= 1 THEN h[i] ELSE t[i - 1]]
    BY <1>4, <2>2
  <2>8. ASSUME NEW i \in 1..(1 + n) PROVE p[i] = IF i <= 1 THEN h[i] ELSE t[i - 1]
    <3>1. CASE i = 1
      BY <2>4, <3>1
    <3>2. CASE i # 1
      <4>1. i - 1 \in 1..n /\ 1 + (i - 1) = i /\ ~(i <= 1)
        BY <1>4, <3>2
      <4> QED
        BY <2>5, <4>1
    <3> QED
      BY <3>1, <3>2
  <2> QED
    BY <2>6, <2>7, <2>8
<1>6. \A i \in DOMAIN given : (given[i].blocks # <<>> \/ given[i].calls > 0) /\ ~given[i].long
  <2>1. ASSUME NEW i \in 1..(1 + Len(thread)) PROVE i = 1 \/ (i - 1 \in 1..Len(thread) /\ 1 + (i - 1) = i)
    BY <1>4
  <2> QED
    BY <1>1, <2>1 DEF PromptOf
<1>7. DOMAIN q.files = 1..Len(q.files)
  BY <1>3, LenProperties
<1>8. /\ w \in Seq(Told)
      /\ Files!Vision \/ TextOnly(w)
      /\ q.uniform /\ (Files!SameKind(q.files) \/ Files!Exists(q.files[1]))
           => \A i \in 1..Len(q.files) : ShownTo(q.files, i, w)
  BY <1>1, <1>3 DEF QuestionShown
<1>9. given[q.at + 1].blocks = w
  OBVIOUS
<1> HIDE DEF w
<1> DEFINE R == Files!Range(w)
<1>10. R = {w[x] : x \in 1..Len(w)}
  BY <1>8, LenProperties DEF Files!Range
<1> HIDE DEF R
<1>11. Files!Vision \/ \A b \in R : b.what \notin {"image", "url", "pdf"}
  BY <1>8, <1>10 DEF TextOnly
<1>12. ASSUME q.uniform /\ (Files!SameKind(q.files) \/ Files!Exists(q.files[1])), NEW i \in 1..Len(q.files)
       PROVE  LET l == q.files[i]
              IN /\ l.at = "local" => \E b \in R : b.what = "info" /\ b.of = l
                 /\ l.at = "url" /\ (\A j \in 1..Len(q.files) : Files!Exists(q.files[j]) \/ q.files[j].at = "url")
                      => \E b \in R : b.what = "info" /\ b.url = l
                 /\ Files!Exists(l) /\ Files!IsImage(l) /\ Files!Vision
                      => \E b \in R : b.what \in {"image", "url"} /\ b.of = l
                 /\ Files!Exists(l) /\ KindOf[l.name] = "text"
                      => \E b \in R : b.what = "doctext" /\ b.of = l
  <2>1. ShownTo(q.files, i, w)
    BY <1>8, <1>12
  <2>2. \A x \in 1..Len(w) : w[x] \in R
    BY <1>10
  <2> QED
    BY <2>1, <2>2 DEF ShownTo, AllThere, Pictures, Reads
<1>13. Files!Last(sent) = q
  BY DEF Files!Last, q
<1> HIDE DEF p, h, t
<1>14. Files!Range(given[q.at + 1].blocks) = R
  BY <1>9 DEF R
<1>15. [i \in DOMAIN given |-> given[i].type] = <<"system">> \o [i \in DOMAIN thread |-> thread[i].type]
  BY <1>5 DEF p, h, t
<1>16. Files!PromptShows <=>
         /\ [i \in DOMAIN given |-> given[i].type] = <<"system">> \o [i \in DOMAIN thread |-> thread[i].type]
         /\ \A i \in DOMAIN given : (given[i].blocks # <<>> \/ given[i].calls > 0) /\ ~given[i].long
         /\ Files!Vision \/ \A b \in R : b.what \notin {"image", "url", "pdf"}
         /\ q.uniform /\ (Files!SameKind(q.files) \/ Files!Exists(q.files[1])) => \A i \in DOMAIN q.files :
              LET l == q.files[i]
              IN /\ l.at = "local" => \E b \in R : b.what = "info" /\ b.of = l
                 /\ l.at = "url" /\ (\A j \in DOMAIN q.files : Files!Exists(q.files[j]) \/ q.files[j].at = "url")
                      => \E b \in R : b.what = "info" /\ b.url = l
                 /\ Files!Exists(l) /\ Files!IsImage(l) /\ Files!Vision
                      => \E b \in R : b.what \in {"image", "url"} /\ b.of = l
                 /\ Files!Exists(l) /\ KindOf[l.name] = "text"
                      => \E b \in R : b.what = "doctext" /\ b.of = l
  BY <1>13, <1>14 DEF Files!PromptShows
<1> QED
  BY <1>6, <1>7, <1>11, <1>12, <1>15, <1>16

\* The prompt holds every message, and each file of the last question is told and shown.
THEOREM PromptsShow == AllSpec => []PromptShows
PROOF
<1>1. AllInit => FilesInv
  BY FilesBegin
<1>2. FilesInv /\ [AllNext]_<<served, vars, fileVars>> => FilesInv'
  BY FilesStep
<1>3. FilesInv => PromptShows
  BY FilesAreTold
<1> QED
  BY <1>1, <1>2, <1>3, PTL DEF AllSpec

=============================================================================
