----------------------------- MODULE ChatProofs -----------------------------
(***************************************************************************)
(* Proofs about the messages of a chat: that the lock keeps the turns of   *)
(* requests apart (TurnsKept), that requests that come one after another   *)
(* leave a Conversation in the database and in the thread, and that the    *)
(* two are the same conversation (ChatProcessor), and that a search tells  *)
(* what is stored (MessageStore).                                          *)
(***************************************************************************)
EXTENDS MCChatProcessor, SequenceTheorems, FiniteSetTheorems, WellFoundedInduction, TLAPS

---------------------------------------------------------------------------
(* The turns of the requests.                                              *)

\* A set of positions has a largest one: the least distance from the end.
LEMMA LargestExists ==
  ASSUME NEW n \in Nat, NEW S \in SUBSET (1..n), S # {}
  PROVE  \E i \in S : \A j \in S : j <= i
PROOF
<1> DEFINE R == {p \in Nat \X Nat : p[1] < p[2]}
           T == {n - i : i \in S}
<1>1. IsWellFoundedOn(R, Nat)
  BY NatLessThanWellFounded DEF OpToRel
<1>2. T \subseteq Nat /\ T # {}
  <2>1. \A i \in S : i \in 1..n /\ n - i \in Nat
    OBVIOUS
  <2> QED
    BY <2>1
<1>3. PICK d \in T : \A e \in T : ~(<<e, d>> \in R)
  BY <1>1, <1>2, WFMin
<1>4. PICK i \in S : d = n - i
  OBVIOUS
<1>5. ASSUME NEW j \in S PROVE j <= i
  <2>1. n - j \in T /\ n - j \in Nat /\ d \in Nat
    BY <1>2
  <2>2. ~(n - j < d)
    BY <1>3, <2>1
  <2>3. i \in Int /\ j \in Int
    OBVIOUS
  <2> QED
    BY <1>4, <2>2, <2>3
<1> QED
  BY <1>5

\* A request in its turn is the one that holds the lock.
TurnHoldsLock == \A q \in Reqs : req[q].pc \in InTurn => line # <<>> /\ Head(line) = q

\* What a running turn has of the thread is still all of it, unless the thread was deleted.
LocalFresh == \A q \in Reqs : req[q].pc = "run" => req[q].local = thread \/ thread = <<>>

IInv == TypeOK /\ TurnHoldsLock /\ LocalFresh

\* The program counters inside and outside a turn, and the empty sequence.
LEMMA Pc ==
  /\ \A pc \in {"idle", "done", "failed", "check", "write", "join", "wait", "error", "store"} :
       pc \in Pcs /\ pc \notin InTurn
  /\ \A pc \in {"resend", "begin", "run"} : pc \in Pcs /\ pc \in InTurn
  /\ <<>> \in Seq(Msg)
PROOF
<1> QED
  BY DEF Pcs, Ended, InTurn

\* What CutAfter leaves is the first part of the sequence.
LEMMA CutAfterPrefix ==
  ASSUME NEW s \in Seq(Msg), NEW m
  PROVE  CutAfter(s, m) \in Seq(Msg) /\ IsPrefix(CutAfter(s, m), s)
PROOF
<1>1. CASE ~Contains(s, m)
  BY <1>1 DEF CutAfter, IsPrefix
<1>2. CASE Contains(s, m)
  <2> DEFINE n == IndexOf(s, m)
  <2>1. n \in 1..Len(s)
    BY <1>2 DEF Contains, IndexOf
  <2> HIDE DEF n
  <2>2. CutAfter(s, m) = SubSeq(s, 1, n)
    BY <1>2 DEF CutAfter, n
  <2>3. Len(SubSeq(s, 1, n)) = n /\ SubSeq(s, 1, n) \in Seq(Msg)
    BY <2>1
  <2>4. SubSeq(SubSeq(s, 1, n), 1, n) = SubSeq(s, 1, n)
    BY <2>1, <2>3
  <2> QED
    BY <2>1, <2>2, <2>3, <2>4 DEF IsPrefix
<1> QED
  BY <1>1, <1>2

\* A sequence is a prefix of itself, the empty one of all, and each of what
\* appending makes of it.
LEMMA PrefixFacts ==
  ASSUME NEW s \in Seq(Msg), NEW m \in Msg
  PROVE  IsPrefix(s, s) /\ IsPrefix(<<>>, s) /\ IsPrefix(s, Append(s, m))
PROOF
<1>1. IsPrefix(s, s)
  BY DEF IsPrefix
<1>2. IsPrefix(<<>>, s)
  <2>1. SubSeq(<<>>, 1, 0) = <<>> /\ SubSeq(s, 1, 0) = <<>> /\ Len(<<>>) = 0 /\ Len(s) \in Nat
    OBVIOUS
  <2> QED
    BY <2>1 DEF IsPrefix
<1>3. IsPrefix(s, Append(s, m))
  <2>1. Len(Append(s, m)) = Len(s) + 1 /\ SubSeq(Append(s, m), 1, Len(s)) = SubSeq(s, 1, Len(s))
    OBVIOUS
  <2> QED
    BY <2>1 DEF IsPrefix
<1> QED
  BY <1>1, <1>2, <1>3

\* The last question is at a position of the sequence, or at none.
LEMMA LastQuestionPosition ==
  ASSUME NEW s \in Seq(Msg), NEW n \in 0..Len(s)
  PROVE  /\ LastQuestionAt(s, n) \in 0..n
         /\ LastQuestionAt(s, n) > 0 => s[LastQuestionAt(s, n)] \in Msg
PROOF
<1> DEFINE Qs == {i \in 1..n : s[i].role = "user"}
<1>1. CASE Qs = {}
  BY <1>1 DEF LastQuestionAt
<1>2. CASE Qs # {}
  <2>1. \E i \in Qs : \A j \in Qs : j <= i
    <3>1. Qs \in SUBSET (1..n) /\ n \in Nat
      OBVIOUS
    <3> QED
      BY <1>2, <3>1, LargestExists
  <2>2. LastQuestionAt(s, n) \in Qs
    BY <1>2, <2>1 DEF LastQuestionAt
  <2> QED
    BY <2>2
<1> QED
  BY <1>1, <1>2

\* The last question is one.
LEMMA LastQuestionRole ==
  ASSUME NEW s \in Seq(Msg), NEW n \in 0..Len(s), LastQuestionAt(s, n) > 0
  PROVE  LastQuestionAt(s, n) \in DOMAIN s /\ s[LastQuestionAt(s, n)].role = "user"
PROOF
<1> DEFINE Qs == {i \in 1..n : s[i].role = "user"}
<1>1. Qs # {}
  BY DEF LastQuestionAt
<1>2. \E i \in Qs : \A j \in Qs : j <= i
  <2>1. Qs \in SUBSET (1..n) /\ n \in Nat
    OBVIOUS
  <2> QED
    BY <1>1, <2>1, LargestExists
<1>3. LastQuestionAt(s, n) \in Qs
  BY <1>1, <1>2 DEF LastQuestionAt
<1> QED
  BY <1>3

\* The messages of a turn are messages.
LEMMA CurrentTypeOK ==
  ASSUME NEW s \in Seq(Msg)
  PROVE  Current(s) \in Seq(Msg)
PROOF
<1>1. LastQuestionAt(s, Len(s)) \in 0..Len(s)
  BY LastQuestionPosition
<1> QED
  BY <1>1 DEF Current

\* At the start.
LEMMA InitIInv == Init => IInv
PROOF
<1> SUFFICES ASSUME Init PROVE IInv
  OBVIOUS
<1>1. NewReq \in ReqRecord
  <2>1. <<>> \in Seq(Msg) /\ "none" \in Id /\ "idle" \in Pcs /\ "new" \in Kinds
    BY DEF Id, Pcs, Ended, Kinds
  <2> QED
    BY <2>1 DEF NewReq, ReqRecord
<1>2. TypeOK
  <2>1. <<>> \in Seq(Msg) /\ <<>> \in Seq(Reqs)
    OBVIOUS
  <2> QED
    BY <1>1, <2>1 DEF Init, TypeOK
<1>3. \A q \in Reqs : req[q].pc = "idle"
  BY DEF Init, NewReq
<1> QED
  BY <1>2, <1>3 DEF IInv, TurnHoldsLock, LocalFresh, InTurn

\* The steps that neither move the line nor the thread, and take no request into
\* or out of its turn, keep the invariant.
LEMMA BesideTheTurn ==
  ASSUME IInv, UNCHANGED <<thread, line>>, rows' \in Seq(Msg), chat' \in BOOLEAN,
         NEW q \in Reqs, req[q].pc \notin InTurn,
         NEW r \in ReqRecord, r.pc \notin InTurn, req' = [req EXCEPT ![q] = r]
  PROVE  IInv'
PROOF
<1>1. TypeOK'
  BY DEF IInv, TypeOK
<1>2. TurnHoldsLock'
  BY DEF IInv, TypeOK, TurnHoldsLock
<1>3. LocalFresh'
  BY DEF IInv, TypeOK, LocalFresh, InTurn
<1> QED
  BY <1>1, <1>2, <1>3 DEF IInv

\* The end of a turn, by an answer, an abort or a failure: the lock is handed on.
LEMMA EndOfTurn ==
  ASSUME IInv, NEW q \in Reqs, req[q].pc \in InTurn,
         thread' \in Seq(Msg), UNCHANGED <<rows, chat>>, line' = Tail(line),
         NEW r \in ReqRecord, r.pc \notin InTurn, req' = [req EXCEPT ![q] = r]
  PROVE  IInv'
PROOF
<1>1. line # <<>> /\ Head(line) = q
  BY DEF IInv, TurnHoldsLock
<1>2. \A p \in Reqs : req'[p].pc \notin InTurn
  BY <1>1 DEF IInv, TypeOK, TurnHoldsLock
<1>3. TypeOK'
  <2>1. Tail(line) \in Seq(Reqs)
    BY <1>1 DEF IInv, TypeOK
  <2> QED
    BY <2>1 DEF IInv, TypeOK
<1>4. TurnHoldsLock' /\ LocalFresh'
  BY <1>2 DEF TurnHoldsLock, LocalFresh, InTurn
<1> QED
  BY <1>3, <1>4 DEF IInv

\* Every step keeps the invariant.
LEMMA NextIInv == IInv /\ [Next]_vars => IInv'
PROOF
<1> SUFFICES ASSUME IInv, [Next]_vars PROVE IInv'
  OBVIOUS
<1>t. TypeOK /\ (\A q \in Reqs : req[q] \in ReqRecord) /\ (\A q \in Reqs : q \in Id)
  BY DEF IInv, TypeOK, Id
<1>1. ASSUME NEW q \in Reqs, NEW kind \in Kinds, NEW m \in Id, Start(q, kind, m)
      PROVE  IInv'
  <2> DEFINE r == [req[q] EXCEPT !.pc = "check", !.kind = kind, !.ask = m]
  <2>1. r \in ReqRecord /\ r.pc \notin InTurn /\ req[q].pc \notin InTurn
    BY <1>t, <1>1, Pc DEF ReqRecord, Start, MayStart
  <2>2. req' = [req EXCEPT ![q] = r]
    BY <1>1 DEF Start
  <2> HIDE DEF r
  <2> QED
    BY <1>t, <1>1, <2>1, <2>2, BesideTheTurn DEF Start, TypeOK
<1>2. ASSUME NEW q \in Reqs, Post(q) \/ Edit(q) PROVE IInv'
  <2>1. CASE Start(q, "new", q) \/ Start(q, "edit", q)
    BY <1>t, <1>1, <2>1 DEF Kinds
  <2>2. CASE \E i \in DOMAIN rows : Start(q, "edit", rows[i].by)
    <3>1. \A i \in DOMAIN rows : rows[i] \in Msg
      BY <1>t DEF TypeOK
    <3>2. \A i \in DOMAIN rows : rows[i].by \in Id
      BY <3>1 DEF Msg
    <3> QED
      BY <1>1, <2>2, <3>2 DEF Kinds
  <2> QED
    BY <1>2, <2>1, <2>2 DEF Post, Edit
<1>3. ASSUME NEW q \in Reqs, Retry(q) PROVE IInv'
  <2>1. PICK i \in DOMAIN rows : LastQuestionAt(rows, i) > 0
                                 /\ Start(q, "retry", rows[LastQuestionAt(rows, i)].by)
    BY <1>3 DEF Retry
  <2>2. rows[LastQuestionAt(rows, i)] \in Msg
    BY <1>t, <2>1, LastQuestionPosition DEF TypeOK
  <2> QED
    BY <1>1, <2>1, <2>2 DEF Msg, Kinds
\* A step beside the turn that only moves the program counter.
<1>4. ASSUME NEW q \in Reqs, NEW pc \in Pcs \ InTurn, req[q].pc \notin InTurn, Go(q, pc),
             UNCHANGED <<thread, line>>, rows' \in Seq(Msg), chat' \in BOOLEAN
      PROVE  IInv'
  <2> DEFINE r == [req[q] EXCEPT !.pc = pc]
  <2>1. r \in ReqRecord /\ r.pc \notin InTurn
    BY <1>t DEF ReqRecord
  <2>2. req' = [req EXCEPT ![q] = r]
    BY <1>4 DEF Go
  <2> HIDE DEF r
  <2> QED
    BY <1>4, <2>1, <2>2, BesideTheTurn
<1>5. ASSUME NEW q \in Reqs, Check(q) PROVE IInv'
  <2> DEFINE r == [req[q] EXCEPT !.pc = "write", !.saw = chat]
  <2>1. req[q].pc \notin InTurn /\ UNCHANGED <<thread, line>> /\ rows' \in Seq(Msg)
        /\ chat' = chat /\ chat \in BOOLEAN
    BY <1>t, <1>5, Pc DEF Check, TypeOK
  <2>2. r \in ReqRecord /\ r.pc \notin InTurn
    BY <1>t, <1>5, Pc DEF ReqRecord, Check, TypeOK
  <2>3. req' = [req EXCEPT ![q] = r]
    BY <1>5 DEF Check
  <2> HIDE DEF r
  <2> QED
    BY <2>1, <2>2, <2>3, BesideTheTurn
<1>6. ASSUME NEW q \in Reqs, Write(q) PROVE IInv'
  <2>1. Written(q) \in Seq(Msg) /\ Question(req[q].ask) \in Msg
    BY <1>t, CutAfterPrefix DEF Written, TypeOK, Question, Msg, ReqRecord
  <2>2. rows' \in Seq(Msg) /\ chat' \in BOOLEAN
    <3>1. rows \in Seq(Msg) /\ chat \in BOOLEAN /\ req[q].saw \in BOOLEAN
      BY <1>t DEF TypeOK, ReqRecord
    <3>2. Append(Written(q), Question(req[q].ask)) \in Seq(Msg)
      BY <2>1
    <3>3. \/ rows' = rows /\ chat' = chat
          \/ /\ rows' = Written(q) \/ rows' = Append(Written(q), Question(req[q].ask))
             /\ chat' = (chat \/ ~req[q].saw)
      BY <1>6 DEF Write
    <3> QED
      BY <2>1, <3>1, <3>2, <3>3
  <2>3. "failed" \in Pcs \ InTurn /\ "join" \in Pcs \ InTurn /\ req[q].pc \notin InTurn
    BY <1>6, Pc DEF Write
  <2>4. UNCHANGED <<thread, line>> /\ (Go(q, "failed") \/ Go(q, "join"))
    BY <1>6 DEF Write
  <2> QED
    BY <1>4, <2>2, <2>3, <2>4
<1>7. ASSUME NEW q \in Reqs, NoModel(q) \/ StoreError(q) PROVE IInv'
  <2>1. rows' \in Seq(Msg) /\ chat' \in BOOLEAN
    <3>1. ErrorOf(q, req[q].ask) \in Msg
      BY <1>t DEF ErrorOf, Msg, ReqRecord
    <3>2. rows \in Seq(Msg) /\ chat \in BOOLEAN
      BY <1>t DEF TypeOK
    <3>3. chat' = chat /\ (rows' = rows \/ rows' = Append(rows, ErrorOf(q, req[q].ask)))
      BY <1>7 DEF NoModel, StoreError
    <3> QED
      BY <3>1, <3>2, <3>3
  <2>2. "error" \in Pcs \ InTurn /\ "failed" \in Pcs \ InTurn /\ req[q].pc \notin InTurn
    BY <1>7, Pc DEF NoModel, StoreError
  <2> QED
    BY <1>4, <1>7, <2>1, <2>2 DEF NoModel, StoreError
<1>8. ASSUME NEW q \in Reqs, Store(q) PROVE IInv'
  <2>1. /\ rows' \in Seq(Msg) /\ chat' \in BOOLEAN
        /\ req[q].pc \notin InTurn /\ UNCHANGED <<thread, line>>
    <3>1. rows \in Seq(Msg) /\ req[q].cur \in Seq(Msg) /\ chat \in BOOLEAN
      BY <1>t DEF TypeOK, ReqRecord
    <3>2. rows \o req[q].cur \in Seq(Msg)
      BY <3>1
    <3>3. rows' = rows \/ rows' = rows \o req[q].cur
      BY <1>8 DEF Store
    <3> QED
      BY <1>8, <3>1, <3>2, <3>3, Pc DEF Store
  <2>2. CASE Go(q, "failed")
    BY <1>4, <2>1, <2>2, Pc
  <2>3. CASE req' = [req EXCEPT ![q].pc = "done", ![q].cur = <<>>]
    <3> DEFINE r == [req[q] EXCEPT !.pc = "done", !.cur = <<>>]
    <3>1. r \in ReqRecord /\ r.pc \notin InTurn
      BY <1>t, Pc DEF ReqRecord
    <3>2. req' = [req EXCEPT ![q] = r]
      BY <2>3
    <3> HIDE DEF r
    <3> QED
      BY <2>1, <3>1, <3>2, BesideTheTurn
  <2> QED
    BY <1>8, <2>2, <2>3 DEF Store
<1>9. ASSUME NEW q \in Reqs, Join(q) PROVE IInv'
  <2>1. TypeOK'
    <3>1. [req[q] EXCEPT !.pc = "wait"] \in ReqRecord
      BY <1>t, Pc DEF ReqRecord
    <3> QED
      BY <1>t, <1>9, <3>1 DEF Join, Go, TypeOK
  <2>2. \A p \in Reqs : req'[p].pc \in InTurn \/ req'[p].pc = "run" =>
                          p # q /\ req'[p] = req[p]
    BY <1>t, <1>9 DEF Join, Go, TypeOK, InTurn
  <2>3. line # <<>> => line' # <<>> /\ Head(line') = Head(line)
    BY <1>t, <1>9 DEF Join, TypeOK
  <2> QED
    BY <1>9, <2>1, <2>2, <2>3 DEF IInv, TurnHoldsLock, LocalFresh, Join
<1>10. ASSUME NEW q \in Reqs, Enter(q) PROVE IInv'
  <2>1. req[q].pc = "wait" /\ Head(line) = q
    BY <1>10 DEF Enter
  <2>2. \A p \in Reqs : req[p].pc \notin InTurn
    BY <2>1 DEF IInv, TurnHoldsLock, InTurn
  <2>3. TypeOK'
    <3>1. \A pc \in {"begin", "resend"} : [req[q] EXCEPT !.pc = pc] \in ReqRecord
      BY <1>t, Pc DEF ReqRecord
    <3> QED
      BY <1>t, <1>10, <3>1 DEF Enter, Go, TypeOK
  <2>4. line # <<>>
    BY <1>10 DEF Enter
  <2>5. \A p \in Reqs : req'[p].pc \in InTurn => p = q
    BY <1>t, <1>10, <2>2 DEF Enter, Go, TypeOK
  <2>6. \A p \in Reqs : req'[p].pc # "run"
    BY <1>t, <1>10, <2>2 DEF Enter, Go, TypeOK, InTurn
  <2> QED
    BY <1>10, <2>1, <2>3, <2>4, <2>5, <2>6 DEF IInv, TurnHoldsLock, LocalFresh, Enter
<1>11. ASSUME NEW q \in Reqs, Resend(q) PROVE IInv'
  <2>1. \A p \in Reqs : req[p].pc \in InTurn => p = q
    BY <1>11 DEF IInv, TurnHoldsLock, Resend, InTurn
  <2>2. thread' \in Seq(Msg)
    BY <1>t, <1>11, CutAfterPrefix DEF Resend, Resent, TypeOK
  <2>3. TypeOK'
    <3>1. [req[q] EXCEPT !.pc = "begin"] \in ReqRecord
      BY <1>t, Pc DEF ReqRecord
    <3> QED
      BY <1>t, <1>11, <2>2, <3>1 DEF Resend, Go, TypeOK
  <2>4. \A p \in Reqs : req'[p].pc \in InTurn => p = q
    BY <1>t, <1>11, <2>1 DEF Resend, Go, TypeOK
  <2>5. \A p \in Reqs : req'[p].pc # "run"
    BY <1>t, <1>11, <2>1 DEF Resend, Go, TypeOK, InTurn
  <2>6. line # <<>> /\ Head(line) = q
    BY <1>11 DEF IInv, TurnHoldsLock, Resend, InTurn
  <2> QED
    BY <1>11, <2>3, <2>4, <2>5, <2>6 DEF IInv, TurnHoldsLock, LocalFresh, Resend
<1>12. ASSUME NEW q \in Reqs, Begin(q) PROVE IInv'
  <2>1. \A p \in Reqs : req[p].pc \in InTurn => p = q
    BY <1>12 DEF IInv, TurnHoldsLock, Begin, InTurn
  <2>2. thread' \in Seq(Msg)
    <3>1. Question(req[q].ask) \in Msg
      BY <1>t DEF Question, Msg, ReqRecord
    <3> QED
      BY <1>t, <1>12, <3>1 DEF Begin, TypeOK
  <2>3. req' = [req EXCEPT ![q] = [req[q] EXCEPT !.pc = "run", !.local = thread']]
    BY <1>12 DEF Begin
  <2>4. TypeOK'
    <3>1. [req[q] EXCEPT !.pc = "run", !.local = thread'] \in ReqRecord
      BY <1>t, <2>2, Pc DEF ReqRecord
    <3> QED
      BY <1>t, <1>12, <2>2, <2>3, <3>1 DEF Begin, TypeOK
  <2>5. \A p \in Reqs : req'[p].pc \in InTurn => p = q
    BY <1>t, <2>1, <2>3 DEF TypeOK
  <2>6. req'[q].local = thread'
    BY <1>t, <2>3 DEF TypeOK, ReqRecord
  <2>7. line # <<>> /\ Head(line) = q /\ line' = line
    BY <1>12 DEF IInv, TurnHoldsLock, Begin, InTurn
  <2> QED
    BY <2>4, <2>5, <2>6, <2>7 DEF IInv, TurnHoldsLock, LocalFresh, InTurn
<1>13. ASSUME NEW q \in Reqs, req[q].pc = "run", NEW s \in Seq(Msg), EndTurn(q, s) PROVE IInv'
  <2> DEFINE r == [req[q] EXCEPT
                     !.pc = IF \E i \in DOMAIN s : s[i].role = "assistant" THEN "store" ELSE "done",
                     !.local = <<>>, !.aborted = FALSE, !.cur = Current(s)]
  <2>1. Current(s) \in Seq(Msg)
    BY CurrentTypeOK
  <2>2. r \in ReqRecord /\ r.pc \notin InTurn
    BY <1>t, <2>1, Pc DEF ReqRecord
  <2>3. req' = [req EXCEPT ![q] = r] /\ thread' = s /\ line' = Tail(line)
        /\ UNCHANGED <<rows, chat>>
    BY <1>13 DEF EndTurn
  <2>4. req[q].pc \in InTurn
    BY <1>13 DEF InTurn
  <2> HIDE DEF r
  <2> QED
    BY <2>2, <2>3, <2>4, EndOfTurn
<1>14. ASSUME NEW q \in Reqs, Answer(q) \/ Aborted(q) PROVE IInv'
  <2>1. req[q].local \in Seq(Msg) /\ AnswerOf(q, req[q].ask) \in Msg
    BY <1>t DEF ReqRecord, AnswerOf, Msg
  <2>2. Append(req[q].local, AnswerOf(q, req[q].ask)) \in Seq(Msg)
    BY <2>1
  <2> QED
    BY <1>13, <1>14, <2>1, <2>2 DEF Answer, Aborted
<1>15. ASSUME NEW q \in Reqs, Fail(q) PROVE IInv'
  <2> DEFINE r == [req[q] EXCEPT !.pc = "error", !.local = <<>>, !.aborted = FALSE]
  <2>1. r \in ReqRecord /\ r.pc \notin InTurn
    BY <1>t, Pc DEF ReqRecord
  <2>2. /\ req' = [req EXCEPT ![q] = r] /\ thread' \in Seq(Msg)
        /\ UNCHANGED <<rows, chat>>
        /\ line' = Tail(line) /\ req[q].pc \in InTurn
    BY <1>t, <1>15 DEF Fail, ReleasedByFailure, TypeOK
  <2> HIDE DEF r
  <2> QED
    BY <2>1, <2>2, EndOfTurn
<1>16. CASE AbortChat
  <2>1. PICK q \in Reqs :
          /\ req' = [req EXCEPT ![q] = [req[q] EXCEPT !.aborted = (req[q].pc = "run")]]
          /\ UNCHANGED <<rows, thread, line, chat>>
    BY <1>16 DEF AbortChat
  <2>2. TypeOK'
    <3>1. [req[q] EXCEPT !.aborted = (req[q].pc = "run")] \in ReqRecord
      BY <1>t DEF ReqRecord
    <3> QED
      BY <1>t, <2>1, <3>1 DEF TypeOK
  <2>3. \A p \in Reqs : req'[p].pc = req[p].pc /\ req'[p].local = req[p].local
    BY <1>t, <2>1 DEF TypeOK, ReqRecord
  <2> QED
    BY <2>1, <2>2, <2>3 DEF IInv, TurnHoldsLock, LocalFresh
<1>17. CASE DeleteChat
  BY <1>17 DEF DeleteChat, IInv, TypeOK, TurnHoldsLock, LocalFresh
<1>18. CASE DeleteThread
  BY <1>18 DEF DeleteThread, IInv, TypeOK, TurnHoldsLock, LocalFresh
<1>19. CASE Crash
  <2>1. \A p \in Reqs : req'[p] \in ReqRecord /\ req'[p].pc \notin InTurn
    <3>1. Ended \cap InTurn = {}
      BY DEF Ended, InTurn
    <3>2. \A p \in Reqs :
            [req[p] EXCEPT !.pc = "failed", !.local = <<>>, !.cur = <<>>, !.aborted = FALSE] \in ReqRecord
      BY <1>t, Pc DEF ReqRecord
    <3>3. \A p \in Reqs :
            req'[p] = IF req[p].pc \in Ended THEN req[p]
                      ELSE [req[p] EXCEPT !.pc = "failed", !.local = <<>>, !.cur = <<>>, !.aborted = FALSE]
      BY <1>19 DEF Crash
    <3> QED
      BY <1>t, <3>1, <3>2, <3>3, Pc DEF ReqRecord
  <2>2. TypeOK'
    <3>1. <<>> \in Seq(Reqs)
      OBVIOUS
    <3>2. req' \in [Reqs -> ReqRecord]
      BY <1>19, <2>1 DEF Crash
    <3> QED
      BY <1>t, <1>19, <3>1, <3>2 DEF Crash, TypeOK
  <2> QED
    BY <2>1, <2>2 DEF IInv, TurnHoldsLock, LocalFresh, InTurn
<1>20. CASE UNCHANGED vars
  BY <1>20 DEF vars, IInv, TypeOK, TurnHoldsLock, LocalFresh
<1> QED
  BY <1>2, <1>3, <1>5, <1>6, <1>7, <1>8, <1>9, <1>10, <1>11, <1>12, <1>14, <1>15, <1>16, <1>17,
     <1>18, <1>19, <1>20 DEF Next, Step

\* A request in its turn holds the lock of the chat, and what it has read of the
\* thread is still current unless the thread was deleted.
THEOREM Invariance == Spec => []IInv
PROOF
<1> QED
  BY InitIInv, NextIInv, PTL DEF Spec

\* Rows, thread, lock and requests keep their types, for any number of requests.
THEOREM TypesAreKept == Spec => []TypeOK
PROOF
<1>1. IInv => TypeOK
  BY DEF IInv
<1> QED
  BY <1>1, Invariance, PTL

\* A step only cuts or extends the thread.
LEMMA StepKeepsTurns ==
  IInv /\ [Next]_vars => [IsPrefix(thread', thread) \/ IsPrefix(thread, thread')]_thread
PROOF
<1> SUFFICES ASSUME IInv, [Next]_vars, thread' # thread
             PROVE  IsPrefix(thread', thread) \/ IsPrefix(thread, thread')
  OBVIOUS
<1>t. thread \in Seq(Msg) /\ (\A q \in Reqs : req[q] \in ReqRecord) /\ (\A q \in Reqs : q \in Id)
  BY DEF IInv, TypeOK, Id
<1>1. ASSUME NEW q \in Reqs, Resend(q) PROVE IsPrefix(thread', thread)
  BY <1>t, <1>1, CutAfterPrefix DEF Resend, Resent
<1>2. ASSUME NEW q \in Reqs, Begin(q) PROVE IsPrefix(thread, thread')
  <2>1. Question(req[q].ask) \in Msg
    BY <1>t DEF Question, Msg, ReqRecord
  <2> QED
    BY <1>t, <1>2, <2>1, PrefixFacts DEF Begin
<1>3. ASSUME NEW q \in Reqs, Answer(q) \/ Aborted(q) PROVE IsPrefix(thread, thread')
  <2>1. req[q].local = thread \/ thread = <<>>
    BY <1>3 DEF IInv, LocalFresh, Answer, Aborted
  <2>2. req[q].local \in Seq(Msg) /\ AnswerOf(q, req[q].ask) \in Msg
    BY <1>t DEF ReqRecord, AnswerOf, Msg
  <2>3. thread' = req[q].local \/ thread' = Append(req[q].local, AnswerOf(q, req[q].ask))
    BY <1>3 DEF Answer, Aborted, EndTurn
  <2>4. thread' \in Seq(Msg)
    BY <2>2, <2>3
  <2>5. CASE thread = <<>>
    BY <2>2, <2>4, <2>5, PrefixFacts
  <2>6. CASE req[q].local = thread
    BY <2>2, <2>3, <2>6, PrefixFacts
  <2> QED
    BY <2>1, <2>5, <2>6
<1>4. CASE DeleteThread
  <2>1. Question("none") \in Msg
    BY DEF Question, Msg, Id
  <2> QED
    BY <1>t, <1>4, <2>1, PrefixFacts DEF DeleteThread
<1>5. Next
  BY DEF vars
<1> QED
  BY <1>1, <1>2, <1>3, <1>4, <1>5
  DEF Next, Step, Post, Edit, Retry, Start, Check, Write, NoModel, Join, Enter, Fail, StoreError,
      Store, AbortChat, DeleteChat, Crash

\* A turn never overwrites another's: whatever the number of requests, and with any
\* deletions, restarts and failures, the thread is only ever cut or extended.
THEOREM TurnsAreKept == Spec => TurnsKept
PROOF
<1> QED
  BY Invariance, StepKeepsTurns, PTL DEF Spec, TurnsKept

---------------------------------------------------------------------------
(* While requests come one after another, rows and thread are each a       *)
(* Conversation.  What that rests on: only the request under way, if any,  *)
(* and no delete beside it, changes either of them; its question is the    *)
(* last of the rows once it is written, and the last of the thread once    *)
(* the graph runs; and a question with the id of a request that nobody has *)
(* made stands nowhere.                                                    *)

RowsLog   == INSTANCE Conversation WITH log <- rows
ThreadLog == INSTANCE Conversation WITH log <- thread

UnderWay(q) == req[q].pc \notin Ended

Alone == \A p, q \in Reqs : UnderWay(p) /\ UnderWay(q) => p = q

DeletesAlone == deleting => \A q \in Reqs : ~UnderWay(q)

\* A question of the log is that of the request it is by, which was made.
MadeQuestions(log) ==
  \A i \in DOMAIN log : log[i].role = "user" =>
    /\ log[i].by \in Reqs /\ log[i] = Question(log[i].by)
    /\ req[log[i].by].pc # "idle"

EndsWith(log, m) == log # <<>> /\ log[Len(log)] = m

Turn(q) ==
  LET m == Question(req[q].ask) IN
  /\ req[q].ask \in Reqs /\ req[req[q].ask].pc # "idle"
  /\ req[q].pc = "check" /\ req[q].kind = "retry" => Contains(rows, m) /\ chat
  /\ req[q].pc = "write" /\ req[q].kind = "retry" => Contains(rows, m) /\ req[q].saw
  /\ req[q].pc \notin {"check", "write"} => EndsWith(rows, m)
  /\ req[q].kind = "new" /\ req[q].pc \in {"check", "write", "join", "wait"} => ~Contains(thread, m)
  /\ req[q].pc = "begin" /\ Contains(thread, m) => EndsWith(thread, m)
  /\ req[q].pc = "run" => req[q].local = thread /\ EndsWith(thread, m)
  /\ req[q].pc = "store" => req[q].cur \in {<<>>, <<AnswerOf(q, req[q].ask)>>}

OneAtATime ==
  /\ Alone /\ DeletesAlone /\ MadeQuestions(rows) /\ MadeQuestions(thread)
  /\ \A q \in Reqs : UnderWay(q) => Turn(q)

\* What is cut after a message ends with it.
LEMMA CutEndsWith ==
  ASSUME NEW s \in Seq(Msg), NEW m, Contains(s, m)
  PROVE  /\ \E i \in DOMAIN s : s[i] = m /\ CutAfter(s, m) = SubSeq(s, 1, i)
         /\ EndsWith(CutAfter(s, m), m)
         /\ \A i \in DOMAIN CutAfter(s, m) : \E j \in DOMAIN s : CutAfter(s, m)[i] = s[j]
PROOF
<1> DEFINE n == IndexOf(s, m)
<1>1. n \in DOMAIN s /\ s[n] = m
  BY DEF Contains, IndexOf
<1>2. CutAfter(s, m) = SubSeq(s, 1, n)
  BY DEF CutAfter
<1> HIDE DEF n
<1>3. n \in 1..Len(s) /\ Len(SubSeq(s, 1, n)) = n /\ DOMAIN SubSeq(s, 1, n) = 1..n
  BY <1>1
<1>4. \A i \in 1..n : SubSeq(s, 1, n)[i] = s[i] /\ i \in DOMAIN s
  BY <1>3
<1>5. SubSeq(s, 1, n) # <<>>
  BY <1>3
<1> QED
  BY <1>1, <1>2, <1>3, <1>4, <1>5 DEF EndsWith

\* What is appended to a sequence is at its end.
LEMMA AppendEnds ==
  ASSUME NEW s \in Seq(Msg), NEW m \in Msg
  PROVE  /\ EndsWith(Append(s, m), m) /\ Len(Append(s, m)) = Len(s) + 1
         /\ SubSeq(Append(s, m), 1, Len(s)) = s
         /\ \A i \in DOMAIN Append(s, m) :
              Append(s, m)[i] = m \/ \E j \in DOMAIN s : Append(s, m)[i] = s[j]
PROOF
<1>1. Len(Append(s, m)) = Len(s) + 1 /\ DOMAIN Append(s, m) = 1..(Len(s) + 1) /\ Len(s) \in Nat
  OBVIOUS
<1>2. \A i \in 1..(Len(s) + 1) : Append(s, m)[i] = IF i = Len(s) + 1 THEN m ELSE s[i]
  OBVIOUS
<1>3. SubSeq(Append(s, m), 1, Len(s)) = s
  <2>1. SubSeq(Append(s, m), 1, Len(s)) = SubSeq(s, 1, Len(s))
    OBVIOUS
  <2>2. SubSeq(s, 1, Len(s)) = s
    BY SubSeqFull
  <2> QED
    BY <2>1, <2>2
<1>4. Append(s, m) # <<>>
  BY AppendProperties
<1>5. \A i \in 1..(Len(s) + 1) : i # Len(s) + 1 => i \in DOMAIN s
  OBVIOUS
<1> QED
  BY <1>1, <1>2, <1>3, <1>4, <1>5 DEF EndsWith

\* Appending a sequence of none or of one.
LEMMA ConcatOne ==
  ASSUME NEW s \in Seq(Msg), NEW m \in Msg
  PROVE  s \o <<>> = s /\ s \o <<m>> = Append(s, m)
PROOF
<1>1. s \o <<>> = s
  BY ConcatEmptySeq
<1>2. s \o <<m>> = Append(s, m)
  BY AppendIsConcat
<1> QED
  BY <1>1, <1>2

\* When the last message is the question, and then its answer, the messages of the
\* turn are none, and then the answer.
LEMMA CurrentOfTurn ==
  ASSUME NEW s \in Seq(Msg), NEW m \in Msg, m.role = "user", EndsWith(s, m),
         NEW a \in Msg, a.role # "user"
  PROVE  Current(s) = <<>> /\ Current(Append(s, a)) = <<a>>
PROOF
<1> DEFINE n == Len(s)
<1>1. n \in Nat \ {0} /\ s[n].role = "user"
  BY DEF EndsWith
<1>2. LastQuestionAt(s, n) = n
  <2>1. n \in {i \in 1..n : s[i].role = "user"}
    BY <1>1
  <2>2. \A i \in {i \in 1..n : s[i].role = "user"} :
          (\A j \in {j \in 1..n : s[j].role = "user"} : j <= i) => i = n
    BY <2>1
  <2>3. \A j \in {j \in 1..n : s[j].role = "user"} : j <= n
    OBVIOUS
  <2> QED
    BY <2>1, <2>2, <2>3, Zenon DEF LastQuestionAt
<1>3. LastQuestionAt(Append(s, a), n + 1) = n
  <2> DEFINE Qs == {i \in 1..(n + 1) : Append(s, a)[i].role = "user"}
  <2>1. Append(s, a)[n + 1] = a /\ Append(s, a)[n] = s[n]
    BY <1>1
  <2>2. n \in Qs /\ \A j \in Qs : j <= n
    BY <1>1, <2>1
  <2>3. \A i \in Qs : (\A j \in Qs : j <= i) => i = n
    BY <2>2
  <2> QED
    BY <2>2, <2>3, Zenon DEF LastQuestionAt
<1>4. Len(Append(s, a)) = n + 1
  OBVIOUS
<1>5. SubSeq(s, n + 1, n) = <<>> /\ SubSeq(Append(s, a), n + 1, n + 1) = <<a>>
  <2>1. \A t \in Seq(Msg) : \A k \in 1..Len(t) : SubSeq(t, k, k) = <<t[k]>>
    <3> SUFFICES ASSUME NEW t \in Seq(Msg), NEW k \in 1..Len(t) PROVE SubSeq(t, k, k) = <<t[k]>>
      OBVIOUS
    <3>1. t[k] \in Msg /\ k \in Int
      OBVIOUS
    <3>2. SubSeq(t, k, k) \in Seq(Msg) /\ Len(SubSeq(t, k, k)) = 1 /\ SubSeq(t, k, k)[1] = t[k]
      BY <3>1
    <3>3. <<t[k]>> \in Seq(Msg) /\ Len(<<t[k]>>) = 1 /\ <<t[k]>>[1] = t[k]
      BY <3>1
    <3>4. \A i \in 1..1 : i = 1
      OBVIOUS
    <3>5. \A i \in 1..Len(SubSeq(t, k, k)) : SubSeq(t, k, k)[i] = <<t[k]>>[i]
      BY <3>2, <3>3, <3>4, Zenon
    <3> QED
      BY <3>2, <3>3, <3>5, SeqEqual
  <2>2. Append(s, a) \in Seq(Msg) /\ n + 1 \in 1..Len(Append(s, a)) /\ Append(s, a)[n + 1] = a
    BY <1>1
  <2>3. SubSeq(s, n + 1, n) = <<>>
    BY <1>1
  <2> QED
    BY <2>1, <2>2, <2>3
<1> HIDE DEF n
<1>6. n = Len(s)
  BY DEF n
<1> QED
  BY <1>2, <1>3, <1>4, <1>5, <1>6, Zenon DEF Current

\* No request is under way at the start.
LEMMA InitOneAtATime == Init => OneAtATime
PROOF
<1> SUFFICES ASSUME Init PROVE OneAtATime
  OBVIOUS
<1>1. \A q \in Reqs : ~UnderWay(q)
  BY DEF Init, NewReq, UnderWay, Ended
<1>2. MadeQuestions(rows) /\ MadeQuestions(thread)
  BY DEF Init, MadeQuestions
<1> QED
  BY <1>1, <1>2 DEF OneAtATime, Alone, DeletesAlone

\* The messages of a log were in the old one, or are no question, or the question of a.
From(new, old, a) ==
  \A i \in DOMAIN new : new[i].role = "user" =>
    new[i] = Question(a) \/ \E j \in DOMAIN old : new[i] = old[j]

\* So are the messages of a log that gets one, or is cut.
LEMMA FromFacts ==
  ASSUME NEW s \in Seq(Msg), NEW a, NEW m \in Msg, m.role # "user" \/ m = Question(a)
  PROVE  From(s, s, a) /\ From(Append(s, m), s, a) /\ From(<<>>, s, a) /\ From(CutAfter(s, m), s, a)
PROOF
<1>1. From(s, s, a) /\ From(<<>>, s, a)
  BY DEF From
<1>2. From(Append(s, m), s, a)
  BY AppendEnds DEF From
<1>3. From(CutAfter(s, m), s, a)
  <2>1. CASE Contains(s, m)
    BY <2>1, CutEndsWith DEF From
  <2>2. CASE ~Contains(s, m)
    BY <1>1, <2>2 DEF CutAfter
  <2> QED
    BY <2>1, <2>2
<1> QED
  BY <1>1, <1>2, <1>3

\* One request moves while no other is under way.
LEMMA OneMoves ==
  ASSUME IInv, OneAtATime, NEW q \in Reqs, \A p \in Reqs : UnderWay(p) => p = q, ~deleting',
         NEW r, r.pc # "idle", req' = [req EXCEPT ![q] = r],
         NEW a \in Reqs, req'[a].pc # "idle", From(rows', rows, a), From(thread', thread, a),
         r.pc \notin Ended => Turn(q)'
  PROVE  OneAtATime'
PROOF
<1>1. req'[q] = r /\ \A p \in Reqs : p # q => req'[p] = req[p]
  BY DEF IInv, TypeOK
<1>2. Alone' /\ DeletesAlone' /\ \A p \in Reqs : UnderWay(p)' => p = q
  BY <1>1 DEF Alone, DeletesAlone, UnderWay
<1>3. \A p \in Reqs : req[p].pc # "idle" => req'[p].pc # "idle"
  BY <1>1
<1>4. Question(a).by = a
  BY DEF Question
<1>5. MadeQuestions(rows)' /\ MadeQuestions(thread)'
  BY <1>3, <1>4, Zenon DEF OneAtATime, MadeQuestions, From
<1>6. \A p \in Reqs : UnderWay(p)' => Turn(p)'
  BY <1>1, <1>2 DEF UnderWay
<1> QED
  BY <1>2, <1>5, <1>6 DEF OneAtATime

\* A request is made: of its kinds only a retry needs its question to be there, and only
\* a new one needs that it is not.
LEMMA StartOneAtATime ==
  ASSUME Overlap = FALSE, IInv, OneAtATime, NEW q \in Reqs, NEW kind \in Kinds, NEW m \in Reqs,
         Start(q, kind, m), m = q \/ req[m].pc # "idle",
         kind = "retry" => Contains(rows, Question(m)) /\ chat,
         kind = "new" => ~Contains(thread, Question(m))
  PROVE  OneAtATime'
PROOF
<1> DEFINE r == [req[q] EXCEPT !.pc = "check", !.kind = kind, !.ask = m]
<1>t. req[q] \in ReqRecord /\ rows \in Seq(Msg) /\ thread \in Seq(Msg) /\ q \in Id /\ m \in Id
  BY DEF IInv, TypeOK, Id
<1>1. r.pc = "check" /\ r.kind = kind /\ r.ask = m
  BY <1>t DEF ReqRecord
<1>2. req' = [req EXCEPT ![q] = r] /\ UNCHANGED <<rows, thread, deleting, chat>> /\ Quiet
  BY DEF Start, MayStart
<1> HIDE DEF r
<1>3. req'[q] = r /\ req'[m].pc # "idle"
  BY <1>1, <1>2 DEF IInv, TypeOK
<1>4. \A p \in Reqs : UnderWay(p) => p = q
  BY <1>2 DEF Quiet, UnderWay
<1>5. Question(m) \in Msg /\ Question(m).role = "user"
  BY <1>t DEF Question, Msg
<1>6. From(rows', rows, m) /\ From(thread', thread, m)
  BY <1>t, <1>2, <1>5, FromFacts
<1>7. Turn(q)'
  BY <1>1, <1>2, <1>3 DEF Turn
<1> QED
  BY <1>1, <1>2, <1>3, <1>4, <1>6, <1>7, OneMoves DEF Quiet

\* A step that only moves the program counter of a request under way.
LEMMA GoOneAtATime ==
  ASSUME IInv, OneAtATime, NEW q \in Reqs, UnderWay(q), NEW pc \in Pcs \ {"idle"}, Go(q, pc),
         UNCHANGED deleting,
         From(rows', rows, req[q].ask), From(thread', thread, req[q].ask),
         pc \notin Ended => Turn(q)'
  PROVE  OneAtATime'
PROOF
<1> DEFINE r == [req[q] EXCEPT !.pc = pc]
<1>t. req[q] \in ReqRecord
  BY DEF IInv, TypeOK
<1>1. r.pc = pc /\ req' = [req EXCEPT ![q] = r]
  BY <1>t DEF Go, ReqRecord
<1> HIDE DEF r
<1>2. Turn(q) /\ ~deleting /\ \A p \in Reqs : UnderWay(p) => p = q
  BY DEF OneAtATime, Alone, DeletesAlone
<1>3. req'[q] = r /\ req[q].ask \in Reqs /\ req'[req[q].ask].pc # "idle"
  BY <1>1, <1>2 DEF Turn, IInv, TypeOK
<1> QED
  BY <1>1, <1>2, <1>3, OneMoves

\* Every step of requests that come one after another keeps it.
LEMMA OneAtATimeNext == Overlap = FALSE /\ IInv /\ OneAtATime /\ [Next]_vars => OneAtATime'
PROOF
<1> SUFFICES ASSUME Overlap = FALSE, IInv, OneAtATime, [Next]_vars PROVE OneAtATime'
  OBVIOUS
<1>t. /\ rows \in Seq(Msg) /\ thread \in Seq(Msg)
      /\ (\A q \in Reqs : req[q] \in ReqRecord) /\ (\A q \in Reqs : q \in Id)
  BY DEF IInv, TypeOK, Id
<1>u. ASSUME NEW q \in Reqs, UnderWay(q)
      PROVE  /\ Turn(q) /\ ~deleting /\ (\A p \in Reqs : UnderWay(p) => p = q)
             /\ Question(req[q].ask) \in Msg /\ Question(req[q].ask).role = "user"
             /\ From(rows, rows, req[q].ask) /\ From(thread, thread, req[q].ask)
  <2>1. Turn(q) /\ ~deleting /\ (\A p \in Reqs : UnderWay(p) => p = q)
    BY <1>u DEF OneAtATime, Alone, DeletesAlone
  <2>2. Question(req[q].ask) \in Msg /\ Question(req[q].ask).role = "user"
    BY <1>t DEF Question, Msg, ReqRecord
  <2> QED
    BY <1>t, <2>1, <2>2, FromFacts
\* Nobody has asked the question of a request that was not made.
<1>f. \A q \in Reqs : req[q].pc = "idle" => ~Contains(thread, Question(q))
  <2>1. ASSUME NEW q \in Reqs, req[q].pc = "idle", NEW i \in DOMAIN thread, thread[i] = Question(q)
        PROVE  FALSE
    <3>1. thread[i].role = "user" /\ thread[i].by = q
      BY <2>1 DEF Question
    <3> QED
      BY <2>1, <3>1 DEF OneAtATime, MadeQuestions
  <2> QED
    BY <1>t, <2>1 DEF Contains
<1>1. ASSUME NEW q \in Reqs, Post(q) \/ Start(q, "edit", q) PROVE OneAtATime'
  <2>1. req[q].pc = "idle"
    BY <1>1 DEF Post, Start, MayStart
  <2> QED
    BY <1>1, <1>f, <2>1, StartOneAtATime DEF Post, Kinds
\* A question that stands in the rows.
<1>2. ASSUME NEW q \in Reqs, NEW i \in DOMAIN rows, rows[i].role = "user",
             Start(q, "edit", rows[i].by) \/ (chat /\ Start(q, "retry", rows[i].by))
      PROVE  OneAtATime'
  <2>1. rows[i].by \in Reqs /\ rows[i] = Question(rows[i].by) /\ req[rows[i].by].pc # "idle"
    BY <1>2 DEF OneAtATime, MadeQuestions
  <2>2. Contains(rows, Question(rows[i].by))
    BY <1>t, <2>1 DEF Contains
  <2> QED
    BY <1>2, <2>1, <2>2, StartOneAtATime DEF Kinds
<1>3. ASSUME NEW q \in Reqs, Edit(q) PROVE OneAtATime'
  BY <1>1, <1>2, <1>3 DEF Edit
<1>4. ASSUME NEW q \in Reqs, Retry(q) PROVE OneAtATime'
  <2>1. PICK i \in DOMAIN rows : LastQuestionAt(rows, i) > 0
                                 /\ Start(q, "retry", rows[LastQuestionAt(rows, i)].by)
    BY <1>4 DEF Retry
  <2>2. LastQuestionAt(rows, i) \in DOMAIN rows /\ rows[LastQuestionAt(rows, i)].role = "user"
    <3>1. i \in 0..Len(rows)
      BY <1>t
    <3> QED
      BY <1>t, <2>1, <3>1, LastQuestionRole
  <2> QED
    BY <1>2, <1>4, <2>1, <2>2 DEF Retry
<1>5. ASSUME NEW q \in Reqs, Check(q) PROVE OneAtATime'
  <2> DEFINE r == [req[q] EXCEPT !.pc = "write", !.saw = chat]
  <2>1. /\ r.pc = "write" /\ r.saw = chat /\ r.kind = req[q].kind /\ r.ask = req[q].ask
        /\ req' = [req EXCEPT ![q] = r] /\ UNCHANGED <<rows, thread, deleting>>
        /\ req[q].pc = "check"
    BY <1>t, <1>5 DEF Check, ReqRecord
  <2> HIDE DEF r
  <2>2. UnderWay(q)
    BY <2>1 DEF UnderWay, Ended
  <2>3. req'[q] = r /\ req'[req[q].ask].pc # "idle"
    BY <1>u, <2>1, <2>2 DEF IInv, TypeOK, Turn
  <2>4. Turn(q)'
    BY <1>u, <2>1, <2>2, <2>3 DEF Turn
  <2> QED
    BY <1>u, <2>1, <2>2, <2>3, <2>4, OneMoves DEF Turn
<1>6. ASSUME NEW q \in Reqs, Write(q) PROVE OneAtATime'
  <2> DEFINE m == Question(req[q].ask)
             known == req[q].saw /\ req[q].kind = "edit" /\ Contains(rows, m)
             insert == req[q].kind # "retry" /\ ~known
  <2>1. req[q].pc = "write" /\ UNCHANGED <<thread, deleting>>
    BY <1>6 DEF Write
  <2>2. UnderWay(q)
    BY <2>1 DEF UnderWay, Ended
  <2>3. CASE Go(q, "failed") /\ rows' = rows
    BY <1>u, <2>1, <2>2, <2>3, GoOneAtATime DEF Pcs, Ended
  <2>4. CASE /\ insert => ~Contains(Written(q), m)
             /\ rows' = IF insert THEN Append(Written(q), m) ELSE Written(q)
             /\ Go(q, "join")
    <3>1. Written(q) \in Seq(Msg) /\ From(Written(q), rows, req[q].ask)
      BY <1>t, <1>u, <2>2, CutAfterPrefix, FromFacts DEF Written
    <3>2. ASSUME insert PROVE EndsWith(rows', m) /\ From(rows', rows, req[q].ask)
      <4>1. EndsWith(rows', m)
        BY <1>u, <2>2, <2>4, <3>1, <3>2, AppendEnds
      <4>2. From(rows', Written(q), req[q].ask)
        BY <1>u, <2>2, <2>4, <3>1, <3>2, FromFacts
      <4>3. From(rows', rows, req[q].ask)
        BY <3>1, <4>2, Zenon DEF From
      <4> QED
        BY <4>1, <4>3
    <3>3. ASSUME ~insert PROVE EndsWith(rows', m) /\ From(rows', rows, req[q].ask)
      <4>1. Contains(rows, m) /\ Written(q) = CutAfter(rows, m)
        BY <1>u, <2>1, <2>2, <3>3 DEF Turn, Written
      <4> QED
        BY <1>t, <2>4, <3>1, <3>3, <4>1, CutEndsWith
    <3>4. EndsWith(rows', m) /\ From(rows', rows, req[q].ask)
      BY <3>2, <3>3
    <3>5. req'[q] = [req[q] EXCEPT !.pc = "join"]
      BY <1>t, <2>4 DEF Go, IInv, TypeOK
    <3>6. req'[q].pc = "join" /\ req'[q].ask = req[q].ask /\ req'[q].kind = req[q].kind
      BY <1>t, <3>5 DEF ReqRecord
    <3>7. req'[req[q].ask].pc # "idle"
      BY <1>u, <2>2, <2>4, <3>6 DEF Turn, Go, IInv, TypeOK
    <3>8. Turn(q)'
      BY <1>u, <2>1, <2>2, <3>4, <3>6, <3>7 DEF Turn
    <3> QED
      BY <1>u, <2>1, <2>2, <2>4, <3>4, <3>8, GoOneAtATime DEF Pcs, Ended
  <2> QED
    BY <1>6, <2>3, <2>4 DEF Write
\* A step of a request under way to pc; what Turn asks of that pc is there.
<1>7. ASSUME NEW q \in Reqs, UnderWay(q), NEW pc \in Pcs \ (Ended \cup {"check", "write", "run", "store"}),
             Go(q, pc), UNCHANGED deleting, req[q].pc \notin {"check", "write"},
             rows' = rows, From(thread', thread, req[q].ask),
             req[q].kind = "new" /\ pc \in {"join", "wait"} => ~Contains(thread', Question(req[q].ask)),
             pc = "begin" /\ Contains(thread', Question(req[q].ask)) => EndsWith(thread', Question(req[q].ask))
      PROVE  OneAtATime'
  <2>1. req'[q] = [req[q] EXCEPT !.pc = pc]
    BY <1>t, <1>7 DEF Go, IInv, TypeOK
  <2>2. req'[q].pc = pc /\ req'[q].ask = req[q].ask /\ req'[q].kind = req[q].kind
    BY <1>t, <2>1 DEF ReqRecord
  <2>3. req'[req[q].ask].pc # "idle"
    BY <1>u, <1>7, <2>2 DEF Turn, Go, IInv, TypeOK, Ended
  <2>4. Turn(q)'
    BY <1>u, <1>7, <2>2, <2>3 DEF Turn
  <2> QED
    BY <1>u, <1>7, <2>4, GoOneAtATime DEF Ended
<1>8. ASSUME NEW q \in Reqs, NoModel(q) \/ Join(q) PROVE OneAtATime'
  <2>1. /\ req[q].pc = "join" /\ UNCHANGED <<rows, thread, deleting>>
        /\ Go(q, "error") \/ Go(q, "wait")
    BY <1>8 DEF NoModel, Join
  <2>2. UnderWay(q)
    BY <2>1 DEF UnderWay, Ended
  <2>3. req[q].kind = "new" => ~Contains(thread, Question(req[q].ask))
    BY <1>u, <2>1, <2>2 DEF Turn
  <2> QED
    BY <1>7, <1>u, <2>1, <2>2, <2>3 DEF Pcs, Ended
<1>9. ASSUME NEW q \in Reqs, Enter(q) PROVE OneAtATime'
  <2>1. /\ req[q].pc = "wait" /\ UNCHANGED <<rows, thread, deleting>>
        /\ Go(q, IF req[q].kind = "new" THEN "begin" ELSE "resend")
    BY <1>9 DEF Enter
  <2>2. UnderWay(q)
    BY <2>1 DEF UnderWay, Ended
  <2>3. req[q].kind = "new" => ~Contains(thread, Question(req[q].ask))
    BY <1>u, <2>1, <2>2 DEF Turn
  <2>4. CASE Go(q, "begin") /\ req[q].kind = "new"
    BY <1>7, <1>u, <2>1, <2>2, <2>3, <2>4 DEF Pcs, Ended, InTurn
  <2>5. CASE Go(q, "resend")
    BY <1>7, <1>u, <2>1, <2>2, <2>5 DEF Pcs, Ended, InTurn
  <2> QED
    BY <2>1, <2>4, <2>5
<1>10. ASSUME NEW q \in Reqs, Resend(q) PROVE OneAtATime'
  <2> DEFINE m == Question(req[q].ask)
  <2>1. /\ req[q].pc = "resend" /\ UNCHANGED <<rows, deleting>> /\ Go(q, "begin")
        /\ thread' = CutAfter(thread, m)
    BY <1>10 DEF Resend, Resent
  <2>2. UnderWay(q)
    BY <2>1 DEF UnderWay, Ended
  <2>3. From(thread', thread, req[q].ask)
    BY <1>t, <1>u, <2>1, <2>2, FromFacts
  <2>4. Contains(thread', m) => EndsWith(thread', m)
    <3>1. CASE Contains(thread, m)
      BY <1>t, <2>1, <3>1, CutEndsWith
    <3>2. CASE ~Contains(thread, m)
      BY <2>1, <3>2 DEF CutAfter
    <3> QED
      BY <3>1, <3>2
  <2> QED
    BY <1>7, <2>1, <2>2, <2>3, <2>4 DEF Pcs, Ended, InTurn
\* A request moves to r, and the rows stay.
<1>11. ASSUME NEW q \in Reqs, UnderWay(q), req[q].pc \notin {"check", "write"},
              NEW r, req' = [req EXCEPT ![q] = r],
              r.ask = req[q].ask, r.pc \in {"run", "store", "done", "error"}, UNCHANGED <<rows, deleting>>,
              From(thread', thread, req[q].ask),
              r.pc = "run" => r.local = thread' /\ EndsWith(thread', Question(req[q].ask)),
              r.pc = "store" => r.cur \in {<<>>, <<AnswerOf(q, req[q].ask)>>}
       PROVE  OneAtATime'
  <2>1. req'[q] = r /\ req[q].ask \in Reqs /\ req'[req[q].ask].pc # "idle"
    BY <1>u, <1>11 DEF Turn, IInv, TypeOK
  <2>2. Turn(q)'
    BY <1>u, <1>11, <2>1 DEF Turn
  <2> QED
    BY <1>u, <1>11, <2>1, <2>2, OneMoves
<1>12. ASSUME NEW q \in Reqs, Begin(q) PROVE OneAtATime'
  <2> DEFINE m == Question(req[q].ask)
             started == IF Contains(thread, m) THEN thread ELSE Append(thread, m)
             r == [req[q] EXCEPT !.pc = "run", !.local = started]
  <2>1. /\ req[q].pc = "begin" /\ UNCHANGED <<rows, deleting>> /\ thread' = started
        /\ req' = [req EXCEPT ![q] = r]
    BY <1>12 DEF Begin
  <2>2. UnderWay(q)
    BY <2>1 DEF UnderWay, Ended
  <2>3. r.pc = "run" /\ r.local = thread' /\ r.ask = req[q].ask
    BY <1>t, <2>1 DEF ReqRecord
  <2>4. From(thread', thread, req[q].ask) /\ EndsWith(thread', m)
    <3>1. CASE Contains(thread, m)
      BY <1>u, <2>1, <2>2, <3>1 DEF Turn
    <3>2. CASE ~Contains(thread, m)
      BY <1>t, <1>u, <2>1, <2>2, <3>2, FromFacts, AppendEnds
    <3> QED
      BY <3>1, <3>2
  <2> HIDE DEF r
  <2> QED
    BY <1>11, <2>1, <2>2, <2>3, <2>4
\* The thread while a turn runs.
<1>r. ASSUME NEW q \in Reqs, req[q].pc = "run"
      PROVE  /\ UnderWay(q) /\ req[q].local = thread /\ EndsWith(thread, Question(req[q].ask))
             /\ AnswerOf(q, req[q].ask) \in Msg /\ AnswerOf(q, req[q].ask).role # "user"
  <2>1. UnderWay(q)
    BY <1>r DEF UnderWay, Ended
  <2>2. AnswerOf(q, req[q].ask) \in Msg /\ AnswerOf(q, req[q].ask).role # "user"
    BY <1>t DEF AnswerOf, Msg, ReqRecord
  <2> QED
    BY <1>r, <1>u, <2>1, <2>2 DEF Turn
<1>13. ASSUME NEW q \in Reqs, Answer(q) \/ Aborted(q) PROVE OneAtATime'
  <2> DEFINE a == AnswerOf(q, req[q].ask)
  <2>1. PICK s : s \in {Append(thread, a), thread} /\ EndTurn(q, s) /\ req[q].pc = "run"
    BY <1>13, <1>r DEF Answer, Aborted
  <2>2. Current(s) \in {<<>>, <<a>>}
    BY <1>t, <1>r, <1>u, <2>1, CurrentOfTurn
  <2>3. From(s, thread, req[q].ask)
    BY <1>t, <1>r, <2>1, FromFacts
  <2> DEFINE r == [req[q] EXCEPT
                     !.pc = IF \E i \in DOMAIN s : s[i].role = "assistant" THEN "store" ELSE "done",
                     !.local = <<>>, !.aborted = FALSE, !.cur = Current(s)]
  <2>4. /\ req' = [req EXCEPT ![q] = r] /\ thread' = s /\ UNCHANGED <<rows, deleting>>
    BY <2>1 DEF EndTurn
  <2>5. r.pc \in {"store", "done"} /\ r.ask = req[q].ask /\ r.cur = Current(s)
    BY <1>t DEF ReqRecord
  <2> HIDE DEF r
  <2> QED
    BY <1>11, <1>r, <2>1, <2>2, <2>3, <2>4, <2>5
<1>14. ASSUME NEW q \in Reqs, Fail(q) PROVE OneAtATime'
  <2> DEFINE r == [req[q] EXCEPT !.pc = "error", !.local = <<>>, !.aborted = FALSE]
  <2>1. /\ req' = [req EXCEPT ![q] = r] /\ UNCHANGED <<rows, thread, deleting>>
        /\ req[q].pc \in {"resend", "begin", "run"}
    BY <1>14 DEF Fail, InTurn
  <2>2. UnderWay(q) /\ req[q].pc \notin {"check", "write"}
    BY <2>1 DEF UnderWay, Ended
  <2>3. r.pc = "error" /\ r.ask = req[q].ask
    BY <1>t DEF ReqRecord
  <2> HIDE DEF r
  <2> QED
    BY <1>11, <1>u, <2>1, <2>2, <2>3
<1>15. ASSUME NEW q \in Reqs, StoreError(q) PROVE OneAtATime'
  <2>1. /\ req[q].pc = "error" /\ UNCHANGED <<thread, deleting>> /\ Go(q, "failed")
        /\ rows' = Append(rows, ErrorOf(q, req[q].ask))
    BY <1>15 DEF StoreError
  <2>2. UnderWay(q)
    BY <2>1 DEF UnderWay, Ended
  <2>3. ErrorOf(q, req[q].ask) \in Msg /\ ErrorOf(q, req[q].ask).role # "user"
    BY <1>t DEF ErrorOf, Msg, ReqRecord
  <2> QED
    BY <1>t, <1>u, <2>1, <2>2, <2>3, FromFacts, GoOneAtATime DEF Pcs, Ended
<1>16. ASSUME NEW q \in Reqs, Store(q) PROVE OneAtATime'
  <2>1. /\ req[q].pc = "store" /\ UNCHANGED <<thread, deleting>>
        /\ \/ Go(q, "failed") /\ rows' = rows
           \/ /\ rows' = rows \o req[q].cur
              /\ req' = [req EXCEPT ![q].pc = "done", ![q].cur = <<>>]
    BY <1>16 DEF Store
  <2>2. UnderWay(q) /\ req[q].cur \in {<<>>, <<AnswerOf(q, req[q].ask)>>}
    BY <1>u, <2>1 DEF UnderWay, Ended, Turn
  <2>3. CASE Go(q, "failed") /\ rows' = rows
    BY <1>u, <2>1, <2>2, <2>3, GoOneAtATime DEF Pcs, Ended
  <2>4. CASE rows' = rows \o req[q].cur /\ req' = [req EXCEPT ![q].pc = "done", ![q].cur = <<>>]
    <3> DEFINE r == [req[q] EXCEPT !.pc = "done", !.cur = <<>>]
    <3>1. From(rows', rows, req[q].ask)
      <4>1. AnswerOf(q, req[q].ask) \in Msg /\ AnswerOf(q, req[q].ask).role # "user"
        BY <1>t DEF AnswerOf, Msg, ReqRecord
      <4>2. rows' = rows \/ rows' = Append(rows, AnswerOf(q, req[q].ask))
        BY <1>t, <2>2, <2>4, <4>1, ConcatOne
      <4> QED
        BY <1>t, <4>1, <4>2, FromFacts
    <3>2. req' = [req EXCEPT ![q] = r] /\ r.pc = "done" /\ r.ask = req[q].ask
      BY <1>t, <2>4 DEF ReqRecord
    <3> HIDE DEF r
    <3>3. req[q].ask \in Reqs /\ req'[req[q].ask].pc # "idle"
      BY <1>u, <2>2, <3>2 DEF Turn, IInv, TypeOK
    <3> QED
      BY <1>u, <2>1, <2>2, <3>1, <3>2, <3>3, OneMoves DEF Ended
  <2> QED
    BY <2>1, <2>3, <2>4
<1>17. CASE AbortChat
  <2>1. PICK q \in Reqs : /\ req[q].pc = "run" /\ req' = [req EXCEPT ![q].aborted = TRUE]
                          /\ UNCHANGED <<rows, thread, deleting>>
    BY <1>17 DEF AbortChat
  <2> DEFINE r == [req[q] EXCEPT !.aborted = TRUE]
  <2>2. /\ req' = [req EXCEPT ![q] = r] /\ r.pc = "run" /\ r.ask = req[q].ask
        /\ r.local = req[q].local
    BY <1>t, <2>1 DEF ReqRecord
  <2> HIDE DEF r
  <2>3. /\ UnderWay(q) /\ req[q].pc \notin {"check", "write"}
        /\ From(thread', thread, req[q].ask) /\ UNCHANGED <<rows, deleting>>
    BY <1>r, <1>u, <2>1
  <2>4. r.local = thread' /\ EndsWith(thread', Question(req[q].ask))
    BY <1>r, <2>1, <2>2
  <2> QED
    BY <1>11, <2>2, <2>3, <2>4
<1>18. CASE DeleteChat
  <2>1. Quiet /\ UNCHANGED <<rows, thread, req>>
    BY <1>18 DEF DeleteChat
  <2>2. \A q \in Reqs : ~UnderWay(q)' /\ ~UnderWay(q)
    BY <2>1 DEF Quiet, UnderWay
  <2> QED
    BY <2>1, <2>2 DEF OneAtATime, Alone, DeletesAlone, MadeQuestions
<1>19. CASE DeleteThread
  <2>1. deleting /\ ~deleting' /\ thread' = <<>> /\ UNCHANGED <<rows, req>>
    BY <1>19 DEF DeleteThread
  <2>2. \A q \in Reqs : ~UnderWay(q)' /\ ~UnderWay(q)
    BY <2>1 DEF OneAtATime, DeletesAlone, UnderWay
  <2> QED
    BY <2>1, <2>2 DEF OneAtATime, Alone, DeletesAlone, MadeQuestions
<1>20. CASE Crash
  <2>1. UNCHANGED <<rows, thread>>
    BY <1>20 DEF Crash
  <2>2. \A q \in Reqs : req'[q].pc = (IF req[q].pc \in Ended THEN req[q].pc ELSE "failed")
    BY <1>t, <1>20 DEF Crash, ReqRecord
  <2>3. \A q \in Reqs : ~UnderWay(q)' /\ (req[q].pc # "idle" => req'[q].pc # "idle")
    BY <2>2 DEF UnderWay, Ended
  <2> QED
    BY <2>1, <2>3 DEF OneAtATime, Alone, DeletesAlone, MadeQuestions
<1>21. CASE UNCHANGED vars
  BY <1>21 DEF vars, OneAtATime, Alone, DeletesAlone, MadeQuestions, UnderWay, Turn
<1> QED
  BY <1>1, <1>3, <1>4, <1>5, <1>6, <1>8, <1>9, <1>10, <1>12, <1>13, <1>14, <1>15, <1>16, <1>17, <1>18,
     <1>19, <1>20, <1>21 DEF Next, Step

\* A message that is appended to a conversation is a new question, or an answer to its
\* last one.
LEMMA RowsGrow ==
  ASSUME rows \in Seq(Msg), NEW m \in Msg, rows' = Append(rows, m),
         \/ m.role = "user" /\ ~Contains(rows, m)
         \/ /\ m.role # "user"
            /\ \E a \in Msg : a.role = "user" /\ EndsWith(rows, a) /\ m.of = a.of
  PROVE  RowsLog!Next
PROOF
<1>1. /\ Len(rows') = Len(rows) + 1 /\ SubSeq(rows', 1, Len(rows)) = rows
      /\ rows'[Len(rows')] = m
  BY AppendEnds DEF EndsWith
<1>2. CASE m.role = "user" /\ ~Contains(rows, m)
  <2>1. \A i \in DOMAIN rows : rows[i] # m
    BY <1>2 DEF Contains
  <2> QED
    BY <1>1, <1>2, <2>1 DEF RowsLog!Next, RowsLog!Ask, RowsLog!Asked
<1>3. CASE m.role # "user" /\ \E a \in Msg : a.role = "user" /\ EndsWith(rows, a) /\ m.of = a.of
  <2>1. Len(rows) \in DOMAIN rows /\ rows[Len(rows)].role = "user" /\ m.of = rows[Len(rows)].of
    BY <1>3 DEF EndsWith
  <2>2. RowsLog!LastQuestion(Len(rows))
    BY <2>1 DEF RowsLog!LastQuestion, RowsLog!Asked
  <2> QED
    BY <1>1, <1>3, <2>1, <2>2 DEF RowsLog!Next, RowsLog!Answer, RowsLog!Asked
<1> QED
  BY <1>2, <1>3

\* The same of the thread: a message appended to it is a new question or an answer to
\* its last one.
LEMMA ThreadGrows ==
  ASSUME thread \in Seq(Msg), NEW m \in Msg, thread' = Append(thread, m),
         \/ m.role = "user" /\ ~Contains(thread, m)
         \/ /\ m.role # "user"
            /\ \E a \in Msg : a.role = "user" /\ EndsWith(thread, a) /\ m.of = a.of
  PROVE  ThreadLog!Next
PROOF
<1>1. /\ Len(thread') = Len(thread) + 1 /\ SubSeq(thread', 1, Len(thread)) = thread
      /\ thread'[Len(thread')] = m
  BY AppendEnds DEF EndsWith
<1>2. CASE m.role = "user" /\ ~Contains(thread, m)
  <2>1. \A i \in DOMAIN thread : thread[i] # m
    BY <1>2 DEF Contains
  <2> QED
    BY <1>1, <1>2, <2>1 DEF ThreadLog!Next, ThreadLog!Ask, ThreadLog!Asked
<1>3. CASE m.role # "user" /\ \E a \in Msg : a.role = "user" /\ EndsWith(thread, a) /\ m.of = a.of
  <2>1. Len(thread) \in DOMAIN thread /\ thread[Len(thread)].role = "user" /\ m.of = thread[Len(thread)].of
    BY <1>3 DEF EndsWith
  <2>2. ThreadLog!LastQuestion(Len(thread))
    BY <2>1 DEF ThreadLog!LastQuestion, ThreadLog!Asked
  <2> QED
    BY <1>1, <1>3, <2>1, <2>2 DEF ThreadLog!Next, ThreadLog!Answer, ThreadLog!Asked
<1> QED
  BY <1>2, <1>3

\* A log that is cut after one of its questions.
LEMMA CutIsCut ==
  ASSUME NEW m \in Msg, m.role = "user"
  PROVE  /\ rows \in Seq(Msg) /\ rows' = CutAfter(rows, m) => [RowsLog!Next]_rows
         /\ thread \in Seq(Msg) /\ thread' = CutAfter(thread, m) => [ThreadLog!Next]_thread
PROOF
<1>1. ASSUME NEW s \in Seq(Msg)
      PROVE  \/ CutAfter(s, m) = s
             \/ \E i \in DOMAIN s : s[i].role = "user" /\ CutAfter(s, m) = SubSeq(s, 1, i)
  <2>1. CASE Contains(s, m)
    BY <2>1, CutEndsWith
  <2>2. CASE ~Contains(s, m)
    BY <2>2 DEF CutAfter
  <2> QED
    BY <2>1, <2>2
<1>2. ASSUME rows \in Seq(Msg), rows' = CutAfter(rows, m) PROVE [RowsLog!Next]_rows
  BY <1>1, <1>2 DEF RowsLog!Next, RowsLog!Cut, RowsLog!Asked
<1>3. ASSUME thread \in Seq(Msg), thread' = CutAfter(thread, m) PROVE [ThreadLog!Next]_thread
  BY <1>1, <1>3 DEF ThreadLog!Next, ThreadLog!Cut, ThreadLog!Asked
<1> QED
  BY <1>2, <1>3

\* Every step of requests that come one after another is one of a conversation, or
\* leaves it alone.
LEMMA StepIsConversation ==
  Overlap = FALSE /\ IInv /\ OneAtATime /\ [Next]_vars => [RowsLog!Next]_rows /\ [ThreadLog!Next]_thread
PROOF
<1> SUFFICES ASSUME Overlap = FALSE, IInv, OneAtATime, [Next]_vars
             PROVE  [RowsLog!Next]_rows /\ [ThreadLog!Next]_thread
  OBVIOUS
<1>t. /\ rows \in Seq(Msg) /\ thread \in Seq(Msg)
      /\ (\A q \in Reqs : req[q] \in ReqRecord) /\ (\A q \in Reqs : q \in Id)
  BY DEF IInv, TypeOK, Id
\* The question of a request under way, and its answer or placeholder.
<1>u. ASSUME NEW q \in Reqs, req[q].pc \notin Ended
      PROVE  /\ Turn(q) /\ Question(req[q].ask) \in Msg /\ Question(req[q].ask).role = "user"
             /\ \A m \in {AnswerOf(q, req[q].ask), ErrorOf(q, req[q].ask)} :
                  m \in Msg /\ m.role # "user" /\ m.of = Question(req[q].ask).of
  <2>1. Turn(q)
    BY <1>u DEF OneAtATime, UnderWay
  <2> QED
    BY <1>t, <2>1 DEF Question, AnswerOf, ErrorOf, Msg, ReqRecord
<1>1. ASSUME NEW q \in Reqs, Write(q) PROVE [RowsLog!Next]_rows
  <2> DEFINE m == Question(req[q].ask)
             known == req[q].saw /\ req[q].kind = "edit" /\ Contains(rows, m)
             insert == req[q].kind # "retry" /\ ~known
  <2>1. req[q].pc \notin Ended
    BY <1>1 DEF Write, Ended
  <2>2. CASE rows' = rows
    BY <2>2
  <2>3. CASE insert /\ ~Contains(Written(q), m) /\ rows' = Append(Written(q), m)
    <3>1. req[q].kind \in Kinds
      BY <1>t DEF ReqRecord
    <3>2. req[q].saw /\ req[q].kind # "new" => ~Contains(rows, m)
      BY <2>3, <3>1 DEF Kinds
    <3>3. Written(q) = rows
      BY <3>2 DEF Written, CutAfter
    <3> QED
      BY <1>t, <1>u, <2>1, <2>3, <3>3, RowsGrow
  <2>4. CASE ~insert /\ rows' = Written(q)
    <3>1. rows' = rows \/ rows' = CutAfter(rows, m)
      BY <2>4 DEF Written
    <3> QED
      BY <1>t, <1>u, <2>1, <3>1, CutIsCut
  <2> QED
    BY <1>1, <2>2, <2>3, <2>4 DEF Write
<1>2. ASSUME NEW q \in Reqs, StoreError(q) PROVE [RowsLog!Next]_rows
  <2>1. req[q].pc \notin Ended /\ EndsWith(rows, Question(req[q].ask))
    BY <1>2, <1>u DEF StoreError, Ended, Turn
  <2> QED
    BY <1>2, <1>t, <1>u, <2>1, RowsGrow DEF StoreError
<1>3. ASSUME NEW q \in Reqs, Store(q) PROVE [RowsLog!Next]_rows
  <2>1. req[q].pc \notin Ended /\ EndsWith(rows, Question(req[q].ask))
        /\ req[q].cur \in {<<>>, <<AnswerOf(q, req[q].ask)>>}
    BY <1>3, <1>u DEF Store, Ended, Turn
  <2>2. rows' = rows \/ rows' = Append(rows, AnswerOf(q, req[q].ask))
    BY <1>3, <1>t, <1>u, <2>1, ConcatOne DEF Store
  <2> QED
    BY <1>t, <1>u, <2>1, <2>2, RowsGrow
<1>4. ASSUME NEW q \in Reqs, Resend(q) PROVE [ThreadLog!Next]_thread
  <2>1. req[q].pc \notin Ended
    BY <1>4 DEF Resend, Ended
  <2> QED
    BY <1>4, <1>t, <1>u, <2>1, CutIsCut DEF Resend, Resent
<1>5. ASSUME NEW q \in Reqs, Begin(q) PROVE [ThreadLog!Next]_thread
  <2>1. req[q].pc \notin Ended
    BY <1>5 DEF Begin, Ended
  <2> QED
    BY <1>5, <1>t, <1>u, <2>1, ThreadGrows DEF Begin
<1>6. ASSUME NEW q \in Reqs, Answer(q) \/ Aborted(q) PROVE [ThreadLog!Next]_thread
  <2>1. req[q].pc \notin Ended /\ req[q].local = thread /\ EndsWith(thread, Question(req[q].ask))
    BY <1>6, <1>u DEF Answer, Aborted, Ended, Turn
  <2>2. thread' = thread \/ thread' = Append(thread, AnswerOf(q, req[q].ask))
    BY <1>6, <2>1 DEF Answer, Aborted, EndTurn
  <2> QED
    BY <1>t, <1>u, <2>1, <2>2, ThreadGrows
<1>7. CASE DeleteThread
  BY <1>7 DEF DeleteThread, ThreadLog!Next, ThreadLog!Forget
<1>8. rows' = rows \/ \E q \in Reqs : Write(q) \/ StoreError(q) \/ Store(q)
  BY DEF Next, Step, vars, Post, Edit, Retry, Start, Check, NoModel, Join, Enter, Resend, Begin,
         Answer, Aborted, EndTurn, Fail, AbortChat, DeleteChat, DeleteThread, Crash
<1>9. thread' = thread \/ DeleteThread
      \/ \E q \in Reqs : Resend(q) \/ Begin(q) \/ Answer(q) \/ Aborted(q)
  BY DEF Next, Step, vars, Post, Edit, Retry, Start, Check, Write, NoModel, Join, Enter, Fail,
         StoreError, Store, AbortChat, DeleteChat, Crash
<1> QED
  BY <1>1, <1>2, <1>3, <1>4, <1>5, <1>6, <1>7, <1>8, <1>9

\* When requests come one after another, what the user sees (rows) and what the model
\* sees (thread) are each a conversation, for any number of requests, and with any
\* deletions, restarts and failures: a question goes to the end, asking it again cuts
\* what followed, and only the last question is ever answered (handle_chat).
THEOREM BothAreConversations ==
  ASSUME Overlap = FALSE
  PROVE  Spec => RowsLog!Spec /\ ThreadLog!Spec
PROOF
<1>1. Init => RowsLog!Init /\ ThreadLog!Init
  BY DEF Init, RowsLog!Init, ThreadLog!Init
<1>2. IInv /\ OneAtATime /\ [Next]_vars => OneAtATime'
  BY OneAtATimeNext
<1>3. IInv /\ OneAtATime /\ [Next]_vars => [RowsLog!Next]_rows /\ [ThreadLog!Next]_thread
  BY StepIsConversation
<1> QED
  BY <1>1, <1>2, <1>3, InitOneAtATime, Invariance, PTL DEF Spec, RowsLog!Spec, ThreadLog!Spec

---------------------------------------------------------------------------
(* While requests come one after another and no chat is deleted, rows and  *)
(* thread are the same conversation.  They agree in the order of what both *)
(* have, at every moment, and every answer in the rows is in the thread;   *)
(* and as long as nothing fails early and the server does not crash, the   *)
(* place of the request under way says by which messages they differ.      *)

Said == {"user", "assistant"}

\* No question and no answer stands twice in a log.
Once(s) == \A i, j \in DOMAIN s : s[i].role \in Said /\ s[i] = s[j] => i = j

\* What the rows s and the thread t have in common, and that no answer is forgotten.
Agree(s, t) == Once(s) /\ Once(t) /\ SameOrder(s, t, Said) /\ Within(s, t, {"assistant"})

\* A log that is cut.
LEMMA CutFacts ==
  ASSUME NEW s \in Seq(Msg), NEW n \in 0..Len(s), NEW c, c = SubSeq(s, 1, n)
  PROVE  /\ c \in Seq(Msg) /\ DOMAIN c = 1..n /\ DOMAIN s = 1..Len(s) /\ n \in Nat /\ Len(s) \in Nat
         /\ \A i \in 1..n : i \in DOMAIN s /\ c[i] = s[i]
PROOF
<1>1. Len(s) \in Nat /\ n \in Nat /\ DOMAIN s = 1..Len(s)
  BY LenProperties
<1>2. c \in Seq(Msg) /\ Len(c) = n /\ \A i \in 1..n : c[i] = s[i]
  BY <1>1
<1> QED
  BY <1>1, <1>2

\* A log with one message more.
LEMMA AddFacts ==
  ASSUME NEW s \in Seq(Msg), NEW m \in Msg, NEW a, a = Append(s, m), NEW n, n = Len(s)
  PROVE  /\ a \in Seq(Msg) /\ DOMAIN a = 1..(n + 1) /\ DOMAIN s = 1..n /\ n \in Nat
         /\ a[n + 1] = m /\ \A i \in 1..n : a[i] = s[i]
PROOF
  BY AppendProperties, LenProperties

\* The positions of a log with one more: the last, or one there was.
LEMMA AddedAt ==
  ASSUME NEW n \in Nat, NEW i \in 1..(n + 1)
  PROVE  i = n + 1 \/ (i \in 1..n /\ i < n + 1)
PROOF
  OBVIOUS

\* What Contains means for a log.
LEMMA ContainsAt ==
  ASSUME NEW s \in Seq(Msg), NEW m
  PROVE  Contains(s, m) <=> \E i \in DOMAIN s : s[i] = m
PROOF
  BY LenProperties DEF Contains

\* A log that is cut holds nothing twice.
LEMMA OnceCut ==
  ASSUME NEW s \in Seq(Msg), NEW n \in 0..Len(s), NEW c, c = SubSeq(s, 1, n), Once(s)
  PROVE  Once(c)
PROOF
  BY CutFacts DEF Once

\* Nor does one with a message that it did not have.
LEMMA OnceAdd ==
  ASSUME NEW s \in Seq(Msg), NEW m \in Msg, NEW a, a = Append(s, m), Once(s), m.role \notin Said \/ ~Contains(s, m)
  PROVE  Once(a)
PROOF
<1> DEFINE n == Len(s)
<1>1. /\ DOMAIN a = 1..(n + 1) /\ DOMAIN s = 1..n /\ n \in Nat
      /\ a[n + 1] = m /\ \A i \in 1..n : a[i] = s[i]
  BY AddFacts
<1>2. m.role \notin Said \/ \A i \in DOMAIN s : s[i] # m
  BY ContainsAt
<1> HIDE DEF n
<1> SUFFICES ASSUME NEW i \in 1..(n + 1), NEW j \in 1..(n + 1), a[i].role \in Said, a[i] = a[j] PROVE i = j
  BY <1>1 DEF Once
<1>3. (i = n + 1 \/ i \in 1..n) /\ (j = n + 1 \/ j \in 1..n)
  BY <1>1, AddedAt
<1> QED
  BY <1>1, <1>2, <1>3 DEF Once

\* Rows that are cut still agree with the thread.
LEMMA AgreeCutRows ==
  ASSUME NEW s \in Seq(Msg), NEW t \in Seq(Msg), Agree(s, t), NEW n \in 0..Len(s), NEW c, c = SubSeq(s, 1, n)
  PROVE  Agree(c, t)
PROOF
<1>1. DOMAIN c = 1..n /\ \A i \in 1..n : i \in DOMAIN s /\ c[i] = s[i]
  BY CutFacts
<1>2. Once(c)
  BY OnceCut DEF Agree
<1>3. SameOrder(c, t, Said)
  BY <1>1, Zenon DEF Agree, SameOrder
<1>4. Within(c, t, {"assistant"})
  BY <1>1, Zenon DEF Agree, Within
<1> QED
  BY <1>2, <1>3, <1>4 DEF Agree

\* Nor does it matter for the order of a message that one of the logs lacks.
LEMMA OrderAddRows ==
  ASSUME NEW s \in Seq(Msg), NEW t \in Seq(Msg), SameOrder(s, t, Said), NEW m \in Msg,
         m.role \notin Said \/ ~Contains(t, m), NEW a, a = Append(s, m)
  PROVE  SameOrder(a, t, Said)
PROOF
<1> DEFINE n == Len(s)
<1>1. /\ DOMAIN a = 1..(n + 1) /\ DOMAIN s = 1..n /\ n \in Nat
      /\ a[n + 1] = m /\ \A i \in 1..n : a[i] = s[i]
  BY AddFacts
<1>2. m.role \notin Said \/ \A i \in DOMAIN t : t[i] # m
  BY ContainsAt
<1> HIDE DEF n
<1>3. ASSUME NEW i \in DOMAIN a, NEW k \in DOMAIN t, a[i] = t[k], a[i].role \in Said PROVE i \in DOMAIN s /\ a[i] = s[i]
  <2>1. i = n + 1 \/ i \in 1..n
    BY <1>1, AddedAt
  <2> QED
    BY <1>1, <1>2, <1>3, <2>1
<1>4. ASSUME NEW i \in DOMAIN a, NEW k \in DOMAIN t, a[i] = t[k], a[i].role \in Said,
             NEW j \in DOMAIN a, NEW l \in DOMAIN t, a[j] = t[l], a[j].role \in Said
      PROVE  i < j <=> k < l
  <2>1. i \in DOMAIN s /\ a[i] = s[i] /\ j \in DOMAIN s /\ a[j] = s[j]
    BY <1>3, <1>4
  <2> QED
    BY <1>4, <2>1 DEF SameOrder
<1> QED
  BY <1>4 DEF SameOrder

\* The same of the thread.
LEMMA OrderAddThread ==
  ASSUME NEW s \in Seq(Msg), NEW t \in Seq(Msg), SameOrder(s, t, Said), NEW m \in Msg,
         ~Contains(s, m), NEW a, a = Append(t, m)
  PROVE  SameOrder(s, a, Said)
PROOF
<1> DEFINE n == Len(t)
<1>1. /\ DOMAIN a = 1..(n + 1) /\ DOMAIN t = 1..n /\ n \in Nat
      /\ a[n + 1] = m /\ \A i \in 1..n : a[i] = t[i]
  BY AddFacts
<1>2. \A i \in DOMAIN s : s[i] # m
  BY ContainsAt
<1> HIDE DEF n
<1>3. ASSUME NEW i \in DOMAIN s, NEW k \in DOMAIN a, s[i] = a[k] PROVE k \in DOMAIN t /\ a[k] = t[k]
  <2>1. k = n + 1 \/ k \in 1..n
    BY <1>1, AddedAt
  <2> QED
    BY <1>1, <1>2, <1>3, <2>1
<1>4. ASSUME NEW i \in DOMAIN s, NEW k \in DOMAIN a, s[i] = a[k], s[i].role \in Said,
             NEW j \in DOMAIN s, NEW l \in DOMAIN a, s[j] = a[l], s[j].role \in Said
      PROVE  i < j <=> k < l
  <2>1. k \in DOMAIN t /\ a[k] = t[k] /\ l \in DOMAIN t /\ a[l] = t[l]
    BY <1>3, <1>4
  <2> QED
    BY <1>4, <2>1 DEF SameOrder
<1> QED
  BY <1>4 DEF SameOrder

\* A message that is the last of both logs is in order, too.
LEMMA OrderAddLast ==
  ASSUME NEW s \in Seq(Msg), NEW t \in Seq(Msg), SameOrder(s, t, Said), Once(s), NEW m \in Msg, m.role \in Said,
         EndsWith(s, m), ~Contains(t, m), NEW a, a = Append(t, m)
  PROVE  SameOrder(s, a, Said)
PROOF
<1> DEFINE n == Len(t)
           z == Len(s)
<1>1. /\ DOMAIN a = 1..(n + 1) /\ DOMAIN t = 1..n /\ n \in Nat
      /\ a[n + 1] = m /\ \A i \in 1..n : a[i] = t[i]
  BY AddFacts
<1>2. z \in Nat /\ DOMAIN s = 1..z /\ z \in DOMAIN s /\ s[z] = m
  BY LenProperties DEF EndsWith
<1>3. \A i \in DOMAIN t : t[i] # m
  BY ContainsAt
<1> HIDE DEF n, z
\* The last of s is the last of a; what is before it in one is before it in the other.
<1>4. ASSUME NEW i \in DOMAIN s, NEW k \in DOMAIN a, s[i] = a[k], s[i].role \in Said
      PROVE  (i = z /\ k = n + 1) \/ (i < z /\ k < n + 1 /\ k \in DOMAIN t /\ a[k] = t[k])
  <2>1. k = n + 1 \/ (k \in 1..n /\ k < n + 1)
    BY <1>1, AddedAt
  <2>2. CASE k = n + 1
    <3>1. s[i] = s[z]
      BY <1>1, <1>2, <1>4, <2>2
    <3> QED
      BY <1>2, <1>4, <2>2, <3>1 DEF Once
  <2>3. CASE k \in 1..n /\ k < n + 1
    <3>1. a[k] = t[k] /\ k \in DOMAIN t /\ i # z
      BY <1>1, <1>2, <1>3, <1>4, <2>3
    <3>2. i < z
      BY <1>2, <3>1
    <3> QED
      BY <2>3, <3>1, <3>2
  <2> QED
    BY <2>1, <2>2, <2>3
<1>5. ASSUME NEW i \in DOMAIN s, NEW k \in DOMAIN a, s[i] = a[k], s[i].role \in Said,
             NEW j \in DOMAIN s, NEW l \in DOMAIN a, s[j] = a[l], s[j].role \in Said
      PROVE  i < j <=> k < l
  <2>1. i \in Nat /\ j \in Nat /\ k \in Nat /\ l \in Nat
    BY <1>1, <1>2
  <2>2. (i = z /\ k = n + 1) \/ (i < z /\ k < n + 1 /\ k \in DOMAIN t /\ a[k] = t[k])
    BY <1>4, <1>5
  <2>3. (j = z /\ l = n + 1) \/ (j < z /\ l < n + 1 /\ l \in DOMAIN t /\ a[l] = t[l])
    BY <1>4, <1>5
  <2>4. CASE k \in DOMAIN t /\ a[k] = t[k] /\ l \in DOMAIN t /\ a[l] = t[l]
    BY <1>5, <2>4, Zenon DEF SameOrder
  <2>5. CASE (i = z /\ k = n + 1) \/ (j = z /\ l = n + 1)
    BY <1>1, <1>2, <2>1, <2>2, <2>3, <2>5
  <2> QED
    BY <2>2, <2>3, <2>4, <2>5
<1> QED
  BY <1>5 DEF SameOrder

\* The order of two logs is the same seen from either.
LEMMA OrderTurned ==
  ASSUME NEW s \in Seq(Msg), NEW t \in Seq(Msg), SameOrder(s, t, Said)
  PROVE  SameOrder(t, s, Said)
PROOF
<1>1. ASSUME NEW i \in DOMAIN t, NEW k \in DOMAIN s, t[i] = s[k], t[i].role \in Said,
             NEW j \in DOMAIN t, NEW l \in DOMAIN s, t[j] = s[l], t[j].role \in Said
      PROVE  i < j <=> k < l
  <2>1. s[k] = t[i] /\ s[k].role \in Said /\ s[l] = t[j] /\ s[l].role \in Said
    BY <1>1
  <2> QED
    BY <2>1 DEF SameOrder
<1> QED
  BY <1>1 DEF SameOrder

\* Cutting one of them does not change it.
LEMMA OrderCut ==
  ASSUME NEW s \in Seq(Msg), NEW t \in Seq(Msg), SameOrder(s, t, Said), NEW n \in 0..Len(s), NEW c, c = SubSeq(s, 1, n)
  PROVE  SameOrder(c, t, Said)
PROOF
<1>1. DOMAIN c = 1..n /\ \A i \in 1..n : i \in DOMAIN s /\ c[i] = s[i]
  BY CutFacts
<1>2. ASSUME NEW i \in DOMAIN c, NEW k \in DOMAIN t, c[i] = t[k], c[i].role \in Said,
             NEW j \in DOMAIN c, NEW l \in DOMAIN t, c[j] = t[l], c[j].role \in Said
      PROVE  i < j <=> k < l
  <2>1. i \in DOMAIN s /\ c[i] = s[i] /\ j \in DOMAIN s /\ c[j] = s[j]
    BY <1>1
  <2> QED
    BY <1>2, <2>1 DEF SameOrder
<1> QED
  BY <1>2 DEF SameOrder

\* A new question or a placeholder in the rows.
LEMMA AgreeAddRows ==
  ASSUME NEW s \in Seq(Msg), NEW t \in Seq(Msg), Agree(s, t), NEW m \in Msg, m.role # "assistant",
         m.role \notin Said \/ (~Contains(s, m) /\ ~Contains(t, m)), NEW a, a = Append(s, m)
  PROVE  Agree(a, t)
PROOF
<1>1. Once(s) /\ Once(t) /\ SameOrder(s, t, Said) /\ Within(s, t, {"assistant"})
  BY DEF Agree
<1>2. Once(a)
  BY <1>1, OnceAdd
<1>3. SameOrder(a, t, Said)
  BY <1>1, OrderAddRows
<1>4. Within(a, t, {"assistant"})
  <2> DEFINE n == Len(s)
  <2>1. /\ DOMAIN a = 1..(n + 1) /\ DOMAIN s = 1..n /\ n \in Nat
        /\ a[n + 1] = m /\ \A i \in 1..n : a[i] = s[i]
    BY AddFacts
  <2> HIDE DEF n
  <2>2. ASSUME NEW i \in DOMAIN a, a[i].role = "assistant" PROVE \E k \in DOMAIN t : t[k] = a[i]
    <3>1. i = n + 1 \/ i \in 1..n
      BY <2>1, AddedAt
    <3>2. i \in DOMAIN s /\ a[i] = s[i]
      BY <2>1, <2>2, <3>1
    <3> QED
      BY <1>1, <2>2, <3>2 DEF Within
  <2> QED
    BY <2>2 DEF Within
<1> QED
  BY <1>1, <1>2, <1>3, <1>4 DEF Agree

\* The thread gets a message: the last question of the rows, or one they do not have.
LEMMA AgreeAddThread ==
  ASSUME NEW s \in Seq(Msg), NEW t \in Seq(Msg), Agree(s, t), NEW m \in Msg, m.role \in Said,
         ~Contains(t, m), EndsWith(s, m) \/ ~Contains(s, m), NEW a, a = Append(t, m)
  PROVE  Agree(s, a)
PROOF
<1>1. Once(s) /\ Once(t) /\ SameOrder(s, t, Said) /\ Within(s, t, {"assistant"})
  BY DEF Agree
<1>2. Once(a)
  BY <1>1, OnceAdd
<1>3. SameOrder(s, a, Said)
  BY <1>1, OrderAddThread, OrderAddLast
<1>4. Within(s, a, {"assistant"})
  <2>1. \A k \in DOMAIN t : k \in DOMAIN a /\ a[k] = t[k]
    <3>1. /\ DOMAIN a = 1..(Len(t) + 1) /\ DOMAIN t = 1..Len(t) /\ Len(t) \in Nat
          /\ \A i \in 1..Len(t) : a[i] = t[i]
      BY AddFacts
    <3> QED
      BY <3>1
  <2> QED
    BY <1>1, <2>1, Zenon DEF Within
<1> QED
  BY <1>1, <1>2, <1>3, <1>4 DEF Agree

\* The rows get the answer at the end of the thread.
LEMMA AgreeAnswer ==
  ASSUME NEW s \in Seq(Msg), NEW t \in Seq(Msg), Agree(s, t), NEW m \in Msg, m.role = "assistant",
         EndsWith(t, m), ~Contains(s, m), NEW a, a = Append(s, m)
  PROVE  Agree(a, t)
PROOF
<1>1. Once(s) /\ Once(t) /\ SameOrder(s, t, Said) /\ Within(s, t, {"assistant"}) /\ m.role \in Said
  BY DEF Agree, Said
<1>2. Once(a) /\ a \in Seq(Msg)
  BY <1>1, OnceAdd, AddFacts
<1>3. SameOrder(a, t, Said)
  <2>1. SameOrder(t, s, Said)
    BY <1>1, OrderTurned
  <2>2. SameOrder(t, a, Said)
    BY <1>1, <2>1, OrderAddLast
  <2> QED
    BY <1>2, <2>2, OrderTurned
<1>4. Within(a, t, {"assistant"})
  <2> DEFINE n == Len(s)
  <2>1. /\ DOMAIN a = 1..(n + 1) /\ DOMAIN s = 1..n /\ n \in Nat
        /\ a[n + 1] = m /\ \A i \in 1..n : a[i] = s[i]
    BY AddFacts
  <2>2. Len(t) \in DOMAIN t /\ t[Len(t)] = m
    BY LenProperties DEF EndsWith
  <2> HIDE DEF n
  <2>3. ASSUME NEW i \in DOMAIN a, a[i].role = "assistant" PROVE \E k \in DOMAIN t : t[k] = a[i]
    <3>1. i = n + 1 \/ i \in 1..n
      BY <2>1, AddedAt
    <3>2. CASE i \in DOMAIN s /\ a[i] = s[i]
      BY <1>1, <2>3, <3>2 DEF Within
    <3>3. CASE a[i] = m
      BY <2>2, <3>3
    <3> QED
      BY <2>1, <3>1, <3>2, <3>3
  <2> QED
    BY <2>3 DEF Within
<1> QED
  BY <1>1, <1>2, <1>3, <1>4 DEF Agree

\* What is at or before the last of the rows in their thread.
LEMMA BeforeLast ==
  ASSUME NEW s \in Seq(Msg), NEW t \in Seq(Msg), SameOrder(s, t, Said), NEW m, m.role \in Said, EndsWith(s, m),
         NEW l \in DOMAIN t, t[l] = m, NEW i \in DOMAIN s, NEW k \in DOMAIN t, s[i] = t[k], s[i].role \in Said
  PROVE  k \in 1..l
PROOF
<1> DEFINE z == Len(s)
<1>1. /\ z \in Nat /\ DOMAIN s = 1..z /\ z \in DOMAIN s /\ s[z] = m
      /\ DOMAIN t = 1..Len(t) /\ Len(t) \in Nat
  BY LenProperties DEF EndsWith
<1> HIDE DEF z
<1>2. z < i <=> l < k
  BY <1>1 DEF SameOrder
<1>3. ~(z < i) /\ k \in Nat /\ l \in Nat /\ k >= 1
  BY <1>1
<1> QED
  BY <1>2, <1>3

\* _remove_messages_for_resend cuts nothing of the thread that the rows have.
LEMMA AgreeCutThread ==
  ASSUME NEW s \in Seq(Msg), NEW t \in Seq(Msg), Agree(s, t), NEW m \in Msg, m.role \in Said, EndsWith(s, m),
         NEW l \in DOMAIN t, t[l] = m, NEW c, c = SubSeq(t, 1, l)
  PROVE  Agree(s, c)
PROOF
<1>1. Once(s) /\ Once(t) /\ SameOrder(s, t, Said) /\ Within(s, t, {"assistant"})
  BY DEF Agree
<1>2. l \in 0..Len(t)
  BY LenProperties
<1>3. c \in Seq(Msg) /\ DOMAIN c = 1..l /\ \A k \in 1..l : k \in DOMAIN t /\ c[k] = t[k]
  BY <1>2, CutFacts
<1>4. Once(c)
  BY <1>1, <1>2, OnceCut
<1>5. SameOrder(s, c, Said)
  <2>1. SameOrder(t, s, Said)
    BY <1>1, OrderTurned
  <2>2. SameOrder(c, s, Said)
    BY <1>2, <2>1, OrderCut
  <2> QED
    BY <1>3, <2>2, OrderTurned
<1>6. Within(s, c, {"assistant"})
  <2>1. ASSUME NEW i \in DOMAIN s, s[i].role = "assistant" PROVE \E k \in DOMAIN c : c[k] = s[i]
    <3>1. PICK k \in DOMAIN t : t[k] = s[i]
      BY <1>1, <2>1 DEF Within
    <3>2. s[i].role \in Said
      BY <2>1 DEF Said
    <3>3. k \in 1..l
      BY <1>1, <3>1, <3>2, BeforeLast
    <3> QED
      BY <1>3, <3>1, <3>3
  <2> QED
    BY <2>1 DEF Within
<1> QED
  BY <1>1, <1>4, <1>5, <1>6 DEF Agree

\* What the rows have is in the thread, but for some messages.
InThread(s, t, lacks) ==
  \A i \in DOMAIN s : s[i].role \in Said => Contains(t, s[i]) \/ s[i] \in lacks

\* What the thread has is in the rows, but for some messages, and for what is to be
\* cut after message m.
InRows(s, t, uncut, m, more) ==
  \A k \in DOMAIN t :
    \/ Contains(s, t[k]) \/ t[k] \in more
    \/ uncut /\ \E l \in DOMAIN t : l < k /\ t[l] = m

\* A log that gets a message holds what it held, and the message.
LEMMA ContainsAdd ==
  ASSUME NEW s \in Seq(Msg), NEW m \in Msg, NEW a, a = Append(s, m)
  PROVE  Contains(a, m) /\ \A x : Contains(s, x) => Contains(a, x)
PROOF
<1> DEFINE n == Len(s)
<1>1. /\ a \in Seq(Msg) /\ DOMAIN a = 1..(n + 1) /\ DOMAIN s = 1..n /\ n \in Nat
      /\ a[n + 1] = m /\ \A i \in 1..n : a[i] = s[i]
  BY AddFacts
<1> HIDE DEF n
<1>2. n + 1 \in DOMAIN a /\ \A i \in DOMAIN s : i \in DOMAIN a /\ a[i] = s[i]
  BY <1>1
<1>3. Contains(a, m)
  BY <1>1, <1>2, ContainsAt
<1>4. ASSUME NEW x, Contains(s, x) PROVE Contains(a, x)
  <2>1. PICK i \in DOMAIN s : s[i] = x
    BY <1>4, ContainsAt
  <2>2. i \in DOMAIN a /\ a[i] = x
    BY <1>2, <2>1
  <2> QED
    BY <1>1, <2>2, ContainsAt
<1> QED
  BY <1>3, <1>4

\* What each message of a longer log is.
LEMMA EachAdded ==
  ASSUME NEW s \in Seq(Msg), NEW m \in Msg, NEW a, a = Append(s, m), NEW i \in DOMAIN a
  PROVE  a[i] = m \/ (i \in DOMAIN s /\ a[i] = s[i])
PROOF
<1> DEFINE n == Len(s)
<1>1. /\ DOMAIN a = 1..(n + 1) /\ DOMAIN s = 1..n /\ n \in Nat
      /\ a[n + 1] = m /\ \A j \in 1..n : a[j] = s[j]
  BY AddFacts
<1> HIDE DEF n
<1> QED
  BY <1>1, AddedAt

\* The rows are cut after a question: what is to be cut of the thread follows it there.
LEMMA WriteCuts ==
  ASSUME NEW s \in Seq(Msg), NEW t \in Seq(Msg), Agree(s, t), InThread(s, t, {}), NEW m \in Msg, m.role \in Said,
         InRows(s, t, FALSE, m, {}), \A k \in DOMAIN t : t[k].role \in Said,
         NEW n \in DOMAIN s, s[n] = m, NEW c, c = SubSeq(s, 1, n)
  PROVE  InThread(c, t, {}) /\ InRows(c, t, TRUE, m, {})
PROOF
<1>0. n \in 0..Len(s)
  BY LenProperties
<1>1. /\ c \in Seq(Msg) /\ DOMAIN c = 1..n /\ DOMAIN s = 1..Len(s) /\ n \in Nat /\ Len(s) \in Nat
      /\ \A i \in 1..n : i \in DOMAIN s /\ c[i] = s[i]
  BY <1>0, CutFacts
<1>2. InThread(c, t, {})
  BY <1>1 DEF InThread
<1>3. PICK l \in DOMAIN t : t[l] = m
  BY ContainsAt DEF InThread
<1>4. ASSUME NEW k \in DOMAIN t PROVE Contains(c, t[k]) \/ l < k
  <2>1. PICK i \in DOMAIN s : s[i] = t[k]
    BY ContainsAt DEF InRows
  <2>2. CASE i \in 1..n
    <3>1. c[i] = t[k] /\ i \in DOMAIN c
      BY <1>1, <2>1, <2>2
    <3> QED
      BY <1>1, <3>1, ContainsAt
  <2>3. CASE n < i
    <3>1. s[n] = t[l] /\ s[n].role \in Said /\ s[i].role \in Said
      BY <1>3, <2>1
    <3>2. n < i <=> l < k
      BY <2>1, <3>1 DEF Agree, SameOrder
    <3> QED
      BY <2>3, <3>2
  <2>4. i \in 1..n \/ n < i
    BY <1>1
  <2> QED
    BY <2>2, <2>3, <2>4
<1> QED
  BY <1>2, <1>3, <1>4 DEF InRows

\* A new question in the rows.
LEMMA WriteAdds ==
  ASSUME NEW s \in Seq(Msg), NEW t \in Seq(Msg), InThread(s, t, {}), NEW m \in Msg, InRows(s, t, FALSE, m, {}),
         NEW a, a = Append(s, m)
  PROVE  InThread(a, t, {m}) /\ InRows(a, t, FALSE, m, {})
PROOF
<1>1. \A i \in DOMAIN a : a[i] = m \/ (i \in DOMAIN s /\ a[i] = s[i])
  BY EachAdded
<1>2. InThread(a, t, {m})
  BY <1>1 DEF InThread
<1>3. InRows(a, t, FALSE, m, {})
  BY ContainsAdd DEF InRows
<1> QED
  BY <1>2, <1>3

\* The thread is cut after the question of the rows.
LEMMA ResendCuts ==
  ASSUME NEW s \in Seq(Msg), NEW t \in Seq(Msg), Agree(s, t), NEW m \in Msg, m.role \in Said, EndsWith(s, m),
         InThread(s, t, {m}), NEW uncut \in BOOLEAN, InRows(s, t, uncut, m, {}),
         NEW l \in DOMAIN t, t[l] = m, NEW c, c = SubSeq(t, 1, l)
  PROVE  InThread(s, c, {m}) /\ InRows(s, c, FALSE, m, {})
PROOF
<1>0. l \in 0..Len(t)
  BY LenProperties
<1>1. c \in Seq(Msg) /\ DOMAIN c = 1..l /\ l \in Nat /\ \A k \in 1..l : k \in DOMAIN t /\ c[k] = t[k]
  BY <1>0, CutFacts
<1>2. ASSUME NEW i \in DOMAIN s, s[i].role \in Said PROVE Contains(c, s[i]) \/ s[i] \in {m}
  <2>1. SUFFICES ASSUME Contains(t, s[i]) PROVE Contains(c, s[i])
    BY <1>2 DEF InThread
  <2>2. PICK k \in DOMAIN t : t[k] = s[i]
    BY <2>1, ContainsAt
  <2>3. k \in 1..l
    BY <1>2, <2>2, BeforeLast DEF Agree
  <2>4. k \in DOMAIN c /\ c[k] = s[i]
    BY <1>1, <2>2, <2>3
  <2> QED
    BY <1>1, <2>4, ContainsAt
<1>3. ASSUME NEW k \in DOMAIN c PROVE Contains(s, c[k])
  <2>1. k \in DOMAIN t /\ c[k] = t[k] /\ k \in 1..l
    BY <1>1
  <2>2. SUFFICES ASSUME NEW j \in DOMAIN t, j < k, t[j] = m PROVE FALSE
    BY <2>1 DEF InRows
  <2>3. j = l
    BY <2>2 DEF Agree, Once
  <2> QED
    BY <1>1, <2>1, <2>2, <2>3
<1> QED
  BY <1>2, <1>3 DEF InThread, InRows

\* Nothing is cut after a question that the thread does not have.
LEMMA NothingToCut ==
  ASSUME NEW s \in Seq(Msg), NEW t \in Seq(Msg), NEW m, ~Contains(t, m), NEW uncut \in BOOLEAN,
         InRows(s, t, uncut, m, {})
  PROVE  InRows(s, t, FALSE, m, {})
PROOF
  BY ContainsAt DEF InRows

\* The thread gets the question.
LEMMA BeginAdds ==
  ASSUME NEW s \in Seq(Msg), NEW t \in Seq(Msg), NEW m \in Msg, EndsWith(s, m),
         InThread(s, t, {m}), InRows(s, t, FALSE, m, {}), NEW a, a = Append(t, m)
  PROVE  InThread(s, a, {}) /\ InRows(s, a, FALSE, m, {})
PROOF
<1>1. InThread(s, a, {})
  BY ContainsAdd DEF InThread
<1>2. Contains(s, m)
  BY ContainsAt, LenProperties DEF EndsWith
<1>3. InRows(s, a, FALSE, m, {})
  BY <1>2, EachAdded DEF InRows
<1> QED
  BY <1>1, <1>3

\* The thread has the question.
LEMMA BeginFinds ==
  ASSUME NEW s \in Seq(Msg), NEW t \in Seq(Msg), NEW m, Contains(t, m), InThread(s, t, {m})
  PROVE  InThread(s, t, {})
PROOF
  BY DEF InThread

\* The thread gets an answer.
LEMMA AnswerAdds ==
  ASSUME NEW s \in Seq(Msg), NEW t \in Seq(Msg), NEW m, NEW x \in Msg,
         InThread(s, t, {}), InRows(s, t, FALSE, m, {}), NEW a, a = Append(t, x)
  PROVE  InThread(s, a, {}) /\ InRows(s, a, FALSE, m, {x})
PROOF
<1>1. InThread(s, a, {})
  BY ContainsAdd DEF InThread
<1>2. InRows(s, a, FALSE, m, {x})
  BY EachAdded DEF InRows
<1> QED
  BY <1>1, <1>2

\* The rows get it, too.
LEMMA StoreAdds ==
  ASSUME NEW s \in Seq(Msg), NEW t \in Seq(Msg), NEW m, NEW x \in Msg, x.role \notin Said \/ Contains(t, x),
         InThread(s, t, {}), NEW more, more \subseteq {x}, InRows(s, t, FALSE, m, more), NEW a, a = Append(s, x)
  PROVE  InThread(a, t, {}) /\ InRows(a, t, FALSE, m, {})
PROOF
<1>1. InThread(a, t, {})
  BY EachAdded DEF InThread
<1>2. InRows(a, t, FALSE, m, {})
  BY ContainsAdd DEF InRows
<1> QED
  BY <1>1, <1>2

\* Where a request under way leaves messages that only one of the two has: its question is
\* in the rows first, its answer in the thread, and the rows are cut first.
LacksAs(r) == IF r.pc \in {"join", "wait", "resend", "begin"} THEN {Question(r.ask)} ELSE {}
UncutAs(r) == r.pc \in {"join", "wait", "resend"} /\ r.kind # "new"
MoreAs(q, r) == IF r.pc = "store" /\ r.cur # <<>> THEN {AnswerOf(q, r.ask)} ELSE {}
AlignedAs(q, r, s, t) ==
  InThread(s, t, LacksAs(r)) /\ InRows(s, t, UncutAs(r), Question(r.ask), MoreAs(q, r))

\* A question that is edited stands in the rows, or not in the thread; the answer that is
\* to be stored is the last of the thread.
ReadyAs(q, r, s, t) ==
  /\ r.pc \in {"check", "write"} /\ r.kind = "edit" => Contains(s, Question(r.ask)) \/ ~Contains(t, Question(r.ask))
  /\ r.pc = "store" /\ r.cur # <<>> => EndsWith(t, AnswerOf(q, r.ask))

\* An answer is that of a request that has come far enough.
AnswersMade ==
  /\ \A i \in DOMAIN rows : rows[i].role = "assistant" => rows[i].by \in Reqs /\ req[rows[i].by].pc = "done"
  /\ \A k \in DOMAIN thread :
       /\ thread[k].role \in Said
       /\ thread[k].role = "assistant" =>
            thread[k].by \in Reqs /\ req[thread[k].by].pc \in {"store", "done", "failed"}

\* What has not happened, and how often the rest may have.
Counted == early \in Nat /\ crashes \in Nat /\ deletes = 0

\* Rows and thread hold the same.
Level == InThread(rows, thread, {}) /\ InRows(rows, thread, FALSE, Question("none"), {})

\* The invariant: rows and thread agree, and are level but for where the request under
\* way has come to.
Matched ==
  /\ Counted /\ ~deleting /\ Agree(rows, thread) /\ AnswersMade
  /\ \A q \in Reqs : UnderWay(q) => ReadyAs(q, req[q], rows, thread)
  /\ early = 0 /\ crashes = 0 =>
       /\ \A q \in Reqs : UnderWay(q) => AlignedAs(q, req[q], rows, thread)
       /\ (\A q \in Reqs : ~UnderWay(q)) => Level

\* A chat without messages.
LEMMA InitMatched == Init => Matched
PROOF
<1> SUFFICES ASSUME Init PROVE Matched
  OBVIOUS
<1>1. rows = <<>> /\ thread = <<>> /\ early = 0 /\ crashes = 0 /\ deletes = 0 /\ ~deleting
  BY DEF Init
<1>2. \A q \in Reqs : ~UnderWay(q)
  BY DEF Init, NewReq, UnderWay, Ended
<1>3. Agree(rows, thread) /\ AnswersMade /\ Level
  BY <1>1 DEF Agree, Once, SameOrder, Within, AnswersMade, Level, InThread, InRows
<1> QED
  BY <1>1, <1>2, <1>3 DEF Matched, Counted

\* Every message of a log was in the old one, or is x.
Grown(new, old, x) == \A i \in DOMAIN new : new[i] = x \/ \E j \in DOMAIN old : old[j] = new[i]

\* So is a log that gets a message or is cut.
LEMMA GrownFacts ==
  ASSUME NEW s \in Seq(Msg), NEW x, NEW m \in Msg
  PROVE  Grown(s, s, x) /\ Grown(Append(s, m), s, m) /\ Grown(CutAfter(s, m), s, x)
PROOF
<1>1. Grown(s, s, x)
  BY DEF Grown
<1>2. Grown(Append(s, m), s, m)
  BY EachAdded DEF Grown
<1>3. Grown(CutAfter(s, m), s, x)
  <2>1. CASE Contains(s, m)
    BY <2>1, CutEndsWith DEF Grown
  <2>2. CASE ~Contains(s, m)
    BY <1>1, <2>2 DEF CutAfter
  <2> QED
    BY <2>1, <2>2
<1> QED
  BY <1>1, <1>2, <1>3

\* A place where the two logs are to be the same.
LEMMA AlignedMeans ==
  ASSUME NEW q, NEW r, NEW s, NEW t, NEW x
  PROVE  /\ LacksAs(r) = {} /\ ~UncutAs(r) /\ MoreAs(q, r) = {} =>
              (AlignedAs(q, r, s, t) <=> InThread(s, t, {}) /\ InRows(s, t, FALSE, x, {}))
         /\ r.pc \in Ended \cup {"check", "write", "run", "error"} =>
              LacksAs(r) = {} /\ ~UncutAs(r) /\ MoreAs(q, r) = {}
PROOF
<1>1. ASSUME LacksAs(r) = {}, ~UncutAs(r), MoreAs(q, r) = {}
      PROVE  AlignedAs(q, r, s, t) <=> InThread(s, t, {}) /\ InRows(s, t, FALSE, x, {})
  BY <1>1 DEF AlignedAs, InRows
<1>2. ASSUME r.pc \in Ended \cup {"check", "write", "run", "error"}
      PROVE  LacksAs(r) = {} /\ ~UncutAs(r) /\ MoreAs(q, r) = {}
  BY <1>2 DEF LacksAs, UncutAs, MoreAs, Ended
<1> QED
  BY <1>1, <1>2

\* What the invariant says of the request under way.
LEMMA UnderWayMatched ==
  ASSUME OneAtATime, Matched, NEW q \in Reqs, UnderWay(q)
  PROVE  /\ Turn(q) /\ ReadyAs(q, req[q], rows, thread) /\ \A p \in Reqs : UnderWay(p) => p = q
         /\ early = 0 /\ crashes = 0 => AlignedAs(q, req[q], rows, thread)
PROOF
  BY DEF OneAtATime, Alone, Matched

\* One request moves while no other is under way.
LEMMA MatchMoves ==
  ASSUME IInv, Matched, NEW q \in Reqs, \A p \in Reqs : UnderWay(p) => p = q, ~deleting', Counted',
         NEW r, req' = [req EXCEPT ![q] = r],
         NEW x, Grown(rows', rows, x), x.role = "assistant" => x.by = q /\ r.pc = "done",
         NEW y, Grown(thread', thread, y), y.role \in Said, y.role = "assistant" => y.by = q /\ r.pc = "store",
         req[q].pc \notin {"done", "failed"}, req[q].pc = "store" => r.pc \in {"done", "failed"},
         Agree(rows', thread'), ReadyAs(q, r, rows', thread'),
         early' = 0 /\ crashes' = 0 => AlignedAs(q, r, rows', thread')
  PROVE  Matched'
PROOF
<1>1. req'[q] = r /\ \A p \in Reqs : p # q => req'[p] = req[p]
  BY DEF IInv, TypeOK
<1>2. \A p \in Reqs : UnderWay(p)' => p = q
  BY <1>1 DEF UnderWay
<1>3. AnswersMade'
  <2>1. ASSUME NEW i \in DOMAIN rows', rows'[i].role = "assistant"
        PROVE  rows'[i].by \in Reqs /\ req'[rows'[i].by].pc = "done"
    <3>1. CASE rows'[i] = x
      BY <1>1, <2>1, <3>1
    <3>2. CASE \E j \in DOMAIN rows : rows[j] = rows'[i]
      BY <1>1, <2>1, <3>2 DEF Matched, AnswersMade
    <3> QED
      BY <3>1, <3>2 DEF Grown
  <2>2. ASSUME NEW k \in DOMAIN thread'
        PROVE  /\ thread'[k].role \in Said
               /\ thread'[k].role = "assistant" =>
                    thread'[k].by \in Reqs /\ req'[thread'[k].by].pc \in {"store", "done", "failed"}
    <3>1. CASE thread'[k] = y
      BY <1>1, <3>1
    <3>2. CASE \E j \in DOMAIN thread : thread[j] = thread'[k]
      BY <1>1, <3>2 DEF Matched, AnswersMade
    <3> QED
      BY <3>1, <3>2 DEF Grown
  <2> QED
    BY <2>1, <2>2 DEF AnswersMade
<1>4. \A p \in Reqs : UnderWay(p)' => ReadyAs(p, req[p], rows, thread)'
  BY <1>1, <1>2
<1>5. ASSUME early' = 0, crashes' = 0
      PROVE  /\ \A p \in Reqs : UnderWay(p)' => AlignedAs(p, req'[p], rows', thread')
             /\ (\A p \in Reqs : ~UnderWay(p)') => Level'
  <2>1. AlignedAs(q, r, rows', thread')
    BY <1>5
  <2>2. ASSUME ~UnderWay(q)' PROVE Level'
    <3>1. r.pc \in Ended
      BY <1>1, <2>2 DEF UnderWay
    <3> QED
      BY <2>1, <3>1, AlignedMeans DEF Level
  <2> QED
    BY <1>1, <1>2, <2>1, <2>2
<1> QED
  BY <1>3, <1>4, <1>5 DEF Matched

\* The place of a request that has nothing in one of the two only.
LEMMA AlignedStays ==
  ASSUME NEW q, NEW r, NEW n, NEW s, NEW t,
         r.pc \in Ended \cup {"check", "write", "run", "error"}, n.pc \in Ended \cup {"check", "write", "run", "error"},
         AlignedAs(q, r, s, t)
  PROVE  AlignedAs(q, n, s, t)
PROOF
<1> DEFINE x == Question("none")
<1>1. AlignedAs(q, r, s, t) <=> InThread(s, t, {}) /\ InRows(s, t, FALSE, x, {})
  BY AlignedMeans
<1>2. AlignedAs(q, n, s, t) <=> InThread(s, t, {}) /\ InRows(s, t, FALSE, x, {})
  BY AlignedMeans
<1> QED
  BY <1>1, <1>2

\* A step that leaves rows and thread as they are.
LEMMA StayMatched ==
  ASSUME IInv, Matched, NEW q \in Reqs, \A p \in Reqs : UnderWay(p) => p = q,
         NEW r, req' = [req EXCEPT ![q] = r], UNCHANGED <<rows, thread, deleting, deletes>>,
         early' \in Nat, crashes' \in Nat, req[q].pc \notin {"done", "failed", "store"},
         ReadyAs(q, r, rows, thread), early' = 0 /\ crashes' = 0 => AlignedAs(q, r, rows, thread)
  PROVE  Matched'
PROOF
<1>1. rows \in Seq(Msg) /\ thread \in Seq(Msg) /\ q \in Id
  BY DEF IInv, TypeOK, Id
<1> DEFINE x == Question(q)
<1>2. x \in Msg /\ x.role = "user" /\ x.role \in Said
  BY <1>1 DEF Question, Msg, Said
<1>3. Grown(rows, rows, x) /\ Grown(thread, thread, x)
  BY <1>1, <1>2, GrownFacts
<1>4. ~deleting' /\ Counted' /\ Agree(rows', thread')
  BY DEF Matched, Counted
<1> HIDE DEF x
<1>5. ReadyAs(q, r, rows', thread') /\ (early' = 0 /\ crashes' = 0 => AlignedAs(q, r, rows', thread'))
  OBVIOUS
<1>6. Grown(rows', rows, x) /\ Grown(thread', thread, x)
  BY <1>3
<1> QED
  BY <1>2, <1>4, <1>5, <1>6, MatchMoves

\* A request is made: of an edited question the rows know at least what the thread knows.
LEMMA StartMatched ==
  ASSUME Overlap = FALSE, IInv, Matched, NEW q \in Reqs, NEW kind \in Kinds, NEW m \in Reqs, Start(q, kind, m),
         kind = "edit" => Contains(rows, Question(m)) \/ ~Contains(thread, Question(m))
  PROVE  Matched'
PROOF
<1> DEFINE r == [req[q] EXCEPT !.pc = "check", !.kind = kind, !.ask = m]
<1>t. req[q] \in ReqRecord
  BY DEF IInv, TypeOK
<1>1. r.pc = "check" /\ r.kind = kind /\ r.ask = m
  BY <1>t DEF ReqRecord
<1>2. /\ req' = [req EXCEPT ![q] = r] /\ UNCHANGED <<rows, thread, deleting, deletes, early, crashes>>
      /\ Quiet /\ req[q].pc = "idle"
  BY DEF Start, MayStart
<1> HIDE DEF r
<1>3. \A p \in Reqs : ~UnderWay(p)
  BY <1>2 DEF Quiet, UnderWay
<1>4. ReadyAs(q, r, rows, thread)
  BY <1>1 DEF ReadyAs
<1>5. early' \in Nat /\ crashes' \in Nat
  BY <1>2 DEF Matched, Counted
<1>6. ASSUME early' = 0, crashes' = 0 PROVE AlignedAs(q, r, rows, thread)
  <2>1. Level
    BY <1>2, <1>3, <1>6 DEF Matched
  <2> DEFINE x == Question("none")
  <2>2. InThread(rows, thread, {}) /\ InRows(rows, thread, FALSE, x, {})
    BY <2>1 DEF Level
  <2> QED
    BY <1>1, <2>2, AlignedMeans
<1> QED
  BY <1>2, <1>3, <1>4, <1>5, <1>6, StayMatched

\* Less may be asked of what the rows and the thread have.
LEMMA AlignedWeaker ==
  ASSUME NEW s, NEW t, NEW m, NEW uncut \in BOOLEAN
  PROVE  /\ InThread(s, t, {}) => InThread(s, t, {m})
         /\ InRows(s, t, FALSE, m, {}) => InRows(s, t, uncut, m, {})
PROOF
  BY DEF InThread, InRows

\* The transaction of a request: the question comes to the end of the rows, or what
\* follows it goes.
LEMMA WriteMatched ==
  ASSUME IInv, OneAtATime, Matched, NEW q \in Reqs, Write(q)
  PROVE  Matched'
PROOF
<1> DEFINE m == Question(req[q].ask)
           known == req[q].saw /\ req[q].kind = "edit" /\ Contains(rows, m)
           insert == req[q].kind # "retry" /\ ~known
<1>t. rows \in Seq(Msg) /\ thread \in Seq(Msg) /\ req[q] \in ReqRecord
  BY DEF IInv, TypeOK
<1>1. req[q].pc = "write" /\ UNCHANGED <<thread, deleting, deletes, early, crashes>>
  BY DEF Write
<1>2. UnderWay(q)
  BY <1>1 DEF UnderWay, Ended
<1>3. /\ Turn(q) /\ ReadyAs(q, req[q], rows, thread) /\ \A p \in Reqs : UnderWay(p) => p = q
      /\ early = 0 /\ crashes = 0 => AlignedAs(q, req[q], rows, thread)
  BY <1>2, UnderWayMatched
<1>4. m \in Msg /\ m.role = "user" /\ m.role \in Said
  BY <1>t DEF Question, Msg, ReqRecord, Said
<1>5. ~deleting' /\ Counted' /\ early' \in Nat /\ crashes' \in Nat /\ Agree(rows, thread)
  BY <1>1 DEF Matched, Counted
<1>6. CASE Go(q, "failed") /\ rows' = rows
  <2> DEFINE r == [req[q] EXCEPT !.pc = "failed"]
  <2>1. r.pc = "failed" /\ req' = [req EXCEPT ![q] = r]
    BY <1>t, <1>6 DEF Go, ReqRecord
  <2> HIDE DEF r
  <2>2. ReadyAs(q, r, rows, thread)
    BY <2>1 DEF ReadyAs
  <2>3. ASSUME early' = 0, crashes' = 0 PROVE AlignedAs(q, r, rows, thread)
    BY <1>1, <1>3, <2>1, <2>3, AlignedStays DEF Ended
  <2> QED
    BY <1>1, <1>3, <1>5, <1>6, <2>1, <2>2, <2>3, StayMatched
<1>7. CASE /\ insert => ~Contains(Written(q), m)
           /\ rows' = IF insert THEN Append(Written(q), m) ELSE Written(q)
           /\ Go(q, "join")
  <2> DEFINE r == [req[q] EXCEPT !.pc = "join"]
  <2>1. r.pc = "join" /\ r.kind = req[q].kind /\ r.ask = req[q].ask /\ req' = [req EXCEPT ![q] = r]
    BY <1>t, <1>7 DEF Go, ReqRecord
  <2> HIDE DEF r
  <2>2. ReadyAs(q, r, rows', thread')
    BY <2>1 DEF ReadyAs
  <2>3. LacksAs(r) = {m} /\ UncutAs(r) = (req[q].kind # "new") /\ MoreAs(q, r) = {} /\ Question(r.ask) = m
    BY <2>1 DEF LacksAs, UncutAs, MoreAs
  <2>4. early = 0 /\ crashes = 0 => InThread(rows, thread, {}) /\ InRows(rows, thread, FALSE, m, {})
    BY <1>1, <1>3, AlignedMeans
  <2> HIDE DEF m
  <2>5. ASSUME insert
        PROVE  /\ Agree(rows', thread) /\ Grown(rows', rows, m)
               /\ early' = 0 /\ crashes' = 0 => AlignedAs(q, r, rows', thread)
    <3>1. req[q].kind \in Kinds
      BY <1>t DEF ReqRecord
    <3>2. req[q].saw /\ req[q].kind # "new" => ~Contains(rows, m)
      BY <1>7, <2>5, <3>1 DEF Kinds
    <3>3. Written(q) = rows
      BY <3>2 DEF Written, CutAfter, m
    <3>4. ~Contains(rows, m) /\ rows' = Append(rows, m)
      BY <1>7, <2>5, <3>3
    <3>5. ~Contains(thread, m)
      <4>1. CASE req[q].kind = "new"
        BY <1>1, <1>3, <4>1 DEF Turn, m
      <4>2. CASE req[q].kind = "edit"
        BY <1>1, <1>3, <3>4, <4>2 DEF ReadyAs, m
      <4> QED
        BY <2>5, <3>1, <4>1, <4>2 DEF Kinds
    <3>6. Agree(rows', thread)
      BY <1>t, <1>4, <1>5, <3>4, <3>5, AgreeAddRows
    <3>7. Grown(rows', rows, m)
      BY <1>t, <1>4, <3>4, GrownFacts
    <3>8. ASSUME early' = 0, crashes' = 0 PROVE AlignedAs(q, r, rows', thread)
      <4>1. InThread(rows', thread, {m}) /\ InRows(rows', thread, FALSE, m, {})
        BY <1>1, <1>t, <1>4, <2>4, <3>4, <3>8, WriteAdds
      <4>2. InRows(rows', thread, UncutAs(r), m, {})
        BY <2>3, <4>1, AlignedWeaker
      <4> QED
        BY <2>3, <4>1, <4>2 DEF AlignedAs
    <3> QED
      BY <3>6, <3>7, <3>8
  <2>6. ASSUME ~insert
        PROVE  /\ Agree(rows', thread) /\ Grown(rows', rows, m)
               /\ early' = 0 /\ crashes' = 0 => AlignedAs(q, r, rows', thread)
    <3>1. Contains(rows, m) /\ req[q].saw /\ req[q].kind # "new"
      BY <1>1, <1>3, <2>6 DEF Turn, m
    <3>2. rows' = CutAfter(rows, m)
      BY <1>7, <2>6, <3>1 DEF Written, m
    <3>3. PICK n \in DOMAIN rows : rows[n] = m /\ rows' = SubSeq(rows, 1, n)
      BY <1>t, <3>1, <3>2, CutEndsWith
    <3>4. n \in 0..Len(rows)
      BY <1>t, LenProperties
    <3>5. Agree(rows', thread)
      BY <1>t, <1>5, <3>3, <3>4, AgreeCutRows
    <3>6. Grown(rows', rows, m)
      BY <1>t, <1>4, <3>2, GrownFacts
    <3>7. ASSUME early' = 0, crashes' = 0 PROVE AlignedAs(q, r, rows', thread)
      <4>1. \A k \in DOMAIN thread : thread[k].role \in Said
        BY DEF Matched, AnswersMade
      <4>2. InThread(rows', thread, {}) /\ InRows(rows', thread, TRUE, m, {})
        BY <1>1, <1>t, <1>4, <1>5, <2>4, <3>3, <3>7, <4>1, WriteCuts
      <4>3. UncutAs(r) = TRUE
        BY <2>3, <3>1
      <4>4. InThread(rows', thread, {m})
        BY <4>2, AlignedWeaker
      <4> QED
        BY <2>3, <4>2, <4>3, <4>4 DEF AlignedAs
    <3> QED
      BY <3>5, <3>6, <3>7
  <2>7. /\ Agree(rows', thread') /\ Grown(rows', rows, m)
        /\ early' = 0 /\ crashes' = 0 => AlignedAs(q, r, rows', thread')
    BY <1>1, <2>5, <2>6
  <2>8. Grown(thread', thread, m)
    BY <1>1, <1>t, <1>4, GrownFacts
  <2> QED
    BY <1>1, <1>3, <1>4, <1>5, <2>1, <2>2, <2>7, <2>8, MatchMoves
<1> QED
  BY <1>6, <1>7 DEF Write

\* _remove_messages_for_resend brings the thread to where the rows are.
LEMMA ResendMatched ==
  ASSUME IInv, OneAtATime, Matched, NEW q \in Reqs, Resend(q)
  PROVE  Matched'
PROOF
<1> DEFINE m == Question(req[q].ask)
           r == [req[q] EXCEPT !.pc = "begin"]
<1>t. rows \in Seq(Msg) /\ thread \in Seq(Msg) /\ req[q] \in ReqRecord
  BY DEF IInv, TypeOK
<1>1. req[q].pc = "resend" /\ UNCHANGED <<rows, deleting, deletes, early, crashes>> /\ thread' = CutAfter(thread, m)
  BY DEF Resend, Resent
<1>2. r.pc = "begin" /\ r.ask = req[q].ask /\ req' = [req EXCEPT ![q] = r]
  BY <1>t DEF Resend, Go, ReqRecord
<1>3. UnderWay(q)
  BY <1>1 DEF UnderWay, Ended
<1>4. /\ Turn(q) /\ \A p \in Reqs : UnderWay(p) => p = q
      /\ early = 0 /\ crashes = 0 => AlignedAs(q, req[q], rows, thread)
  BY <1>3, UnderWayMatched
<1>5. m \in Msg /\ m.role = "user" /\ m.role \in Said
  BY <1>t DEF Question, Msg, ReqRecord, Said
<1>6. ~deleting' /\ Counted' /\ Agree(rows, thread)
  BY <1>1 DEF Matched, Counted
<1>7. EndsWith(rows, m)
  BY <1>1, <1>4 DEF Turn
<1>8. LacksAs(r) = {m} /\ UncutAs(r) = FALSE /\ MoreAs(q, r) = {} /\ Question(r.ask) = m
  BY <1>2 DEF LacksAs, UncutAs, MoreAs
<1> DEFINE u == UncutAs(req[q])
<1>9. early = 0 /\ crashes = 0 => InThread(rows, thread, {m}) /\ InRows(rows, thread, u, m, {})
  BY <1>1, <1>4 DEF AlignedAs, LacksAs, MoreAs
<1>10. ReadyAs(q, r, rows', thread')
  BY <1>2 DEF ReadyAs
<1>11. u \in BOOLEAN
  BY DEF UncutAs
<1> HIDE DEF m, r, u
<1>12. ASSUME Contains(thread, m)
       PROVE  /\ Agree(rows, thread') /\ Grown(thread', thread, m)
              /\ early' = 0 /\ crashes' = 0 => AlignedAs(q, r, rows, thread')
  <2>1. PICK l \in DOMAIN thread : thread[l] = m /\ thread' = SubSeq(thread, 1, l)
    BY <1>t, <1>1, <1>12, CutEndsWith
  <2>2. Agree(rows, thread')
    BY <1>t, <1>5, <1>6, <1>7, <2>1, AgreeCutThread
  <2>3. Grown(thread', thread, m)
    BY <1>t, <1>1, <1>5, GrownFacts
  <2>4. ASSUME early' = 0, crashes' = 0 PROVE AlignedAs(q, r, rows, thread')
    <3>1. InThread(rows, thread', {m}) /\ InRows(rows, thread', FALSE, m, {})
      BY <1>t, <1>1, <1>5, <1>6, <1>7, <1>9, <1>11, <2>1, <2>4, ResendCuts
    <3> QED
      BY <1>8, <3>1 DEF AlignedAs
  <2> QED
    BY <2>2, <2>3, <2>4
<1>13. ASSUME ~Contains(thread, m)
       PROVE  /\ Agree(rows, thread') /\ Grown(thread', thread, m)
              /\ early' = 0 /\ crashes' = 0 => AlignedAs(q, r, rows, thread')
  <2>1. thread' = thread
    BY <1>1, <1>13 DEF CutAfter
  <2>2. Grown(thread', thread, m)
    BY <1>t, <1>5, <2>1, GrownFacts
  <2>3. ASSUME early' = 0, crashes' = 0 PROVE AlignedAs(q, r, rows, thread')
    <3>1. InRows(rows, thread, FALSE, m, {})
      BY <1>t, <1>1, <1>9, <1>11, <1>13, <2>3, NothingToCut
    <3> QED
      BY <1>1, <1>8, <1>9, <2>1, <2>3, <3>1 DEF AlignedAs
  <2> QED
    BY <1>6, <2>1, <2>2, <2>3
<1>14. /\ Agree(rows', thread') /\ Grown(thread', thread, m)
       /\ early' = 0 /\ crashes' = 0 => AlignedAs(q, r, rows', thread')
  BY <1>1, <1>12, <1>13
<1>15. Grown(rows', rows, m)
  BY <1>t, <1>1, <1>5, GrownFacts
<1> QED
  BY <1>1, <1>2, <1>4, <1>5, <1>6, <1>10, <1>14, <1>15, MatchMoves

\* The graph starts with the question at the end of the thread.
LEMMA BeginMatched ==
  ASSUME IInv, OneAtATime, Matched, NEW q \in Reqs, Begin(q)
  PROVE  Matched'
PROOF
<1> DEFINE m == Question(req[q].ask)
           started == IF Contains(thread, m) THEN thread ELSE Append(thread, m)
           r == [req[q] EXCEPT !.pc = "run", !.local = started]
<1>t. rows \in Seq(Msg) /\ thread \in Seq(Msg) /\ req[q] \in ReqRecord
  BY DEF IInv, TypeOK
<1>1. /\ req[q].pc = "begin" /\ UNCHANGED <<rows, deleting, deletes, early, crashes>> /\ thread' = started
      /\ req' = [req EXCEPT ![q] = r]
  BY DEF Begin
<1>2. r.pc = "run" /\ r.ask = req[q].ask
  BY <1>t DEF ReqRecord
<1>3. UnderWay(q)
  BY <1>1 DEF UnderWay, Ended
<1>4. /\ Turn(q) /\ \A p \in Reqs : UnderWay(p) => p = q
      /\ early = 0 /\ crashes = 0 => AlignedAs(q, req[q], rows, thread)
  BY <1>3, UnderWayMatched
<1>5. m \in Msg /\ m.role = "user" /\ m.role \in Said
  BY <1>t DEF Question, Msg, ReqRecord, Said
<1>6. ~deleting' /\ Counted' /\ Agree(rows, thread)
  BY <1>1 DEF Matched, Counted
<1>7. EndsWith(rows, m)
  BY <1>1, <1>4 DEF Turn
<1>8. LacksAs(r) = {} /\ UncutAs(r) = FALSE /\ MoreAs(q, r) = {} /\ Question(r.ask) = m
  BY <1>2 DEF LacksAs, UncutAs, MoreAs
<1>9. early = 0 /\ crashes = 0 => InThread(rows, thread, {m}) /\ InRows(rows, thread, FALSE, m, {})
  BY <1>1, <1>4 DEF AlignedAs, LacksAs, MoreAs, UncutAs
<1>10. ReadyAs(q, r, rows', thread')
  BY <1>2 DEF ReadyAs
<1>11. thread' = IF Contains(thread, m) THEN thread ELSE Append(thread, m)
  BY <1>1
<1> HIDE DEF m, r, started
<1>12. ASSUME Contains(thread, m)
       PROVE  /\ Agree(rows, thread') /\ Grown(thread', thread, m)
              /\ early' = 0 /\ crashes' = 0 => AlignedAs(q, r, rows, thread')
  <2>1. thread' = thread
    BY <1>11, <1>12
  <2>2. Grown(thread', thread, m)
    BY <1>t, <1>5, <2>1, GrownFacts
  <2>3. ASSUME early' = 0, crashes' = 0 PROVE AlignedAs(q, r, rows, thread')
    <3>1. InThread(rows, thread, {m}) /\ InRows(rows, thread, FALSE, m, {})
      BY <1>1, <1>9, <2>3
    <3>2. InThread(rows, thread, {})
      BY <1>t, <1>12, <3>1, BeginFinds
    <3> QED
      BY <1>8, <2>1, <3>1, <3>2 DEF AlignedAs
  <2> QED
    BY <1>6, <2>1, <2>2, <2>3
<1>13. ASSUME ~Contains(thread, m)
       PROVE  /\ Agree(rows, thread') /\ Grown(thread', thread, m)
              /\ early' = 0 /\ crashes' = 0 => AlignedAs(q, r, rows, thread')
  <2>1. thread' = Append(thread, m)
    BY <1>11, <1>13
  <2>2. Agree(rows, thread')
    BY <1>t, <1>5, <1>6, <1>7, <1>13, <2>1, AgreeAddThread
  <2>3. Grown(thread', thread, m)
    BY <1>t, <1>5, <2>1, GrownFacts
  <2>4. ASSUME early' = 0, crashes' = 0 PROVE AlignedAs(q, r, rows, thread')
    <3>1. InThread(rows, thread', {}) /\ InRows(rows, thread', FALSE, m, {})
      BY <1>t, <1>1, <1>5, <1>7, <1>9, <2>1, <2>4, BeginAdds
    <3> QED
      BY <1>8, <3>1 DEF AlignedAs
  <2> QED
    BY <2>2, <2>3, <2>4
<1>14. /\ Agree(rows', thread') /\ Grown(thread', thread, m)
       /\ early' = 0 /\ crashes' = 0 => AlignedAs(q, r, rows', thread')
  BY <1>1, <1>12, <1>13
<1>15. Grown(rows', rows, m)
  BY <1>t, <1>1, <1>5, GrownFacts
<1> QED
  BY <1>1, <1>2, <1>4, <1>5, <1>6, <1>10, <1>14, <1>15, MatchMoves

\* An answer that is still to come is nowhere.
LEMMA AnswerIsNew ==
  ASSUME Matched, NEW q \in Reqs, rows \in Seq(Msg), thread \in Seq(Msg), NEW m
  PROVE  /\ req[q].pc # "done" => ~Contains(rows, AnswerOf(q, m))
         /\ req[q].pc = "run" => ~Contains(thread, AnswerOf(q, m))
PROOF
<1> DEFINE a == AnswerOf(q, m)
<1>1. a.role = "assistant" /\ a.by = q
  BY DEF AnswerOf
<1> HIDE DEF a
<1>2. ASSUME req[q].pc # "done", NEW i \in DOMAIN rows, rows[i] = a PROVE FALSE
  BY <1>1, <1>2 DEF Matched, AnswersMade
<1>3. ASSUME req[q].pc = "run", NEW k \in DOMAIN thread, thread[k] = a PROVE FALSE
  <2>1. req[q].pc \in {"store", "done", "failed"}
    BY <1>1, <1>3 DEF Matched, AnswersMade
  <2> QED
    BY <1>3, <2>1
<1>4. (req[q].pc # "done" => ~Contains(rows, a)) /\ (req[q].pc = "run" => ~Contains(thread, a))
  BY <1>2, <1>3, ContainsAt
<1> QED
  BY <1>4 DEF a

\* The turn ends with its answer, or is aborted before.
LEMMA EndMatched ==
  ASSUME IInv, OneAtATime, Matched, NEW q \in Reqs, Answer(q) \/ Aborted(q)
  PROVE  Matched'
PROOF
<1> DEFINE m == Question(req[q].ask)
           a == AnswerOf(q, req[q].ask)
<1>t. rows \in Seq(Msg) /\ thread \in Seq(Msg) /\ req[q] \in ReqRecord /\ q \in Id
  BY DEF IInv, TypeOK, Id
<1>1. req[q].pc = "run" /\ UNCHANGED <<rows, deleting, deletes, early, crashes>>
  BY DEF Answer, Aborted, EndTurn
<1>2. UnderWay(q)
  BY <1>1 DEF UnderWay, Ended
<1>3. /\ Turn(q) /\ \A p \in Reqs : UnderWay(p) => p = q
      /\ early = 0 /\ crashes = 0 => AlignedAs(q, req[q], rows, thread)
  BY <1>2, UnderWayMatched
<1>4. req[q].local = thread /\ EndsWith(thread, m)
  BY <1>1, <1>3 DEF Turn
<1>5. m \in Msg /\ m.role = "user" /\ m.role \in Said
  BY <1>t DEF Question, Msg, ReqRecord, Said
<1>6. a \in Msg /\ a.role = "assistant" /\ a.by = q /\ a.role \in Said /\ a.role # "user"
  BY <1>t DEF AnswerOf, Msg, ReqRecord, Said
<1>7. ~deleting' /\ Counted' /\ early' \in Nat /\ crashes' \in Nat /\ Agree(rows, thread)
  BY <1>1 DEF Matched, Counted
<1>8. ~Contains(rows, a) /\ ~Contains(thread, a)
  BY <1>1, <1>t, AnswerIsNew
<1>9. early = 0 /\ crashes = 0 => InThread(rows, thread, {}) /\ InRows(rows, thread, FALSE, m, {})
  BY <1>1, <1>3, AlignedMeans
<1>10. PICK s : /\ \/ Answer(q) /\ s = Append(thread, a)
                   \/ Aborted(q) /\ s = thread
                /\ EndTurn(q, s)
  BY <1>4 DEF Answer, Aborted
<1> DEFINE r == [req[q] EXCEPT
                   !.pc = IF \E i \in DOMAIN s : s[i].role = "assistant" THEN "store" ELSE "done",
                   !.local = <<>>, !.aborted = FALSE, !.cur = Current(s)]
<1>11. req' = [req EXCEPT ![q] = r] /\ thread' = s
  BY <1>10 DEF EndTurn
<1>12. /\ r.pc = (IF \E i \in DOMAIN s : s[i].role = "assistant" THEN "store" ELSE "done")
       /\ r.ask = req[q].ask /\ r.cur = Current(s)
  BY <1>t DEF ReqRecord
<1> HIDE DEF m, a, r
<1>13. Current(thread) = <<>> /\ Current(Append(thread, a)) = <<a>>
  BY <1>t, <1>4, <1>5, <1>6, CurrentOfTurn
<1>14. Question(r.ask) = m /\ AnswerOf(q, r.ask) = a /\ req[q].pc \notin {"done", "failed", "store"}
  BY <1>1, <1>12 DEF m, a
<1>15. CASE s = thread
  <2>1. r.cur = <<>> /\ r.pc \in {"store", "done"}
    BY <1>12, <1>13, <1>15
  <2>2. ReadyAs(q, r, rows, thread)
    BY <2>1 DEF ReadyAs
  <2>3. ASSUME early' = 0, crashes' = 0 PROVE AlignedAs(q, r, rows, thread)
    <3>1. LacksAs(r) = {} /\ ~UncutAs(r) /\ MoreAs(q, r) = {}
      BY <2>1 DEF LacksAs, UncutAs, MoreAs
    <3>2. InThread(rows, thread, {}) /\ InRows(rows, thread, FALSE, m, {})
      BY <1>1, <1>9, <2>3
    <3> QED
      BY <3>1, <3>2, AlignedMeans
  <2> QED
    BY <1>1, <1>3, <1>7, <1>11, <1>14, <1>15, <2>2, <2>3, StayMatched
<1>16. CASE s = Append(thread, a)
  <2>1. EndsWith(thread', a)
    BY <1>t, <1>6, <1>11, <1>16, AppendEnds
  <2>2. \E i \in DOMAIN s : s[i].role = "assistant"
    BY <1>6, <1>11, <2>1, <1>t, <1>16, LenProperties, AppendProperties DEF EndsWith
  <2>3. r.pc = "store" /\ r.cur # <<>>
    <3>1. r.pc = "store"
      BY <1>12, <2>2
    <3>2. r.cur = <<a>>
      BY <1>12, <1>13, <1>16
    <3>3. r.cur # <<>>
      BY <3>2
    <3> QED
      BY <3>1, <3>3
  <2>4. ReadyAs(q, r, rows', thread')
    BY <1>14, <2>1, <2>3 DEF ReadyAs
  <2>5. Agree(rows', thread')
    BY <1>1, <1>t, <1>6, <1>7, <1>8, <1>11, <1>16, AgreeAddThread
  <2>6. Grown(thread', thread, a) /\ Grown(rows', rows, m)
    BY <1>1, <1>t, <1>5, <1>6, <1>11, <1>16, GrownFacts
  <2>7. ASSUME early' = 0, crashes' = 0 PROVE AlignedAs(q, r, rows', thread')
    <3>1. InThread(rows, thread, {}) /\ InRows(rows, thread, FALSE, m, {})
      BY <1>1, <1>9, <2>7
    <3>2. InThread(rows, thread', {}) /\ InRows(rows, thread', FALSE, m, {a})
      BY <1>t, <1>6, <1>11, <1>16, <3>1, AnswerAdds
    <3>3. LacksAs(r) = {} /\ UncutAs(r) = FALSE /\ MoreAs(q, r) = {a}
      BY <1>14, <2>3 DEF LacksAs, UncutAs, MoreAs
    <3> QED
      BY <1>1, <1>14, <3>2, <3>3 DEF AlignedAs
  <2>8. m.role # "assistant"
    BY <1>5
  <2> QED
    BY <1>3, <1>6, <1>7, <1>11, <1>14, <2>3, <2>4, <2>5, <2>6, <2>7, <2>8, MatchMoves
<1> QED
  BY <1>10, <1>15, <1>16

\* The placeholder of a failure is no message the model is to see.
LEMMA StoreErrorMatched ==
  ASSUME IInv, OneAtATime, Matched, NEW q \in Reqs, StoreError(q)
  PROVE  Matched'
PROOF
<1> DEFINE e == ErrorOf(q, req[q].ask)
           m == Question(req[q].ask)
           r == [req[q] EXCEPT !.pc = "failed"]
<1>t. rows \in Seq(Msg) /\ thread \in Seq(Msg) /\ req[q] \in ReqRecord /\ q \in Id
  BY DEF IInv, TypeOK, Id
<1>1. req[q].pc = "error" /\ UNCHANGED <<thread, deleting, deletes, early, crashes>> /\ rows' = Append(rows, e)
  BY DEF StoreError
<1>2. r.pc = "failed" /\ r.ask = req[q].ask /\ req' = [req EXCEPT ![q] = r]
  BY <1>t DEF StoreError, Go, ReqRecord
<1>3. UnderWay(q)
  BY <1>1 DEF UnderWay, Ended
<1>4. /\ \A p \in Reqs : UnderWay(p) => p = q
      /\ early = 0 /\ crashes = 0 => AlignedAs(q, req[q], rows, thread)
  BY <1>3, UnderWayMatched
<1>5. e \in Msg /\ e.role = "error" /\ e.role \notin Said
  BY <1>t DEF ErrorOf, Msg, ReqRecord, Said
<1>6. ~deleting' /\ Counted' /\ Agree(rows, thread)
  BY <1>1 DEF Matched, Counted
<1>7. early = 0 /\ crashes = 0 => InThread(rows, thread, {}) /\ InRows(rows, thread, FALSE, m, {})
  BY <1>1, <1>4, AlignedMeans
<1>8. m \in Msg /\ m.role = "user" /\ m.role \in Said
  BY <1>t DEF Question, Msg, ReqRecord, Said
<1> HIDE DEF e, m, r
<1>9. Agree(rows', thread')
  BY <1>t, <1>1, <1>5, <1>6, AgreeAddRows
<1>10. Grown(rows', rows, e) /\ Grown(thread', thread, m)
  BY <1>t, <1>1, <1>5, <1>8, GrownFacts
<1>11. ReadyAs(q, r, rows', thread')
  BY <1>2 DEF ReadyAs
<1>12. ASSUME early' = 0, crashes' = 0 PROVE AlignedAs(q, r, rows', thread')
  <2>1. InThread(rows, thread, {}) /\ InRows(rows, thread, FALSE, m, {})
    BY <1>1, <1>7, <1>12
  <2> DEFINE more == {}
  <2>2. more \subseteq {e} /\ InRows(rows, thread, FALSE, m, more)
    BY <2>1
  <2> HIDE DEF more
  <2>3. InThread(rows', thread, {}) /\ InRows(rows', thread, FALSE, m, {})
    BY <1>t, <1>1, <1>5, <2>1, <2>2, StoreAdds
  <2>4. LacksAs(r) = {} /\ ~UncutAs(r) /\ MoreAs(q, r) = {}
    BY <1>2, AlignedMeans DEF Ended
  <2> QED
    BY <1>1, <2>3, <2>4, AlignedMeans
<1>13. req[q].pc \notin {"done", "failed"} /\ req[q].pc # "store" /\ e.role # "assistant" /\ m.role # "assistant"
  BY <1>1, <1>5, <1>8
<1> QED
  BY <1>2, <1>4, <1>6, <1>8, <1>9, <1>10, <1>11, <1>12, <1>13, MatchMoves

\* The answer is stored: it is the last of the thread, and not among the rows.
LEMMA StoreMatched ==
  ASSUME IInv, OneAtATime, Matched, NEW q \in Reqs, Store(q)
  PROVE  Matched'
PROOF
<1> DEFINE m == Question(req[q].ask)
           a == AnswerOf(q, req[q].ask)
           r == [req[q] EXCEPT !.pc = "done", !.cur = <<>>]
<1>t. rows \in Seq(Msg) /\ thread \in Seq(Msg) /\ req[q] \in ReqRecord /\ q \in Id
  BY DEF IInv, TypeOK, Id
<1>1. req[q].pc = "store" /\ UNCHANGED <<thread, deleting, deletes, early, crashes>>
  BY DEF Store
<1>2. UnderWay(q)
  BY <1>1 DEF UnderWay, Ended
<1>3. /\ Turn(q) /\ ReadyAs(q, req[q], rows, thread) /\ \A p \in Reqs : UnderWay(p) => p = q
      /\ early = 0 /\ crashes = 0 => AlignedAs(q, req[q], rows, thread)
  BY <1>2, UnderWayMatched
<1>4. req[q].cur \in {<<>>, <<a>>} /\ EndsWith(rows, m)
  BY <1>1, <1>3 DEF Turn
<1>5. m \in Msg /\ m.role = "user" /\ m.role \in Said
  BY <1>t DEF Question, Msg, ReqRecord, Said
<1>6. a \in Msg /\ a.role = "assistant" /\ a.by = q /\ a.role \in Said
  BY <1>t DEF AnswerOf, Msg, ReqRecord, Said
<1>7. ~deleting' /\ Counted' /\ Agree(rows, thread)
  BY <1>1 DEF Matched, Counted
<1>8. ~Contains(rows, a)
  BY <1>1, <1>t, AnswerIsNew
<1>9. rows' = rows \o req[q].cur /\ req' = [req EXCEPT ![q] = r]
  <2>1. ASSUME NEW x \in Range(req[q].cur), Contains(rows, x) PROVE FALSE
    <3>1. x = a
      <4>1. PICK i \in DOMAIN req[q].cur : x = req[q].cur[i]
        BY DEF Range
      <4>2. req[q].cur = <<a>>
        BY <1>4, <4>1
      <4>3. i = 1
        BY <4>1, <4>2
      <4> QED
        BY <4>1, <4>2, <4>3
    <3> QED
      BY <1>8, <2>1, <3>1
  <2> QED
    BY <2>1 DEF Store
<1>10. r.pc = "done" /\ r.ask = req[q].ask
  BY <1>t DEF ReqRecord
<1>11. ReadyAs(q, r, rows', thread')
  BY <1>10 DEF ReadyAs
<1>12. LacksAs(r) = {} /\ ~UncutAs(r) /\ MoreAs(q, r) = {}
  BY <1>10 DEF LacksAs, UncutAs, MoreAs
<1>13. LacksAs(req[q]) = {} /\ UncutAs(req[q]) = FALSE
       /\ MoreAs(q, req[q]) = (IF req[q].cur # <<>> THEN {a} ELSE {})
  BY <1>1 DEF LacksAs, UncutAs, MoreAs
<1> DEFINE more == MoreAs(q, req[q])
<1>14. early = 0 /\ crashes = 0 => InThread(rows, thread, {}) /\ InRows(rows, thread, FALSE, m, more)
  BY <1>1, <1>3, <1>13 DEF AlignedAs
<1>15. req[q].cur # <<>> => EndsWith(thread, a)
  BY <1>1, <1>3 DEF ReadyAs
<1> HIDE DEF m, a, r, more
<1>16. more \subseteq {a} /\ (req[q].cur = <<>> => more = {})
  BY <1>13 DEF more
<1>17. Grown(thread', thread, m)
  BY <1>t, <1>1, <1>5, GrownFacts
<1>18. CASE req[q].cur = <<>>
  <2>1. rows' = rows
    BY <1>t, <1>6, <1>9, <1>18, ConcatOne
  <2>2. Grown(rows', rows, m) /\ Agree(rows', thread')
    BY <1>t, <1>1, <1>5, <1>7, <2>1, GrownFacts
  <2>3. ASSUME early' = 0, crashes' = 0 PROVE AlignedAs(q, r, rows', thread')
    <3>1. InThread(rows, thread, {}) /\ InRows(rows, thread, FALSE, m, {})
      BY <1>1, <1>14, <1>16, <1>18, <2>3
    <3> QED
      BY <1>1, <1>12, <2>1, <3>1, AlignedMeans
  <2>4. m.role # "assistant" /\ req[q].pc \notin {"done", "failed"}
    BY <1>1, <1>5
  <2> QED
    BY <1>3, <1>5, <1>7, <1>9, <1>10, <1>11, <1>17, <2>2, <2>3, <2>4, MatchMoves
<1>19. CASE req[q].cur # <<>>
  <2>1. req[q].cur = <<a>>
    BY <1>4, <1>19 DEF a
  <2>2. rows' = Append(rows, a)
    BY <1>t, <1>6, <1>9, <2>1, ConcatOne
  <2>3. EndsWith(thread, a)
    BY <1>15, <1>19
  <2>4. Agree(rows', thread)
    BY <1>t, <1>6, <1>7, <1>8, <2>2, <2>3, AgreeAnswer
  <2>5. Agree(rows', thread')
    BY <1>1, <2>4
  <2>6. Grown(rows', rows, a)
    BY <1>t, <1>6, <2>2, GrownFacts
  <2>7. ASSUME early' = 0, crashes' = 0 PROVE AlignedAs(q, r, rows', thread')
    <3>1. InThread(rows, thread, {}) /\ InRows(rows, thread, FALSE, m, more)
      BY <1>1, <1>14, <2>7
    <3>2. Contains(thread, a)
      BY <1>t, <2>3, ContainsAt, LenProperties DEF EndsWith
    <3>3. InThread(rows', thread, {}) /\ InRows(rows', thread, FALSE, m, {})
      BY <1>t, <1>6, <1>16, <2>2, <3>1, <3>2, StoreAdds
    <3> QED
      BY <1>1, <1>12, <3>3, AlignedMeans
  <2>8. m.role # "assistant" /\ req[q].pc \notin {"done", "failed"}
    BY <1>1, <1>5
  <2> QED
    BY <1>3, <1>5, <1>6, <1>7, <1>9, <1>10, <1>11, <1>17, <2>5, <2>6, <2>7, <2>8, MatchMoves
<1> QED
  BY <1>18, <1>19

\* A step of a request under way that leaves rows and thread as they are.
LEMMA GoMatched ==
  ASSUME IInv, OneAtATime, Matched, NEW q \in Reqs, UnderWay(q), req[q].pc # "store",
         NEW r, req' = [req EXCEPT ![q] = r], UNCHANGED <<rows, thread, deleting, deletes, crashes>>,
         early' \in Nat, r.pc \notin {"write", "check", "store"},
         early' = 0 =>
           /\ early = 0 /\ r.ask = req[q].ask
           /\ LacksAs(r) = LacksAs(req[q]) /\ UncutAs(r) = UncutAs(req[q]) /\ MoreAs(q, r) = MoreAs(q, req[q])
  PROVE  Matched'
PROOF
<1>1. /\ \A p \in Reqs : UnderWay(p) => p = q
      /\ early = 0 /\ crashes = 0 => AlignedAs(q, req[q], rows, thread)
  BY UnderWayMatched
<1>2. ReadyAs(q, r, rows, thread)
  BY DEF ReadyAs
<1>3. crashes' \in Nat /\ crashes' = crashes
  BY DEF Matched, Counted
<1>4. early' = 0 /\ crashes' = 0 => AlignedAs(q, r, rows, thread)
  BY <1>1, <1>3 DEF AlignedAs
<1>5. req[q].pc \notin {"done", "failed", "store"}
  BY DEF UnderWay, Ended
<1> QED
  BY <1>1, <1>2, <1>3, <1>4, <1>5, StayMatched

\* Every step of requests that come one after another keeps it.
LEMMA MatchedNext == Overlap = FALSE /\ MaxDelete = 0 /\ IInv /\ OneAtATime /\ Matched /\ [Next]_vars => Matched'
PROOF
<1> SUFFICES ASSUME Overlap = FALSE, MaxDelete = 0, IInv, OneAtATime, Matched, [Next]_vars PROVE Matched'
  OBVIOUS
<1>t. /\ rows \in Seq(Msg) /\ thread \in Seq(Msg) /\ \A q \in Reqs : req[q] \in ReqRecord
  BY DEF IInv, TypeOK
<1>c. early \in Nat /\ crashes \in Nat /\ deletes = 0 /\ ~deleting
  BY DEF Matched, Counted
\* Nobody has asked the question of a request that was not made.
<1>1. ASSUME NEW q \in Reqs, Post(q) \/ Start(q, "edit", q) PROVE Matched'
  <2>1. req[q].pc = "idle"
    BY <1>1 DEF Post, Start, MayStart
  <2>2. ASSUME NEW i \in DOMAIN thread, thread[i] = Question(q) PROVE FALSE
    <3>1. thread[i].role = "user" /\ thread[i].by = q
      BY <2>2 DEF Question
    <3> QED
      BY <2>1, <3>1 DEF OneAtATime, MadeQuestions
  <2>3. ~Contains(thread, Question(q))
    BY <1>t, <2>2, ContainsAt
  <2> QED
    BY <1>1, <2>3, StartMatched DEF Post, Kinds
\* A question that stands in the rows.
<1>2. ASSUME NEW q \in Reqs, NEW i \in DOMAIN rows, rows[i].role = "user",
             Start(q, "edit", rows[i].by) \/ Start(q, "retry", rows[i].by)
      PROVE  Matched'
  <2>1. rows[i].by \in Reqs /\ rows[i] = Question(rows[i].by)
    BY <1>2 DEF OneAtATime, MadeQuestions
  <2>2. Contains(rows, Question(rows[i].by))
    BY <1>t, <2>1, ContainsAt
  <2> QED
    BY <1>2, <2>1, <2>2, StartMatched DEF Kinds
<1>3. ASSUME NEW q \in Reqs, Edit(q) PROVE Matched'
  BY <1>1, <1>2, <1>3 DEF Edit
<1>4. ASSUME NEW q \in Reqs, Retry(q) PROVE Matched'
  <2>1. PICK i \in DOMAIN rows : LastQuestionAt(rows, i) > 0
                                 /\ Start(q, "retry", rows[LastQuestionAt(rows, i)].by)
    BY <1>4 DEF Retry
  <2>2. LastQuestionAt(rows, i) \in DOMAIN rows /\ rows[LastQuestionAt(rows, i)].role = "user"
    <3>1. i \in 0..Len(rows)
      BY <1>t
    <3> QED
      BY <1>t, <2>1, <3>1, LastQuestionRole
  <2> QED
    BY <1>2, <2>1, <2>2
<1>5. ASSUME NEW q \in Reqs, Check(q) PROVE Matched'
  <2> DEFINE r == [req[q] EXCEPT !.pc = "write", !.saw = chat]
  <2>1. /\ r.pc = "write" /\ r.kind = req[q].kind /\ r.ask = req[q].ask
        /\ req' = [req EXCEPT ![q] = r] /\ UNCHANGED <<rows, thread, deleting, deletes, early, crashes>>
        /\ req[q].pc = "check"
    BY <1>t, <1>5 DEF Check, ReqRecord
  <2> HIDE DEF r
  <2>2. UnderWay(q)
    BY <2>1 DEF UnderWay, Ended
  <2>3. /\ ReadyAs(q, req[q], rows, thread) /\ \A p \in Reqs : UnderWay(p) => p = q
        /\ early = 0 /\ crashes = 0 => AlignedAs(q, req[q], rows, thread)
    BY <2>2, UnderWayMatched
  <2>4. ReadyAs(q, r, rows, thread)
    BY <2>1, <2>3 DEF ReadyAs
  <2>5. ASSUME early' = 0, crashes' = 0 PROVE AlignedAs(q, r, rows, thread)
    BY <2>1, <2>3, <2>5, AlignedStays
  <2> QED
    BY <1>c, <2>1, <2>3, <2>4, <2>5, StayMatched
<1>6. ASSUME NEW q \in Reqs, Write(q) \/ Resend(q) \/ Begin(q) \/ Answer(q) \/ Aborted(q) \/ StoreError(q) \/ Store(q)
      PROVE  Matched'
  BY <1>6, WriteMatched, ResendMatched, BeginMatched, EndMatched, StoreErrorMatched, StoreMatched
<1>7. ASSUME NEW q \in Reqs, NoModel(q) PROVE Matched'
  <2> DEFINE r == [req[q] EXCEPT !.pc = "error"]
  <2>1. /\ req[q].pc = "join" /\ req' = [req EXCEPT ![q] = r] /\ early' = early + 1
        /\ UNCHANGED <<rows, thread, deleting, deletes, crashes>>
    BY <1>7 DEF NoModel, Go
  <2>2. r.pc = "error"
    BY <1>t DEF ReqRecord
  <2> HIDE DEF r
  <2>3. UnderWay(q) /\ req[q].pc # "store"
    BY <2>1 DEF UnderWay, Ended
  <2>4. early' \in Nat /\ early' # 0
    BY <1>c, <2>1
  <2> QED
    BY <2>1, <2>2, <2>3, <2>4, GoMatched
<1>8. ASSUME NEW q \in Reqs, Fail(q) PROVE Matched'
  <2> DEFINE r == [req[q] EXCEPT !.pc = "error", !.local = <<>>, !.aborted = FALSE]
  <2>1. /\ req[q].pc \in InTurn /\ req' = [req EXCEPT ![q] = r]
        /\ early' = (IF req[q].pc = "run" THEN early ELSE early + 1)
        /\ UNCHANGED <<rows, thread, deleting, deletes, crashes>>
    BY <1>8 DEF Fail
  <2>2. r.pc = "error" /\ r.ask = req[q].ask
    BY <1>t DEF ReqRecord
  <2> HIDE DEF r
  <2>3. UnderWay(q) /\ req[q].pc # "store"
    BY <2>1 DEF UnderWay, Ended, InTurn
  <2>4. CASE req[q].pc = "run"
    <3>1. LacksAs(r) = LacksAs(req[q]) /\ UncutAs(r) = UncutAs(req[q]) /\ MoreAs(q, r) = MoreAs(q, req[q])
      BY <2>2, <2>4 DEF LacksAs, UncutAs, MoreAs
    <3>2. early' = early
      BY <2>1, <2>4
    <3> QED
      BY <1>c, <2>1, <2>2, <2>3, <3>1, <3>2, GoMatched
  <2>5. CASE req[q].pc # "run"
    <3>1. early' \in Nat /\ early' # 0
      BY <1>c, <2>1, <2>5
    <3> QED
      BY <2>1, <2>2, <2>3, <3>1, GoMatched
  <2> QED
    BY <2>4, <2>5
\* A request that only comes to another place.
<1>9. ASSUME NEW q \in Reqs, UnderWay(q), req[q].pc \in {"join", "wait"}, NEW pc \in {"wait", "resend", "begin"},
             Go(q, pc), UNCHANGED <<rows, thread, deleting, deletes, crashes, early>>,
             pc = "begin" <=> (req[q].kind = "new" /\ pc # "wait")
      PROVE  Matched'
  <2> DEFINE r == [req[q] EXCEPT !.pc = pc]
  <2>1. r.pc = pc /\ r.ask = req[q].ask /\ r.kind = req[q].kind /\ req' = [req EXCEPT ![q] = r]
    BY <1>t, <1>9 DEF Go, ReqRecord
  <2> HIDE DEF r
  <2>2. LacksAs(r) = LacksAs(req[q]) /\ UncutAs(r) = UncutAs(req[q]) /\ MoreAs(q, r) = MoreAs(q, req[q])
    BY <1>9, <2>1 DEF LacksAs, UncutAs, MoreAs
  <2>3. early' \in Nat /\ (early' = 0 => early = 0) /\ req[q].pc # "store" /\ r.pc \notin {"write", "check", "store"}
    BY <1>c, <1>9, <2>1
  <2> QED
    BY <1>9, <2>1, <2>2, <2>3, GoMatched
<1>10. ASSUME NEW q \in Reqs, Join(q) PROVE Matched'
  <2>1. /\ req[q].pc = "join" /\ Go(q, "wait")
        /\ UNCHANGED <<rows, thread, deleting, deletes, crashes, early>>
    BY <1>10 DEF Join
  <2>2. UnderWay(q)
    BY <2>1 DEF UnderWay, Ended
  <2> QED
    BY <1>9, <2>1, <2>2
<1>11. ASSUME NEW q \in Reqs, Enter(q) PROVE Matched'
  <2>1. /\ req[q].pc = "wait" /\ Go(q, IF req[q].kind = "new" THEN "begin" ELSE "resend")
        /\ UNCHANGED <<rows, thread, deleting, deletes, crashes, early>>
    BY <1>11 DEF Enter
  <2>2. UnderWay(q)
    BY <2>1 DEF UnderWay, Ended
  <2>3. CASE req[q].kind = "new"
    BY <1>9, <2>1, <2>2, <2>3
  <2>4. CASE req[q].kind # "new"
    BY <1>9, <2>1, <2>2, <2>4
  <2> QED
    BY <2>3, <2>4
<1>12. CASE AbortChat
  <2>1. PICK q \in Reqs : /\ req[q].pc = "run" /\ req' = [req EXCEPT ![q].aborted = TRUE]
                          /\ UNCHANGED <<rows, thread, deleting, deletes, crashes, early>>
    BY <1>12 DEF AbortChat
  <2> DEFINE r == [req[q] EXCEPT !.aborted = TRUE]
  <2>2. req' = [req EXCEPT ![q] = r] /\ r.pc = "run" /\ r.ask = req[q].ask
    BY <1>t, <2>1 DEF ReqRecord
  <2> HIDE DEF r
  <2>3. UnderWay(q) /\ req[q].pc # "store"
    BY <2>1 DEF UnderWay, Ended
  <2>4. LacksAs(r) = LacksAs(req[q]) /\ UncutAs(r) = UncutAs(req[q]) /\ MoreAs(q, r) = MoreAs(q, req[q])
    BY <2>1, <2>2 DEF LacksAs, UncutAs, MoreAs
  <2> QED
    BY <1>c, <2>1, <2>2, <2>3, <2>4, GoMatched
<1>13. CASE DeleteChat
  BY <1>c, <1>13 DEF DeleteChat
<1>14. CASE DeleteThread
  BY <1>c, <1>14 DEF DeleteThread
\* A crash ends what was under way; what was done stays so.
<1>15. CASE Crash
  <2>1. UNCHANGED <<rows, thread, deletes, early>> /\ crashes' = crashes + 1 /\ ~deleting'
    BY <1>15 DEF Crash
  <2>2. \A q \in Reqs : req'[q].pc = (IF req[q].pc \in Ended THEN req[q].pc ELSE "failed")
    BY <1>t, <1>15 DEF Crash, ReqRecord
  <2>3. crashes' \in Nat /\ crashes' # 0
    BY <1>c, <2>1
  <2>4. \A q \in Reqs : ~UnderWay(q)'
    BY <2>2 DEF UnderWay, Ended
  <2>5. \A q \in Reqs : /\ req[q].pc = "done" => req'[q].pc = "done"
                        /\ req[q].pc \in {"store", "done", "failed"} => req'[q].pc \in {"store", "done", "failed"}
    BY <2>2 DEF Ended
  <2>6. AnswersMade'
    BY <2>1, <2>5 DEF Matched, AnswersMade
  <2>7. Counted' /\ Agree(rows', thread')
    BY <1>c, <2>1, <2>3 DEF Matched, Counted
  <2> QED
    BY <2>1, <2>3, <2>4, <2>6, <2>7 DEF Matched
<1>16. CASE UNCHANGED vars
  BY <1>16 DEF vars, Matched, Counted, AnswersMade, UnderWay, Level
<1> QED
  BY <1>1, <1>3, <1>4, <1>5, <1>6, <1>7, <1>8, <1>10, <1>11, <1>12, <1>13, <1>14, <1>15, <1>16 DEF Next, Step

\* So when no request is under way, the two are the same.
LEMMA MatchedIsSame == Matched => RowsMatchThread /\ AnswersKnown
PROOF
<1> SUFFICES ASSUME Matched, Quiet
             PROVE  /\ Within(rows, thread, {"assistant"}) /\ SameOrder(rows, thread, {"assistant"})
                    /\ early = 0 /\ crashes = 0 =>
                         /\ Within(rows, thread, {"user", "assistant"})
                         /\ Within(thread, rows, {"user", "assistant", "error"})
                         /\ SameOrder(rows, thread, {"user", "assistant"})
  BY DEF RowsMatchThread, AnswersKnown
<1>1. Agree(rows, thread) /\ \A q \in Reqs : ~UnderWay(q)
  BY DEF Matched, Quiet, UnderWay
<1>2. Within(rows, thread, {"assistant"}) /\ SameOrder(rows, thread, {"user", "assistant"})
  BY <1>1 DEF Agree, Said
<1>3. SameOrder(rows, thread, {"assistant"})
  BY <1>2 DEF SameOrder
<1>4. ASSUME early = 0, crashes = 0
      PROVE  Within(rows, thread, {"user", "assistant"}) /\ Within(thread, rows, {"user", "assistant", "error"})
  <2>1. Level
    BY <1>1, <1>4 DEF Matched
  <2> QED
    BY <2>1 DEF Level, InThread, InRows, Said, Within, Contains
<1> QED
  BY <1>2, <1>3, <1>4

\* Of the requests of a chat that come one after another, any number and of any kind,
\* with any failures, aborts and restarts: what the user sees is what the model sees
\* (handle_chat, _remove_messages_for_resend).  Both logs hold the same messages until
\* something is lost with the server or before it is in the thread, and every answer
\* seen is remembered, in its place.
THEOREM ConversationIsOne ==
  ASSUME Overlap = FALSE, MaxDelete = 0
  PROVE  AllSpec => []SameConversation
PROOF
<1> DEFINE Inv == served = "sequential" => IInv /\ OneAtATime /\ Matched
<1>1. AllInit => Inv
  BY InitIInv, InitOneAtATime, InitMatched DEF AllInit
<1>2. Inv /\ [AllNext]_<<served, vars, storeVars>> => Inv'
  <2> SUFFICES ASSUME Inv, [AllNext]_<<served, vars, storeVars>>, served' = "sequential"
               PROVE  (IInv /\ OneAtATime /\ Matched)'
    OBVIOUS
  <2>1. served = "sequential" /\ [Next]_vars
    BY DEF AllNext
  <2> QED
    BY <2>1, NextIInv, OneAtATimeNext, MatchedNext
<1>3. Inv => SameConversation
  BY MatchedIsSame DEF SameConversation
<1> QED
  BY <1>1, <1>2, <1>3, PTL DEF AllSpec

\* A conversation as the whole model shows it is that of its requests.
LEMMA ShownStep ==
  ASSUME served = "sequential", served' = served
  PROVE  /\ [RowsLog!Next]_rows => [RowsShown!Next]_(Shows(rows))
         /\ [ThreadLog!Next]_thread => [ThreadShown!Next]_(Shows(thread))
PROOF
<1>1. Shows(rows) = rows /\ Shows(rows)' = rows' /\ Shows(thread) = thread /\ Shows(thread)' = thread'
  BY DEF Shows
<1>2. RowsLog!Next => RowsShown!Next
  BY <1>1 DEF RowsLog!Next, RowsLog!Ask, RowsLog!Answer, RowsLog!Cut, RowsLog!Forget, RowsLog!Asked, RowsLog!LastQuestion,
              RowsShown!Next, RowsShown!Ask, RowsShown!Answer, RowsShown!Cut, RowsShown!Forget, RowsShown!Asked,
              RowsShown!LastQuestion
<1>3. ThreadLog!Next => ThreadShown!Next
  BY <1>1 DEF ThreadLog!Next, ThreadLog!Ask, ThreadLog!Answer, ThreadLog!Cut, ThreadLog!Forget, ThreadLog!Asked,
              ThreadLog!LastQuestion, ThreadShown!Next, ThreadShown!Ask, ThreadShown!Answer, ThreadShown!Cut,
              ThreadShown!Forget, ThreadShown!Asked, ThreadShown!LastQuestion
<1> QED
  BY <1>1, <1>2, <1>3

\* The same of the whole model, of which the requests are a part.
THEOREM ShownAreConversations ==
  ASSUME Overlap = FALSE
  PROVE  AllSpec => BothConversations
PROOF
<1> DEFINE Inv == served = "sequential" => IInv /\ OneAtATime
<1>1. AllInit => Inv /\ RowsShown!Init /\ ThreadShown!Init
  <2> SUFFICES ASSUME AllInit PROVE Inv /\ RowsShown!Init /\ ThreadShown!Init
    OBVIOUS
  <2>1. Inv
    BY InitIInv, InitOneAtATime DEF AllInit
  <2>2. Shows(rows) = <<>> /\ Shows(thread) = <<>>
    BY DEF AllInit, Init, Shows
  <2> QED
    BY <2>1, <2>2 DEF RowsShown!Init, ThreadShown!Init
<1>2. Inv /\ [AllNext]_<<served, vars, storeVars>>
        => Inv' /\ [RowsShown!Next]_(Shows(rows)) /\ [ThreadShown!Next]_(Shows(thread))
  <2> SUFFICES ASSUME Inv, [AllNext]_<<served, vars, storeVars>>
               PROVE  Inv' /\ [RowsShown!Next]_(Shows(rows)) /\ [ThreadShown!Next]_(Shows(thread))
    OBVIOUS
  <2>1. served' = served
    BY DEF AllNext
  <2>2. CASE served = "sequential"
    <3>1. IInv /\ OneAtATime /\ [Next]_vars
      BY <2>2 DEF AllNext
    <3>2. IInv' /\ OneAtATime'
      BY <3>1, NextIInv, OneAtATimeNext
    <3>3. [RowsLog!Next]_rows /\ [ThreadLog!Next]_thread
      BY <3>1, StepIsConversation
    <3> QED
      BY <2>1, <2>2, <3>2, <3>3, ShownStep
  <2>3. CASE served # "sequential"
    <3>1. UNCHANGED Shows(rows) /\ UNCHANGED Shows(thread)
      BY <2>1, <2>3 DEF Shows
    <3> QED
      BY <2>1, <2>3, <3>1
  <2> QED
    BY <2>2, <2>3
<1> QED
  BY <1>1, <1>2, PTL DEF AllSpec, BothConversations, RowsShown!Spec, ThreadShown!Spec

---------------------------------------------------------------------------
(* The message store: its index tells what its rows tell.                  *)

Row == [row : Nat, key : Keys, chat : Chats, role : {"user", "assistant"}, text : Seq(Letters)]
Titled(ch) == DOMAIN ch \subseteq Chats /\ \A c \in DOMAIN ch : ch[c] \in Seq(Letters)

\* No two messages have a row; each row of the index is of a message; and each message
\* of a chat that is not made again over old ones has one.
Apart(s) == \A i, j \in DOMAIN s : s[i].row = s[j].row => i = j
Sound(index, s, ch) ==
  \A f \in index : \E i \in DOMAIN s : s[i].chat \in DOMAIN ch /\ f = Indexed(s[i], ch[s[i].chat])
Whole(index, s, ch, rb) ==
  \A i \in DOMAIN s : s[i].chat \in DOMAIN ch \ rb => Indexed(s[i], ch[s[i].chat]) \in index

StoreInv ==
  /\ messages \in Seq(Row) /\ Titled(chats)
  /\ Apart(messages) /\ Sound(fts, messages, chats) /\ Whole(fts, messages, chats, reborn)

\* The least of some numbers, by well-foundedness.
LEMMA LeastIs ==
  ASSUME NEW S \in SUBSET Nat, S # {}
  PROVE  \E x \in S : \A y \in S : x <= y
PROOF
<1> DEFINE R == {p \in Nat \X Nat : p[1] < p[2]}
<1>1. IsWellFoundedOn(R, Nat)
  BY NatLessThanWellFounded DEF OpToRel
<1>2. PICK x \in S : \A y \in S : ~(<<y, x>> \in R)
  BY <1>1, WFMin
<1>3. ASSUME NEW y \in S PROVE x <= y
  <2>1. x \in Nat /\ y \in Nat /\ ~(<<y, x>> \in R)
    BY <1>2
  <2>2. ~(y < x)
    BY <2>1
  <2> QED
    BY <2>1, <2>2
<1> QED
  BY <1>3

\* So Min is the least.
LEMMA MinIs ==
  ASSUME NEW S \in SUBSET Nat, S # {}
  PROVE  Min(S) \in S /\ \A y \in S : Min(S) <= y
PROOF
  BY LeastIs DEF Min

\* The largest is the one nearest to a bound.
LEMMA MaxIs ==
  ASSUME NEW S \in SUBSET Nat, S # {}, NEW b \in Nat, \A x \in S : x <= b
  PROVE  Max(S) \in S /\ \A y \in S : y <= Max(S)
PROOF
<1> DEFINE T == {b - x : x \in S}
<1>1. T \in SUBSET Nat /\ T # {}
  <2>1. ASSUME NEW x \in S PROVE b - x \in Nat
    <3>1. x \in Nat /\ x <= b
      OBVIOUS
    <3> QED
      BY <3>1
  <2>2. PICK x \in S : TRUE
    OBVIOUS
  <2> QED
    BY <2>1, <2>2
<1>2. PICK d \in T : \A e \in T : d <= e
  BY <1>1, LeastIs
<1>3. PICK x \in S : d = b - x
  OBVIOUS
<1>4. ASSUME NEW y \in S PROVE x >= y
  <2>1. b - y \in T /\ x \in Nat /\ y \in Nat
    OBVIOUS
  <2>2. b - x <= b - y
    BY <1>2, <1>3, <2>1
  <2> QED
    BY <2>1, <2>2
<1>5. \E z \in S : \A y \in S : z >= y
  BY <1>4
<1>6. Max(S) \in S /\ \A y \in S : Max(S) >= y
  BY <1>5 DEF Max
<1> QED
  BY <1>6

\* Finitely many numbers have a bound.
LEMMA BoundExists ==
  ASSUME NEW n \in Nat, NEW f, \A i \in 1..n : f[i] \in Nat
  PROVE  \E b \in Nat : \A i \in 1..n : f[i] <= b
PROOF
<1> DEFINE Good(k) == \E b \in Nat : \A i \in 1..k : f[i] <= b
           Bad == {k \in 0..n : ~Good(k)}
<1>1. Bad \in SUBSET Nat
  OBVIOUS
<1>2. ASSUME Bad # {} PROVE FALSE
  <2>1. PICK k \in Bad : \A m \in Bad : k <= m
    <3> HIDE DEF Bad
    <3> QED
      BY <1>1, <1>2, LeastIs
  <2>2. k \in 0..n /\ ~Good(k)
    OBVIOUS
  <2>3. Good(0)
    OBVIOUS
  <2>4. k # 0
    BY <2>2, <2>3
  <2>5. k - 1 \in 0..n /\ ~(k <= k - 1) /\ k \in 1..n
    BY <2>2, <2>4
  <2>6. Good(k - 1)
    BY <2>1, <2>5
  <2>7. PICK b \in Nat : \A i \in 1..(k - 1) : f[i] <= b
    BY <2>6
  <2> DEFINE c == IF b < f[k] THEN f[k] ELSE b
  <2>8. c \in Nat /\ b <= c /\ f[k] <= c
    BY <2>5
  <2>9. ASSUME NEW i \in 1..k PROVE f[i] <= c
    <3>1. i = k \/ i \in 1..(k - 1)
      BY <2>5
    <3>2. f[i] \in Nat
      BY <2>5
    <3> HIDE DEF c
    <3> QED
      BY <2>7, <2>8, <3>1, <3>2
  <2>10. Good(k)
    <3> HIDE DEF c
    <3> QED
      BY <2>8, <2>9
  <2> QED
    BY <2>2, <2>10
<1>3. Good(n)
  <2>1. n \in 0..n /\ n \notin Bad
    <3> HIDE DEF Bad
    <3> QED
      BY <1>2
  <2> QED
    BY <2>1
<1> QED
  BY <1>3

\* Nth counts some positions from the first to the last.
LEMMA NthIsBijective ==
  ASSUME NEW m \in Nat, NEW K \in SUBSET (1..m)
  PROVE  /\ Cardinality(K) \in Nat
         /\ \A n \in 1..Cardinality(K) : Nth(K, n) \in K
         /\ \A n, p \in 1..Cardinality(K) : Nth(K, n) = Nth(K, p) => n = p
         /\ \A k \in K : \E n \in 1..Cardinality(K) : Nth(K, n) = k
PROOF
<1> DEFINE U(i) == {j \in K : j <= i}
           N == Cardinality(K)
<1>1. IsFiniteSet(K) /\ N \in Nat
  <2>1. IsFiniteSet(1..m)
    BY FS_Interval
  <2>2. IsFiniteSet(K)
    BY <2>1, FS_Subset
  <2> QED
    BY <2>2, FS_CardinalityType
<1>2. ASSUME NEW i \in Nat
      PROVE  IsFiniteSet(U(i)) /\ Cardinality(U(i)) \in Nat /\ Cardinality(U(i)) <= N
  <2>1. U(i) \subseteq K
    OBVIOUS
  <2> HIDE DEF U
  <2>2. IsFiniteSet(U(i)) /\ Cardinality(U(i)) <= N
    BY <1>1, <2>1, FS_Subset
  <2> QED
    BY <2>2, FS_CardinalityType
<1>3. /\ \A j \in K : j \in Nat /\ j - 1 \in Nat /\ j <= m /\ ~(j <= 0) /\ ~(j <= j - 1)
      /\ U(0) = {} /\ U(m) = K
  <2>1. \A j \in K : j \in Nat /\ j - 1 \in Nat /\ j <= m /\ ~(j <= 0) /\ ~(j <= j - 1)
    OBVIOUS
  <2> QED
    BY <2>1
<1>4. ASSUME NEW k \in K
      PROVE  k \in Nat /\ k - 1 \in Nat /\ Cardinality(U(k)) = Cardinality(U(k - 1)) + 1
  <2>1. k \in Nat /\ k - 1 \in Nat /\ k \notin U(k - 1)
    BY <1>3
  <2>3. U(k) = U(k - 1) \cup {k}
    <3>1. \A j \in K : j <= k <=> j <= k - 1 \/ j = k
      BY <1>3
    <3> QED
      BY <3>1
  <2> HIDE DEF U
  <2>2. IsFiniteSet(U(k - 1))
    BY <1>2, <2>1
  <2> QED
    BY <2>1, <2>2, <2>3, FS_AddElement
<1>5. ASSUME NEW i \in 1..m, i \notin K PROVE U(i) = U(i - 1)
  <2>1. \A j \in K : j \in Nat /\ (j <= i <=> j <= i - 1)
    BY <1>5
  <2> QED
    BY <2>1
<1>6. ASSUME NEW k \in K, NEW l \in K, Cardinality(U(k)) = Cardinality(U(l)), k < l PROVE FALSE
  <2>1. k \in Nat /\ l - 1 \in Nat /\ U(k) \subseteq U(l - 1)
    <3>1. \A j \in K : j <= k => j <= l - 1
      BY <1>3, <1>6
    <3> QED
      BY <1>3, <3>1
  <2> HIDE DEF U
  <2>2. Cardinality(U(k)) <= Cardinality(U(l - 1))
    BY <1>2, <2>1, FS_Subset
  <2> QED
    BY <1>2, <1>4, <1>6, <2>1, <2>2
<1>7. \A k, l \in K : Cardinality(U(k)) = Cardinality(U(l)) => k = l
  <2>1. \A k, l \in K : k = l \/ k < l \/ l < k
    OBVIOUS
  <2> HIDE DEF U
  <2> QED
    BY <1>6, <2>1
<1>8. ASSUME NEW n \in 1..N PROVE \E k \in K : Cardinality(U(k)) = n
  <2> DEFINE T == {i \in 0..m : Cardinality(U(i)) >= n}
  <2> HIDE DEF U
  <2>1. T \in SUBSET Nat /\ m \in T
    BY <1>1, <1>3
  <2>2. PICK i \in T : \A e \in T : i <= e
    <3> HIDE DEF T
    <3> QED
      BY <2>1, LeastIs
  <2>3. i # 0
    BY <1>1, <1>3, FS_EmptySet
  <2>4. i \in 1..m /\ i \in Nat /\ i - 1 \in 0..m /\ i - 1 \in Nat /\ ~(i <= i - 1)
    BY <2>3
  <2>5. ~(Cardinality(U(i - 1)) >= n) /\ Cardinality(U(i)) >= n
    BY <2>2, <2>4
  <2>6. i \in K
    BY <1>5, <2>4, <2>5
  <2>7. Cardinality(U(i)) = Cardinality(U(i - 1)) + 1 /\ Cardinality(U(i - 1)) \in Nat
    BY <1>2, <1>4, <2>4, <2>6
  <2> QED
    BY <1>1, <2>5, <2>6, <2>7
<1>9. ASSUME NEW n \in 1..N PROVE Nth(K, n) \in K /\ Cardinality(U(Nth(K, n))) = n
  BY <1>8 DEF Nth
<1>10. ASSUME NEW k \in K PROVE Cardinality(U(k)) \in 1..N
  <2> HIDE DEF U
  <2>1. k \in Nat /\ k - 1 \in Nat
    BY <1>4
  <2> QED
    BY <1>1, <1>2, <1>4, <2>1
<1>11. ASSUME NEW k \in K PROVE Nth(K, Cardinality(U(k))) = k
  <2> DEFINE n == Cardinality(U(k))
             l == Nth(K, n)
  <2>1. n \in 1..N
    BY <1>10
  <2>2. l \in K /\ Cardinality(U(l)) = n
    BY <2>1, <1>9
  <2> HIDE DEF U, l
  <2> QED
    BY <1>7, <2>2 DEF l
<1> HIDE DEF U
<1> QED
  BY <1>1, <1>9, <1>10, <1>11

\* What is picked are the elements at the positions.
LEMMA PickProperties ==
  ASSUME NEW T, NEW s \in Seq(T), NEW K \in SUBSET DOMAIN s
  PROVE  /\ Pick(s, K) \in Seq(T) /\ DOMAIN Pick(s, K) = 1..Len(Pick(s, K))
         /\ Cardinality(K) \in Nat /\ Len(Pick(s, K)) = Cardinality(K)
         /\ \A n \in DOMAIN Pick(s, K) : Nth(K, n) \in K /\ Pick(s, K)[n] = s[Nth(K, n)]
         /\ \A n, p \in DOMAIN Pick(s, K) : Nth(K, n) = Nth(K, p) => n = p
         /\ \A k \in K : \E n \in DOMAIN Pick(s, K) : Nth(K, n) = k /\ Pick(s, K)[n] = s[k]
PROOF
<1> DEFINE p == Pick(s, K)
           N == Cardinality(K)
<1>1. K \in SUBSET (1..Len(s)) /\ Len(s) \in Nat /\ \A k \in K : s[k] \in T
  BY LenProperties, ElementOfSeq
<1>2. /\ N \in Nat /\ \A n \in 1..N : Nth(K, n) \in K
      /\ \A n, q \in 1..N : Nth(K, n) = Nth(K, q) => n = q
      /\ \A k \in K : \E n \in 1..N : Nth(K, n) = k
  BY <1>1, NthIsBijective
<1>3. p = [n \in 1..N |-> s[Nth(K, n)]]
  BY DEF Pick
<1> HIDE DEF p, N
<1>4. p \in [1..N -> T]
  BY <1>1, <1>2, <1>3
<1>5. p \in Seq(T)
  BY <1>2, <1>4
<1>6. Len(p) = N
  BY <1>2, <1>4, <1>5, LenProperties
<1>7. DOMAIN p = 1..N
  BY <1>4
<1>8. \A n \in 1..N : Nth(K, n) \in K /\ p[n] = s[Nth(K, n)]
  BY <1>2, <1>3
<1>9. \A k \in K : \E n \in 1..N : Nth(K, n) = k /\ p[n] = s[k]
  BY <1>2, <1>8
<1>10. /\ p \in Seq(T) /\ DOMAIN p = 1..Len(p) /\ N \in Nat /\ Len(p) = N
       /\ \A n \in DOMAIN p : Nth(K, n) \in K /\ p[n] = s[Nth(K, n)]
       /\ \A n, q \in DOMAIN p : Nth(K, n) = Nth(K, q) => n = q
       /\ \A k \in K : \E n \in DOMAIN p : Nth(K, n) = k /\ p[n] = s[k]
  BY <1>2, <1>5, <1>6, <1>7, <1>8, <1>9
<1> QED
  BY <1>10 DEF p, N

\* SQLite gives a row that no message has.
LEMMA NextRowIsNew ==
  ASSUME NEW s \in Seq(Row)
  PROVE  NextRow(s) \in Nat /\ \A i \in DOMAIN s : s[i].row # NextRow(s)
PROOF
<1> DEFINE used == {0} \cup {s[i].row : i \in DOMAIN s}
           f == [i \in 1..Len(s) |-> s[i].row]
           top == Max(used)
<1>1. Len(s) \in Nat /\ DOMAIN s = 1..Len(s) /\ \A i \in DOMAIN s : s[i].row \in Nat
  <2>1. Len(s) \in Nat /\ DOMAIN s = 1..Len(s) /\ \A i \in DOMAIN s : s[i] \in Row
    BY LenProperties, ElementOfSeq
  <2> QED
    BY <2>1 DEF Row
<1>2. \A i \in 1..Len(s) : f[i] = s[i].row /\ f[i] \in Nat
  BY <1>1
<1> HIDE DEF f
<1>3. PICK b \in Nat : \A i \in 1..Len(s) : f[i] <= b
  BY <1>1, <1>2, BoundExists
<1>4. used \in SUBSET Nat /\ used # {} /\ \A x \in used : x <= b
  BY <1>1, <1>2, <1>3
<1>5. \A i \in DOMAIN s : s[i].row \in used
  OBVIOUS
<1> HIDE DEF used
<1>6. top \in used /\ \A x \in used : x <= top
  BY <1>4, MaxIs
<1>7. NextRow(s) = 1 + top
  BY DEF NextRow, used
<1> HIDE DEF top
<1>8. top \in Nat /\ \A i \in DOMAIN s : s[i].row \in Nat /\ s[i].row <= top
  BY <1>1, <1>4, <1>5, <1>6
<1> QED
  BY <1>7, <1>8

\* A message that is added is indexed with the title of its chat.
LEMMA AddedIsTold ==
  ASSUME NEW s \in Seq(Row), NEW index, NEW ch, NEW rb, Titled(ch),
         Apart(s), Sound(index, s, ch), Whole(index, s, ch, rb),
         NEW k \in Keys, NEW c \in Chats, NEW r \in {"user", "assistant"}, NEW t \in Seq(Letters)
  PROVE  LET m == NewRow(s, k, c, r, t)
             more == Append(s, m)
             told == AfterWrite(index, m, ch)
         IN more \in Seq(Row) /\ Apart(more) /\ Sound(told, more, ch) /\ Whole(told, more, ch, rb)
PROOF
<1> DEFINE m == NewRow(s, k, c, r, t)
           more == Append(s, m)
           told == AfterWrite(index, m, ch)
<1>1. m \in Row /\ m.row = NextRow(s)
  BY NextRowIsNew DEF NewRow, Row
<1> HIDE DEF m
<1>2. /\ more \in Seq(Row) /\ Len(s) \in Nat /\ DOMAIN s = 1..Len(s) /\ DOMAIN more = 1..(Len(s) + 1)
      /\ more[Len(s) + 1] = m /\ \A i \in DOMAIN s : more[i] = s[i]
  BY <1>1, AppendProperties, LenProperties
<1> HIDE DEF more
<1>3. \A i \in DOMAIN more : (i \in DOMAIN s /\ more[i] = s[i] /\ more[i].row # m.row) \/ (i = Len(s) + 1 /\ more[i] = m)
  <2>1. \A i \in DOMAIN s : s[i].row # m.row
    BY <1>1, NextRowIsNew
  <2>2. ASSUME NEW i \in DOMAIN more
        PROVE  (i \in DOMAIN s /\ more[i] = s[i] /\ more[i].row # m.row) \/ (i = Len(s) + 1 /\ more[i] = m)
    <3>1. CASE i \in DOMAIN s
      BY <1>2, <2>1, <3>1
    <3>2. CASE i = Len(s) + 1
      BY <1>2, <3>2
    <3> QED
      BY <1>2, <3>1, <3>2
  <2> QED
    BY <2>2
<1>4. \A i \in DOMAIN s : i \in DOMAIN more
  BY <1>2
<1>5. Apart(more)
  BY <1>3 DEF Apart
<1>6. Sound(told, more, ch)
  <2>1. ASSUME NEW f \in told
        PROVE  \E i \in DOMAIN more : more[i].chat \in DOMAIN ch /\ f = Indexed(more[i], ch[more[i].chat])
    <3>1. CASE f \in index
      BY <1>2, <1>4, <3>1 DEF Sound
    <3>2. CASE m.chat \in DOMAIN ch /\ f = Indexed(m, ch[m.chat])
      <4>1. Len(s) + 1 \in DOMAIN more
        BY <1>2
      <4> QED
        BY <1>2, <3>2, <4>1
    <3> QED
      BY <3>1, <3>2 DEF AfterWrite
  <2> HIDE DEF told
  <2> QED
    BY <2>1 DEF Sound
<1>7. Whole(told, more, ch, rb)
  <2>1. ASSUME NEW i \in DOMAIN more, more[i].chat \in DOMAIN ch \ rb
        PROVE  Indexed(more[i], ch[more[i].chat]) \in told
    <3>1. CASE i = Len(s) + 1 /\ more[i] = m
      BY <2>1, <3>1 DEF AfterWrite
    <3>2. CASE i \in DOMAIN s /\ more[i] = s[i] /\ more[i].row # m.row
      <4>1. Indexed(s[i], ch[s[i].chat]) \in index
        BY <2>1, <3>2 DEF Whole
      <4>2. Indexed(s[i], ch[s[i].chat]).row # m.row
        BY <3>2 DEF Indexed
      <4> QED
        BY <3>2, <4>1, <4>2 DEF AfterWrite
    <3> QED
      BY <1>3, <3>1, <3>2
  <2> HIDE DEF told
  <2> QED
    BY <2>1 DEF Whole
<1> HIDE DEF told
<1> QED
  BY <1>2, <1>5, <1>6, <1>7 DEF m, more, told

\* A message whose text is replaced is indexed anew.
LEMMA EditedIsTold ==
  ASSUME NEW s \in Seq(Row), NEW index, NEW ch, NEW rb,
         Apart(s), Sound(index, s, ch), Whole(index, s, ch, rb),
         NEW at \in DOMAIN s, NEW t \in Seq(Letters)
  PROVE  LET edited == [s EXCEPT ![at].text = t]
             told == AfterWrite(index, edited[at], ch)
         IN edited \in Seq(Row) /\ Apart(edited) /\ Sound(told, edited, ch) /\ Whole(told, edited, ch, rb)
PROOF
<1> DEFINE edited == [s EXCEPT ![at].text = t]
           m == edited[at]
           told == AfterWrite(index, m, ch)
<1>1. Len(s) \in Nat /\ DOMAIN s = 1..Len(s) /\ \A i \in DOMAIN s : s[i] \in Row
  BY LenProperties, ElementOfSeq
<1>2. m = [s[at] EXCEPT !.text = t] /\ \A i \in DOMAIN s : i # at => edited[i] = s[i]
  OBVIOUS
<1>3. m \in Row /\ m.row = s[at].row /\ m.chat = s[at].chat
  BY <1>1, <1>2 DEF Row
<1>4. DOMAIN edited = DOMAIN s /\ edited = [i \in 1..Len(s) |-> edited[i]]
  BY <1>1
<1> HIDE DEF edited
<1>5. \A i \in DOMAIN s : (i = at /\ edited[i] = m) \/ (i # at /\ edited[i] = s[i])
  <2>1. ASSUME NEW i \in DOMAIN s, i = at PROVE edited[i] = m
    BY <2>1
  <2> HIDE DEF m
  <2> QED
    BY <1>2, <2>1
<1> HIDE DEF m
<1>6. edited \in [1..Len(s) -> Row]
  BY <1>1, <1>3, <1>4, <1>5
<1>7. edited \in Seq(Row)
  BY <1>1, <1>6
<1>8. \A i \in DOMAIN s : edited[i].row = s[i].row /\ edited[i].chat = s[i].chat /\ (edited[i].row = m.row => i = at)
  BY <1>3, <1>5 DEF Apart
<1>9. Apart(edited)
  BY <1>4, <1>8 DEF Apart
<1>10. Sound(told, edited, ch)
  <2>1. ASSUME NEW f \in told
        PROVE  \E i \in DOMAIN edited : edited[i].chat \in DOMAIN ch /\ f = Indexed(edited[i], ch[edited[i].chat])
    <3>1. CASE f \in index /\ f.row # m.row
      <4>1. PICK i \in DOMAIN s : s[i].chat \in DOMAIN ch /\ f = Indexed(s[i], ch[s[i].chat])
        BY <3>1 DEF Sound
      <4>2. i # at
        BY <1>3, <3>1, <4>1 DEF Indexed
      <4> QED
        BY <1>4, <1>5, <4>1, <4>2
    <3>2. CASE m.chat \in DOMAIN ch /\ f = Indexed(m, ch[m.chat])
      BY <1>4, <1>5, <3>2
    <3> QED
      BY <3>1, <3>2 DEF AfterWrite
  <2> HIDE DEF told
  <2> QED
    BY <2>1 DEF Sound
<1>11. Whole(told, edited, ch, rb)
  <2>1. ASSUME NEW i \in DOMAIN edited, edited[i].chat \in DOMAIN ch \ rb
        PROVE  Indexed(edited[i], ch[edited[i].chat]) \in told
    <3>1. CASE i = at
      BY <1>4, <1>5, <2>1, <3>1 DEF AfterWrite
    <3>2. CASE i # at
      <4>1. Indexed(s[i], ch[s[i].chat]) \in index /\ edited[i] = s[i]
        BY <1>4, <1>5, <2>1, <3>2 DEF Whole
      <4>2. Indexed(s[i], ch[s[i].chat]).row # m.row
        BY <1>4, <1>8, <3>2, <4>1 DEF Indexed
      <4> QED
        BY <4>1, <4>2 DEF AfterWrite
    <3> QED
      BY <3>1, <3>2
  <2> HIDE DEF told
  <2> QED
    BY <2>1 DEF Whole
<1> HIDE DEF told
<1> QED
  BY <1>7, <1>9, <1>10, <1>11 DEF m, edited, told

\* A chat with a new title is indexed anew as a whole.
LEMMA PatchedIsTold ==
  ASSUME NEW s, NEW index, NEW ch, NEW rb, Titled(ch),
         Sound(index, s, ch), Whole(index, s, ch, rb),
         NEW c \in DOMAIN ch, NEW title \in Seq(Letters)
  PROVE  LET done == [ch EXCEPT ![c] = title]
             told == AfterPatch(index, s, c, title)
         IN Titled(done) /\ Sound(told, s, done) /\ Whole(told, s, done, rb \ {c})
PROOF
<1> DEFINE done == [ch EXCEPT ![c] = title]
           told == AfterPatch(index, s, c, title)
<1>1. DOMAIN done = DOMAIN ch /\ done[c] = title /\ \A d \in DOMAIN ch : d # c => done[d] = ch[d]
  OBVIOUS
<1> HIDE DEF done
<1>2. Titled(done)
  BY <1>1 DEF Titled
<1>3. Sound(told, s, done)
  <2>1. ASSUME NEW f \in told
        PROVE  \E i \in DOMAIN s : s[i].chat \in DOMAIN done /\ f = Indexed(s[i], done[s[i].chat])
    <3>1. CASE f \in index /\ f.chat # c
      <4>1. PICK i \in DOMAIN s : s[i].chat \in DOMAIN ch /\ f = Indexed(s[i], ch[s[i].chat])
        BY <3>1 DEF Sound
      <4>2. s[i].chat # c
        BY <3>1, <4>1 DEF Indexed
      <4> QED
        BY <1>1, <4>1, <4>2
    <3>2. CASE f \in {Indexed(m, title) : m \in {n \in Range(s) : n.chat = c}}
      BY <1>1, <3>2 DEF Range
    <3> QED
      BY <3>1, <3>2 DEF AfterPatch
  <2> HIDE DEF told
  <2> QED
    BY <2>1 DEF Sound
<1>4. Whole(told, s, done, rb \ {c})
  <2>1. ASSUME NEW i \in DOMAIN s, s[i].chat \in DOMAIN done \ (rb \ {c})
        PROVE  Indexed(s[i], done[s[i].chat]) \in told
    <3>1. CASE s[i].chat = c
      <4>1. s[i] \in {n \in Range(s) : n.chat = c}
        BY <3>1 DEF Range
      <4> QED
        BY <1>1, <3>1, <4>1 DEF AfterPatch
    <3>2. CASE s[i].chat # c
      <4>1. Indexed(s[i], ch[s[i].chat]) \in index /\ done[s[i].chat] = ch[s[i].chat]
        BY <1>1, <2>1, <3>2 DEF Whole
      <4>2. Indexed(s[i], ch[s[i].chat]).chat # c
        BY <3>2 DEF Indexed
      <4> QED
        BY <4>1, <4>2 DEF AfterPatch
    <3> QED
      BY <3>1, <3>2
  <2> HIDE DEF told
  <2> QED
    BY <2>1 DEF Whole
<1> HIDE DEF told
<1> QED
  BY <1>2, <1>3, <1>4 DEF done, told

\* Of chats that are removed nothing is indexed.
LEMMA RemovedIsTold ==
  ASSUME NEW ids, Titled(chats), Sound(fts, messages, chats), Whole(fts, messages, chats, reborn), Removed(ids)
  PROVE  Titled(chats') /\ Sound(fts', messages, chats') /\ Whole(fts', messages, chats', reborn')
PROOF
<1>1. /\ DOMAIN chats' = DOMAIN chats \ ids /\ \A c \in DOMAIN chats' : chats'[c] = chats[c]
      /\ fts' = {f \in fts : f.chat \notin ids \cap DOMAIN chats} /\ reborn' = reborn \ ids
  BY DEF Removed, Known, AfterDelete
<1>2. Titled(chats')
  BY <1>1 DEF Titled
<1>3. Sound(fts', messages, chats')
  <2>1. ASSUME NEW f \in fts'
        PROVE  \E i \in DOMAIN messages : messages[i].chat \in DOMAIN chats'
                                          /\ f = Indexed(messages[i], chats'[messages[i].chat])
    <3>1. PICK i \in DOMAIN messages : messages[i].chat \in DOMAIN chats
                                       /\ f = Indexed(messages[i], chats[messages[i].chat])
      BY <1>1, <2>1 DEF Sound
    <3>2. f.chat = messages[i].chat
      BY <3>1 DEF Indexed
    <3> QED
      BY <1>1, <2>1, <3>1, <3>2
  <2> QED
    BY <2>1 DEF Sound
<1>4. Whole(fts', messages, chats', reborn')
  <2>1. ASSUME NEW i \in DOMAIN messages, messages[i].chat \in DOMAIN chats' \ reborn'
        PROVE  Indexed(messages[i], chats'[messages[i].chat]) \in fts'
    <3>1. Indexed(messages[i], chats[messages[i].chat]) \in fts /\ messages[i].chat \notin ids
      BY <1>1, <2>1 DEF Whole
    <3>2. Indexed(messages[i], chats[messages[i].chat]).chat = messages[i].chat
      BY DEF Indexed
    <3> QED
      BY <1>1, <2>1, <3>1, <3>2
  <2> QED
    BY <2>1 DEF Whole
<1> QED
  BY <1>2, <1>3, <1>4

\* What a cut leaves is indexed as before.
LEMMA CutIsTold ==
  ASSUME NEW s \in Seq(Row), NEW index, NEW ch, NEW rb,
         Apart(s), Sound(index, s, ch), Whole(index, s, ch, rb), NEW K \in SUBSET DOMAIN s
  PROVE  LET left == Pick(s, K)
             told == AfterCut(index, left)
         IN left \in Seq(Row) /\ Apart(left) /\ Sound(told, left, ch) /\ Whole(told, left, ch, rb)
PROOF
<1> DEFINE left == Pick(s, K)
           told == AfterCut(index, left)
<1>1. /\ left \in Seq(Row)
      /\ \A n \in DOMAIN left : Nth(K, n) \in DOMAIN s /\ left[n] = s[Nth(K, n)]
      /\ \A n, p \in DOMAIN left : Nth(K, n) = Nth(K, p) => n = p
  BY PickProperties
<1> HIDE DEF left
<1>2. Apart(left)
  BY <1>1 DEF Apart
<1>3. Sound(told, left, ch)
  <2>1. ASSUME NEW f \in told
        PROVE  \E n \in DOMAIN left : left[n].chat \in DOMAIN ch /\ f = Indexed(left[n], ch[left[n].chat])
    <3>1. PICK n \in DOMAIN left : left[n].row = f.row
      BY DEF AfterCut
    <3>2. PICK i \in DOMAIN s : s[i].chat \in DOMAIN ch /\ f = Indexed(s[i], ch[s[i].chat])
      BY DEF AfterCut, Sound
    <3>3. s[i].row = s[Nth(K, n)].row
      BY <1>1, <3>1, <3>2 DEF Indexed
    <3>4. i = Nth(K, n)
      BY <1>1, <3>3 DEF Apart
    <3> QED
      BY <1>1, <3>2, <3>4
  <2> HIDE DEF told
  <2> QED
    BY <2>1 DEF Sound
<1>4. Whole(told, left, ch, rb)
  <2>1. ASSUME NEW n \in DOMAIN left, left[n].chat \in DOMAIN ch \ rb
        PROVE  Indexed(left[n], ch[left[n].chat]) \in told
    <3>1. Indexed(left[n], ch[left[n].chat]) \in index
      BY <1>1, <2>1 DEF Whole
    <3>2. Indexed(left[n], ch[left[n].chat]).row = left[n].row
      BY DEF Indexed
    <3> QED
      BY <3>1, <3>2 DEF AfterCut
  <2> HIDE DEF told
  <2> QED
    BY <2>1 DEF Whole
<1> HIDE DEF told
<1> QED
  BY <1>1, <1>2, <1>3, <1>4 DEF left, told

\* Nothing is stored and nothing is indexed.
LEMMA StoreStarts == StoreInit => StoreInv
PROOF
<1> SUFFICES ASSUME StoreInit PROVE StoreInv
  OBVIOUS
<1>1. messages = <<>> /\ chats = <<>> /\ fts = {} /\ DOMAIN messages = {} /\ DOMAIN chats = {}
  BY DEF StoreInit
<1>2. messages \in Seq(Row)
  BY <1>1
<1> QED
  BY <1>1, <1>2 DEF StoreInv, Titled, Apart, Sound, Whole

\* One step for each transaction.
LEMMA StoreSteps == StoreInv /\ [StoreNext]_storeVars => StoreInv'
PROOF
<1> SUFFICES ASSUME StoreInv, [StoreNext]_storeVars PROVE StoreInv'
  OBVIOUS
<1>0. /\ messages \in Seq(Row) /\ Titled(chats)
      /\ Apart(messages) /\ Sound(fts, messages, chats) /\ Whole(fts, messages, chats, reborn)
  BY DEF StoreInv
<1>t. Texts \subseteq Seq(Letters) /\ Titles \subseteq Seq(Letters) /\ NewChat \in Seq(Letters)
  BY LettersAssumption
<1>1. ASSUME NEW c \in Chats, NEW k \in Keys, NEW t \in Texts, AskNew(c, k, t) PROVE StoreInv'
  <2>1. /\ messages' = Append(messages, NewRow(messages, k, c, "user", t))
        /\ fts' = AfterWrite(fts, NewRow(messages, k, c, "user", t), chats')
        /\ c \notin DOMAIN chats /\ DOMAIN chats' = DOMAIN chats \cup {c} /\ chats'[c] = NewChat
        /\ \A d \in DOMAIN chats : chats'[d] = chats[d]
        /\ reborn' = IF \E i \in DOMAIN messages : messages[i].chat = c THEN reborn \cup {c} ELSE reborn
    BY <1>1 DEF AskNew, Known
  <2>2. Titled(chats')
    BY <1>0, <1>t, <2>1 DEF Titled
  <2>3. Sound(fts, messages, chats') /\ Whole(fts, messages, chats', reborn')
    <3>1. Sound(fts, messages, chats')
      BY <1>0, <2>1 DEF Sound
    <3>2. ASSUME NEW i \in DOMAIN messages, messages[i].chat \in DOMAIN chats' \ reborn'
          PROVE  messages[i].chat \in DOMAIN chats \ reborn
      BY <2>1, <3>2
    <3>3. Whole(fts, messages, chats', reborn')
      BY <1>0, <2>1, <3>2 DEF Whole
    <3> QED
      BY <3>1, <3>3
  <2>4. t \in Seq(Letters)
    BY <1>t
  <2> QED
    BY <1>0, <2>1, <2>2, <2>3, <2>4, AddedIsTold DEF StoreInv
<1>2. ASSUME NEW c \in Chats, NEW k \in Keys, NEW t \in Texts, AskMore(c, k, t) PROVE StoreInv'
  <2>1. /\ messages' = Append(messages, NewRow(messages, k, c, "user", t))
        /\ fts' = AfterWrite(fts, NewRow(messages, k, c, "user", t), chats)
        /\ chats' = chats /\ reborn' = reborn
    BY <1>2 DEF AskMore
  <2>2. t \in Seq(Letters)
    BY <1>t
  <2> QED
    BY <1>0, <2>1, <2>2, AddedIsTold DEF StoreInv
<1>3. ASSUME NEW c \in Chats, NEW k \in Keys, NEW t \in Texts, AskAgain(c, k, t) PROVE StoreInv'
  <2> DEFINE left == Cut(c, k)
             told == AfterCut(fts, left)
             at == CHOOSE i \in DOMAIN left : left[i].key = k
  <2>1. /\ messages' = [left EXCEPT ![at].text = t] /\ fts' = AfterWrite(told, messages'[at], chats)
        /\ chats' = chats /\ reborn' = reborn
        /\ \E i \in DOMAIN messages : messages[i].key = k /\ messages[i].chat = c
    BY <1>3 DEF AskAgain
  <2>2. Kept(c, k) \in SUBSET DOMAIN messages /\ left = Pick(messages, Kept(c, k))
    BY DEF Kept, Cut
  <2>3. \E i \in Kept(c, k) : messages[i].key = k
    <3> DEFINE i == CHOOSE j \in DOMAIN messages : messages[j].key = k
    <3>1. i \in DOMAIN messages /\ messages[i].key = k
      BY <2>1
    <3>2. i <= i
      <4>1. i \in 1..Len(messages) /\ Len(messages) \in Nat
        BY <1>0, <3>1, LenProperties
      <4> HIDE DEF i
      <4> QED
        BY <4>1
    <3>3. i \in Kept(c, k)
      BY <2>1, <3>1, <3>2 DEF Kept
    <3> QED
      BY <3>1, <3>3
  <2>4. \E n \in DOMAIN left : left[n].key = k
    <3>1. PICK i \in Kept(c, k) : messages[i].key = k
      BY <2>3
    <3>2. \E n \in DOMAIN Pick(messages, Kept(c, k)) : Pick(messages, Kept(c, k))[n] = messages[i]
      BY <1>0, <2>2, PickProperties
    <3> QED
      BY <2>2, <3>1, <3>2
  <2>5. left \in Seq(Row) /\ Apart(left) /\ Sound(told, left, chats) /\ Whole(told, left, chats, reborn)
    BY <1>0, <2>2, CutIsTold
  <2> HIDE DEF left, told
  <2>6. at \in DOMAIN left /\ t \in Seq(Letters)
    BY <1>t, <2>4
  <2> HIDE DEF at
  <2> QED
    BY <1>0, <2>1, <2>5, <2>6, EditedIsTold DEF StoreInv
<1>4. ASSUME NEW c \in Chats, NEW k \in Keys, NEW t \in Texts, NEW title \in Titles \cup {NoTitle},
             Answered(c, k, t, title)
      PROVE  StoreInv'
  <2> DEFINE index == IF title = NoTitle \/ c \notin Known THEN fts ELSE AfterPatch(fts, messages, c, title)
  <2>1. /\ messages' = Append(messages, NewRow(messages, k, c, "assistant", t))
        /\ fts' = AfterWrite(index, NewRow(messages, k, c, "assistant", t), chats')
        /\ t \in Seq(Letters)
    BY <1>4, <1>t DEF Answered
  <2>2. Titled(chats') /\ Sound(index, messages, chats') /\ Whole(index, messages, chats', reborn')
    <3>1. CASE title = NoTitle \/ c \notin Known
      <4>1. index = fts /\ chats' = chats /\ reborn' = reborn
        BY <1>4, <3>1 DEF Answered, Patched
      <4> QED
        BY <1>0, <4>1
    <3>2. CASE ~(title = NoTitle \/ c \notin Known)
      <4>1. /\ index = AfterPatch(fts, messages, c, title) /\ chats' = [chats EXCEPT ![c] = title]
            /\ reborn' = reborn \ {c} /\ c \in DOMAIN chats /\ title \in Seq(Letters)
        BY <1>4, <1>t, <3>2 DEF Answered, Patched, Known
      <4> HIDE DEF index
      <4> QED
        BY <1>0, <4>1, PatchedIsTold
    <3> QED
      BY <3>1, <3>2
  <2> HIDE DEF index
  <2> QED
    BY <1>0, <2>1, <2>2, AddedIsTold DEF StoreInv
<1>5. ASSUME NEW c \in Chats, NEW title \in Seq(Letters), Rename(c, title) PROVE StoreInv'
  <2>1. /\ messages' = messages /\ c \in DOMAIN chats /\ chats' = [chats EXCEPT ![c] = title]
        /\ fts' = AfterPatch(fts, messages, c, title) /\ reborn' = reborn \ {c}
    BY <1>5 DEF Rename, Patched, Known
  <2> QED
    BY <1>0, <2>1, PatchedIsTold DEF StoreInv
<1>6. ASSUME NEW c \in Chats, Star(c) PROVE StoreInv'
  <2>1. chats[c] \in Seq(Letters) /\ Rename(c, chats[c])
    BY <1>0, <1>6 DEF Star, Known, Titled
  <2> QED
    BY <1>5, <2>1
<1>7. ASSUME NEW ids, Removed(ids), messages' = messages PROVE StoreInv'
  BY <1>0, <1>7, RemovedIsTold DEF StoreInv
<1>8. CASE PurgeRead \/ UNCHANGED storeVars
  <2>1. messages' = messages /\ chats' = chats /\ fts' = fts /\ reborn' = reborn
    BY <1>8 DEF PurgeRead, storeVars
  <2> QED
    BY <1>0, <2>1 DEF StoreInv
<1>9. ASSUME NEW ids, Delete(ids) PROVE StoreInv'
  BY <1>7, <1>9 DEF Delete
<1>10. CASE Purge
  BY <1>7, <1>10 DEF Purge
<1> QED
  BY <1>1, <1>2, <1>3, <1>4, <1>5, <1>6, <1>8, <1>9, <1>10, <1>t DEF StoreNext

---------------------------------------------------------------------------
(* The search: it finds what the index tells, and shows it.                *)

\* A part of a text, letter by letter.
LEMMA PartOf ==
  ASSUME NEW s \in Seq(Letters), NEW a \in Nat, NEW b \in Nat, 1 <= a, a <= b + 1, b <= Len(s)
  PROVE  /\ SubSeq(s, a, b) \in Seq(Letters) /\ Len(SubSeq(s, a, b)) = b - a + 1
         /\ \A x \in 1..(b - a + 1) : SubSeq(s, a, b)[x] = s[a + x - 1]
PROOF
<1>1. Len(s) \in Nat /\ \A x \in 1..Len(s) : s[x] \in Letters
  BY LenProperties, ElementOfSeq
<1>2. \A x \in a..b : s[x] \in Letters
  BY <1>1
<1>3. /\ SubSeq(s, a, b) \in Seq(Letters) /\ Len(SubSeq(s, a, b)) = IF a <= b THEN b - a + 1 ELSE 0
      /\ \A x \in 1..b - a + 1 : SubSeq(s, a, b)[x] = s[a + x - 1]
  BY <1>2, SubSeqProperties
<1>4. a <= b \/ b - a + 1 = 0
  OBVIOUS
<1> QED
  BY <1>3, <1>4

\* A window of a text that holds a place of the query has the query.
LEMMA WindowHas ==
  ASSUME NEW s \in Seq(Letters), NEW q \in Seq(Letters), NEW i \in At(s, q),
         NEW from \in Nat, NEW end \in Nat, from < i, i + Len(q) - 1 <= end, end <= Len(s)
  PROVE  Has(SubSeq(s, from + 1, end), q)
PROOF
<1> DEFINE l == Len(q)
           n == Len(s)
           to == i + l - 1
           first == from + 1
           w == SubSeq(s, first, end)
           j == i - from
           last == j + l - 1
           r == SubSeq(w, j, last)
<1>1. l \in Nat /\ n \in Nat /\ i \in 1..(n - l + 1) /\ q = SubSeq(s, i, to)
  BY LenProperties DEF At
<1>2. end <= n /\ to <= end /\ from < i /\ n = Len(s) /\ l = Len(q)
  OBVIOUS
<1>3. Has(w, q) => Has(SubSeq(s, from + 1, end), q)
  OBVIOUS
<1> HIDE DEF l, n
<1>4. /\ i \in Nat /\ 1 <= i /\ to \in Nat /\ i <= to + 1 /\ to - i + 1 = l
      /\ first \in Nat /\ 1 <= first /\ first <= end + 1 /\ end - first + 1 = end - from
      /\ j \in Nat /\ 1 <= j /\ last \in Nat /\ j <= last + 1 /\ last - j + 1 = l /\ last <= end - from
  BY <1>1, <1>2
<1>5. \A x \in 1..l : j + x - 1 \in 1..(end - from) /\ first + (j + x - 1) - 1 = i + x - 1
  BY <1>1, <1>2
<1>6. j \in 1..((end - from) - l + 1) /\ last = j + l - 1
  BY <1>1, <1>2
<1>7. \A x \in 1..l : q[x] = s[i + x - 1]
  <2> HIDE DEF to
  <2>1. \A x \in 1..(to - i + 1) : SubSeq(s, i, to)[x] = s[i + x - 1]
    BY <1>2, <1>4, PartOf
  <2> QED
    BY <1>1, <1>4, <2>1
<1> HIDE DEF to, first, j, last
<1>8. w \in Seq(Letters) /\ Len(w) = end - from /\ \A x \in 1..(end - from) : w[x] = s[first + x - 1]
  <2>1. end <= Len(s)
    BY <1>2
  <2>2. /\ w \in Seq(Letters) /\ Len(w) = end - first + 1
        /\ \A x \in 1..(end - first + 1) : w[x] = s[first + x - 1]
    BY <1>4, <2>1, PartOf
  <2> HIDE DEF w
  <2> QED
    BY <1>4, <2>2
<1> HIDE DEF w
<1>9. r \in Seq(Letters) /\ Len(r) = l /\ \A x \in 1..l : r[x] = w[j + x - 1]
  BY <1>4, <1>8, PartOf
<1> HIDE DEF r
<1>10. ASSUME NEW x \in 1..l PROVE r[x] = q[x]
  <2>1. w[j + x - 1] = s[first + (j + x - 1) - 1]
    BY <1>5, <1>8
  <2> QED
    BY <1>5, <1>7, <1>9, <2>1
<1>11. r = q
  BY <1>2, <1>9, <1>10, SeqEqual
<1>12. j \in At(w, q)
  BY <1>2, <1>6, <1>8, <1>11 DEF At, r
<1> QED
  BY <1>3, <1>12 DEF Has

\* A match that fits half of the snippet is in it.
LEMMA SnippetShows ==
  ASSUME NEW s \in Seq(Letters), NEW q \in Seq(Letters), Has(s, q), 2 * Len(q) <= MaxLength
  PROVE  Has(Snippet(s, q), q)
PROOF
<1> DEFINE i == Min(At(s, q))
           l == Len(q)
           n == Len(s)
           half == MaxLength \div 2
           start == Max({0, (i - 1) - half})
           end == Min({n, start + MaxLength})
           from == Max({0, end - MaxLength})
<1>1. l \in Nat /\ n \in Nat /\ MaxLength \in Nat
  BY LenProperties, LengthAssumption
<1>2. At(s, q) \in SUBSET Nat /\ At(s, q) # {}
  BY <1>1 DEF At, Has
<1>3. i \in At(s, q)
  BY <1>2, MinIs
<1>4. i \in 1..(n - l + 1)
  BY <1>3 DEF At
<1>5. Snippet(s, q) = SubSeq(s, from + 1, end)
  BY DEF Snippet
<1>6. half \in Nat /\ l <= MaxLength - half
  BY <1>1
<1>7. \A x, y \in Int : /\ Max({x, y}) = IF x >= y THEN x ELSE y
                        /\ Min({x, y}) = IF x <= y THEN x ELSE y
  BY DEF Max, Min
<1> HIDE DEF i, l, n, half
<1>8. start = IF 0 >= (i - 1) - half THEN 0 ELSE (i - 1) - half
  BY <1>4, <1>6, <1>7
<1> HIDE DEF start
<1>9. start \in Nat /\ start <= i - 1 /\ (i - 1) - half <= start
  BY <1>4, <1>6, <1>8
<1>10. end = IF n <= start + MaxLength THEN n ELSE start + MaxLength
  <2> DEFINE e == start + MaxLength
  <2>1. n \in Int /\ e \in Int
    BY <1>1, <1>9
  <2> HIDE DEF e
  <2>2. Min({n, e}) = IF n <= e THEN n ELSE e
    BY <1>7, <2>1
  <2> QED
    BY <2>2 DEF e
<1> HIDE DEF end
<1>11. end \in Nat /\ end <= n /\ end - MaxLength <= start
  BY <1>1, <1>9, <1>10
<1>12. i + l - 1 <= end
  <2>1. i + l - 1 <= n
    BY <1>1, <1>4
  <2>2. i + l - 1 <= start + MaxLength
    BY <1>1, <1>4, <1>6, <1>9
  <2> QED
    BY <1>10, <2>1, <2>2
<1>13. from = IF 0 >= end - MaxLength THEN 0 ELSE end - MaxLength
  BY <1>1, <1>7, <1>11
<1> HIDE DEF from
<1>14. from \in Nat /\ from < i
  BY <1>1, <1>4, <1>9, <1>11, <1>13
<1>15. Has(SubSeq(s, from + 1, end), q)
  BY <1>3, <1>11, <1>12, <1>14, WindowHas DEF l, n
<1> QED
  BY <1>5, <1>15

\* A search yields hits, and one of each chat that has any.
LEMMA SearchYields ==
  ASSUME messages \in Seq(Row), NEW q
  PROVE  /\ Range(Search(q)) \subseteq Hits(q)
         /\ \A i \in Hits(q) : \E j \in Range(Search(q)) : messages[j].chat = messages[i].chat
PROOF
<1> DEFINE lasts == {LastOf(messages[i].chat) : i \in Hits(q)}
           p == Pick(messages, lasts)
           order == Reverse(p)
           N == Len(p)
           first(n) == Min({i \in Hits(q) : messages[i].chat = order[n].chat})
<1>1. Len(messages) \in Nat /\ DOMAIN messages = 1..Len(messages) /\ Hits(q) \subseteq DOMAIN messages
  BY LenProperties DEF Hits
<1>2. ASSUME NEW i \in DOMAIN messages
      PROVE  LastOf(messages[i].chat) \in DOMAIN messages /\ messages[LastOf(messages[i].chat)].chat = messages[i].chat
  <2> DEFINE S == {j \in DOMAIN messages : messages[j].chat = messages[i].chat}
  <2>1. S \in SUBSET Nat /\ S # {} /\ \A x \in S : x <= Len(messages)
    BY <1>1
  <2>2. LastOf(messages[i].chat) = Max(S)
    BY DEF LastOf
  <2> HIDE DEF S
  <2>3. Max(S) \in S
    BY <1>1, <2>1, MaxIs
  <2> QED
    BY <2>2, <2>3 DEF S
<1>3. lasts \in SUBSET DOMAIN messages
  BY <1>1, <1>2
<1>4. ASSUME NEW l \in lasts PROVE \E i \in Hits(q) : messages[i].chat = messages[l].chat
  BY <1>1, <1>2
<1> HIDE DEF lasts
<1>5. /\ p \in Seq(Row) /\ DOMAIN p = 1..N
      /\ \A n \in DOMAIN p : Nth(lasts, n) \in lasts /\ p[n] = messages[Nth(lasts, n)]
      /\ \A l \in lasts : \E n \in DOMAIN p : p[n] = messages[l]
  BY <1>3, PickProperties
<1>6. N \in Nat
  BY <1>5, LenProperties
<1>7. DOMAIN order = 1..N /\ \A n \in 1..N : order[n] = p[(N - n) + 1]
  BY DEF Reverse
<1> HIDE DEF p, order, N
<1>8. \A n \in 1..N : (N - n) + 1 \in 1..N /\ (N - ((N - n) + 1)) + 1 = n
  BY <1>6
<1>9. ASSUME NEW n \in 1..N
      PROVE  first(n) \in Hits(q) /\ messages[first(n)].chat = order[n].chat
  <2> DEFINE S == {i \in Hits(q) : messages[i].chat = order[n].chat}
  <2>1. \E l \in lasts : order[n] = messages[l]
    BY <1>5, <1>7, <1>8
  <2>2. S \in SUBSET Nat /\ S # {}
    BY <1>1, <1>4, <2>1
  <2> HIDE DEF S
  <2>3. Min(S) \in S
    BY <2>2, MinIs
  <2> QED
    BY <2>3 DEF S
<1>10. Search(q) = [n \in DOMAIN order |-> first(n)]
  BY DEF Search, order, p, lasts
<1> HIDE DEF first
<1>11. Range(Search(q)) = {first(n) : n \in 1..N}
  BY <1>7, <1>10 DEF Range
<1>12. ASSUME NEW i \in Hits(q) PROVE \E n \in 1..N : order[n].chat = messages[i].chat
  <2>1. LastOf(messages[i].chat) \in lasts /\ messages[LastOf(messages[i].chat)].chat = messages[i].chat
    BY <1>1, <1>2 DEF lasts
  <2>2. PICK n \in 1..N : p[n] = messages[LastOf(messages[i].chat)]
    BY <1>5, <2>1
  <2>3. (N - n) + 1 \in 1..N /\ order[(N - n) + 1] = p[n]
    BY <1>7, <1>8
  <2> QED
    BY <2>1, <2>2, <2>3
<1> QED
  BY <1>9, <1>11, <1>12

\* While the index tells what the rows tell, a search is true.
LEMMA ToldIsFound == StoreInv => SearchTrue
PROOF
<1> SUFFICES ASSUME StoreInv, NEW q \in Queries
             PROVE  LET found == {messages[i].chat : i \in Range(Search(q))}
                        visible == {messages[i].chat : i \in {j \in DOMAIN messages : LikeHit(messages[j], q)}}
                        byId == IF UsesLike(q) THEN {} ELSE {c \in Known : <<c, q>> \in InId}
                    IN /\ found \subseteq visible \cup byId
                       /\ visible \ found \subseteq reborn
                       /\ \A i \in Range(Search(q)) :
                            /\ messages[i].chat \in byId \/ Has(messages[i].text, q) \/ Has(chats[messages[i].chat], q)
                            /\ UsesLike(q) /\ Has(messages[i].text, q) /\ 2 * Len(q) <= MaxLength
                                 => Has(Snippet(messages[i].text, q), q)
  BY DEF SearchTrue
<1> DEFINE found == {messages[i].chat : i \in Range(Search(q))}
           visible == {messages[i].chat : i \in {j \in DOMAIN messages : LikeHit(messages[j], q)}}
           byId == IF UsesLike(q) THEN {} ELSE {c \in Known : <<c, q>> \in InId}
<1>1. /\ messages \in Seq(Row) /\ Apart(messages) /\ Sound(fts, messages, chats)
      /\ Whole(fts, messages, chats, reborn)
  BY DEF StoreInv
<1>2. /\ Range(Search(q)) \subseteq Hits(q)
      /\ \A i \in Hits(q) : \E j \in Range(Search(q)) : messages[j].chat = messages[i].chat
  BY <1>1, SearchYields
<1>3. ASSUME NEW i \in Hits(q)
      PROVE  i \in DOMAIN messages /\ (LikeHit(messages[i], q) \/ messages[i].chat \in byId)
  <2>1. CASE UsesLike(q)
    BY <2>1 DEF Hits
  <2>2. CASE ~UsesLike(q)
    <3>1. i \in DOMAIN messages /\ FtsHit(messages[i], q)
      BY <2>2 DEF Hits
    <3>2. PICK f \in fts : f.row = messages[i].row /\ (Has(f.text, q) \/ Has(f.title, q) \/ <<f.chat, q>> \in InId)
      BY <3>1 DEF FtsHit
    <3>3. PICK j \in DOMAIN messages : f = Indexed(messages[j], chats[messages[j].chat])
      BY <1>1 DEF Sound
    <3>4. j = i
      BY <1>1, <3>1, <3>2, <3>3 DEF Apart, Indexed
    <3>5. f.text = messages[i].text /\ f.title = chats[messages[i].chat] /\ f.chat = messages[i].chat
      BY <3>3, <3>4 DEF Indexed
    <3> QED
      BY <2>2, <3>1, <3>2, <3>5 DEF FtsHit, LikeHit, Known
  <2> QED
    BY <2>1, <2>2
<1>4. ASSUME NEW i \in DOMAIN messages, LikeHit(messages[i], q), messages[i].chat \notin reborn
      PROVE  i \in Hits(q)
  <2>1. CASE UsesLike(q)
    BY <1>4, <2>1 DEF Hits
  <2>2. CASE ~UsesLike(q)
    <3>1. Indexed(messages[i], chats[messages[i].chat]) \in fts
      BY <1>1, <1>4 DEF Whole, LikeHit, Known
    <3>2. FtsHit(messages[i], q)
      BY <1>4, <3>1 DEF FtsHit, LikeHit, Indexed
    <3> QED
      BY <2>2, <3>2 DEF Hits
  <2> QED
    BY <2>1, <2>2
<1>5. found \subseteq visible \cup byId
  <2> HIDE DEF byId
  <2> QED
    BY <1>2, <1>3
<1>6. visible \ found \subseteq reborn
  <2> SUFFICES ASSUME NEW i \in DOMAIN messages, LikeHit(messages[i], q), messages[i].chat \notin reborn
               PROVE  messages[i].chat \in found
    OBVIOUS
  <2> QED
    BY <1>2, <1>4
<1>7. ASSUME NEW i \in Range(Search(q))
      PROVE  messages[i].chat \in byId \/ Has(messages[i].text, q) \/ Has(chats[messages[i].chat], q)
  <2> HIDE DEF byId
  <2> QED
    BY <1>2, <1>3 DEF LikeHit
<1>8. ASSUME NEW i \in Range(Search(q)), Has(messages[i].text, q), 2 * Len(q) <= MaxLength
      PROVE  Has(Snippet(messages[i].text, q), q)
  <2>1. i \in DOMAIN messages
    BY <1>2, <1>3
  <2>2. messages[i] \in Row
    BY <1>1, <2>1, ElementOfSeq, LenProperties
  <2>3. messages[i].text \in Seq(Letters) /\ q \in Seq(Letters)
    BY <2>2, LettersAssumption DEF Row
  <2> QED
    BY <1>8, <2>3, SnippetShows
<1> HIDE DEF found, visible, byId
<1>9. /\ found \subseteq visible \cup byId /\ visible \ found \subseteq reborn
      /\ \A i \in Range(Search(q)) :
           /\ messages[i].chat \in byId \/ Has(messages[i].text, q) \/ Has(chats[messages[i].chat], q)
           /\ UsesLike(q) /\ Has(messages[i].text, q) /\ 2 * Len(q) <= MaxLength
                => Has(Snippet(messages[i].text, q), q)
  BY <1>5, <1>6, <1>7, <1>8
<1> QED
  BY <1>9 DEF found, visible, byId

\* Whatever is asked again, answered, renamed, deleted, purged and made again, a search
\* finds the chats whose title or messages have the text and no others but by their id,
\* unless old messages came back with a chat of their id, and shows the place (the
\* triggers of the full-text migration, full_text_search, _build_snippet).
THEOREM SearchesAreTrue == AllSpec => []SearchTrue
PROOF
<1>1. AllInit => StoreInv
  BY StoreStarts DEF AllInit
<1>2. StoreInv /\ [AllNext]_<<served, vars, storeVars>> => StoreInv'
  <2> SUFFICES ASSUME StoreInv, [AllNext]_<<served, vars, storeVars>> PROVE StoreInv'
    OBVIOUS
  <2>1. [StoreNext]_storeVars
    BY DEF AllNext
  <2> QED
    BY <2>1, StoreSteps
<1> QED
  BY <1>1, <1>2, ToldIsFound, PTL DEF AllSpec
=============================================================================
