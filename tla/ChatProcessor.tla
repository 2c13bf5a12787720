--------------------------- MODULE ChatProcessor ---------------------------
(***************************************************************************)
(* The requests of one chat: ChatProcessor.handle_chat with the message    *)
(* store, the AbortController, Chat.query and the checkpoint thread, and   *)
(* the routes that abort and delete the chat.                              *)
(*                                                                         *)
(* A chat is stored twice: its messages are rows of the database, which    *)
(* the user sees, and the state of a checkpoint thread, which the model    *)
(* sees.  A request writes the rows of its question before it waits for    *)
(* the lock of the chat, and those of its answer after it released it.     *)
(*                                                                         *)
(* The database is SQLite, as httpd/server.py sets it up: foreign keys are *)
(* declared but not enforced.  Titles, files and contents are left out.    *)
(***************************************************************************)
EXTENDS Integers, Sequences, FiniteSets, SequencesExt

CONSTANTS
  Reqs,       \* requests that may be made
  Overlap,    \* whether a request may start while another is under way
  MaxEarly,   \* bound: requests that fail before their question is in the thread
  MaxCrash, MaxDelete

ASSUME ReqsAssumption == IsFiniteSet(Reqs)
ASSUME BoundsAssumption ==
  Overlap \in BOOLEAN /\ MaxEarly \in Nat /\ MaxCrash \in Nat /\ MaxDelete \in Nat

VARIABLES
  chat,       \* whether the chat has its row
  rows,       \* rows of messages with the id of the chat, by created_at
  thread,     \* messages of the checkpoint thread
  line,       \* requests at the lock of the chat: the head holds it
  req,        \* requests
  deleting,   \* a delete has removed the row of the chat and not yet the thread
  early, crashes, deletes  \* how often each has happened

vars == <<chat, rows, thread, line, req, deleting, early, crashes, deletes>>

Kinds == {"new", "retry", "edit"}
Ended == {"idle", "done", "failed"}
\* Where a request holds the lock and can be aborted.
InTurn == {"resend", "begin", "run"}
Pcs == Ended \cup InTurn \cup {"check", "write", "join", "wait", "error", "store"}

Question(q) == [role |-> "user", by |-> q, of |-> q]
\* The answer of request q to the question that was first asked by request m.
AnswerOf(q, m) == [role |-> "assistant", by |-> q, of |-> m]
\* The placeholder for a failed request, <chat-error>.
ErrorOf(q, m) == [role |-> "error", by |-> q, of |-> m]

IndexOf(s, m) == CHOOSE i \in DOMAIN s : s[i] = m
\* The last question at or before position n.
LastQuestionAt(s, n) ==
  LET Qs == {i \in 1..n : s[i].role = "user"}
  IN IF Qs = {} THEN 0 ELSE CHOOSE i \in Qs : \A j \in Qs : j <= i

\* All after m goes, when m is there at all.
CutAfter(s, m) == IF Contains(s, m) THEN SubSeq(s, 1, IndexOf(s, m)) ELSE s

NewReq == [pc |-> "idle", kind |-> "new", ask |-> "none", saw |-> FALSE, aborted |-> FALSE,
           local |-> <<>>, cur |-> <<>>]

Init ==
  /\ chat = FALSE /\ rows = <<>> /\ thread = <<>> /\ line = <<>>
  /\ req = [q \in Reqs |-> NewReq]
  /\ deleting = FALSE
  /\ early = 0 /\ crashes = 0 /\ deletes = 0

\* No request is under way, and no delete.
Quiet == ~deleting /\ \A q \in Reqs : req[q].pc \in Ended

Go(q, pc) == req' = [req EXCEPT ![q].pc = pc]

---------------------------------------------------------------------------
(* Requests.                                                              *)

MayStart(q) ==
  /\ req[q].pc = "idle"
  /\ Overlap \/ Quiet

Start(q, kind, m) ==
  /\ MayStart(q)
  /\ req' = [req EXCEPT ![q].pc = "check", ![q].kind = kind, ![q].ask = m]
  /\ UNCHANGED <<chat, rows, thread, line, deleting, crashes, deletes, early>>

\* POST /chat: a question with an id of its own.
Post(q) == Start(q, "new", q)

\* POST /chat/edit: a question that was asked before, or one with a new id for
\* the message id "0".
Edit(q) ==
  \/ \E i \in DOMAIN rows : rows[i].role = "user" /\ Start(q, "edit", rows[i].by)
  \/ Start(q, "edit", q)

\* POST /chat/retry of any message: _get_history_user_input finds the last
\* question before it.  Without the chat or the message it raises, and nothing
\* happens.
Retry(q) ==
  /\ chat
  /\ \E i \in DOMAIN rows :
       /\ LastQuestionAt(rows, i) > 0
       /\ Start(q, "retry", rows[LastQuestionAt(rows, i)].by)

\* check_chat_exists: a read before the transaction writes anything.
Check(q) ==
  /\ req[q].pc = "check"
  /\ req' = [req EXCEPT ![q].pc = "write", ![q].saw = chat]
  /\ UNCHANGED <<chat, rows, thread, line, deleting, crashes, deletes, early>>

\* Mutant: a question that is asked again keeps what followed it.
MutWritten(q) == rows
\* The rows that are left of the ones there were.
Written(q) ==
  IF req[q].saw /\ req[q].kind # "new" THEN CutAfter(rows, Question(req[q].ask)) ELSE rows

\* The transaction that creates the chat or cuts its rows, and adds the question.
\* A retry adds none, even if its question is gone.
Write(q) ==
  LET m == Question(req[q].ask)
      known == req[q].saw /\ req[q].kind = "edit" /\ Contains(rows, m)
      insert == req[q].kind # "retry" /\ ~known
  IN /\ req[q].pc = "write"
     /\ \/ \* IntegrityError: the id of a message is unique.  All is rolled back.
           /\ insert /\ Contains(Written(q), m)
           /\ Go(q, "failed")
           /\ UNCHANGED <<chat, rows>>
        \/ /\ insert => ~Contains(Written(q), m)
           /\ chat' = (chat \/ ~req[q].saw)
           /\ rows' = IF insert THEN Append(Written(q), m) ELSE Written(q)
           /\ Go(q, "join")
     /\ UNCHANGED <<thread, line, deleting, crashes, deletes, early>>

\* DiveMcpHost.chat raises: there is no model.
NoModel(q) ==
  /\ req[q].pc = "join" /\ early < MaxEarly
  /\ Go(q, "error")
  /\ early' = early + 1
  /\ UNCHANGED <<chat, rows, thread, line, deleting, crashes, deletes>>

\* Mutant: each request has a lock of its own.
MutJoin(q) ==
  /\ req[q].pc = "join"
  /\ req' = [req EXCEPT ![q].pc = IF req[q].kind = "new" THEN "begin" ELSE "resend"]
  /\ line' = Append(line, q)
  /\ UNCHANGED <<chat, rows, thread, deleting, crashes, deletes, early>>

\* abort_signal: get in line for the lock.
Join(q) ==
  /\ req[q].pc = "join"
  /\ Go(q, "wait")
  /\ line' = Append(line, q)
  /\ UNCHANGED <<chat, rows, thread, deleting, crashes, deletes, early>>

\* The lock is taken and chat.abort registered for the chat.
Enter(q) ==
  /\ req[q].pc = "wait" /\ line # <<>> /\ Head(line) = q
  /\ Go(q, IF req[q].kind = "new" THEN "begin" ELSE "resend")
  /\ UNCHANGED <<chat, rows, thread, line, deleting, crashes, deletes, early>>

\* Mutant: only the rows are cut.
MutResent(q) == thread
Resent(q) == CutAfter(thread, Question(req[q].ask))

\* _remove_messages_for_resend: the thread is read and what follows the question
\* removed.  The query has no abort signal yet.
Resend(q) ==
  /\ req[q].pc = "resend"
  /\ thread' = Resent(q)
  /\ Go(q, "begin")
  /\ UNCHANGED <<chat, rows, line, deleting, crashes, deletes, early>>

\* The abort signal is made and the graph started: the question is in the thread,
\* at its old place if it was there.
Begin(q) ==
  LET m == Question(req[q].ask)
      started == IF Contains(thread, m) THEN thread ELSE Append(thread, m)
  IN /\ req[q].pc = "begin"
     /\ thread' = started
     /\ req' = [req EXCEPT ![q].pc = "run", ![q].local = started]
     /\ UNCHANGED <<chat, rows, line, deleting, crashes, deletes, early>>

\* Mutant: a turn that fails keeps the lock.
MutReleasedByFailure == line
\* The lock is released however the turn ends.
ReleasedByFailure == Tail(line)

\* _handle_response: the messages from the last question on, of which the answers
\* will be stored.
Current(s) == SubSeq(s, LastQuestionAt(s, Len(s)) + 1, Len(s))

\* The turn ends with the messages s; the state of the graph is the thread.
EndTurn(q, s) ==
  /\ thread' = s
  /\ line' = Tail(line)
  /\ req' = [req EXCEPT
       ![q].pc = IF \E i \in DOMAIN s : s[i].role = "assistant" THEN "store" ELSE "done",
       ![q].local = <<>>, ![q].aborted = FALSE,
       ![q].cur = Current(s)]
  /\ UNCHANGED <<chat, rows, deleting, crashes, deletes, early>>

Answer(q) ==
  /\ req[q].pc = "run"
  /\ EndTurn(q, Append(req[q].local, AnswerOf(q, req[q].ask)))

\* An abort before any part of an answer.
Aborted(q) ==
  /\ req[q].pc = "run" /\ req[q].aborted
  /\ EndTurn(q, req[q].local)

\* The turn raises: while resending, or in a node of the graph.
Fail(q) ==
  /\ req[q].pc \in InTurn
  /\ early' = IF req[q].pc = "run" THEN early ELSE early + 1
  /\ early' <= MaxEarly
  /\ line' = ReleasedByFailure
  /\ req' = [req EXCEPT ![q].pc = "error", ![q].local = <<>>, ![q].aborted = FALSE]
  /\ UNCHANGED <<chat, rows, thread, deleting, crashes, deletes>>

\* The placeholder that lets the client retry is stored.
StoreError(q) ==
  /\ req[q].pc = "error"
  /\ rows' = Append(rows, ErrorOf(q, req[q].ask))
  /\ Go(q, "failed")
  /\ UNCHANGED <<chat, thread, line, deleting, crashes, deletes, early>>

\* The answers of the turn are stored, without the lock.
Store(q) ==
  /\ req[q].pc = "store"
  /\ IF \E m \in Range(req[q].cur) : Contains(rows, m)
       THEN Go(q, "failed") /\ UNCHANGED rows
       ELSE /\ rows' = rows \o req[q].cur
            /\ req' = [req EXCEPT ![q].pc = "done", ![q].cur = <<>>]
  /\ UNCHANGED <<chat, thread, line, deleting, crashes, deletes, early>>

---------------------------------------------------------------------------
(* Other routes.                                                          *)

\* POST /chat/{id}/abort: chat.abort of the request that holds the lock, which
\* does nothing, but is answered all the same, before the query has its signal.
AbortChat ==
  \E q \in Reqs :
    /\ req[q].pc = "run" /\ ~req[q].aborted
    /\ req' = [req EXCEPT ![q].aborted = TRUE]
    /\ UNCHANGED <<chat, rows, thread, line, deleting, crashes, deletes, early>>

\* DELETE /chat/{id}: the row of the chat goes, then the thread.  Nothing deletes
\* the rows of the messages.
DeleteChat ==
  /\ deletes < MaxDelete /\ chat /\ ~deleting
  /\ Overlap \/ Quiet
  /\ chat' = FALSE /\ deleting' = TRUE /\ deletes' = deletes + 1
  /\ UNCHANGED <<rows, thread, line, req, crashes, early>>

DeleteThread ==
  /\ deleting
  /\ thread' = <<>> /\ deleting' = FALSE
  /\ UNCHANGED <<chat, rows, line, req, crashes, deletes, early>>

\* The server stops and starts again: database and checkpoints are kept.
Crash ==
  /\ crashes < MaxCrash
  /\ crashes' = crashes + 1
  /\ req' = [q \in Reqs |->
       IF req[q].pc \in Ended THEN req[q]
       ELSE [req[q] EXCEPT !.pc = "failed", !.local = <<>>, !.cur = <<>>, !.aborted = FALSE]]
  /\ line' = <<>> /\ deleting' = FALSE
  /\ UNCHANGED <<chat, rows, thread, deletes, early>>

Step(q) ==
  \/ Check(q) \/ Write(q) \/ NoModel(q) \/ Join(q) \/ Enter(q) \/ Resend(q) \/ Begin(q)
  \/ Answer(q) \/ Aborted(q) \/ Fail(q) \/ StoreError(q) \/ Store(q)

Next ==
  \/ \E q \in Reqs : Post(q) \/ Edit(q) \/ Retry(q) \/ Step(q)
  \/ AbortChat \/ DeleteChat \/ DeleteThread \/ Crash

Spec == Init /\ [][Next]_vars

\* The tasks of requests are scheduled, and the model answers or fails.
Fairness == (\A q \in Reqs : WF_vars(Step(q))) /\ WF_vars(DeleteThread)
FairSpec == Spec /\ Fairness

---------------------------------------------------------------------------
(* Properties.                                                            *)

Id == Reqs \cup {"none"}
Msg == [role : {"user", "assistant", "error"}, by : Id, of : Id]
ReqRecord == [pc : Pcs, kind : Kinds, ask : Id, saw : BOOLEAN, aborted : BOOLEAN,
              local : Seq(Msg), cur : Seq(Msg)]

TypeOK ==
  /\ thread \in Seq(Msg) /\ rows \in Seq(Msg)
  /\ line \in Seq(Reqs) /\ chat \in BOOLEAN
  /\ req \in [Reqs -> ReqRecord]

\* What log s has of some roles is in log t.
Within(s, t, roles) ==
  \A i \in DOMAIN s : s[i].role \in roles => \E k \in DOMAIN t : t[k] = s[i]

\* What both logs have of some roles is there once, in the same order.
SameOrder(s, t, roles) ==
  \A i \in DOMAIN s, k \in DOMAIN t : s[i] = t[k] /\ s[i].role \in roles =>
    \A j \in DOMAIN s, l \in DOMAIN t : s[j] = t[l] /\ s[j].role \in roles => (i < j <=> k < l)

\* While clients wait for the end of a request before they make the next, and no
\* request is lost with the server or before its question is in the thread, what
\* the user sees is what the model sees: rows and thread hold the same messages in
\* the same order, but for the placeholders of failures.
RowsMatchThread ==
  Quiet /\ early = 0 /\ crashes = 0 =>
    /\ Within(rows, thread, {"user", "assistant"})
    /\ Within(thread, rows, {"user", "assistant", "error"})
    /\ SameOrder(rows, thread, {"user", "assistant"})

\* Crashes and early failures may keep messages from the rows or from the thread,
\* but every answer the user sees is one the model remembers, in the same order.
AnswersKnown ==
  Quiet => Within(rows, thread, {"assistant"}) /\ SameOrder(rows, thread, {"assistant"})

\* Requests that overlap never overwrite each other's turn: the thread is only cut
\* or extended, whatever a turn has held since it began.
TurnsKept == [][IsPrefix(thread', thread) \/ IsPrefix(thread, thread')]_thread

\* Every request that was made comes to its end, behind any number of others and
\* however they end.
RequestsEnd == \A q \in Reqs : (req[q].pc = "check") ~> (req[q].pc \in Ended)
=============================================================================
