--------------------------- MODULE MCChatProcessor ---------------------------
(***************************************************************************)
(* A chat for TLC: requests one after another (ChatProcessor), two at once *)
(* with a deletion of the chat (ChatProcessor again), and the message      *)
(* store with its search index (MessageStore).  Every behaviour is of one  *)
(* of them; `served` says of which.                                        *)
(***************************************************************************)
EXTENDS ChatProcessor, MessageStore, TLC

CONSTANTS r1, r2, r3, r4, c1, c2, k1, k2, k3

\* Requests that nobody has made yet do not differ: they are made in this order.
Order == <<r1, r2, r3, r4>>
InOrder == \A i \in 1..3 : req[Order[i]].pc = "idle" => req[Order[i + 1]].pc = "idle"

SomeTexts == {<<"a", "b">>, <<"b", "c", "a", "b", "c">>}
SomeTitles == {<<"a", "b", "c">>}
SomeQueries == {<<"a", "b">>, <<"a", "b", "c">>, <<"b", "c", "a">>, <<"n">>, <<"d", "a", "b">>}
SomeMalformed == {<<"b", "c", "a">>}
SomeIds == {<<c1, <<"d", "a", "b">>>>}

VARIABLE served

Overlapped == INSTANCE ChatProcessor WITH Reqs <- {r1, r2}, Overlap <- TRUE, MaxDelete <- 1

AllInit ==
  /\ served \in {"overlap", "sequential", "store"}
  /\ IF served = "overlap" THEN Overlapped!Init ELSE Init
  /\ StoreInit

AllNext ==
  \/ served = "sequential" /\ Next /\ InOrder' /\ UNCHANGED <<served, storeVars>>
  \/ served = "overlap" /\ Overlapped!Next /\ UNCHANGED <<served, storeVars>>
  \/ served = "store" /\ StoreNext /\ UNCHANGED <<served, vars>>

\* The fairness of a part that is left at its start asks for nothing.
AllSpec == AllInit /\ [][AllNext]_<<served, vars, storeVars>> /\ Overlapped!Fairness

---------------------------------------------------------------------------
\* While requests of a chat come one after another, what the user sees is what the
\* model sees: both are the same messages until something is lost with the server or
\* before it is in the thread, and every answer seen is remembered (handle_chat).
SameConversation ==
  served = "sequential" => RowsMatchThread /\ AnswersKnown

\* Rows and thread are each a conversation: an answer or placeholder is only stored
\* for the last question, and asking again cuts what followed (delete_messages_after,
\* _remove_messages_for_resend).
Shows(log) == IF served = "sequential" THEN log ELSE <<>>
RowsShown   == INSTANCE Conversation WITH log <- Shows(rows)
ThreadShown == INSTANCE Conversation WITH log <- Shows(thread)
BothConversations == RowsShown!Spec /\ ThreadShown!Spec

\* Every request comes to its end, behind the other and however they end
\* (AbortController.abort_signal).
OverlapEnds == served = "overlap" => Overlapped!RequestsEnd
=============================================================================
