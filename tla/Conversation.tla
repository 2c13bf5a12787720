---------------------------- MODULE Conversation ----------------------------
(***************************************************************************)
(* What a chat is to its user: a log of questions, each followed by what   *)
(* was answered to it.  A new question goes to the end; asking an old one  *)
(* again first cuts off all that came after it; only the last question of  *)
(* the log is ever answered.                                               *)
(*                                                                         *)
(* A message is a record with a role, by (the request that made it) and of *)
(* (the request that first asked the question it belongs to).              *)
(***************************************************************************)
EXTENDS Integers, Sequences

VARIABLE log

Asked(m) == m.role = "user"

\* The last question is at position i.
LastQuestion(i) ==
  i \in DOMAIN log /\ Asked(log[i]) /\ \A j \in (i + 1)..Len(log) : ~Asked(log[j])

Init == log = <<>>

Ask ==
  /\ Len(log') = Len(log) + 1
  /\ SubSeq(log', 1, Len(log)) = log
  /\ Asked(log'[Len(log')])
  /\ \A i \in DOMAIN log : log[i] # log'[Len(log')]

Answer ==
  /\ Len(log') = Len(log) + 1
  /\ SubSeq(log', 1, Len(log)) = log
  /\ ~Asked(log'[Len(log')])
  /\ \E i \in DOMAIN log : LastQuestion(i) /\ log'[Len(log')].of = log[i].of

Cut == \E i \in DOMAIN log : Asked(log[i]) /\ log' = SubSeq(log, 1, i)

Forget == log' = <<>>

Next == Ask \/ Answer \/ Cut \/ Forget

Spec == Init /\ [][Next]_log
=============================================================================
