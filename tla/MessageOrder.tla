---------------------------- MODULE MessageOrder ----------------------------
(***************************************************************************)
(* The pure functions that keep the list of messages of a conversation in  *)
(* a shape that model providers accept: tool_call_order and                *)
(* find_safe_cut_point, complete_tool_calls, and compact_conversation with *)
(* the count of tokens left open.                                          *)
(*                                                                         *)
(* A message is a record [id, type, calls, call, turn, fake]: calls is the *)
(* sequence of tool calls an "ai" message asks for, call the one a "tool"  *)
(* message answers (0: none), turn says which query the content belongs    *)
(* to, and fake marks an invented tool result.                             *)
(***************************************************************************)
EXTENDS Integers, Sequences, SequencesExt

Human(id, t)     == [id |-> id, type |-> "human", calls |-> <<>>, call |-> 0, turn |-> t, fake |-> FALSE]
AI(id, cs, t)    == [id |-> id, type |-> "ai", calls |-> cs, call |-> 0, turn |-> t, fake |-> FALSE]
Tool(id, c, t)   == [id |-> id, type |-> "tool", calls |-> <<>>, call |-> c, turn |-> t, fake |-> FALSE]
Summary(id)      == [id |-> id, type |-> "system", calls |-> <<>>, call |-> 0, turn |-> 0, fake |-> FALSE]

HasToolCall(m) == m.type = "ai" /\ m.calls # <<>>
NotToolResult(m) == m.type # "tool"

\* What a sequence has at some positions, in their order.
Chosen(s, K) == FlattenSeq([i \in DOMAIN s |-> IF i \in K THEN <<s[i]>> ELSE <<>>])
Drop(s, S) == Chosen(s, {i \in DOMAIN s : s[i].id \notin S})
Ids(s) == {s[i].id : i \in DOMAIN s}

\* New messages get the ids fresh, fresh + 1, ...
Numbered(s, fresh) == [i \in DOMAIN s |-> [s[i] EXCEPT !.id = fresh + i - 1]]

\* The add_messages reducer of langgraph: a message with a known id replaces the
\* old one in its place, any other is appended, and removed ids are deleted.
AddMessages(left, new, removed) ==
  LET known(m) == \E i \in DOMAIN new : new[i].id = m.id
      kept == [i \in DOMAIN left |->
                 IF known(left[i]) THEN new[CHOOSE j \in DOMAIN new : new[j].id = left[i].id]
                 ELSE left[i]]
      extra == Chosen(new, {i \in DOMAIN new : new[i].id \notin Ids(left)})
  IN Drop(kept \o extra, removed)

---------------------------------------------------------------------------
\* Where a message that asks for tools is not followed by a tool result.
Broken(s) == {i \in 2..Len(s) : HasToolCall(s[i - 1]) /\ NotToolResult(s[i])}


\* Invented results for all calls of a message.
Fakes(m) == [j \in DOMAIN m.calls |-> [Tool(0, m.calls[j], m.turn) EXCEPT !.fake = TRUE]]


\* Mutant: only the messages up to the next broken place are added again.
MutPieces(s, fresh) ==
  IF Broken(s) = {} THEN [remove |-> {}, new |-> <<>>]
  ELSE LET k == CHOOSE i \in Broken(s) : \A j \in Broken(s) : i <= j
       IN [remove |-> Ids(SubSeq(s, k, Len(s))), new |-> Numbered(Fakes(s[k - 1]) \o <<s[k]>>, fresh)]

\* tool_call_order: the messages it removes and the ones it adds.
ToolCallOrder(s, fresh) ==
  IF Broken(s) = {} THEN [remove |-> {}, new |-> <<>>]
  ELSE LET k == CHOOSE i \in Broken(s) : \A j \in Broken(s) : i <= j
           piece(i) == IF i \in Broken(s) THEN Fakes(s[i - 1]) \o <<s[i]>> ELSE <<s[i]>>
           pieces == [i \in 1..(Len(s) - k + 1) |-> piece(k + i - 1)]
       IN [remove |-> Ids(SubSeq(s, k, Len(s))), new |-> Numbered(FlattenSeq(pieces), fresh)]

\* complete_tool_calls: a result for every call that has none anywhere.
CompleteToolCalls(s) ==
  LET answered == {s[i].call : i \in {j \in DOMAIN s : s[j].type = "tool"}}
      missing(m) == IF HasToolCall(m) THEN Chosen(m.calls, {j \in DOMAIN m.calls : m.calls[j] \notin answered})
                    ELSE <<>>
      results(m) == [j \in DOMAIN missing(m) |-> [Tool(0, missing(m)[j], m.turn) EXCEPT !.fake = TRUE]]
  IN FlattenSeq([i \in DOMAIN s |-> <<s[i]>> \o results(s[i])])

---------------------------------------------------------------------------
\* The last index of 2..target with a message of one of the types, or 1:
\* range(target, 0, -1) never looks at the first message.
LastBefore(s, target, types) ==
  LET hits == {i \in 2..target : s[i].type \in types}
  IN IF hits = {} THEN 1 ELSE CHOOSE i \in hits : \A j \in hits : j <= i

\* Mutant: without a human message below it, the target is taken as it is.
MutFindSafeCutPoint(s, target) ==
  IF s = <<>> THEN 1
  ELSE LET t == IF target > Len(s) THEN Len(s) ELSE target
           human == LastBefore(s, t, {"human"})
       IN IF human > 1 THEN human ELSE t

\* find_safe_cut_point, with indices from 1: the index of the first message kept.
FindSafeCutPoint(s, target) ==
  IF s = <<>> THEN 1
  ELSE LET t == IF target > Len(s) THEN Len(s) ELSE target
           human == LastBefore(s, t, {"human"})
       IN IF human > 1 THEN human ELSE LastBefore(s, t, {"human", "ai", "system"})

\* compact_conversation, once the budget is exceeded, and its use in
\* _before_agent: what is removed and added for the message recentStart, where
\* the messages that fit the recent window start.  Nothing is compacted when no
\* message is old; without a summary (the model failed) the old ones are dropped.
Compact(s, recentStart, summarized, fresh) ==
  LET cut == FindSafeCutPoint(s, recentStart)
  IN [remove |-> Ids(SubSeq(s, 1, cut - 1)),
      new |-> IF cut > 1 /\ summarized THEN <<Summary(fresh)>> ELSE <<>>]

\* coalesce_system_messages: the system messages are merged at the front.
CoalesceSystem(s) ==
  LET sys == {i \in DOMAIN s : s[i].type = "system"}
  IN (IF sys = {} THEN <<>> ELSE <<Head(Chosen(s, sys))>>) \o Chosen(s, DOMAIN s \ sys)

---------------------------------------------------------------------------
\* What providers require: the results of an "ai" message's calls follow it
\* directly, and every result belongs to a call of the message before.
RunAfter(s, i) ==
  {j \in (i + 1)..Len(s) : \A k \in (i + 1)..j : s[k].type = "tool"}

Answered(s) ==
  \A i \in DOMAIN s : HasToolCall(s[i]) =>
    Range(s[i].calls) \subseteq {s[j].call : j \in RunAfter(s, i)}

NoOrphanResults(s) ==
  \A j \in DOMAIN s : s[j].type = "tool" =>
    \E i \in 1..(j - 1) : HasToolCall(s[i]) /\ j \in RunAfter(s, i) /\ s[j].call \in Range(s[i].calls)

Paired(s) == Answered(s) /\ NoOrphanResults(s)
=============================================================================
