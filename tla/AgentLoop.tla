----------------------------- MODULE AgentLoop -----------------------------
(***************************************************************************)
(* The graph of ChatAgentFactory (host/agents/chat_agent.py) running the   *)
(* queries of one chat on its checkpointed list of messages: before_agent, *)
(* agent and tools, with aborts, failures of the model and of the tools,   *)
(* crashes between two nodes, the recursion limit, resent questions        *)
(* (Chat.query) and automatic compaction.                                  *)
(*                                                                         *)
(* The number of tokens is left open: compaction may be due at any visit   *)
(* of before_agent and keep any suffix of the messages.  The system        *)
(* prompt is not one of the messages; tools with return_direct and a       *)
(* response format are not used by the host.                               *)
(***************************************************************************)
EXTENDS MessageOrder

CONSTANTS
  MaxQueries,      \* bound: queries of the chat
  MaxCalls,        \* bound: tool calls in one answer of the model
  RecursionLimits, \* nodes that one query may run, read from the environment
  MaxCompactions   \* bound: compactions (0: oversize_policy is not "summarize")

ASSUME BoundsAssumption ==
  MaxQueries \in Nat /\ MaxCalls \in Nat /\ RecursionLimits \subseteq Nat \ {0}
  /\ MaxCompactions \in Nat

VARIABLES
  msgs,     \* the checkpointed messages
  node,     \* the node that runs next; "model": awaiting the model's answer
  left,     \* remaining_steps
  abort,    \* the query's abort signal
  turn,     \* the number of the query
  prompt,   \* what the model was last given
  outcome,  \* how the last query ended
  fresh,    \* the next message id
  asked,    \* the ids of the user messages in the database, the ones clients resend
  compactions  \* history: how often the messages have been compacted

vars == <<msgs, node, left, abort, turn, prompt, outcome, fresh, asked, compactions>>

TypeOK ==
  /\ \A i \in DOMAIN msgs : msgs[i].id \in 1..(fresh - 1) /\ msgs[i].turn \in 0..turn
  /\ \A i, j \in DOMAIN msgs : msgs[i].id = msgs[j].id => i = j
  /\ node \in {"idle", "before", "agent", "model", "tools"}
  /\ left \in {-1} \cup UNION {0..(limit - 1) : limit \in RecursionLimits}
  /\ abort \in BOOLEAN /\ turn \in 0..MaxQueries
  /\ outcome \in {"none", "done", "error", "limit"}
  /\ compactions \in 0..MaxCompactions

Init ==
  /\ msgs = <<>> /\ node = "idle" /\ left = 0 /\ abort = FALSE /\ turn = 0
  /\ prompt = <<>> /\ outcome = "none" /\ fresh = 1 /\ asked = <<>>
  /\ compactions = 0

---------------------------------------------------------------------------
\* Mutant: the message after the resent one is kept.
MutDropAfter(s, id) ==
  IF \A i \in 1..(Len(s) - 1) : s[i].id # id THEN s
  ELSE SubSeq(s, 1, (CHOOSE i \in DOMAIN s : s[i].id = id) + 1)

\* _remove_messages_for_resend: everything after the resent message goes.
DropAfter(s, id) ==
  IF id \notin Ids(s) THEN s ELSE SubSeq(s, 1, CHOOSE i \in DOMAIN s : s[i].id = id)

\* The new user messages of the database: a resend deletes the later ones.
AskedAfter(id) ==
  IF id \notin Range(asked) THEN Append(asked, id)
  ELSE SubSeq(asked, 1, CHOOSE p \in DOMAIN asked : asked[p] = id)

\* Chat.query with a new question or with an old one that is edited or retried.
Query(id, limit) ==
  /\ node = "idle" /\ turn < MaxQueries
  /\ turn' = turn + 1
  /\ msgs' = AddMessages(DropAfter(msgs, id), <<Human(id, turn + 1)>>, {})
  /\ asked' = AskedAfter(id)
  /\ fresh' = IF id = fresh THEN fresh + 1 ELSE fresh
  /\ node' = "before" /\ left' = limit - 1
  /\ abort' = FALSE /\ outcome' = "none"
  /\ UNCHANGED <<prompt, compactions>>

\* Chat.abort
Abort ==
  /\ node # "idle" /\ ~abort /\ abort' = TRUE
  /\ UNCHANGED <<msgs, node, left, turn, prompt, outcome, fresh, asked, compactions>>

\* The query ends after the node that has run.
End(how) == node' = "idle" /\ outcome' = how

\* The process dies between two nodes and is started again, or the node raises:
\* the messages of the nodes before are kept.
Fails ==
  /\ node \in {"before", "model", "tools"}
  /\ End("error")
  /\ UNCHANGED <<msgs, left, abort, turn, prompt, fresh, asked, compactions>>

\* langgraph raises GraphRecursionError.
LimitReached ==
  /\ node \in {"before", "agent", "tools"} /\ left < 0
  /\ End("limit")
  /\ UNCHANGED <<msgs, left, abort, turn, prompt, fresh, asked, compactions>>

---------------------------------------------------------------------------
\* _before_agent compacts the messages when they exceed the context window and
\* some of them are old; recentStart is 0 when they fit.
Compacts(recentStart) == recentStart > 0 /\ FindSafeCutPoint(msgs, recentStart) > 1

\* Otherwise it repairs their order.
BeforeAgent(recentStart, summarized) ==
  /\ node = "before" /\ left >= 0
  /\ LET update == IF Compacts(recentStart) THEN Compact(msgs, recentStart, summarized, fresh)
                   ELSE ToolCallOrder(msgs, fresh)
     IN /\ msgs' = AddMessages(msgs, update.new, update.remove)
        /\ fresh' = fresh + Len(update.new)
  /\ compactions' = IF Compacts(recentStart) THEN compactions + 1 ELSE compactions
  /\ node' = "agent" /\ left' = left - 1
  /\ UNCHANGED <<abort, turn, prompt, outcome, asked>>

\* _after_agent
After(s) == IF HasToolCall(Last(s)) THEN "tools" ELSE "idle"

\* _call_model does nothing when the query is aborted.
CallSkipped ==
  /\ node = "agent" /\ left >= 0 /\ abort
  /\ node' = After(msgs) /\ left' = left - 1
  /\ outcome' = IF node' = "idle" THEN "done" ELSE outcome
  /\ UNCHANGED <<msgs, abort, turn, prompt, fresh, asked, compactions>>

CallModel ==
  /\ node = "agent" /\ left >= 0 /\ ~abort
  /\ prompt' = CoalesceSystem(CompleteToolCalls(msgs))
  /\ node' = "model"
  /\ UNCHANGED <<msgs, left, abort, turn, outcome, fresh, asked, compactions>>


\* _check_more_steps_needed: the answer is replaced by an apology.
MoreStepsNeeded == left < 2

\* The model's answer, or what it has answered when the signal came; then its
\* tool calls are completed at once.
Answer(n) ==
  /\ node = "model"
  /\ LET calls == IF MoreStepsNeeded THEN <<>> ELSE [j \in 1..n |-> fresh + j]
         ai == <<AI(fresh, calls, turn)>>
         new == Numbered(IF abort THEN CompleteToolCalls(ai) ELSE ai, fresh)
     IN /\ msgs' = AddMessages(msgs, new, {})
        /\ fresh' = fresh + 1 + n
  /\ node' = After(msgs') /\ left' = left - 1
  /\ outcome' = IF node' = "idle" THEN "done" ELSE outcome
  /\ UNCHANGED <<abort, turn, prompt, asked, compactions>>

\* The ToolNode runs all calls; an aborted one has a result too.
RunTools ==
  /\ node = "tools" /\ left >= 0
  /\ LET calls == Last(msgs).calls
     IN /\ msgs' = AddMessages(msgs, [j \in DOMAIN calls |-> Tool(fresh + j - 1, calls[j], turn)], {})
        /\ fresh' = fresh + Len(calls)
  /\ node' = "before" /\ left' = left - 1
  /\ UNCHANGED <<abort, turn, prompt, outcome, asked, compactions>>

Next ==
  \/ \E id \in {fresh} \cup Range(asked), limit \in RecursionLimits : Query(id, limit)
  \/ \E r \in (IF compactions < MaxCompactions THEN 0..Len(msgs) ELSE {0}), sum \in BOOLEAN :
       (r = 0 => sum) /\ BeforeAgent(r, sum)
  \/ \E n \in 0..MaxCalls : Answer(n)
  \/ CallSkipped \/ CallModel \/ RunTools
  \/ Abort \/ Fails \/ LimitReached

Spec == Init /\ [][Next]_vars

---------------------------------------------------------------------------
\* Every prompt pairs tool calls and results, whatever crash, failure, abort,
\* resend or compaction the history has gone through.
PromptPaired == Paired(prompt)

\* Without compaction the checkpoint itself has been repaired when the model is
\* called.
HistoryRepaired == node \in {"agent", "model"} /\ compactions = 0 => Paired(msgs)

\* The first prompt of a query holds its question: neither the repair nor the
\* compaction loses what the user has just said.
QuestionAsked ==
  node = "model" /\ (\A i \in DOMAIN msgs : msgs[i].type = "ai" => msgs[i].turn # turn)
    => \E i \in DOMAIN prompt : prompt[i].type = "human" /\ prompt[i].turn = turn

\* What a message says, without its id, for the messages that were not invented.
Contents(s) ==
  FlattenSeq([i \in DOMAIN s |-> IF s[i].fake THEN <<>> ELSE <<[s[i] EXCEPT !.id = 0]>>])

\* The repair moves, copies and completes messages, but it loses, adds and swaps
\* none of those the user, the model and the tools have written.
RepairKeeps ==
  [][node = "before" /\ node' = "agent" /\ compactions' = compactions
      => Contents(msgs') = Contents(msgs)]_vars

\* A query that reaches the recursion limit leaves no call without its result
\* (a compaction takes the place of a repair, and leaves old gaps).
LimitAnswered == outcome = "limit" /\ compactions = 0 => Answered(msgs)

\* The conversation stays in the order of its queries: nothing that followed an
\* old question comes after the resent one's place.
ResendCuts ==
  \A i, j \in DOMAIN msgs :
    i < j /\ msgs[i].type = "human" /\ msgs[j].type \in {"human", "ai"} =>
      msgs[i].turn <= msgs[j].turn
=============================================================================
