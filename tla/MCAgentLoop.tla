---------------------------- MODULE MCAgentLoop ----------------------------
(***************************************************************************)
(* The agent for TLC: the graph on the messages of a chat (AgentLoop), and *)
(* what the model is given of messages with files (PromptFiles).  Every    *)
(* behaviour is of one of them; `served` says of which.                    *)
(***************************************************************************)
EXTENDS AgentLoop

CONSTANTS Models, Uploads, KindOf, MaxFiles, MaxPrompts, MaxQuestions, MaxGone

ASSUME FilesAssumption == MaxFiles \in Nat

\* A picture, a text that is stored already under the name of the picture, a PDF.
SomeFiles == {[content |-> "c1", name |-> "a.png"], [content |-> "c1", name |-> "b.txt"],
              [content |-> "c2", name |-> "c.pdf"]}
SuffixOf(name) == CASE name = "a.png" -> "image" [] name = "c.pdf" -> "pdf" [] OTHER -> "text"
KindOfName == [name \in {f.name : f \in SomeFiles} |-> SuffixOf(name)]

Known(name, v, urls, tools) == [name |-> name, v |-> v, urls |-> urls, tools |-> tools]
GPT == Known("other", FALSE, TRUE, TRUE)
SomeModels == {GPT, Known("glm", FALSE, TRUE, TRUE), Known("glm", TRUE, FALSE, FALSE)}

VARIABLES served, model, plugin, disk, thread, sent, given, step, gone, prompts

Files == INSTANCE PromptFiles WITH Files <- Uploads, msgs <- thread, prompt <- given

fileVars == <<model, plugin, disk, thread, sent, given, step, gone, prompts>>

AllInit ==
  /\ served \in {"graph", "files"} /\ Init
  /\ IF served = "files" THEN Files!PromptInit
     ELSE /\ model = GPT /\ plugin = FALSE
          /\ disk = <<>> /\ thread = <<>> /\ sent = <<>> /\ given = <<>> /\ step = "idle"
          /\ gone = 0 /\ prompts = 0

AllNext ==
  \/ served = "graph" /\ Next /\ UNCHANGED <<served, fileVars>>
  \/ served = "files" /\ Files!PromptNext /\ UNCHANGED <<served, vars>>

AllSpec == AllInit /\ [][AllNext]_<<served, vars, fileVars>>

---------------------------------------------------------------------------
\* The checkpoint is repaired when the model is called and when the recursion limit
\* ends a query, unless it was compacted, and what the user said is neither lost from
\* the prompt nor moved (tool_call_order, _check_more_steps_needed,
\* compact_conversation, _remove_messages_for_resend).
HistoryKept == HistoryRepaired /\ LimitAnswered /\ QuestionAsked /\ ResendCuts

\* The prompt holds every message, and the files of the question
\* (FileMsgConverter, drop_empty_messages, _strip_non_text_content).
PromptShows == Files!PromptShows
=============================================================================
