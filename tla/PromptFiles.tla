----------------------------- MODULE PromptFiles -----------------------------
(***************************************************************************)
(* What the model is given of a conversation with files: the upload to the *)
(* store (StoreManager, LocalStore, and one plugin that also uploads to a  *)
(* URL), the lists of files of a question, and the stages that prepare the *)
(* messages for a call of the model (ChatAgentFactory._call_model,         *)
(* FileMsgConverter, tools_in_prompt).                                     *)
(*                                                                         *)
(* A message is its type, the form of its content (a string or a list), a  *)
(* sequence of blocks, its files and its tool calls.  A location is a      *)
(* local path or a URL.  Compressing, encoding and wording are left out.   *)
(***************************************************************************)
EXTENDS Integers, Sequences, FiniteSets, SequencesExt, FiniteSetsExt

CONSTANTS
  Models,     \* [urls: takes URLs and PDFs, name: of a family, v: in its version, tools: binds tools]
  Files,      \* files that are uploaded: [content, name]
  KindOf,     \* what the suffix of a name says: "image", "text", "pdf" or "other"
  MaxFiles,   \* bound: files that are uploaded
  MaxPrompts, \* bound: calls of the model
  MaxQuestions, \* bound: questions
  MaxGone     \* bound: how often files vanish

VARIABLES
  model,   \* the model of the chat
  plugin,  \* whether a plugin uploads files as well
  disk,    \* the upload directory: contents to the name they are stored by
  msgs,    \* the messages of the thread
  sent,    \* the files of each question as its row in the database has them
  prompt,  \* what the model is being given
  step,    \* "idle", "agent", "model" or "tools"
  gone, prompts

promptVars == <<model, plugin, disk, msgs, sent, prompt, step, gone, prompts>>

NoLoc == [at |-> "none", content |-> "none", name |-> "none"]
Local(c) == [at |-> "local", content |-> c, name |-> disk[c]]
Url(f) == [at |-> "url", content |-> f.content, name |-> f.name]
Block(what, of, url) == [what |-> what, of |-> of, url |-> url]
Text == Block("text", NoLoc, NoLoc)

Message(type, form, blocks, images, docs, calls) ==
  [type |-> type, form |-> form, blocks |-> blocks, images |-> images, docs |-> docs,
   calls |-> calls, long |-> FALSE]

PromptInit ==
  /\ model \in Models
  /\ plugin \in BOOLEAN
  /\ disk = <<>> /\ msgs = <<>> /\ sent = <<>> /\ prompt = <<>> /\ step = "idle"
  /\ gone = 0 /\ prompts = 0

---------------------------------------------------------------------------
(* Files.                                                                 *)

\* LocalStore.save_file of the files one by one: what is stored already keeps its
\* name, whatever this file is called.
Saved(fs) ==
  [c \in DOMAIN disk \cup {fs[i].content : i \in DOMAIN fs} |->
     IF c \in DOMAIN disk THEN disk[c]
     ELSE fs[Min({i \in DOMAIN fs : fs[i].content = c})].name]

\* save_files: the local path, then the URL unless the plugin has failed.
Places(f, failed) ==
  <<[at |-> "local", content |-> f.content, name |-> disk'[f.content]]>>
    \o (IF plugin /\ ~failed THEN <<Url(f)>> ELSE <<>>)

\* upload_files: images and the others, each with its places in turn.
IsImage(l) == KindOf[l.name] = "image"
Listed(fs, failed, image) ==
  FlattenSeq([i \in DOMAIN fs |->
    LET places == Places(fs[i], i \in failed)
    IN IF IsImage(places[1]) = image THEN places ELSE <<>>])

\* The file system has the path: a URL is none.
Exists(l) == l.at = "local" /\ l.content \in DOMAIN disk /\ disk[l.content] = l.name

\* Mutant: the first path alone decides.
MutUsingOap(l) == Len(l) >= 2 /\ Len(l) % 2 = 0 /\ Exists(l[1])
\* _is_using_oap
UsingOap(l) == Len(l) >= 2 /\ Len(l) % 2 = 0 /\ Exists(l[1]) /\ l[2].at = "url"

\* Each file of a list with its URL.
Entries(l) ==
  IF UsingOap(l) THEN [i \in 1..(Len(l) \div 2) |-> <<l[2 * i - 1], l[2 * i]>>]
  ELSE [i \in DOMAIN l |-> <<l[i], NoLoc>>]

\* _process_history_message: the images and documents of a row are told apart again
\* by the suffix of the path.
Divided(l, image) ==
  FlattenSeq([i \in DOMAIN Entries(l) |->
    LET e == Entries(l)[i]
    IN IF IsImage(e[1]) # image THEN <<>> ELSE IF e[2] = NoLoc THEN <<e[1]>> ELSE e])

---------------------------------------------------------------------------
(* The stages before the model.                                           *)

Info(e) == Block("info", e[1], e[2])
\* An empty block stands where a file could not be read.
None == Block("none", NoLoc, NoLoc)

\* _gen_image_msg, _gen_image_msg_oap
ImageBlocks(e) ==
  <<IF e[2] # NoLoc /\ model.urls THEN Block("url", e[1], e[2])
    ELSE IF Exists(e[1]) THEN Block("image", e[1], NoLoc) ELSE None,
    Info(e)>>

\* _gen_document_msg
DocumentBlocks(e) ==
  IF KindOf[e[1].name] = "text"
    THEN <<IF Exists(e[1]) THEN Block("doctext", e[1], NoLoc) ELSE None, Info(e)>>
  ELSE IF KindOf[e[1].name] = "pdf" /\ model.urls /\ Exists(e[1])
    THEN <<Block("pdf", e[1], NoLoc), Info(e)>>
  ELSE <<Info(e)>>

\* FileMsgConverter._structure_msgs extends the content of the message itself, which
\* is the one of the thread.
WithFiles(m) ==
  LET images == Entries(m.images)
      docs == Entries(m.docs)
  IN IF m.type # "human" THEN m
     ELSE [m EXCEPT !.blocks = @ \o FlattenSeq([i \in DOMAIN images |-> ImageBlocks(images[i])])
                                 \o FlattenSeq([i \in DOMAIN docs |-> DocumentBlocks(docs[i])])]

\* convert_ai_message: calls become a part of the text, but for a content that is a
\* list; a call is no longer a call.
InText(m) ==
  IF m.type = "ai" /\ m.calls > 0
    THEN [m EXCEPT !.form = "str", !.calls = 0,
            !.blocks = IF m.form = "list" THEN @
                       ELSE @ \o [i \in 1..m.calls |-> Block("call", NoLoc, NoLoc)]]
    ELSE m

\* _strip_non_text_content
Stripped(m) ==
  LET Rich(b) == b.what \in {"image", "url", "pdf", "none"}
  IN IF m.type # "human" \/ m.form = "str" \/ ~(\E i \in DOMAIN m.blocks : Rich(m.blocks[i])) THEN m
     ELSE [m EXCEPT !.form = "str",
             !.blocks = FlattenSeq([i \in DOMAIN @ |->
               IF @[i].what \in {"pdf", "none"} THEN <<>>
               ELSE IF Rich(@[i]) THEN <<Block("placeholder", NoLoc, NoLoc)>> ELSE <<@[i]>>])]

\* drop_empty_messages puts a space into them.
Filled(s) ==
  [i \in DOMAIN s |->
    IF s[i].type \in {"system", "tool"} \/ s[i].blocks # <<>> \/ s[i].calls > 0 THEN s[i]
    ELSE [s[i] EXCEPT !.form = "str", !.blocks = <<Block("space", NoLoc, NoLoc)>>]]

\* truncate_tool_results
Truncated(m) == IF m.type = "tool" /\ m.form = "str" THEN [m EXCEPT !.long = FALSE] ELSE m

System == Message("system", "str", <<Text>>, <<>>, <<>>, 0)

\* _model_supports_multimodal goes by the name of the model.
Vision == model.name = "other" \/ (model.name = "glm" /\ model.v)

\* The stages that depend on the model: _file_msg_converter, _content_filter.
Given(m) == LET f == WithFiles(m) IN IF Vision THEN f ELSE Stripped(f)

\* The pipeline of _call_model.
Prepared(s) ==
  LET withTools == IF model.tools THEN s ELSE [i \in DOMAIN s |-> InText(s[i])]
      filled == Filled(<<System>> \o [i \in DOMAIN s |-> Given(withTools[i])])
  IN [i \in DOMAIN filled |-> Truncated(filled[i])]

---------------------------------------------------------------------------
(* Actions.                                                               *)

\* _query_input_to_message with the files just uploaded.
Ask(fs, failed, text) ==
  /\ step = "idle" /\ Len(sent) < MaxQuestions
  /\ Len(fs) + FoldSeq(LAMBDA q, n : n + q.uploads, 0, sent) <= MaxFiles
  /\ disk' = Saved(fs)
  /\ LET images == Listed(fs, failed, TRUE)
         docs == Listed(fs, failed, FALSE)
     IN /\ msgs' = Append(msgs, Message("human", "list", IF text THEN <<Text>> ELSE <<>>,
                                        images, docs, 0))
        /\ sent' = Append(sent, [at |-> Len(msgs) + 1, files |-> images \o docs, text |-> text,
                                 uploads |-> Len(fs),
                                 uniform |-> failed = {} \/ failed = DOMAIN fs])
  /\ step' = "agent"
  /\ UNCHANGED <<model, plugin, prompt, gone, prompts>>

\* The retry of the last question, from its row.
Retry ==
  /\ step = "idle" /\ sent # <<>>
  /\ LET q == Last(sent)
         content == IF q.text THEN <<Text>> ELSE <<>>
     IN msgs' = Append(SubSeq(msgs, 1, q.at - 1),
          IF q.files = <<>> THEN Message("human", "str", content, <<>>, <<>>, 0)
          ELSE Message("human", "list", content, Divided(q.files, TRUE), Divided(q.files, FALSE), 0))
  /\ step' = "agent"
  /\ UNCHANGED <<model, plugin, disk, sent, prompt, gone, prompts>>

\* A file vanishes from the upload directory.
Vanish(c) ==
  /\ gone < MaxGone /\ c \in DOMAIN disk
  /\ disk' = [d \in DOMAIN disk \ {c} |-> disk[d]]
  /\ gone' = gone + 1
  /\ UNCHANGED <<model, plugin, msgs, sent, prompt, step, prompts>>

CallModel ==
  /\ step = "agent" /\ prompts < MaxPrompts
  /\ prompts' = prompts + 1
  /\ prompt' = Prepared(msgs)
  /\ msgs' = [i \in DOMAIN msgs |-> WithFiles(msgs[i])]
  /\ step' = "model"
  /\ UNCHANGED <<model, plugin, disk, sent, gone>>

\* extract_tool_calls: a call written into a text is cut from it and made a call,
\* unless it cannot be parsed.
Reply(form, text, calls, written, parsed) ==
  /\ step = "model"
  /\ LET found == form = "str" /\ written /\ parsed
         kept == written /\ ~found
     IN /\ msgs' = Append(msgs, Message("ai", form,
                     IF text \/ kept THEN <<Text>> ELSE <<>>, <<>>, <<>>,
                     calls + (IF found THEN 1 ELSE 0)))
        /\ step' = IF calls > 0 \/ found THEN "tools" ELSE "idle"
  /\ prompt' = <<>>
  /\ UNCHANGED <<model, plugin, disk, sent, gone, prompts>>

RunTools(long) ==
  /\ step = "tools"
  /\ msgs' = msgs \o [i \in 1..Last(msgs).calls |->
               [Message("tool", "str", <<Text>>, <<>>, <<>>, 0) EXCEPT !.long = long]]
  /\ step' = "agent"
  /\ UNCHANGED <<model, plugin, disk, sent, prompt, gone, prompts>>

Questions == SeqOf(Files, MaxFiles)

PromptNext ==
  \/ \E fs \in Questions, text \in BOOLEAN :
       \E failed \in (IF plugin THEN SUBSET DOMAIN fs ELSE {{}}) : Ask(fs, failed, text)
  \/ Retry \/ CallModel
  \/ \E c \in DOMAIN disk : Vanish(c)
  \/ \E form \in {"str", "list"}, text, written, parsed \in BOOLEAN :
       \E calls \in (IF model.tools THEN {0, 1} ELSE {0}) :
         (parsed => written) /\ (calls > 0 => ~written) /\ Reply(form, text, calls, written, parsed)
  \/ \E long \in BOOLEAN : RunTools(long)

---------------------------------------------------------------------------
(* Properties.                                                            *)

\* Files with their URLs keep their kind where the store has them: the name of what is
\* stored already may have another suffix.
SameKind(l) ==
  \A i \in 1..(Len(l) - 1) :
    l[i].at = "local" /\ l[i + 1].at = "url" => IsImage(l[i]) = IsImage(l[i + 1])

\* Every prompt is the conversation message by message, none of them empty, no tool
\* result too long; a model that reads only text gets only text; and each file of
\* the last question is told by its path and URL, and shown when it is there to read,
\* in the first call and in every later one, also when the question is asked again
\* from its row.  That is so as long as the plugin has uploaded all of its files or
\* none, and the first file is there or each is stored under a name of its own kind.
PromptShows ==
  step = "model" =>
    LET types(s) == [i \in DOMAIN s |-> s[i].type]
        q == Last(sent)
        shown == Range(prompt[q.at + 1].blocks)
    IN /\ types(prompt) = <<"system">> \o types(msgs)
       /\ \A i \in DOMAIN prompt :
            (prompt[i].blocks # <<>> \/ prompt[i].calls > 0) /\ ~prompt[i].long
       /\ Vision \/ \A b \in shown : b.what \notin {"image", "url", "pdf"}
       /\ q.uniform /\ (SameKind(q.files) \/ Exists(q.files[1])) => \A i \in DOMAIN q.files :
            LET l == q.files[i]
            IN /\ l.at = "local" => \E b \in shown : b.what = "info" /\ b.of = l
               /\ l.at = "url" /\ (\A j \in DOMAIN q.files : Exists(q.files[j]) \/ q.files[j].at = "url")
                    => \E b \in shown : b.what = "info" /\ b.url = l
               /\ Exists(l) /\ IsImage(l) /\ Vision
                    => \E b \in shown : b.what \in {"image", "url"} /\ b.of = l
               /\ Exists(l) /\ KindOf[l.name] = "text"
                    => \E b \in shown : b.what = "doctext" /\ b.of = l
=============================================================================
