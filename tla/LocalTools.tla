----------------------------- MODULE LocalTools -----------------------------
(***************************************************************************)
(* The tools of the server itself that change something: bash, write_file, *)
(* edit_file, add_mcp_server and reload_mcp_server, with                   *)
(* request_confirmation (internal_tools/tools).                            *)
(*                                                                         *)
(* Calls of tools run side by side.  A call asks the user what it needs to *)
(* know, one question after the other; the wait for an answer also ends by *)
(* a timeout or by the abort of its chat (Elicitation has the details).    *)
(* Then it checks the abort once more and acts.  The task of a call may be *)
(* cancelled where it awaits something that lets it.                       *)
(*                                                                         *)
(* There is one file, a sequence of words.  The servers that are           *)
(* configured are named by the calls that add them.                        *)
(***************************************************************************)
EXTENDS Naturals, Sequences, FiniteSets, SequencesExt

CONSTANTS
  Tools,      \* calls of tools
  Words,      \* words of the file
  MaxWords    \* bound: words in the file at the start

VARIABLES
  tool,    \* what a call is and where
  abort,   \* calls whose chat was aborted
  given,   \* the questions of each call that the user said yes to
  file,
  proc,    \* the process of each call
  saved,   \* servers in the configuration file
  post     \* configurations that were sent to the server and are not handled yet

vars == <<tool, abort, given, file, proc, saved, post>>

NoTool == [kind |-> "none", at |-> "idle", needs |-> <<>>, asks |-> <<>>, answer |-> "none",
           read |-> <<>>, known |-> {}, edit |-> <<>>, reply |-> "none"]

\* A call that asks for one confirmation.
Asking == [NoTool EXCEPT !.at = "next", !.needs = <<"confirm">>, !.asks = <<"confirm">>]

Contents == UNION {[1..n -> Words] : n \in 0..MaxWords}
Start(t) == tool[t].at = "idle" /\ t \notin abort

Init ==
  /\ tool = [t \in Tools |-> NoTool]
  /\ abort = {} /\ given = [t \in Tools |-> {}]
  /\ file \in Contents
  /\ proc = [t \in Tools |-> "none"]
  /\ saved = {} /\ post = {}

\* The call returns; of what it knew, only what it had read of the configuration counts.
Over(t, reply) ==
  [tool EXCEPT ![t] = [NoTool EXCEPT !.kind = tool[t].kind, !.known = tool[t].known, !.at = "over", !.reply = reply]]

---------------------------------------------------------------------------
\* _edit_text: old must be there, and once unless all are replaced.
Replaceable(content, e) ==
  LET n == Cardinality({i \in DOMAIN content : content[i] = e.old})
  IN n >= 1 /\ (n = 1 \/ e.all)

EditText(content, e) == [i \in DOMAIN content |-> IF content[i] = e.old THEN e.new ELSE content[i]]

\* bash: a command that writes asks even when told not to, sudo asks for the password.
StartBash(t, asks) ==
  /\ Start(t)
  /\ tool' = [tool EXCEPT ![t] = [NoTool EXCEPT !.kind = "bash", !.at = "next", !.needs = asks, !.asks = asks]]
  /\ UNCHANGED <<abort, given, file, proc, saved, post>>

\* write_file, which overwrites or appends, and request_confirmation, which only asks.
StartAsking(t, kind) ==
  /\ Start(t)
  /\ tool' = [tool EXCEPT ![t] = [Asking EXCEPT !.kind = kind]]
  /\ UNCHANGED <<abort, given, file, proc, saved, post>>

\* edit_file reads the file, and refuses an edit that is not in it, before it asks.
StartEdit(t, e) ==
  /\ Start(t)
  /\ tool' = [tool EXCEPT ![t] =
       IF Replaceable(file, e)
       THEN [Asking EXCEPT !.kind = "edit", !.read = file, !.edit = e]
       ELSE [NoTool EXCEPT !.kind = "edit", !.at = "over", !.reply = "error"]]
  /\ UNCHANGED <<abort, given, file, proc, saved, post>>

\* add_mcp_server and reload_mcp_server read the configuration and send all of it back;
\* where no server listens, nothing is sent, and what is added not saved.
StartServer(t, kind) ==
  /\ Start(t)
  /\ \/ /\ tool' = [tool EXCEPT ![t] = [NoTool EXCEPT !.kind = kind, !.at = "post", !.known = saved]]
        /\ post' = post \cup {t}
     \/ /\ tool' = [tool EXCEPT ![t] = [NoTool EXCEPT !.kind = kind, !.at = "over", !.reply = "later"]]
        /\ UNCHANGED post
  /\ UNCHANGED <<abort, given, file, proc, saved>>

---------------------------------------------------------------------------
\* Mutant: the user's answer alone decides.
MutMayAct(t) == TRUE
\* The abort is checked again before a call acts.
MayAct(t) == t \notin abort

Written(t) ==
  CASE tool[t].kind = "write" -> <<t>>
    [] tool[t].kind = "append" -> Append(file, t)
    [] tool[t].kind = "edit" -> EditText(tool[t].read, tool[t].edit)
    [] OTHER -> file

\* The next question, or the act; the file is written at once.
Goes(t) ==
  /\ tool[t].at = "next"
  /\ \/ /\ tool[t].asks # <<>>
        /\ tool' = [tool EXCEPT ![t].at = "ask", ![t].answer = "none"]
        /\ UNCHANGED <<file, proc>>
     \/ /\ tool[t].asks = <<>> /\ ~MayAct(t) /\ tool[t].kind # "confirm"
        /\ tool' = Over(t, "aborted")
        /\ UNCHANGED <<file, proc>>
     \/ /\ tool[t].asks = <<>> /\ MayAct(t) /\ tool[t].kind = "bash"
        /\ tool' = [tool EXCEPT ![t].at = "run"]
        /\ proc' = [proc EXCEPT ![t] = "running"]
        /\ UNCHANGED file
     \/ /\ tool[t].asks = <<>> /\ (MayAct(t) \/ tool[t].kind = "confirm") /\ tool[t].kind # "bash"
        /\ tool' = Over(t, "done")
        /\ file' = Written(t)
        /\ UNCHANGED proc
  /\ UNCHANGED <<abort, given, saved, post>>

\* The user answers, or nobody does in time.
Answer(t, a) ==
  /\ tool[t].at = "ask"
  /\ tool' = [tool EXCEPT ![t].at = "drain", ![t].answer = a]
  /\ given' = [given EXCEPT ![t] = IF a = "accept" THEN @ \cup {Head(tool[t].asks)} ELSE @]
  /\ UNCHANGED <<abort, file, proc, saved, post>>

\* The abort ends the wait.
AskAborted(t) ==
  /\ tool[t].at = "ask" /\ t \in abort
  /\ tool' = [tool EXCEPT ![t].at = "drain", ![t].answer = "cancel"]
  /\ UNCHANGED <<abort, given, file, proc, saved, post>>

\* A password that is empty is no agreement.
Agreed(t) == tool[t].answer = "accept"

\* The request returns.
Answered(t) ==
  /\ tool[t].at = "drain"
  /\ \/ /\ Agreed(t)
        /\ tool' = [tool EXCEPT ![t].at = "next", ![t].asks = Tail(@)]
     \/ /\ ~Agreed(t) \/ Head(tool[t].asks) = "password"
        /\ tool' = Over(t, "cancelled")
  /\ UNCHANGED <<abort, given, file, proc, saved, post>>

---------------------------------------------------------------------------
\* The process ends by itself.
Exits(t) ==
  /\ proc[t] = "running"
  /\ proc' = [proc EXCEPT ![t] = "ended"]
  /\ UNCHANGED <<tool, abort, given, file, saved, post>>

\* wait_with_abort: one of the three tasks is done; the others are cancelled and
\* awaited, and those waits swallow a cancellation of the call.
Wakes(t) ==
  /\ tool[t].at = "run"
  /\ \/ t \in abort /\ tool' = [tool EXCEPT ![t].at = "stop", ![t].reply = "aborted"]
     \/ t \notin abort /\ tool' = [tool EXCEPT ![t].at = "stop", ![t].reply = "timeout"]
     \/ t \notin abort /\ proc[t] = "ended"
        /\ tool' = Over(t, "done")
  /\ UNCHANGED <<abort, given, file, proc, saved, post>>

\* Mutant: only a command that is aborted is killed.
MutStops(t) ==
  /\ tool[t].at = "stop"
  /\ tool' = Over(t, tool[t].reply)
  /\ proc' = [proc EXCEPT ![t] = IF tool[t].reply = "aborted" THEN "ended" ELSE @]
  /\ UNCHANGED <<abort, given, file, saved, post>>
\* kill_process_tree
Stops(t) ==
  /\ tool[t].at = "stop"
  /\ tool' = Over(t, tool[t].reply)
  /\ proc' = [proc EXCEPT ![t] = "ended"]
  /\ UNCHANGED <<abort, given, file, saved, post>>

---------------------------------------------------------------------------
\* The configuration that a call sends.
Sent(t) == IF tool[t].kind = "add" THEN tool[t].known \cup {t} ELSE tool[t].known

\* POST /config/mcpserver replaces the configuration and reloads the servers: the one
\* asked for is loaded or has an error.  Or the request is refused.
PostHandled(t, reply) ==
  /\ t \in post
  /\ post' = post \ {t}
  /\ saved' = IF reply = "refused" THEN saved ELSE Sent(t)
  /\ tool' = IF tool[t].at = "post" THEN Over(t, reply) ELSE tool
  /\ UNCHANGED <<abort, given, file, proc>>

\* The call waits 30 s for that; the server handles the request all the same.
PostTimeout(t) ==
  /\ tool[t].at = "post"
  /\ tool' = Over(t, "manual")
  /\ UNCHANGED <<abort, given, file, proc, saved, post>>

---------------------------------------------------------------------------
Abort(t) ==
  /\ t \notin abort /\ tool[t].at \notin {"idle", "over"}
  /\ abort' = abort \cup {t}
  /\ UNCHANGED <<tool, given, file, proc, saved, post>>

\* The task of a call is cancelled.  Nobody then stops its process.
Cancelled(t) ==
  /\ tool[t].at \in {"ask", "run", "post"}
  /\ tool' = Over(t, "killed")
  /\ UNCHANGED <<abort, given, file, proc, saved, post>>

Moves(t) == Goes(t) \/ AskAborted(t) \/ Answer(t, "timeout") \/ Answered(t) \/ Wakes(t) \/ Stops(t) \/ PostTimeout(t)

Next ==
  \/ \E t \in Tools :
       \/ \E asks \in {<<>>, <<"confirm">>, <<"confirm", "password">>} : StartBash(t, asks)
       \/ \E kind \in {"write", "append", "confirm"} : StartAsking(t, kind)
       \/ \E old \in Words, all \in BOOLEAN : StartEdit(t, [old |-> old, new |-> t, all |-> all])
       \/ \E kind \in {"add", "reload"} : StartServer(t, kind)
       \/ Moves(t) \/ Exits(t) \/ Abort(t) \/ Cancelled(t)
       \/ \E a \in {"accept", "decline", "cancel"} : Answer(t, a)
       \/ \E reply \in {"loaded", "failed", "refused"} : PostHandled(t, reply)

Spec == Init /\ [][Next]_vars

\* A call that can go on does: the event loop runs, and waits have timeouts.
Fairness == WF_vars(\E t \in Tools : Moves(t))

---------------------------------------------------------------------------
\* A tool writes the file or starts a command only when the user said yes to each of
\* its questions and the chat was not aborted meanwhile (execute_bash, execute_write,
\* edit_file).
Consent ==
  [][\A t \in Tools :
       (\/ proc[t] # "running" /\ proc'[t] = "running"
        \/ tool[t].kind \in {"write", "append", "edit"} /\ tool[t].at = "next" /\ tool'[t].reply = "done")
       => t \notin abort /\ Range(tool[t].needs) \subseteq given[t]]_vars

\* A command that timed out or was aborted is gone when its call returns; only the
\* cancellation of a call leaves one behind (wait_with_abort).
NoProcessLeft ==
  \A t \in Tools : tool[t].at = "over" /\ tool[t].reply # "killed" => proc[t] # "running"

\* A server that was reported as loaded is configured, unless a call that had read the
\* configuration before sent it back afterwards (add_mcp_server, reload_mcp_server).
LoadedKept ==
  \A t \in Tools : tool[t].kind = "add" /\ tool[t].reply = "loaded" /\ t \notin saved =>
    \E u \in Tools \ {t} : tool[u].kind \in {"add", "reload"} /\ t \notin tool[u].known

\* Every call of a tool ends, whatever the user and the command do; each is made once.
ToolsEnd == <>[](\A t \in Tools : tool[t].at \in {"idle", "over"})
=============================================================================
