----------------------------- MODULE HttpServer -----------------------------
(***************************************************************************)
(* The life of one remote MCP server, by HTTP, and its cached prompts      *)
(* (McpServer of host/tools/mcp_server.py: _http_setup, _http_session,     *)
(* _message_handler, _refresh_prompts).                                    *)
(*                                                                         *)
(* The setup opens a session, lists what the server has and closes it.     *)
(* Later sessions are those of chats, kept by the session store; any open  *)
(* one hears that the list of prompts has changed, upon which one task     *)
(* asks for it.  A list is the number of changes it has seen.              *)
(***************************************************************************)
EXTENDS Naturals

CONSTANTS
  Chats,       \* chats with a session, and the one that refreshes use
  Refresher,
  MaxEnters,   \* bound: times the context is entered
  MaxChanges   \* bound: changes of the list by the server

VARIABLES
  status,    \* self._client_status
  at,        \* where _run_in_context is
  enters,
  offered,   \* the server's own list of prompts
  supports,  \* the server advertised prompts when it was last initialized
  listed,    \* what the setup was told
  prompts,   \* self._prompts
  refresh,   \* self._refresh_prompts_task
  answer,    \* what it was told
  open,      \* chats that have a session
  missed     \* a change was not heard, or not acted on

vars == <<status, at, enters, offered, supports, listed, prompts, refresh, answer, open, missed>>

Init ==
  /\ status = "INIT" /\ at = "out" /\ enters = 0
  /\ offered = 0 /\ supports = FALSE /\ listed = 0 /\ prompts = 0
  /\ refresh = "none" /\ answer = 0 /\ open = {} /\ missed = TRUE

---------------------------------------------------------------------------
\* _run_in_context: the status is that of the last time.
Enter ==
  /\ at = "out" /\ enters < MaxEnters
  /\ at' = "connect" /\ enters' = enters + 1
  /\ UNCHANGED <<status, offered, supports, listed, prompts, refresh, answer, open, missed>>

\* _http_init_client without a stored token or with a wrong one is UNAUTHORIZED; any
\* other error of a step, also of the closing of the session, is FAILED.  Either way
\* the context is entered.
SetupFails(s) ==
  /\ at \in {"connect", "list", "close"}
  /\ s = "FAILED" \/ at # "close"
  /\ status' = s /\ at' = "in"
  /\ UNCHANGED <<enters, offered, supports, listed, prompts, refresh, answer, open, missed>>

\* initialize() says whether there are prompts, and then they are listed.
SetupInitialized(has) ==
  /\ at = "connect"
  /\ at' = "list" /\ supports' = has /\ listed' = IF has THEN offered ELSE 0
  /\ missed' = FALSE
  /\ UNCHANGED <<status, enters, offered, prompts, refresh, answer, open>>

\* The end of _init_tool_info.
SetupListed ==
  /\ at = "list"
  /\ at' = "close" /\ prompts' = listed /\ status' = "RUNNING"
  /\ UNCHANGED <<enters, offered, supports, listed, refresh, answer, open, missed>>

SetupDone ==
  /\ at = "close"
  /\ at' = "in" /\ status' = "RUNNING"
  /\ UNCHANGED <<enters, offered, supports, listed, prompts, refresh, answer, open, missed>>

---------------------------------------------------------------------------
\* Whether a message of the server reaches the handler.
Heard == at \in {"list", "close"} \/ open # {}

\* _schedule_refresh_prompts: whether a notification starts a task.
Schedules == status = "RUNNING" /\ refresh = "none"

\* A notification while a task has not been answered yet is served by that task.
PromptsChange ==
  /\ offered < MaxChanges
  /\ offered' = offered + 1
  /\ IF Heard /\ Schedules
     THEN refresh' = "start" /\ UNCHANGED missed
     ELSE /\ missed' = (missed \/ ~Heard \/ refresh \notin {"start", "ask"})
          /\ UNCHANGED refresh
  /\ UNCHANGED <<status, at, enters, supports, listed, prompts, answer, open>>

\* list_prompts(use_cache=False): the session of the refresher, which may need the user
\* to authorize and then waits for that.  Without prompts there is no query.
RefreshOpens ==
  /\ refresh = "start"
  /\ IF supports THEN refresh' = "ask" /\ open' = open \cup {Refresher} /\ UNCHANGED answer
     ELSE refresh' = "save" /\ answer' = 0 /\ UNCHANGED open
  /\ UNCHANGED <<status, at, enters, offered, supports, listed, prompts, missed>>

RefreshAnswered ==
  /\ refresh = "ask" /\ Refresher \in open
  /\ refresh' = "save" /\ answer' = offered
  /\ UNCHANGED <<status, at, enters, offered, supports, listed, prompts, open, missed>>

RefreshFails ==
  /\ refresh \in {"start", "ask"}
  /\ refresh' = "none" /\ missed' = TRUE
  /\ UNCHANGED <<status, at, enters, offered, supports, listed, prompts, answer, open>>

RefreshSaves ==
  /\ refresh = "save"
  /\ refresh' = "none" /\ prompts' = answer
  /\ UNCHANGED <<status, at, enters, offered, supports, listed, answer, open, missed>>

---------------------------------------------------------------------------
\* _http_session through the session store.  A session that is open is used again.
Open(c) ==
  /\ at = "in" /\ c \notin open
  /\ open' = open \cup {c}
  /\ UNCHANGED <<status, at, enters, offered, supports, listed, prompts, refresh, answer, missed>>

\* A session ends when it breaks or is not used any more; its errors leave the status.
Close(c) ==
  /\ c \in open
  /\ open' = open \ {c}
  /\ UNCHANGED <<status, at, enters, offered, supports, listed, prompts, refresh, answer, missed>>

---------------------------------------------------------------------------
\* The finally clause of _run_in_context.
Leave ==
  /\ at = "in" /\ at' = "leave"
  /\ status' = IF status \in {"INIT", "RUNNING"} THEN "CLOSED" ELSE status
  /\ UNCHANGED <<enters, offered, supports, listed, prompts, refresh, answer, open, missed>>

\* Mutant: the running task is left to itself.
MutLeaveCancels ==
  /\ at = "leave" /\ at' = "cleanup"
  /\ UNCHANGED <<status, enters, offered, supports, listed, prompts, refresh, answer, open, missed>>
\* The task is cancelled and awaited; what it was told may be saved before.
LeaveCancels ==
  /\ at = "leave" /\ at' = "cleanup"
  /\ refresh' = "none"
  /\ UNCHANGED <<status, enters, offered, supports, listed, prompts, answer, open, missed>>

\* The store closes every session; _http_teardown does nothing.
LeaveCleans ==
  /\ at = "cleanup" /\ at' = "out"
  /\ open' = {}
  /\ UNCHANGED <<status, enters, offered, supports, listed, prompts, refresh, answer, missed>>

Next ==
  \/ Enter \/ SetupListed \/ SetupDone
  \/ \E s \in {"FAILED", "UNAUTHORIZED"} : SetupFails(s)
  \/ \E has \in BOOLEAN : SetupInitialized(has)
  \/ PromptsChange \/ RefreshOpens \/ RefreshAnswered \/ RefreshFails \/ RefreshSaves
  \/ \E c \in Chats : Open(c) \/ Close(c)
  \/ Leave \/ LeaveCancels \/ LeaveCleans

---------------------------------------------------------------------------
\* A running server shows the prompts that it has, but for changes that nobody could
\* hear, or that came when the task for an earlier one had its answer or failed
\* (_schedule_refresh_prompts: the running task picks up whatever the server has).
PromptsFresh ==
  at = "in" /\ status = "RUNNING" /\ supports /\ refresh = "none" /\ ~missed => prompts = offered

\* No task of an earlier entry can write to the server when it is left or entered again.
RefreshInside == at \in {"cleanup", "out", "connect", "list"} => refresh = "none"
=============================================================================
