---------------------------- MODULE StdioServer ----------------------------
(***************************************************************************)
(* The life of one stdio MCP server: McpServer of host/tools/mcp_server.py *)
(* with its client status, the processes it runs and the tool calls.       *)
(*                                                                         *)
(* Every process is started by _stdio_client_watcher: one by setup, which  *)
(* only reads the tools and closes it again, and one for the session that  *)
(* the tool calls share, when a call finds none.  The session store is     *)
(* used here through what SessionStore shows of it: one registered item    *)
(* (cur), and a torn-down item cancels everybody who uses it.              *)
(*                                                                         *)
(* _client_status is written by setup and by the watcher of each session,  *)
(* by a call whose session ended with an exception, and by the exit of the *)
(* context.  Nothing orders these writers but the event loop.              *)
(***************************************************************************)
EXTENDS Integers, FiniteSets

CONSTANTS
  Procs,      \* identities of server processes, reused once they are gone
  Calls,      \* tool calls; agents keep the McpTool objects they were given
  MaxEnters,  \* bound: times the context is entered
  None

VARIABLES
  status,  \* self._client_status
  ctx,     \* where _run_in_context is
  enters,  \* how often the context was entered
  st,      \* a process: "none", "spawn", "shake" (initialize), "up", "closing"
  how,     \* how a closing process came to its end
  boot,    \* the process of setup, or None
  cur,     \* the process of the session store's item, or None
  call,    \* where a tool call is
  on,      \* the process whose session it uses, or None
  errors   \* history: something other than a user's abort has gone wrong

vars == <<status, ctx, enters, st, how, boot, cur, call, on, errors>>

Init ==
  /\ status = "INIT" /\ ctx = "out" /\ enters = 0
  /\ st = [p \in Procs |-> "none"]
  /\ how = [p \in Procs |-> "return"]
  /\ boot = None /\ cur = None
  /\ call = [c \in Calls |-> "idle"]
  /\ on = [c \in Calls |-> None]
  /\ errors = FALSE

---------------------------------------------------------------------------
\* _run_in_context and _stdio_setup: the setup process is started.
Enter(p) ==
  /\ ctx = "out" /\ enters < MaxEnters /\ st[p] = "none"
  /\ ctx' = "setup" /\ enters' = enters + 1
  /\ boot' = p /\ st' = [st EXCEPT ![p] = "spawn"]
  /\ UNCHANGED <<status, how, cur, call, on, errors>>

\* The wait of _stdio_setup, once its process is gone.
SetupDone ==
  /\ ctx = "setup" /\ boot = None /\ status \in {"RUNNING", "CLOSED", "FAILED"}
  /\ ctx' = "in"
  /\ UNCHANGED <<status, enters, st, how, boot, cur, call, on, errors>>

\* The finally clause of _run_in_context.
Leave ==
  /\ ctx = "in"
  /\ ctx' = "leaving"
  /\ status' = IF status \in {"INIT", "RUNNING"} THEN "CLOSED" ELSE status
  /\ errors' = TRUE
  /\ UNCHANGED <<enters, st, how, boot, cur, call, on>>

\* A cancelled process: stdio_client reports the cancellation only from its
\* yield on, so one that is still being spawned, or that is already on its way
\* out after a return, ends like a failed one.
CancelHow(p) ==
  IF st[p] \in {"shake", "up"} THEN "cancel"
  ELSE IF st[p] = "closing" /\ how[p] \in {"cancel", "unopened"} THEN how[p] ELSE "error"

CancelCur ==
  /\ st' = [p \in Procs |-> IF p = cur THEN "closing" ELSE st[p]]
  /\ how' = [p \in Procs |-> IF p = cur THEN CancelHow(p) ELSE how[p]]
  /\ cur' = None

\* ServerSessionStore.cleanup(): every user is cancelled, and client_tasks.remove
\* turns each cancellation into a ValueError.  The count of sessions is zero
\* from here on, so _stdio_teardown does not wait for the processes.
Cleanup ==
  /\ ctx = "leaving" /\ ctx' = "teardown"
  /\ CancelCur
  /\ call' = [c \in Calls |-> IF on[c] # None THEN "error" ELSE call[c]]
  /\ on' = [c \in Calls |-> None]
  /\ UNCHANGED <<status, enters, boot, errors>>

\* _stdio_teardown: no session is left, or those a late call has opened
\* were waited for in vain for 30 s.
Teardown ==
  /\ ctx = "teardown" /\ ctx' = "out"
  /\ UNCHANGED <<status, enters, st, how, boot, cur, call, on, errors>>

---------------------------------------------------------------------------
\* The process exists and stdio_client has yielded.
Spawned(p) ==
  /\ st[p] = "spawn"
  /\ st' = [st EXCEPT ![p] = "shake"]
  /\ UNCHANGED <<status, ctx, enters, how, boot, cur, call, on, errors>>

\* _init_tool_info: RUNNING, whatever the status was.  Setup leaves its process
\* at once; a session is handed to the calls that wait for it.
Opened(p) ==
  /\ st[p] = "shake"
  /\ status' = "RUNNING"
  /\ st' = [st EXCEPT ![p] = IF p = boot THEN "closing" ELSE "up"]
  /\ how' = [how EXCEPT ![p] = "return"]
  /\ call' = [c \in Calls |-> IF on[c] = p THEN "use" ELSE call[c]]
  /\ UNCHANGED <<ctx, enters, boot, cur, on, errors>>

\* The command cannot be started, or initialize fails or times out.
OpenFails(p) ==
  /\ st[p] \in {"spawn", "shake"}
  /\ st' = [st EXCEPT ![p] = "closing"]
  /\ how' = [how EXCEPT ![p] = "unopened"]
  /\ errors' = TRUE
  /\ UNCHANGED <<status, ctx, enters, boot, cur, call, on>>

\* The ping fails, the process dies or its output ends.
Breaks(p) ==
  /\ st[p] = "up"
  /\ st' = [st EXCEPT ![p] = "closing"]
  /\ how' = [how EXCEPT ![p] = "error"]
  /\ errors' = TRUE
  /\ UNCHANGED <<status, ctx, enters, boot, cur, call, on>>

\* Nobody has used the session for too long.
Idle(p) ==
  /\ st[p] = "up" /\ \A c \in Calls : on[c] # p
  /\ st' = [st EXCEPT ![p] = "closing"]
  /\ how' = [how EXCEPT ![p] = "return"]
  /\ UNCHANGED <<status, ctx, enters, boot, cur, call, on, errors>>

\* The end of _stdio_client_watcher.
StatusAfter(p) ==
  IF how[p] \in {"error", "unopened"} /\ status # "CLOSED" THEN "FAILED" ELSE status

\* The process is gone.  If its item is still registered the session's watcher
\* removes it now and cancels its users; those of a session that never opened
\* are given the RuntimeError that the empty context raised.
Gone(p) ==
  /\ st[p] = "closing"
  /\ st' = [st EXCEPT ![p] = "none"]
  /\ status' = StatusAfter(p)
  /\ boot' = IF boot = p THEN None ELSE boot
  /\ cur' = IF cur = p THEN None ELSE cur
  /\ call' = [c \in Calls |-> IF on[c] # p THEN call[c]
                              ELSE IF how[p] = "unopened" THEN "error" ELSE "cancelled"]
  /\ on' = [c \in Calls |-> IF on[c] = p THEN None ELSE on[c]]
  /\ UNCHANGED <<ctx, enters, how, errors>>

---------------------------------------------------------------------------
\* McpTool._arun without a session: a new process, whatever the status is.
CallOpens(c, p) ==
  /\ call[c] = "idle" /\ enters > 0 /\ cur = None /\ st[p] = "none"
  /\ cur' = p /\ st' = [st EXCEPT ![p] = "spawn"]
  /\ call' = [call EXCEPT ![c] = "wait"]
  /\ on' = [on EXCEPT ![c] = p]
  /\ UNCHANGED <<status, ctx, enters, how, boot, errors>>

\* With one: it is shared, also while its process is on its way out.
CallJoins(c) ==
  /\ call[c] = "idle" /\ cur # None
  /\ call' = [call EXCEPT ![c] =
                IF st[cur] = "up" \/ (st[cur] = "closing" /\ how[cur] # "unopened")
                THEN "use" ELSE "wait"]
  /\ on' = [on EXCEPT ![c] = cur]
  /\ UNCHANGED <<status, ctx, enters, st, how, boot, cur, errors>>

CallDone(c) ==
  /\ call[c] = "use"
  /\ call' = [call EXCEPT ![c] = "idle"]
  /\ on' = [on EXCEPT ![c] = None]
  /\ UNCHANGED <<status, ctx, enters, st, how, boot, cur, errors>>

\* Mutant of Cut: the session's task is not cancelled.
MutCut(c, mine, others) ==
  /\ cur' = None
  /\ call' = [d \in Calls |-> IF d = c THEN mine ELSE IF on[d] = on[c] THEN others ELSE call[d]]
  /\ on' = [d \in Calls |-> IF on[d] = on[c] THEN None ELSE on[d]]
  /\ UNCHANGED <<st, how>>

\* A call tears the session down, and everybody who uses it is cancelled.
Cut(c, mine, others) ==
  /\ CancelCur
  /\ call' = [d \in Calls |-> IF d = c THEN mine ELSE IF on[d] = on[c] THEN others ELSE call[d]]
  /\ on' = [d \in Calls |-> IF on[d] = on[c] THEN None ELSE on[d]]

\* The call raises: the item keeps the exception, and the others raise it too.
CallFails(c) ==
  /\ call[c] = "use"
  /\ Cut(c, "error", "error")
  /\ errors' = TRUE
  /\ UNCHANGED <<status, ctx, enters, boot>>


\* The user aborts the chat of the call.
CallAborted(c) ==
  /\ call[c] \in {"wait", "use"}
  /\ Cut(c, "idle", "cancelled")
  /\ UNCHANGED <<status, ctx, enters, boot, errors>>

\* The CancelledError of another call's teardown: "<user_aborted>".
CallCancelled(c) ==
  /\ call[c] = "cancelled"
  /\ call' = [call EXCEPT ![c] = "idle"]
  /\ UNCHANGED <<status, ctx, enters, st, how, boot, cur, on, errors>>

\* _session_ctx_mgr_wrapper sees the exception: for stdio every exception asks
\* for a restart.
CallErrors(c) ==
  /\ call[c] = "error"
  /\ call' = [call EXCEPT ![c] = "idle"]
  /\ status' = IF status = "RUNNING" THEN "RESTARTING" ELSE status
  /\ UNCHANGED <<ctx, enters, st, how, boot, cur, on, errors>>

---------------------------------------------------------------------------
Context == SetupDone \/ Leave \/ Cleanup \/ Teardown \/ \E p \in Procs : Enter(p)

Process(p) ==
  Spawned(p) \/ Opened(p) \/ OpenFails(p) \/ Breaks(p) \/ Idle(p) \/ Gone(p)

ToolCall(c) ==
  \/ CallJoins(c) \/ CallDone(c) \/ CallFails(c) \/ CallAborted(c)
  \/ CallCancelled(c) \/ CallErrors(c)
  \/ \E p \in Procs : CallOpens(c, p)

Next ==
  \/ Context
  \/ \E p \in Procs : Process(p)
  \/ \E c \in Calls : ToolCall(c)

Spec == Init /\ [][Next]_vars

\* Setup and sessions come up or fail within initial_timeout, a process is
\* terminated within a few seconds, exceptions travel.  Nobody has to make
\* or end a call, and the context may stay entered for ever.
Fairness ==
  /\ WF_vars(SetupDone) /\ WF_vars(Cleanup) /\ WF_vars(Teardown)
  /\ \A p \in Procs : /\ WF_vars(Spawned(p)) /\ WF_vars(Opened(p) \/ OpenFails(p))
                      /\ WF_vars(Gone(p))
  /\ \A c \in Calls : WF_vars(CallCancelled(c)) /\ WF_vars(CallErrors(c))

FairSpec == Spec /\ Fairness

---------------------------------------------------------------------------
\* "Only one session can exist at a time for a McpStdioServer instance"
\* (_stdio_session): at most one process serves or will serve a session, and it
\* is the one the next call would use.  All others are being terminated.
OneSession ==
  \A p \in Procs : st[p] \in {"spawn", "shake", "up"} => p \in {cur, boot}

\* A call that waits gets the session, an exception or its cancellation.
CallAnswered == \A c \in Calls : call[c] = "wait" ~> call[c] # "wait"

\* Entering the context ends, with the tools or with a failure.  The exception is
\* a server that becomes RESTARTING before setup looks: a call of another chat can
\* already use the tools while setup still closes its process, and fail.
SetupEnds == ctx = "setup" ~> ctx = "in" \/ status = "RESTARTING"

\* As long as a user's aborts are all that has happened, whatever state they fall
\* into, no exception reaches the wrapper that marks the server RESTARTING: the
\* agent never loses its tools to a restart that nobody performs.
AbortNeverRestarts == ~errors => status # "RESTARTING"

=============================================================================
