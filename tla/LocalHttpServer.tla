-------------------------- MODULE LocalHttpServer --------------------------
(***************************************************************************)
(* The life of one local HTTP server: an MCP server that the host starts   *)
(* as a subprocess and talks to by HTTP (McpServer of                      *)
(* host/tools/mcp_server.py with host/tools/local_http_server.py).         *)
(*                                                                         *)
(* A watcher task (_local_http_process_watcher) keeps the subprocess: it   *)
(* launches it, reports RUNNING, waits for CLOSED or RESTARTING, stops it, *)
(* and launches it again.  Tool calls ask for a restart when they cannot   *)
(* connect.  The exit of the context marks the server CLOSED and cancels   *)
(* the watcher.  Stopping the subprocess suppresses CancelledError, so a   *)
(* cancellation that arrives meanwhile is lost.                            *)
(***************************************************************************)
EXTENDS Integers

CONSTANTS
  Calls,      \* tool calls
  MaxEnters,  \* bound: times the context is entered
  MaxBreaks   \* bound: times the subprocess dies by itself

VARIABLES
  status,   \* self._client_status
  ctx,      \* where _run_in_context is
  enters,
  watcher,  \* where the watcher is
  proc,     \* the subprocess is alive
  kill,     \* cancel() was called on the watcher and is not delivered yet
  cancels,  \* how often the teardown has cancelled it
  late,     \* the stop the first cancellation met is over
  retries,  \* self._retries
  call,     \* where a tool call is
  breaks

vars == <<status, ctx, enters, watcher, proc, kill, cancels, late, retries, call, breaks>>

RETRY_LIMIT == 3

Init ==
  /\ status = "INIT" /\ ctx = "out" /\ enters = 0
  /\ watcher = "none" /\ proc = FALSE /\ kill = FALSE /\ cancels = 0 /\ late = FALSE /\ retries = 0
  /\ call = [c \in Calls |-> "idle"]
  /\ breaks = 0

---------------------------------------------------------------------------
\* _run_in_context, _local_http_setup: the watcher task.
Enter ==
  /\ ctx = "out" /\ enters < MaxEnters
  /\ ctx' = "setup" /\ enters' = enters + 1
  /\ watcher' = "launch" /\ kill' = FALSE /\ cancels' = 0 /\ late' = FALSE
  /\ UNCHANGED <<status, proc, retries, call, breaks>>

\* The wait of setup.  A server that is entered again is still CLOSED from its
\* last exit, and does not wait at all.
SetupDone ==
  /\ ctx = "setup" /\ status \in {"RUNNING", "CLOSED", "FAILED"}
  /\ ctx' = "in"
  /\ UNCHANGED <<status, enters, watcher, proc, kill, cancels, late, retries, call, breaks>>

\* The finally clause: CLOSED, unless the server is RESTARTING or FAILED; then
\* a running refresh of the prompts is awaited.
Leave ==
  /\ ctx = "in" /\ ctx' = "leaving"
  /\ status' = IF status \in {"INIT", "RUNNING"} THEN "CLOSED" ELSE status
  /\ UNCHANGED <<enters, watcher, proc, kill, cancels, late, retries, call, breaks>>

\* cleanup() cancels the calls, _local_http_teardown cancels the watcher.
Teardown ==
  /\ ctx = "leaving" /\ ctx' = "teardown"
  /\ call' = [c \in Calls |-> "idle"]
  /\ kill' = TRUE /\ cancels' = 1
  /\ UNCHANGED <<status, enters, watcher, proc, late, retries, breaks>>

\* Mutant: the teardown waits without a timeout.
MutTeardownTimeout == FALSE /\ UNCHANGED vars

\* asyncio.timeout(30) cancels the teardown, and with it the watcher it awaits,
\* once.  A stop takes two waits of 10 s at most, so the one that the first
\* cancellation met is over by then.
TeardownTimeout ==
  /\ ctx = "teardown" /\ cancels = 1 /\ late /\ watcher # "none"
  /\ kill' = TRUE /\ cancels' = 2
  /\ UNCHANGED <<status, ctx, enters, watcher, proc, late, retries, call, breaks>>

TeardownDone ==
  /\ ctx = "teardown" /\ watcher = "none" /\ ctx' = "out"
  /\ UNCHANGED <<status, enters, watcher, proc, kill, cancels, late, retries, call, breaks>>

---------------------------------------------------------------------------
\* What the watcher's steps never write.
notWatcher == <<ctx, enters, cancels, call>>

\* The subprocess is started.
Launch ==
  /\ watcher = "launch" /\ ~kill /\ ~proc
  /\ proc' = TRUE
  /\ UNCHANGED <<status, watcher, kill, retries, breaks, late, notWatcher>>

\* A client session has been initialized and the tools are known.
Up ==
  /\ watcher = "launch" /\ ~kill /\ proc
  /\ watcher' = "up"
  /\ status' = "RUNNING" /\ retries' = 0
  /\ UNCHANGED <<proc, kill, breaks, late, notWatcher>>

\* The command is not found, or the server does not answer in initial_timeout.
LaunchFails ==
  /\ watcher = "launch" /\ ~kill
  /\ watcher' = "fail"
  /\ UNCHANGED <<status, proc, kill, retries, breaks, late, notWatcher>>

\* The condition the watcher waits for.
Stops(s) == s \in {"CLOSED", "RESTARTING"}

Seen ==
  /\ watcher = "up" /\ ~kill /\ Stops(status)
  /\ watcher' = "stop"
  /\ UNCHANGED <<status, proc, kill, retries, breaks, late, notWatcher>>

\* Mutant: a cancelled launch leaves the subprocess to itself.
MutCancelled ==
  /\ kill /\ watcher # "none"
  /\ kill' = FALSE
  /\ watcher' = IF watcher = "launch" THEN "none" ELSE IF watcher = "up" THEN "abandon" ELSE watcher
  /\ UNCHANGED <<status, proc, retries, breaks, late, notWatcher>>

\* The CancelledError: a launch or a wait is abandoned; while the subprocess is
\* being stopped it is suppressed.
Cancelled ==
  /\ kill /\ watcher # "none"
  /\ kill' = FALSE
  /\ watcher' = IF watcher \in {"launch", "up"} THEN "abandon" ELSE watcher
  /\ UNCHANGED <<status, proc, retries, breaks, late, notWatcher>>

\* The subprocess has been stopped.  After a normal exit the watcher goes round
\* its loop; otherwise it marks the server FAILED, if it is not CLOSED, and ends.
Stopped ==
  /\ watcher \in {"stop", "abandon", "fail"} /\ ~kill
  /\ proc' = FALSE /\ late' = (cancels = 1)
  /\ retries' = retries + 1
  /\ IF watcher = "stop" /\ retries + 1 < RETRY_LIMIT
     THEN watcher' = "launch" /\ UNCHANGED status
     ELSE /\ watcher' = "none"
          /\ status' = IF status = "CLOSED" THEN status ELSE "FAILED"
  /\ UNCHANGED <<kill, breaks, notWatcher>>

\* The subprocess dies by itself.  Only a call that cannot connect notices.
Break ==
  /\ watcher = "up" /\ proc /\ breaks < MaxBreaks
  /\ proc' = FALSE /\ breaks' = breaks + 1
  /\ UNCHANGED <<status, watcher, kill, retries, late, notWatcher>>

---------------------------------------------------------------------------
notCall == <<ctx, enters, watcher, proc, kill, cancels, late, retries, breaks>>

\* McpTool._arun opens a session, whatever the status is.
CallStart(c) ==
  /\ call[c] = "idle" /\ enters > 0
  /\ call' = [call EXCEPT ![c] = "open"]
  /\ UNCHANGED <<status, notCall>>

CallConnects(c) ==
  /\ call[c] = "open" /\ proc
  /\ call' = [call EXCEPT ![c] = "use"]
  /\ UNCHANGED <<status, notCall>>

CallRefused(c) ==
  /\ call[c] = "open" /\ ~proc
  /\ call' = [call EXCEPT ![c] = "refused"]
  /\ UNCHANGED <<status, notCall>>

\* The call ends: with a result, an error that is no ConnectError, or an abort.
CallEnds(c) ==
  /\ call[c] \in {"open", "use"}
  /\ call' = [call EXCEPT ![c] = "idle"]
  /\ UNCHANGED <<status, notCall>>

\* _session_ctx_mgr_wrapper handles the ConnectError, some steps later.
CallAsksRestart(c) ==
  /\ call[c] = "refused"
  /\ call' = [call EXCEPT ![c] = "idle"]
  /\ status' = IF status = "RUNNING" THEN "RESTARTING" ELSE status
  /\ UNCHANGED notCall

---------------------------------------------------------------------------
Watcher == Launch \/ Up \/ LaunchFails \/ Seen \/ Cancelled \/ Stopped

Context == Enter \/ SetupDone \/ Leave \/ Teardown \/ TeardownTimeout \/ TeardownDone

ToolCall(c) ==
  CallStart(c) \/ CallConnects(c) \/ CallRefused(c) \/ CallEnds(c) \/ CallAsksRestart(c)

Next ==
  \/ Watcher \/ Break \/ Context
  \/ \E c \in Calls : ToolCall(c)

Spec == Init /\ [][Next]_vars

\* The watcher is scheduled, initial_timeout bounds a launch and 10 s each
\* attempt to stop the subprocess.  The teardown's own steps and its timeout
\* come.  Entering and leaving are up to the tool manager, calls to the agents.
Fairness ==
  /\ WF_vars(Watcher)
  /\ WF_vars(SetupDone) /\ WF_vars(Teardown \/ TeardownTimeout \/ TeardownDone)
  /\ \A c \in Calls : WF_vars(CallConnects(c) \/ CallRefused(c) \/ CallAsksRestart(c))

FairSpec == Spec /\ Fairness

---------------------------------------------------------------------------
\* A watcher that ends takes the subprocess with it, whatever interrupted it, and
\* the context is not left before that, although a cancellation can get lost.
NoOrphan ==
  /\ watcher = "none" => ~proc
  /\ ctx = "out" => watcher = "none"

\* A restart that was asked for takes place or fails, if the server is in use.
RestartEnds ==
  ctx = "in" /\ status = "RESTARTING" ~> status \in {"RUNNING", "FAILED"} \/ ctx # "in"

\* Leaving the context ends, also when the watcher has lost the cancellation and
\* has launched the server once more.  The teardown's timeout is as good as
\* another cancellation: only if the server has been asked to restart meanwhile
\* it can be lost as well, and the teardown awaits a RUNNING server.
LeaveEnds == ctx = "leaving" ~> ctx = "out" \/ (cancels = 2 /\ status = "RUNNING")

\* A subprocess that died while the server was RUNNING is replaced or the server
\* is FAILED, once a call has failed to connect to it.
DeathRepaired ==
  \A c \in Calls :
    ctx = "in" /\ status = "RUNNING" /\ ~proc /\ call[c] = "refused"
      ~> status = "FAILED" \/ ctx # "in" \/ (proc /\ status = "RUNNING")
=============================================================================
