--------------------------- MODULE MCSessionStore ---------------------------
(***************************************************************************)
(* The calls of tools, for TLC: those of MCP servers with the sessions     *)
(* they share (SessionStore), or those of the server's own tools           *)
(* (LocalTools).  The two share no state, so every behaviour of each is    *)
(* seen with the other left at its start; `served` says which one a        *)
(* behaviour is of.                                                        *)
(***************************************************************************)
EXTENDS SessionStore

CONSTANTS Tools, Words, MaxWords, t1, t2

ASSUME BoundsAssumption == MaxWords \in Nat

VARIABLES served, tool, abort, given, file, proc, saved, post

toolVars == <<tool, abort, given, file, proc, saved, post>>
sessionVars == <<map, chat, session, init, cleared, tasks, phase, bound, kill, pc, uses, cancel,
                 aborted, cleanups>>
allVars == <<served, sessionVars, toolVars>>

Local == INSTANCE LocalTools

CallInit ==
  /\ served \in {"sessions", "tools"}
  /\ Init /\ Local!Init
  /\ served # "tools" => file = <<>>

\* The calls of the server's own tools are finite in number: such a behaviour may end.
CallNext ==
  \/ served = "sessions" /\ Next /\ UNCHANGED <<served, toolVars>>
  \/ served = "tools" /\ Local!Next /\ UNCHANGED <<served, sessionVars>>
  \/ served # "sessions" /\ UNCHANGED allVars

\* The fairness of a part that is left at its start asks for nothing.
CallSpec == CallInit /\ [][CallNext]_allVars /\ Fairness /\ Local!Fairness

\* The sessions alone.
EventSpec == CallInit /\ served = "sessions" /\ [][CallNext]_allVars

---------------------------------------------------------------------------
\* A tool writes the file or starts a command only when the user said yes to each of its
\* questions and the chat was not aborted meanwhile (execute_bash, execute_write,
\* edit_file).
Consent == Local!Consent

\* No command outlives a call that returned, and a server reported as loaded is
\* configured unless a call that read the configuration before sent it back later
\* (wait_with_abort, add_mcp_server, reload_mcp_server).
DoneAsReported == Local!NoProcessLeft /\ Local!LoadedKept

\* A caller that waits for a session is answered and cleared sessions are closed, and
\* every call of the server's own tools ends (get_session_ctx_mgr, the tools).
CallsEnd == WaitEnds /\ Local!ToolsEnd
=============================================================================
