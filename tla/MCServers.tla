----------------------------- MODULE MCServers -----------------------------
(***************************************************************************)
(* The servers of the host for TLC: one stdio, one local HTTP and one      *)
(* remote server.  They share no state, so every behaviour of each is seen *)
(* with the others left at their start; `served` says which one a          *)
(* behaviour is of.                                                        *)
(***************************************************************************)
EXTENDS Integers

CONSTANTS Procs, Calls, MaxEnters, MaxBreaks, NoProc, p1, p2, c1, c2

ASSUME NoProcAssumption == NoProc \notin Procs
ASSUME BoundsAssumption == MaxEnters \in Nat /\ MaxBreaks \in Nat

VARIABLES served,
  sStatus, sCtx, sEnters, st, how, boot, cur, sCall, on, errors,
  lStatus, lCtx, lEnters, watcher, proc, kill, cancels, late, retries, lCall, breaks,
  hStatus, at, hEnters, offered, supports, listed, prompts, refresh, answer, open, missed

stdioVars == <<sStatus, sCtx, sEnters, st, how, boot, cur, sCall, on, errors>>
localVars == <<lStatus, lCtx, lEnters, watcher, proc, kill, cancels, late, retries,
               lCall, breaks>>
httpVars == <<hStatus, at, hEnters, offered, supports, listed, prompts, refresh, answer, open, missed>>
serversVars == <<served, stdioVars, localVars, httpVars>>

Stdio == INSTANCE StdioServer WITH
  status <- sStatus, ctx <- sCtx, enters <- sEnters, call <- sCall, None <- NoProc

Local == INSTANCE LocalHttpServer WITH
  status <- lStatus, ctx <- lCtx, enters <- lEnters, call <- lCall

Http == INSTANCE HttpServer WITH
  status <- hStatus, enters <- hEnters, Chats <- Calls, Refresher <- c1, MaxChanges <- MaxBreaks

ServersInit == served \in {"stdio", "local", "http"} /\ Stdio!Init /\ Local!Init /\ Http!Init

ServersNext ==
  \/ served = "stdio" /\ Stdio!Next /\ UNCHANGED <<served, localVars, httpVars>>
  \/ served = "local" /\ Local!Next /\ UNCHANGED <<served, stdioVars, httpVars>>
  \/ served = "http" /\ Http!Next /\ UNCHANGED <<served, stdioVars, localVars>>

\* The fairness of a server that is left at its start asks for nothing.
ServersSpec == ServersInit /\ [][ServersNext]_serversVars /\ Stdio!Fairness /\ Local!Fairness

---------------------------------------------------------------------------
\* One session, and one process that serves it, per stdio server (_stdio_session);
\* a user's aborts alone never make it RESTARTING.
OneSession == Stdio!OneSession /\ Stdio!AbortNeverRestarts

\* A local HTTP server's watcher never leaves a subprocess behind, nor is the
\* context left before the watcher has ended.
NoOrphan == Local!NoOrphan

\* The cached prompts of a remote server are fresh as far as it could hear, and no task
\* that refreshes them outlives its context (_refresh_prompts, _run_in_context).
PromptsRefreshed == Http!PromptsFresh /\ Http!RefreshInside

\* Calls of a stdio server are answered, and entering its context ends.  Restarts
\* of a local HTTP server take place, a dead one is replaced once it is missed, and
\* leaving the context ends.
ServersEnd ==
  /\ Stdio!CallAnswered /\ Stdio!SetupEnds
  /\ Local!RestartEnds /\ Local!LeaveEnds /\ Local!DeathRepaired
=============================================================================
