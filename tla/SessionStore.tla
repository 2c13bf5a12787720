--------------------------- MODULE SessionStore ---------------------------
(***************************************************************************)
(* The per-server session store of                                         *)
(* host/tools/server_session_store.py.                                     *)
(*                                                                         *)
(* Every MCP server keeps one ServerSessionStore: a map from a chat id to  *)
(* the item that holds the chat's session.  An item is filled and emptied  *)
(* by its own watcher task (_session_watcher) and used by client tasks     *)
(* (get_session_ctx_mgr); cleanup() drops everything when the server is    *)
(* stopped or restarted.  All of it runs on one asyncio loop: the code     *)
(* between two awaits is one step, and task.cancel() only marks a task,    *)
(* which sees the CancelledError when it is next scheduled.                *)
(*                                                                         *)
(* A watcher is named by the item whose get_session_ctx_mgr created it.    *)
(* It looks its item up again, BY CHAT ID, when it first runs, so the item *)
(* it works on is a piece of state of its own (bound).                     *)
(***************************************************************************)
EXTENDS Integers

CONSTANTS
  Chats,        \* chat ids (a stdio server uses the single id "default")
  Clients,      \* tasks that call get_session_ctx_mgr, one call at a time
  Items,        \* identities of _SessionStoreItem objects, reused once garbage
  None,         \* Python's None
  MaxCleanups   \* bound: calls of cleanup(), one per stop of the server

ASSUME NoneAssumption    == None \notin Items \cup Clients \cup Chats
ASSUME CleanupAssumption == MaxCleanups \in Nat

VARIABLES
  map,       \* self._map: chat id -> item or None
  chat,      \* item.chat_id
  session,   \* item.session is not None
  init,      \* item.initialized is set
  cleared,   \* item.cleared
  tasks,     \* item.client_tasks
  phase,     \* where the watcher created for the item is
  bound,     \* the item the watcher works on (its stored_session)
  kill,      \* cancel() was called on the watcher and is not delivered yet
  pc,        \* where a client is
  uses,      \* the item a client holds (its stored_session)
  cancel,    \* cancel() was called on the client and is not delivered yet
  aborted,   \* history: the client's caller cancelled it
  cleanups   \* calls of cleanup() so far

vars == <<map, chat, session, init, cleared, tasks, phase, bound, kill,
          pc, uses, cancel, aborted, cleanups>>

Phases == {"free", "new", "opening", "serving", "closing", "ended", "crashed"}

\* The types, and when a client holds an item and a watcher works on one.
TypeOK ==
  /\ map \in [Chats -> Items \cup {None}]
  /\ chat \in [Items -> Chats \cup {None}]
  /\ session \in [Items -> BOOLEAN]
  /\ init \in [Items -> BOOLEAN]
  /\ cleared \in [Items -> BOOLEAN]
  /\ tasks \in [Items -> SUBSET Clients]
  /\ phase \in [Items -> Phases]
  /\ bound \in [Items -> Items \cup {None}]
  /\ kill \in [Items -> BOOLEAN]
  /\ pc \in [Clients -> {"out", "wait", "use"}]
  /\ uses \in [Clients -> Items \cup {None}]
  /\ cancel \in [Clients -> BOOLEAN]
  /\ aborted \in [Clients -> BOOLEAN]
  /\ cleanups \in 0..MaxCleanups
  /\ \A c \in Clients : pc[c] = "out" <=> uses[c] = None
  /\ \A i \in Items : phase[i] \in {"opening", "serving", "closing"} <=> bound[i] # None

Init ==
  /\ map = [k \in Chats |-> None]
  /\ chat = [i \in Items |-> None]
  /\ session = [i \in Items |-> FALSE]
  /\ init = [i \in Items |-> FALSE]
  /\ cleared = [i \in Items |-> FALSE]
  /\ tasks = [i \in Items |-> {}]
  /\ phase = [i \in Items |-> "free"]
  /\ bound = [i \in Items |-> None]
  /\ kill = [i \in Items |-> FALSE]
  /\ pc = [c \in Clients |-> "out"]
  /\ uses = [c \in Clients |-> None]
  /\ cancel = [c \in Clients |-> FALSE]
  /\ aborted = [c \in Clients |-> FALSE]
  /\ cleanups = 0

---------------------------------------------------------------------------
\* Mutants of ErrorCleanup: no test of `cleared`; the entry stays in the map;
\* the other clients are not cancelled; every client of the store is; the
\* watcher is not.
MutNoGuard(c, s) ==
  /\ map' = [map EXCEPT ![chat[s]] = None]
  /\ init' = [init EXCEPT ![s] = TRUE]
  /\ kill' = [kill EXCEPT ![s] = @ \/ c # None]
  /\ cancel' = [d \in Clients |-> d # c /\ (cancel[d] \/ d \in tasks[s])]
  /\ cleared' = [cleared EXCEPT ![s] = TRUE]

MutKeepEntry(c, s) ==
  /\ init' = [init EXCEPT ![s] = @ \/ ~cleared[s]]
  /\ kill' = [kill EXCEPT ![s] = @ \/ (~cleared[s] /\ c # None)]
  /\ cancel' = [d \in Clients |-> d # c /\ (cancel[d] \/ (~cleared[s] /\ d \in tasks[s]))]
  /\ cleared' = [cleared EXCEPT ![s] = TRUE]
  /\ UNCHANGED map

MutClientsRun(c, s) ==
  /\ map' = IF cleared[s] THEN map ELSE [map EXCEPT ![chat[s]] = None]
  /\ init' = [init EXCEPT ![s] = @ \/ ~cleared[s]]
  /\ kill' = [kill EXCEPT ![s] = @ \/ (~cleared[s] /\ c # None)]
  /\ cancel' = [d \in Clients |-> d # c /\ cancel[d]]
  /\ cleared' = [cleared EXCEPT ![s] = TRUE]

MutCancelAll(c, s) ==
  /\ map' = IF cleared[s] THEN map ELSE [map EXCEPT ![chat[s]] = None]
  /\ init' = [init EXCEPT ![s] = @ \/ ~cleared[s]]
  /\ kill' = [kill EXCEPT ![s] = @ \/ (~cleared[s] /\ c # None)]
  /\ cancel' = [d \in Clients |-> d # c /\ (cancel[d] \/ (~cleared[s] /\ pc[d] # "out"))]
  /\ cleared' = [cleared EXCEPT ![s] = TRUE]

MutWatcherRuns(c, s) ==
  /\ map' = IF cleared[s] THEN map ELSE [map EXCEPT ![chat[s]] = None]
  /\ init' = [init EXCEPT ![s] = @ \/ ~cleared[s]]
  /\ cancel' = [d \in Clients |-> d # c /\ (cancel[d] \/ (~cleared[s] /\ d \in tasks[s]))]
  /\ cleared' = [cleared EXCEPT ![s] = TRUE]
  /\ UNCHANGED kill

(***************************************************************************)
(* _error_cleanup(self_task, item s, e) but for its assignment to session, *)
(* which differs between its callers.  It is called by client c or, with   *)
(* c = None, by a watcher whose self_task is the item's task.              *)
(* Which exception a caller gets (item.exec) is left out.                  *)
(* The map entry is deleted by chat id, whatever item it holds by then.    *)
(* A client that cleans up is leaving: its own pending cancel is consumed. *)
(***************************************************************************)
ErrorCleanup(c, s) ==
  /\ map' = IF cleared[s] THEN map ELSE [map EXCEPT ![chat[s]] = None]
  /\ init' = [init EXCEPT ![s] = @ \/ ~cleared[s]]
  /\ kill' = [kill EXCEPT ![s] = @ \/ (~cleared[s] /\ c # None)]
  /\ cancel' = [d \in Clients |-> d # c /\ (cancel[d] \/ (~cleared[s] /\ d \in tasks[s]))]
  /\ cleared' = [cleared EXCEPT ![s] = TRUE]

(***************************************************************************)
(* A client c leaves item s on an exception or a CancelledError: the       *)
(* except and finally clauses of get_session_ctx_mgr.                      *)
(***************************************************************************)
LeaveOnError(c, s) ==
  /\ ErrorCleanup(c, s)
  /\ session' = [session EXCEPT ![s] = @ /\ cleared[s]]
  /\ tasks' = [tasks EXCEPT ![s] = @ \ {c}]
  /\ pc' = [pc EXCEPT ![c] = "out"]
  /\ uses' = [uses EXCEPT ![c] = None]
  /\ UNCHANGED <<chat, phase, bound, aborted, cleanups>>

---------------------------------------------------------------------------
\* get_session_ctx_mgr for a chat without an entry: a new item, its watcher
\* task created but not started, and the wait for `initialized`.
Create(c, k, i) ==
  /\ pc[c] = "out" /\ map[k] = None /\ phase[i] = "free"
  /\ map' = [map EXCEPT ![k] = i]
  /\ chat' = [chat EXCEPT ![i] = k]
  /\ phase' = [phase EXCEPT ![i] = "new"]
  /\ tasks' = [tasks EXCEPT ![i] = {c}]
  /\ pc' = [pc EXCEPT ![c] = "wait"]
  /\ uses' = [uses EXCEPT ![c] = i]
  /\ aborted' = [aborted EXCEPT ![c] = FALSE]
  /\ UNCHANGED <<session, init, cleared, bound, kill, cancel, cleanups>>

\* The same for a chat with an entry.  When `initialized` is already set the
\* wait returns at once, and the session is handed out in the same step.
Join(c, k) ==
  LET s == map[k] IN
  /\ pc[c] = "out" /\ s # None
  /\ tasks' = [tasks EXCEPT ![s] = @ \cup {c}]
  /\ pc' = [pc EXCEPT ![c] = IF init[s] /\ session[s] THEN "use" ELSE "wait"]
  /\ uses' = [uses EXCEPT ![c] = s]
  /\ aborted' = [aborted EXCEPT ![c] = FALSE]
  /\ UNCHANGED <<map, chat, session, init, cleared, phase, bound, kill, cancel, cleanups>>

\* The wait ends: the session is handed out, or McpSessionNotRunningError.
Resume(c) ==
  LET s == uses[c] IN
  /\ pc[c] = "wait" /\ init[s] /\ ~cancel[c]
  /\ IF session[s]
     THEN /\ pc' = [pc EXCEPT ![c] = "use"]
          /\ UNCHANGED <<map, chat, session, init, cleared, tasks, phase, bound,
                         kill, uses, cancel, aborted, cleanups>>
     ELSE LeaveOnError(c, s)

\* The client's block ends normally.
Leave(c) ==
  LET s == uses[c] IN
  /\ pc[c] = "use" /\ ~cancel[c]
  /\ tasks' = [tasks EXCEPT ![s] = @ \ {c}]
  /\ pc' = [pc EXCEPT ![c] = "out"]
  /\ uses' = [uses EXCEPT ![c] = None]
  /\ UNCHANGED <<map, chat, session, init, cleared, phase, bound, kill, cancel, aborted, cleanups>>

\* The client's block raises: every other user of the session is cancelled.
Fail(c) ==
  /\ pc[c] = "use" /\ ~cancel[c]
  /\ LeaveOnError(c, uses[c])

\* The CancelledError reaches the client.
Cancelled(c) ==
  /\ pc[c] # "out" /\ cancel[c]
  /\ LeaveOnError(c, uses[c])

\* The client's caller cancels it (the user aborts the chat, a request is dropped).
Abort(c) ==
  /\ pc[c] # "out" /\ ~aborted[c]
  /\ aborted' = [aborted EXCEPT ![c] = TRUE]
  /\ cancel' = [cancel EXCEPT ![c] = TRUE]
  /\ UNCHANGED <<map, chat, session, init, cleared, tasks, phase, bound, kill, pc, uses, cleanups>>

---------------------------------------------------------------------------
\* Variables a watcher's own steps never write.
notWatcher == <<chat, tasks, pc, uses, aborted, cleanups>>


\* The first lines of _session_watcher: stored_session = self._map[chat_id],
\* outside the try.  A KeyError there ends the task and nothing else happens.
WatcherStart(i) ==
  LET s == map[chat[i]] IN
  /\ phase[i] = "new" /\ ~kill[i]
  /\ bound' = [bound EXCEPT ![i] = s]
  /\ phase' = [phase EXCEPT ![i] = IF s = None THEN "crashed" ELSE "opening"]
  /\ UNCHANGED <<map, session, init, cleared, kill, cancel, notWatcher>>

\* session_ctx(...) is entered: the session is published.
WatcherOpened(i) ==
  LET s == bound[i] IN
  /\ phase[i] = "opening" /\ ~kill[i]
  /\ phase' = [phase EXCEPT ![i] = "serving"]
  /\ session' = [session EXCEPT ![s] = TRUE]
  /\ init' = [init EXCEPT ![s] = TRUE]
  /\ UNCHANGED <<map, cleared, bound, kill, cancel, notWatcher>>

\* session_ctx(...) cannot be entered.
WatcherOpenFails(i) ==
  /\ phase[i] = "opening" /\ ~kill[i]
  /\ phase' = [phase EXCEPT ![i] = "closing"]
  /\ UNCHANGED <<map, session, init, cleared, bound, kill, cancel, notWatcher>>

\* waiting_loop returns: nobody uses the session and it has been idle too long.
\* The session context starts to exit, which takes several awaits.
WatcherIdle(i) ==
  /\ phase[i] = "serving" /\ ~kill[i] /\ tasks[bound[i]] = {}
  /\ phase' = [phase EXCEPT ![i] = "closing"]
  /\ UNCHANGED <<map, session, init, cleared, bound, kill, cancel, notWatcher>>

\* The ping fails or the transport ends the session's task group.
WatcherFails(i) ==
  /\ phase[i] = "serving" /\ ~kill[i]
  /\ phase' = [phase EXCEPT ![i] = "closing"]
  /\ UNCHANGED <<map, session, init, cleared, bound, kill, cancel, notWatcher>>

\* The CancelledError reaches the watcher.  Before its first step it ends the
\* task; later it makes the session context exit, or interrupts that exit.
WatcherKilled(i) ==
  /\ kill[i] /\ phase[i] \in {"new", "opening", "serving", "closing"}
  /\ kill' = [kill EXCEPT ![i] = FALSE]
  /\ phase' = [phase EXCEPT ![i] = IF @ = "new" THEN "ended" ELSE "closing"]
  /\ UNCHANGED <<map, session, init, cleared, bound, cancel, notWatcher>>

\* The session context has exited: the except and finally clauses.
WatcherEnd(i) ==
  LET s == bound[i] IN
  /\ phase[i] = "closing" /\ ~kill[i]
  /\ phase' = [phase EXCEPT ![i] = "ended"]
  /\ bound' = [bound EXCEPT ![i] = None]
  /\ ErrorCleanup(None, s)
  /\ session' = [session EXCEPT ![s] = FALSE]
  /\ UNCHANGED notWatcher

---------------------------------------------------------------------------
\* cleanup(): every registered item is emptied, but not marked cleared.
Cleanup ==
  LET S == {map[k] : k \in Chats} \ {None} IN
  /\ cleanups < MaxCleanups
  /\ cleanups' = cleanups + 1
  /\ kill' = [i \in Items |-> kill[i] \/ i \in S]
  /\ cancel' = [c \in Clients |-> cancel[c] \/ \E i \in S : c \in tasks[i]]
  /\ init' = [i \in Items |-> init[i] \/ i \in S]
  /\ session' = [i \in Items |-> session[i] /\ i \notin S]
  /\ tasks' = [i \in Items |-> IF i \in S THEN {} ELSE tasks[i]]
  /\ map' = [k \in Chats |-> None]
  /\ UNCHANGED <<chat, cleared, phase, bound, pc, uses, aborted>>

\* An item nothing refers to any more is garbage: its identity can be reused.
Forget(i) ==
  /\ phase[i] \in {"ended", "crashed"}
  /\ \A k \in Chats : map[k] # i
  /\ \A c \in Clients : uses[c] # i
  /\ \A j \in Items : bound[j] # i
  /\ chat' = [chat EXCEPT ![i] = None]
  /\ session' = [session EXCEPT ![i] = FALSE]
  /\ init' = [init EXCEPT ![i] = FALSE]
  /\ cleared' = [cleared EXCEPT ![i] = FALSE]
  /\ tasks' = [tasks EXCEPT ![i] = {}]
  /\ phase' = [phase EXCEPT ![i] = "free"]
  /\ kill' = [kill EXCEPT ![i] = FALSE]
  /\ UNCHANGED <<map, bound, pc, uses, cancel, aborted, cleanups>>

---------------------------------------------------------------------------
ClientStep(c) == Resume(c) \/ Leave(c) \/ Fail(c) \/ Cancelled(c)

WatcherStep(i) ==
  \/ WatcherStart(i) \/ WatcherOpened(i) \/ WatcherOpenFails(i) \/ WatcherIdle(i)
  \/ WatcherFails(i) \/ WatcherKilled(i) \/ WatcherEnd(i)

Next ==
  \/ \E c \in Clients, k \in Chats : Join(c, k) \/ \E i \in Items : Create(c, k, i)
  \/ \E c \in Clients : ClientStep(c) \/ Abort(c)
  \/ \E i \in Items : WatcherStep(i) \/ Forget(i)
  \/ Cleanup

Spec == Init /\ [][Next]_vars

\* Every task of the event loop is eventually scheduled.  A client's use of the
\* session (Leave, Fail), an abort and a new call are up to their callers; that
\* an opening session opens or fails is the assumption of the HTTP timeouts.
Fairness ==
  /\ \A c \in Clients : WF_vars(Resume(c)) /\ WF_vars(Cancelled(c))
  /\ \A i \in Items : /\ WF_vars(WatcherStart(i))
                      /\ WF_vars(WatcherOpened(i) \/ WatcherOpenFails(i))
                      /\ WF_vars(WatcherKilled(i)) /\ WF_vars(WatcherEnd(i))

FairSpec == Spec /\ Fairness

---------------------------------------------------------------------------
\* "When a session encounters issues, all tasks using that session will be
\* cancelled" (get_session_ctx_mgr): a client that was handed the session, or
\* is about to be, and has no cancellation pending has an open session.  Hence
\* McpSessionNotRunningError is never raised, and no tool call runs on after
\* its session was torn down, whoever tore it down.
LiveUse ==
  \A c \in Clients :
    (pc[c] # "out" /\ ~cancel[c] /\ (pc[c] = "use" \/ init[uses[c]])) => session[uses[c]]

\* What a caller finds under its chat id is usable: that chat's item, never one
\* that was cleared or whose watcher is over, and open once `initialized` is set.
MapSound ==
  \A k \in Chats : map[k] # None =>
    /\ chat[map[k]] = k
    /\ ~cleared[map[k]]
    /\ init[map[k]] => session[map[k]]
    /\ phase[map[k]] \notin {"free", "ended", "crashed"}

\* An item that was not cleared is the one its chat id leads to, and a watcher
\* works on its own item.
OneLive ==
  \A i \in Items :
    /\ phase[i] # "free" /\ ~cleared[i] => map[chat[i]] = i
    /\ bound[i] \in {None, i}

\* As long as cleanup() has not been called, two callers of one chat never hold
\* two live sessions.
OneLiveSession == cleanups = 0 => OneLive

\* A store entry goes away only because the item it holds was cleared, and a
\* client is cancelled only by its caller or because its own item was cleared:
\* what happens to one chat's session leaves the other chats alone, as long as
\* cleanup() has not been called.
ChatsIsolated ==
  [][ cleanups' = 0 =>
      /\ \A k \in Chats : map[k] # None /\ map'[k] # map[k] => cleared'[map[k]]
      /\ \A c \in Clients : ~cancel[c] /\ cancel'[c] =>
           aborted'[c] # aborted[c] \/ (cleared'[uses[c]] /\ ~cleared[uses[c]]) ]_vars

\* A caller that waits for a session is always answered: with the session, an
\* error or its cancellation.  And the session of a cleared item is closed in the
\* end: nothing is left running on the MCP server for a chat that has lost it.
\* (After a cleanup() neither holds: see EventSetOnError.)
WaitEnds ==
  /\ \A c \in Clients : pc[c] = "wait" ~> pc[c] # "wait" \/ cleanups > 0
  /\ \A i \in Items : cleared[i] ~> phase[i] \in {"ended", "free"} \/ cleanups > 0

---------------------------------------------------------------------------
\* "initialized: An event that is set when the session is initialized.  When the
\* session goes into error state, the event will be set too"
\* (_SessionStoreItem): an item whose watcher died has its event set.
EventSetOnError ==
  \A i \in Items : phase[i] \in {"ended", "crashed"} => init[i]
=============================================================================
