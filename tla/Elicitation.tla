---------------------------- MODULE Elicitation ----------------------------
(***************************************************************************)
(* Questions to the user: host/tools/elicitation_manager.py, with the tool *)
(* calls that register callbacks (McpTool._arun and the sessions of        *)
(* host/tools/mcp_server.py) and the endpoint that answers.                *)
(*                                                                         *)
(* A tool call asks either directly (a confirmation of an internal tool, a *)
(* URL elicitation) or because its MCP server sends a request on the       *)
(* session.  The session knows one callback, that of the last task that    *)
(* called session(); the request is handled inside the session's receive   *)
(* loop, so the session delivers nothing else meanwhile.  The event goes   *)
(* to the stream of the call that owns the callback, which is read until   *)
(* that call ends.                                                         *)
(*                                                                         *)
(* request() races a future, an abort event and a timeout.  Cancelling the *)
(* losers takes another turn of the event loop (at = "drain").             *)
(***************************************************************************)
EXTENDS Integers, FiniteSets

CONSTANTS
  Calls,    \* tool calls over one session, each in a query of its own
  MaxReqs,  \* bound: requests made
  None


Reqs    == 1..MaxReqs
Actions == {"accept", "decline", "cancel"}

VARIABLES
  callback,  \* the call whose callback the session has, or None
  call,      \* where a tool call is
  abort,     \* the calls whose abort event is set
  counter,   \* self._request_counter
  owner,     \* the call whose writer and abort event a request uses
  asked,     \* requests sent by the MCP server (the others are direct)
  pending,   \* keys of self._pending_requests
  future,    \* a request's future: "pending", "cancelled" or the user's action
  at,        \* where request() is: "none", "wait", "drain", "over"
  result,    \* what request() returned, raised, or is about to
  shown,     \* requests whose event reaches the frontend
  acked      \* requests whose answer the endpoint reported as found

vars == <<callback, call, abort, counter, owner, asked, pending, future, at, result,
          shown, acked>>

reqVars == <<counter, owner, asked, pending, future, at, result, shown, acked>>

Made == {r \in Reqs : at[r] # "none"}
Open == {r \in Reqs : at[r] \in {"wait", "drain"}}

\* The session's receive loop is inside an elicitation callback.
SessionBusy == \E r \in Open : r \in asked

Init ==
  /\ callback = None
  /\ call = [c \in Calls |-> "idle"]
  /\ abort = {}
  /\ counter = 0
  /\ owner = [r \in Reqs |-> None]
  /\ asked = {} /\ pending = {}
  /\ future = [r \in Reqs |-> "pending"]
  /\ at = [r \in Reqs |-> "none"]
  /\ result = [r \in Reqs |-> "none"]
  /\ shown = {} /\ acked = {}

---------------------------------------------------------------------------
\* McpTool._arun opens the session with its own callbacks.
StartCall(c) ==
  /\ call[c] = "idle"
  /\ call' = [call EXCEPT ![c] = "running"]
  /\ callback' = c
  /\ UNCHANGED <<abort, reqVars>>

\* Another user of the session without a callback: prompts/list, prompts/get.
\* A stdio session forgets the callback it had (for an HTTP one nothing changes).
ListPrompts ==
  /\ callback' = None
  /\ UNCHANGED <<call, abort, reqVars>>

\* The event goes through the queue of the call to the stream of its query, which is
\* read until the call ends; how long that takes, the time of the answer says.
Show(c) == call[c] = "running"

\* create_request, the event for the writer, and the wait.
NewRequest(c) ==
  LET r == counter + 1 IN
  /\ counter < MaxReqs
  /\ counter' = r
  /\ owner' = [owner EXCEPT ![r] = c]
  /\ pending' = pending \cup {r}
  /\ at' = [at EXCEPT ![r] = "wait"]
  /\ shown' = IF Show(c) THEN shown \cup {r} ELSE shown
  /\ UNCHANGED <<callback, call, abort, future, result, acked>>

\* The MCP server asks, while it executes some call.  Without a callback the
\* answer is "decline", and no request is made.
ServerAsks ==
  /\ ~SessionBusy /\ callback # None
  /\ \E c \in Calls : call[c] = "running"
  /\ NewRequest(callback)
  /\ asked' = asked \cup {counter + 1}

\* A running call asks by itself, and waits for the answer.
CallAsks(c) ==
  /\ call[c] = "running"
  /\ \A r \in Open \ asked : owner[r] # c
  /\ NewRequest(c)
  /\ UNCHANGED asked

\* A call ends: its result arrives, which needs the receive loop, or it was
\* aborted and its tasks are cancelled.
EndCall(c) ==
  /\ call[c] = "running"
  /\ \A r \in Open \ asked : owner[r] # c
  /\ c \in abort \/ ~SessionBusy
  /\ call' = [call EXCEPT ![c] = "done"]
  /\ UNCHANGED <<callback, abort, reqVars>>

Abort(c) ==
  /\ call[c] = "running" /\ c \notin abort
  /\ abort' = abort \cup {c}
  /\ UNCHANGED <<callback, call, reqVars>>

---------------------------------------------------------------------------
\* What request() leaves alone once it waits.
notRequest == <<callback, call, abort, counter, owner, asked, shown, acked>>


\* request() is left: _cleanup_request in its finally clause.
Finish(r, what) ==
  /\ at' = [at EXCEPT ![r] = "over"]
  /\ result' = [result EXCEPT ![r] = what]
  /\ pending' = pending \ {r}

\* The wait ends with the future done: the abort task is cancelled and awaited.
WakeAnswered(r) ==
  /\ at[r] = "wait" /\ future[r] \in Actions
  /\ at' = [at EXCEPT ![r] = "drain"]
  /\ result' = [result EXCEPT ![r] = future[r]]
  /\ UNCHANGED <<pending, future, notRequest>>

\* The wait ends with the abort task done: the answer is "cancel", even if the
\* future is done as well.  A future that is not done is cancelled at once.
WakeAborted(r) ==
  /\ at[r] = "wait" /\ owner[r] \in abort
  /\ future' = [future EXCEPT ![r] = IF @ = "pending" THEN "cancelled" ELSE @]
  /\ Finish(r, "cancel")
  /\ UNCHANGED notRequest


\* The wait ends with nothing done: the future and the abort task are cancelled
\* in the order of a set, so a user's answer may still get in between.
WakeTimeout(r) ==
  /\ at[r] = "wait" /\ future[r] = "pending"
  /\ at' = [at EXCEPT ![r] = "drain"]
  /\ result' = [result EXCEPT ![r] = "timeout"]
  /\ future' \in {future, [future EXCEPT ![r] = "cancelled"]}
  /\ UNCHANGED <<pending, notRequest>>

\* Mutant: after a timeout the future's result is taken when there is one.
MutDrained(r) ==
  /\ at[r] = "drain"
  /\ future' = [future EXCEPT ![r] = IF @ = "pending" THEN "cancelled" ELSE @]
  /\ Finish(r, IF result[r] = "timeout" /\ r \notin pending THEN "accept" ELSE result[r])
  /\ UNCHANGED notRequest

Drained(r) ==
  /\ at[r] = "drain"
  /\ future' = [future EXCEPT ![r] = IF @ = "pending" THEN "cancelled" ELSE @]
  /\ Finish(r, result[r])
  /\ UNCHANGED notRequest

\* The task of a request is cancelled: its session is torn down or its chat is
\* dropped.  While it drains, contextlib.suppress swallows the CancelledError.
Kill(r) ==
  /\ at[r] = "wait"
  /\ future' = [future EXCEPT ![r] = IF @ = "pending" THEN "cancelled" ELSE @]
  /\ Finish(r, "killed")
  /\ UNCHANGED notRequest

\* A stdio session ends: _create's finally clause drops the callback, whoever
\* has set it meanwhile.
SessionEnds ==
  /\ ~SessionBusy /\ callback # None
  /\ callback' = None
  /\ UNCHANGED <<call, abort, reqVars>>

\* POST /tools/elicitation/respond: respond_to_request.
Respond(r, a) ==
  /\ r \in shown \cap pending
  /\ pending' = pending \ {r}
  /\ IF future[r] = "pending"
     THEN /\ future' = [future EXCEPT ![r] = a]
          /\ acked' = acked \cup {r}
     ELSE UNCHANGED <<future, acked>>
  /\ UNCHANGED <<callback, call, abort, counter, owner, asked, at, result, shown>>

---------------------------------------------------------------------------
Wake(r) == WakeAnswered(r) \/ WakeAborted(r) \/ WakeTimeout(r) \/ Drained(r)

Next ==
  \/ \E c \in Calls : StartCall(c) \/ CallAsks(c) \/ EndCall(c) \/ Abort(c)
  \/ ListPrompts \/ ServerAsks \/ SessionEnds
  \/ \E r \in Reqs : Wake(r) \/ Kill(r) \/ \E a \in Actions : Respond(r, a)

Spec == Init /\ [][Next]_vars

\* The timeout of 600 s is an event of the loop like any other.
Fairness == WF_vars(\E r \in Reqs : Wake(r))

FairSpec == Spec /\ Fairness

---------------------------------------------------------------------------
\* What request() returns is what the user said to this very request: an
\* action other than "cancel" was given by the user and acknowledged, and an
\* acknowledged answer is returned unless the call was aborted or dropped, or
\* its time was over.
AnswerKept ==
  \A r \in Made : at[r] = "over" =>
    /\ result[r] \in {"accept", "decline"} => r \in acked /\ result[r] = future[r]
    /\ r \in acked => \/ result[r] = future[r] \/ result[r] \in {"timeout", "killed"}
                      \/ owner[r] \in abort

\* The table holds exactly requests somebody waits for: an answer is
\* acknowledged only while request() can still see it, and nothing stays behind
\* after a timeout, an abort or a cancellation.
NoOrphans == \A r \in pending : r \in Open /\ (future[r] \in Actions => r \in acked)

\* Every request() ends, whatever the user, the call and the frontend do; there are
\* finitely many, and none that is over waits again.
RequestEnds == <>[](Open = {})
=============================================================================
