-------------------------------- MODULE OAuth --------------------------------
(***************************************************************************)
(* The authorization of MCP servers: OAuthManager with its results and     *)
(* tokens, the tasks that run an authorization, and the routes that log    *)
(* in, receive the code and delete the tokens.                             *)
(*                                                                         *)
(* The result of an authorization is one object under its OAuth state,     *)
(* which the task, both routes and the waiters read and change.  One that  *)
(* ends before it has a state is kept under the empty key, which all       *)
(* servers share.  No operation on the results suspends halfway: the       *)
(* condition of the StateStore is only held across a suspension by wait(), *)
(* which releases it, so a waiter evaluates its predicate some time after  *)
(* the change it is notified of.                                           *)
(***************************************************************************)
EXTENDS Naturals, FiniteSets

CONSTANTS
  Servers,
  Flows,      \* authorizations; each has a state of its own
  Callbacks,  \* requests to the callback route
  Owner,      \* server a flow authorizes
  None,       \* no result, no tokens
  NoState,    \* the empty key
  MaxDelete

ASSUME OwnerAssumption == Owner \in [Flows -> Servers]
ASSUME KeysAssumption == None \notin Flows /\ NoState \notin Flows /\ None # NoState
ASSUME BoundAssumption == MaxDelete \in Nat

VARIABLES
  result,   \* the results by state
  flow,     \* tasks of authorizations
  login,    \* routes that started them
  cb,       \* requests of the callback route
  tokens,   \* stored tokens of a server: the flow that got them
  held,     \* tokens the running server was started with
  removing, \* servers whose tokens are deleted and that are not restarted yet
  deletes

vars == <<result, flow, login, cb, tokens, held, removing, deletes>>

Keys == Flows \cup {NoState}
Stored == Flows \cup {None}
Results == {"auth_success", "auth_failed"}
\* "canceled" is only set for authorizations no login waits for.
ResultType == Results \cup {"wait_code", "code_set"}
Record == [type : ResultType, code : BOOLEAN, error : BOOLEAN]
Absent == [type |-> "absent", code |-> FALSE, error |-> FALSE]
Outcomes == {"none", "ok", "failed"}
FlowPcs == {"idle", "connect", "wait", "refused", "exchange", "init", "over"}
FlowRecord == [pc : FlowPcs, key : Keys, outcome : Outcomes]
LoginPcs == {"idle", "first", "wait", "done"}
LoginRecord == [pc : LoginPcs, key : Keys \cup {None}, first : {"none", "ok", "error"},
                last : Results \cup {"none"}]
CbRecord == [pc : {"idle", "wait", "restart", "failed", "done"}, key : Keys]

Present(k) == result[k] # Absent
IsResult(k) == result[k].type \in Results

Init ==
  /\ result = [k \in Keys |-> Absent]
  /\ flow = [f \in Flows |-> [pc |-> "idle", key |-> NoState, outcome |-> "none"]]
  /\ login = [f \in Flows |-> [pc |-> "idle", key |-> None, first |-> "none", last |-> "none"]]
  /\ cb = [c \in Callbacks |-> [pc |-> "idle", key |-> NoState]]
  /\ tokens = [s \in Servers |-> None] /\ held = [s \in Servers |-> None]
  /\ removing = {} /\ deletes = 0

---------------------------------------------------------------------------
(* The task of an authorization.                                          *)

\* authorization_task: the tokens of the server are deleted, the task started.
Login(f) ==
  /\ flow[f].pc = "idle"
  /\ tokens' = [tokens EXCEPT ![Owner[f]] = None]
  /\ flow' = [flow EXCEPT ![f].pc = "connect"]
  /\ login' = [login EXCEPT ![f].pc = "first"]
  /\ UNCHANGED <<result, cb, held, removing, deletes>>

\* The queue of the login route gets a result, of which it takes the first only.
Told(f, k) ==
  login' = [login EXCEPT ![f].key = IF login[f].key = None THEN k ELSE login[f].key]

Asked(f) == [result EXCEPT ![f] = [type |-> "wait_code", code |-> FALSE, error |-> FALSE]]

\* _wait_oauth_code: the server asks for a code.
AskCode(f) ==
  /\ flow[f].pc = "connect"
  /\ flow' = [flow EXCEPT ![f].pc = "wait", ![f].key = f]
  /\ result' = Asked(f)
  /\ Told(f, f)
  /\ UNCHANGED <<cb, tokens, held, removing, deletes>>

\* The code is there, and the waiter sees it before its timeout.
TakeCode(f) ==
  /\ flow[f].pc = "wait" /\ result[f].code
  /\ flow' = [flow EXCEPT ![f].pc = "exchange"]
  /\ UNCHANGED <<result, login, cb, tokens, held, removing, deletes>>

\* Mutant: a code that arrived with the timeout is used.
MutAfterTimeout(f) == IF result[f].code THEN "exchange" ELSE "refused"
\* After 300 seconds no code is returned, whether or not one has arrived.
AfterTimeout(f) == "refused"

\* Mutant: the wait has no timeout.
MutTimesOut(f) == FALSE
TimesOut(f) == flow[f].pc = "wait"

\* The timeout is noticed: the result is a failure at once.
CodeTimeout(f) ==
  /\ TimesOut(f)
  /\ flow' = [flow EXCEPT ![f].pc = AfterTimeout(f)]
  /\ result' = [result EXCEPT ![f].type = "auth_failed", ![f].error = TRUE]
  /\ UNCHANGED <<login, cb, tokens, held, removing, deletes>>

\* The code is exchanged, and the tokens are stored.
Exchange(f) ==
  /\ flow[f].pc = "exchange"
  /\ tokens' = [tokens EXCEPT ![Owner[f]] = f]
  /\ flow' = [flow EXCEPT ![f].pc = "init"]
  /\ UNCHANGED <<result, login, cb, held, removing, deletes>>

\* The end of _authorization_task: the result under its key is changed if there is
\* one; an error is set but never cleared.
End(f, ok) ==
  LET k == flow[f].key
      old == IF Present(k) THEN result[k].error ELSE FALSE
  IN /\ result' = [result EXCEPT ![k] =
          [type |-> IF ok THEN "auth_success" ELSE "auth_failed",
           code |-> result[k].code, error |-> old \/ ~ok]]
     /\ flow' = [flow EXCEPT ![f].pc = "over", ![f].outcome = IF ok THEN "ok" ELSE "failed"]
     /\ Told(f, k)
     /\ UNCHANGED <<cb, tokens, held, removing, deletes>>

\* The session is initialized: after the authorization, or because the server asks
\* for none.
Succeed(f) == flow[f].pc \in {"init", "connect"} /\ End(f, TRUE)

\* The server cannot be reached, the code is refused or missing, or the session fails.
Break(f) == flow[f].pc \in {"connect", "refused", "exchange", "init"} /\ End(f, FALSE)

---------------------------------------------------------------------------
(* OAuthProcessor.execute, which streams two results.                     *)

LoginFirst(f) ==
  /\ login[f].pc = "first" /\ login[f].key # None
  /\ login' = [login EXCEPT
       ![f].first = IF result[login[f].key].error THEN "error" ELSE "ok",
       ![f].pc = IF login[f].key = NoState THEN "done" ELSE "wait"]
  /\ UNCHANGED <<result, flow, cb, tokens, held, removing, deletes>>

\* wait_authorization, without a timeout.
LoginLast(f) ==
  /\ login[f].pc = "wait" /\ IsResult(f)
  /\ login' = [login EXCEPT ![f].last = result[f].type, ![f].pc = "done"]
  /\ UNCHANGED <<result, flow, cb, tokens, held, removing, deletes>>

---------------------------------------------------------------------------
(* oauth_callback.                                                        *)

\* set_oauth_code, for any state there is a result for: the browser may come late,
\* or twice.
Callback(c, f) ==
  /\ cb[c].pc = "idle" /\ Present(f)
  /\ result' = [result EXCEPT ![f].type = "code_set", ![f].code = TRUE]
  /\ cb' = [cb EXCEPT ![c] = [pc |-> "wait", key |-> f]]
  /\ UNCHANGED <<flow, login, tokens, held, removing, deletes>>

\* Mutant: a code that is set is a result.
MutAuthorized(c) == result[cb[c].key].type \in {"auth_success", "code_set"}
\* What the route takes for an authorization that is over and successful.
Authorized(c) == result[cb[c].key].type = "auth_success"

\* The waiter sees the result: a restart follows a success.
CallbackResult(c) ==
  /\ cb[c].pc = "wait"
  /\ Authorized(c) \/ IsResult(cb[c].key)
  /\ cb' = [cb EXCEPT ![c].pc = IF Authorized(c) THEN "restart" ELSE "failed"]
  /\ UNCHANGED <<result, flow, login, tokens, held, removing, deletes>>

\* The route waits for 10 seconds.
GivesUp(c) == cb[c].pc = "wait"

CallbackTimeout(c) ==
  /\ GivesUp(c)
  /\ cb' = [cb EXCEPT ![c].pc = "failed"]
  /\ UNCHANGED <<result, flow, login, tokens, held, removing, deletes>>

\* restart_mcp_server: the server starts with what is stored.
CallbackRestart(c) ==
  LET s == Owner[cb[c].key]
  IN /\ cb[c].pc = "restart"
     /\ held' = [held EXCEPT ![s] = tokens[s]]
     /\ cb' = [cb EXCEPT ![c].pc = "done"]
     /\ UNCHANGED <<result, flow, login, tokens, removing, deletes>>

---------------------------------------------------------------------------
(* delete_oauth, and the running server.                                  *)

DeleteOAuth(s) ==
  /\ deletes < MaxDelete /\ s \notin removing
  /\ tokens' = [tokens EXCEPT ![s] = None]
  /\ removing' = removing \cup {s} /\ deletes' = deletes + 1
  /\ UNCHANGED <<result, flow, login, cb, held>>

DeleteRestart(s) ==
  /\ s \in removing
  /\ held' = [held EXCEPT ![s] = tokens[s]]
  /\ removing' = removing \ {s}
  /\ UNCHANGED <<result, flow, login, cb, tokens, deletes>>

\* A request of the running server finds its token expiring and refreshes it:
\* set_tokens stores it, as a new row if there is none.
Refresh(s) ==
  /\ held[s] # None
  /\ tokens' = [tokens EXCEPT ![s] = held[s]]
  /\ UNCHANGED <<result, flow, login, cb, held, removing, deletes>>

FlowStep(f) ==
  AskCode(f) \/ TakeCode(f) \/ CodeTimeout(f) \/ Exchange(f) \/ Succeed(f) \/ Break(f)
LoginStep(f) == LoginFirst(f) \/ LoginLast(f)
CallbackStep(c) == CallbackResult(c) \/ CallbackTimeout(c) \/ CallbackRestart(c)

Next ==
  \/ \E f \in Flows : Login(f) \/ FlowStep(f) \/ LoginStep(f)
  \/ \E c \in Callbacks : CallbackStep(c) \/ \E f \in Flows : Callback(c, f)
  \/ \E s \in Servers : DeleteOAuth(s) \/ DeleteRestart(s) \/ Refresh(s)

Spec == Init /\ [][Next]_vars

\* Tasks and routes are scheduled, and all they wait for has a timeout, but for the
\* login's wait for its result.  Nobody has to come back with a code.
Fairness ==
  /\ \A f \in Flows : WF_vars(FlowStep(f)) /\ WF_vars(LoginStep(f))
  /\ \A c \in Callbacks : WF_vars(CallbackStep(c))
  /\ \A s \in Servers : WF_vars(DeleteRestart(s))
FairSpec == Spec /\ Fairness

---------------------------------------------------------------------------
(* Properties.                                                            *)

TypeOK ==
  /\ result \in [Keys -> Record \cup {Absent}]
  /\ flow \in [Flows -> FlowRecord] /\ login \in [Flows -> LoginRecord]
  /\ cb \in [Callbacks -> CbRecord]
  /\ tokens \in [Servers -> Stored] /\ held \in [Servers -> Stored]
  /\ removing \subseteq Servers /\ deletes \in 0..MaxDelete

\* The last word a login streams is how its authorization really ends, whatever the
\* order of codes, timeouts and results: no failure is reported for one that then
\* succeeds, and no success for one that has not.
LastWordTrue ==
  \A f \in Flows :
    /\ login[f].last = "auth_success" => flow[f].outcome = "ok"
    /\ login[f].last = "auth_failed" => flow[f].outcome # "ok" /\ flow[f].pc \notin {"exchange", "init"}

\* The callback route restarts a server only after its authorization has succeeded.
RestartsAuthorized ==
  \A c \in Callbacks : cb[c].pc \in {"restart", "done"} => flow[cb[c].key].outcome = "ok"

\* Every authorization ends, with or without a code, and every request of the
\* callback route is answered, whenever its code comes.
WaitsEnd ==
  /\ \A f \in Flows : (flow[f].pc = "connect") ~> (flow[f].pc = "over")
  /\ \A c \in Callbacks : (cb[c].pc = "wait") ~> (cb[c].pc \in {"failed", "done"})
=============================================================================
