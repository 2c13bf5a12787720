---------------------------- MODULE ServersProofs ----------------------------
(***************************************************************************)
(* Proofs about the servers of the host: for any number of processes and   *)
(* calls a stdio server has one session (OneSession), a local server       *)
(* leaves no process behind (NoOrphan), and a remote server shows the      *)
(* prompts it could hear of (PromptsRefreshed); and about their            *)
(* authorization: what a login is told last (LastWordTrue), and what the   *)
(* callback route takes for a success (RestartsAuthorized), is how the     *)
(* authorization really ends, for any number of servers, authorizations    *)
(* and codes that come late or more than once.                             *)
(***************************************************************************)
EXTENDS MCServers, OAuth, TLAPS

---------------------------------------------------------------------------
(* A stdio server.                                                         *)

StdioTypes ==
  /\ sStatus \in {"INIT", "RUNNING", "CLOSED", "FAILED", "RESTARTING"}
  /\ sCtx \in {"out", "setup", "in", "leaving", "teardown"}
  /\ st \in [Procs -> {"none", "spawn", "shake", "up", "closing"}]
  /\ how \in [Procs -> {"return", "cancel", "unopened", "error"}]
  /\ boot \in Procs \cup {NoProc} /\ cur \in Procs \cup {NoProc}
  /\ sCall \in [Calls -> {"idle", "wait", "use", "cancelled", "error"}]
  /\ on \in [Calls -> Procs \cup {NoProc}]
  /\ errors \in BOOLEAN

\* The setup has a process only while the context is being entered.
BootInSetup == boot # NoProc => sCtx = "setup"

\* While nothing has gone wrong, nothing is on its way that makes a call fail.
NothingFailed ==
  ~errors => /\ sStatus # "RESTARTING" /\ sCtx # "leaving"
             /\ \A p \in Procs : how[p] # "unopened"
             /\ \A c \in Calls : sCall[c] # "error"

StdioInv == StdioTypes /\ BootInSetup /\ NothingFailed /\ Stdio!OneSession

\* A cancelled process is on its way out, and no other one is touched.
LEMMA CutKeeps ==
  ASSUME StdioTypes, BootInSetup, Stdio!OneSession, Stdio!CancelCur, boot' = boot, sCtx' = sCtx
  PROVE  /\ st' \in [Procs -> {"none", "spawn", "shake", "up", "closing"}]
         /\ how' \in [Procs -> {"return", "cancel", "unopened", "error"}]
         /\ cur' = NoProc /\ BootInSetup' /\ Stdio!OneSession'
         /\ \A p \in Procs : how'[p] = "unopened" => how[p] = "unopened"
PROOF
<1>1. \A p \in Procs : Stdio!CancelHow(p) \in {"cancel", "unopened", "error"}
                       /\ (Stdio!CancelHow(p) = "unopened" => how[p] = "unopened")
  BY DEF Stdio!CancelHow, StdioTypes
<1>2. /\ \A p \in Procs : st'[p] = IF p = cur THEN "closing" ELSE st[p]
      /\ \A p \in Procs : how'[p] = IF p = cur THEN Stdio!CancelHow(p) ELSE how[p]
      /\ cur' = NoProc
  BY DEF Stdio!CancelCur
<1>3. /\ st' \in [Procs -> {"none", "spawn", "shake", "up", "closing"}]
      /\ how' \in [Procs -> {"return", "cancel", "unopened", "error"}]
  BY <1>1 DEF Stdio!CancelCur, StdioTypes
<1> QED
  BY <1>1, <1>2, <1>3 DEF BootInSetup, Stdio!OneSession

\* Every step of a stdio server keeps its invariant.
LEMMA StdioKeeps ==
  ASSUME StdioInv, Stdio!Next
  PROVE  StdioInv'
PROOF
<1>0. StdioTypes /\ BootInSetup /\ NothingFailed /\ Stdio!OneSession
  BY DEF StdioInv
<1> USE NoProcAssumption DEF StdioTypes
<1>1. ASSUME NEW p \in Procs, Stdio!Enter(p) PROVE StdioInv'
  <2>1. boot = NoProc
    BY <1>0, <1>1 DEF BootInSetup, Stdio!Enter
  <2> QED
    BY <1>0, <1>1, <2>1 DEF StdioInv, BootInSetup, NothingFailed, Stdio!OneSession, Stdio!Enter
<1>2. CASE Stdio!SetupDone
  BY <1>0, <1>2 DEF StdioInv, BootInSetup, NothingFailed, Stdio!OneSession, Stdio!SetupDone
<1>3. CASE Stdio!Leave
  BY <1>0, <1>3 DEF StdioInv, BootInSetup, NothingFailed, Stdio!OneSession, Stdio!Leave
<1>4. CASE Stdio!Cleanup
  <2>1. boot = NoProc /\ boot' = boot /\ sCtx' = "teardown" /\ errors /\ errors'
    BY <1>0, <1>4 DEF BootInSetup, NothingFailed, Stdio!Cleanup
  <2>2. \A p \in Procs : st'[p] \in {"spawn", "shake", "up"} => FALSE
    BY <1>0, <1>4, <2>1 DEF Stdio!Cleanup, Stdio!CancelCur, Stdio!OneSession
  <2>3. \A p \in Procs : Stdio!CancelHow(p) \in {"cancel", "unopened", "error"}
    BY DEF Stdio!CancelHow
  <2>4. StdioTypes'
    BY <1>0, <1>4, <2>1, <2>3 DEF Stdio!Cleanup, Stdio!CancelCur
  <2> QED
    BY <2>1, <2>2, <2>4 DEF StdioInv, BootInSetup, NothingFailed, Stdio!OneSession
<1>5. CASE Stdio!Teardown
  BY <1>0, <1>5 DEF StdioInv, BootInSetup, NothingFailed, Stdio!OneSession, Stdio!Teardown
<1>6. ASSUME NEW p \in Procs, Stdio!Spawned(p) PROVE StdioInv'
  BY <1>0, <1>6 DEF StdioInv, BootInSetup, NothingFailed, Stdio!OneSession, Stdio!Spawned
<1>7. ASSUME NEW p \in Procs, Stdio!Opened(p) PROVE StdioInv'
  BY <1>0, <1>7 DEF StdioInv, BootInSetup, NothingFailed, Stdio!OneSession, Stdio!Opened
<1>8. ASSUME NEW p \in Procs, Stdio!OpenFails(p) PROVE StdioInv'
  BY <1>0, <1>8 DEF StdioInv, BootInSetup, NothingFailed, Stdio!OneSession, Stdio!OpenFails
<1>9. ASSUME NEW p \in Procs, Stdio!Breaks(p) PROVE StdioInv'
  BY <1>0, <1>9 DEF StdioInv, BootInSetup, NothingFailed, Stdio!OneSession, Stdio!Breaks
<1>10. ASSUME NEW p \in Procs, Stdio!Idle(p) PROVE StdioInv'
  BY <1>0, <1>10 DEF StdioInv, BootInSetup, NothingFailed, Stdio!OneSession, Stdio!Idle
<1>11. ASSUME NEW p \in Procs, Stdio!Gone(p) PROVE StdioInv'
  BY <1>0, <1>11 DEF StdioInv, BootInSetup, NothingFailed, Stdio!OneSession, Stdio!Gone,
     Stdio!StatusAfter
<1>12. ASSUME NEW c \in Calls, Stdio!CallJoins(c) PROVE StdioInv'
  BY <1>0, <1>12 DEF StdioInv, BootInSetup, NothingFailed, Stdio!OneSession, Stdio!CallJoins
<1>13. ASSUME NEW c \in Calls, Stdio!CallDone(c) PROVE StdioInv'
  BY <1>0, <1>13 DEF StdioInv, BootInSetup, NothingFailed, Stdio!OneSession, Stdio!CallDone
<1>14. ASSUME NEW c \in Calls, Stdio!CallFails(c) \/ Stdio!CallAborted(c) PROVE StdioInv'
  <2>1. Stdio!CancelCur /\ UNCHANGED <<boot, sCtx, sStatus>>
    BY <1>14 DEF Stdio!CallFails, Stdio!CallAborted, Stdio!Cut
  <2>2. sCall' \in [Calls -> {"idle", "wait", "use", "cancelled", "error"}]
        /\ on' \in [Calls -> Procs \cup {NoProc}] /\ errors' \in BOOLEAN
    <3>1. CASE Stdio!CallFails(c)
      BY <1>0, <3>1 DEF Stdio!CallFails, Stdio!Cut
    <3>2. CASE Stdio!CallAborted(c)
      BY <1>0, <3>2 DEF Stdio!CallAborted, Stdio!Cut
    <3> QED
      BY <1>14, <3>1, <3>2
  <2>3. ~errors' => ~errors /\ \A d \in Calls : sCall'[d] # "error"
    BY <1>0, <1>14 DEF Stdio!CallFails, Stdio!CallAborted, Stdio!Cut, NothingFailed
  <2>4. StdioTypes' /\ BootInSetup' /\ Stdio!OneSession'
        /\ \A p \in Procs : how'[p] = "unopened" => how[p] = "unopened"
    BY <1>0, <2>1, <2>2, CutKeeps
  <2> QED
    BY <1>0, <2>1, <2>3, <2>4 DEF StdioInv, NothingFailed
<1>15. ASSUME NEW c \in Calls, Stdio!CallCancelled(c) PROVE StdioInv'
  BY <1>0, <1>15 DEF StdioInv, BootInSetup, NothingFailed, Stdio!OneSession, Stdio!CallCancelled
<1>16. ASSUME NEW c \in Calls, Stdio!CallErrors(c) PROVE StdioInv'
  BY <1>0, <1>16 DEF StdioInv, BootInSetup, NothingFailed, Stdio!OneSession, Stdio!CallErrors
<1>17. ASSUME NEW c \in Calls, NEW p \in Procs, Stdio!CallOpens(c, p) PROVE StdioInv'
  BY <1>0, <1>17 DEF StdioInv, BootInSetup, NothingFailed, Stdio!OneSession, Stdio!CallOpens
<1> QED
  BY <1>1, <1>2, <1>3, <1>4, <1>5, <1>6, <1>7, <1>8, <1>9, <1>10, <1>11, <1>12, <1>13, <1>14, <1>15,
     <1>16, <1>17 DEF Stdio!Next, Stdio!Context, Stdio!Process, Stdio!ToolCall

---------------------------------------------------------------------------
(* A local HTTP server.                                                    *)

\* The watcher ends only with its subprocess, and the context only after it.
LEMMA LocalKeeps ==
  ASSUME NoOrphan, Local!Next
  PROVE  NoOrphan'
PROOF
<1> USE DEF NoOrphan, Local!NoOrphan
<1>1. CASE Local!Watcher
  BY <1>1 DEF Local!Watcher, Local!Launch, Local!Up, Local!LaunchFails, Local!Seen, Local!Cancelled,
     Local!Stopped, Local!notWatcher
<1>2. CASE Local!Break
  BY <1>2 DEF Local!Break, Local!notWatcher
<1>3. CASE Local!Context
  BY <1>3 DEF Local!Context, Local!Enter, Local!SetupDone, Local!Leave, Local!Teardown,
     Local!TeardownTimeout, Local!TeardownDone
<1>4. ASSUME NEW c \in Calls, Local!ToolCall(c) PROVE NoOrphan'
  BY <1>4 DEF Local!ToolCall, Local!CallStart, Local!CallConnects, Local!CallRefused,
     Local!CallEnds, Local!CallAsksRestart, Local!notCall
<1> QED
  BY <1>1, <1>2, <1>3, <1>4 DEF Local!Next

---------------------------------------------------------------------------
(* A remote server.                                                        *)

\* A server that is left is not RUNNING, nor is it before its tools are listed again.
RunsInside ==
  /\ at \in {"leave", "cleanup", "out", "connect", "list"} => hStatus # "RUNNING"
  /\ at = "close" => hStatus = "RUNNING"

\* A list that is on its way to the cache is the server's own, unless a change was
\* missed.
ListsCurrent ==
  supports /\ ~missed =>
    /\ at = "list" => listed = offered
    /\ at \in {"close", "in"} /\ hStatus = "RUNNING" =>
         /\ refresh = "none" => prompts = offered
         /\ refresh = "save" => answer = offered

HttpInv ==
  /\ refresh \in {"none", "start", "ask", "save"}
  /\ RunsInside /\ ListsCurrent /\ Http!RefreshInside

\* Every step of a remote server keeps its invariant.
LEMMA HttpKeeps ==
  ASSUME HttpInv, Http!Next
  PROVE  HttpInv'
PROOF
<1> USE DEF HttpInv, RunsInside, ListsCurrent, Http!RefreshInside
<1>1. CASE Http!Enter
  BY <1>1 DEF Http!Enter
<1>2. CASE Http!SetupListed
  BY <1>2 DEF Http!SetupListed
<1>3. CASE Http!SetupDone
  BY <1>3 DEF Http!SetupDone
<1>4. ASSUME NEW s \in {"FAILED", "UNAUTHORIZED"}, Http!SetupFails(s) PROVE HttpInv'
  BY <1>4 DEF Http!SetupFails
<1>5. ASSUME NEW has \in BOOLEAN, Http!SetupInitialized(has) PROVE HttpInv'
  BY <1>5 DEF Http!SetupInitialized
<1>6. CASE Http!PromptsChange
  BY <1>6 DEF Http!PromptsChange, Http!Heard, Http!Schedules
<1>7. CASE Http!RefreshOpens \/ Http!RefreshAnswered \/ Http!RefreshFails \/ Http!RefreshSaves
  BY <1>7 DEF Http!RefreshOpens, Http!RefreshAnswered, Http!RefreshFails, Http!RefreshSaves
<1>8. ASSUME NEW c \in Calls, Http!Open(c) \/ Http!Close(c) PROVE HttpInv'
  BY <1>8 DEF Http!Open, Http!Close
<1>9. CASE Http!Leave \/ Http!LeaveCancels \/ Http!LeaveCleans
  BY <1>9 DEF Http!Leave, Http!LeaveCancels, Http!LeaveCleans
<1> QED
  BY <1>1, <1>2, <1>3, <1>4, <1>5, <1>6, <1>7, <1>8, <1>9 DEF Http!Next

---------------------------------------------------------------------------
ServersInv == StdioInv /\ NoOrphan /\ HttpInv

\* Every step of one server keeps the invariants of all, and they hold at the start.
LEMMA ServersInvariance == ServersSpec => []ServersInv
PROOF
<1>1. ServersInit => ServersInv
  <2> SUFFICES ASSUME ServersInit PROVE ServersInv
    OBVIOUS
  <2>1. StdioInv
    BY NoProcAssumption DEF ServersInit, Stdio!Init, StdioInv, StdioTypes, BootInSetup, NothingFailed,
       Stdio!OneSession
  <2>2. NoOrphan
    BY DEF ServersInit, Local!Init, NoOrphan, Local!NoOrphan
  <2>3. HttpInv
    BY DEF ServersInit, Http!Init, HttpInv, RunsInside, ListsCurrent, Http!RefreshInside
  <2> QED
    BY <2>1, <2>2, <2>3 DEF ServersInv
<1>2. ASSUME ServersInv, [ServersNext]_serversVars PROVE ServersInv'
  <2>1. UNCHANGED stdioVars => StdioInv'
    BY <1>2 DEF ServersInv, stdioVars, StdioInv, StdioTypes, BootInSetup, NothingFailed, Stdio!OneSession
  <2>2. UNCHANGED localVars => NoOrphan'
    BY <1>2 DEF ServersInv, localVars, NoOrphan, Local!NoOrphan
  <2>3. UNCHANGED httpVars => HttpInv'
    BY <1>2 DEF ServersInv, httpVars, HttpInv, RunsInside, ListsCurrent, Http!RefreshInside
  <2> QED
    BY <1>2, <2>1, <2>2, <2>3, StdioKeeps, LocalKeeps, HttpKeeps DEF ServersInv, ServersNext, serversVars
<1> QED
  BY <1>1, <1>2, PTL DEF ServersSpec

\* A stdio server has one session at a time, whatever its calls, its setup and its
\* process do, and only an error can make it RESTARTING (_stdio_session).
THEOREM OneSessionEach == ServersSpec => []OneSession
PROOF
<1>1. ServersInv => OneSession
  BY DEF ServersInv, StdioInv, NothingFailed, OneSession, Stdio!AbortNeverRestarts
<1> QED
  BY <1>1, ServersInvariance, PTL

\* The watcher of a local server takes its subprocess with it, and is awaited
\* (_local_http_process_watcher, _local_http_teardown).
THEOREM NoOrphanLeft == ServersSpec => []NoOrphan
PROOF
<1>1. ServersInv => NoOrphan
  BY DEF ServersInv
<1> QED
  BY <1>1, ServersInvariance, PTL

\* A running remote server shows the prompts that it has, but for changes it could not
\* hear of, and is left without a task that refreshes them (_refresh_prompts).
THEOREM PromptsStayFresh == ServersSpec => []PromptsRefreshed
PROOF
<1>1. ServersInv => PromptsRefreshed
  BY DEF ServersInv, HttpInv, ListsCurrent, PromptsRefreshed, Http!PromptsFresh
<1> QED
  BY <1>1, ServersInvariance, PTL

---------------------------------------------------------------------------
(* The authorization of servers.                                           *)

\* The types the argument needs.
Typed ==
  /\ result \in [Keys -> Record \cup {Absent}]
  /\ flow \in [Flows -> FlowRecord] /\ login \in [Flows -> LoginRecord]
  /\ cb \in [Callbacks -> CbRecord]

\* The other types, of what an authorization leaves behind.
TokensTyped ==
  /\ tokens \in [Servers -> Stored] /\ held \in [Servers -> Stored]
  /\ removing \subseteq Servers /\ deletes \in 0..MaxDelete

\* A flow without a state has left no result under it, and has not succeeded.
KeyOfFlow ==
  \A f \in Flows :
    /\ flow[f].pc \in {"idle", "connect"} => flow[f].key = NoState
    /\ flow[f].key = NoState => result[f] = Absent
    /\ flow[f].key = f => result[f] \in Record
    /\ flow[f].key \in {NoState, f}
    /\ flow[f].outcome = "ok" => flow[f].pc = "over"
    /\ flow[f].pc \in {"wait", "refused", "exchange", "init"} => flow[f].key = f

\* A result under a state is that of its flow: a success only after its end, a failure
\* only once it cannot succeed any more.
ResultOfFlow ==
  \A f \in Flows :
    /\ result[f].type = "auth_success" => flow[f].outcome = "ok"
    /\ result[f].type = "auth_failed" =>
         flow[f].pc \in {"refused", "over"} /\ flow[f].outcome # "ok"

\* What routes have seen is what holds for good.
SeenIsTrue ==
  /\ \A f \in Flows :
       /\ login[f].last = "auth_success" => flow[f].outcome = "ok"
       /\ login[f].last = "auth_failed" =>
            flow[f].pc \in {"refused", "over"} /\ flow[f].outcome # "ok"
  /\ \A c \in Callbacks :
       /\ cb[c].pc # "idle" => cb[c].key \in Flows
       /\ cb[c].pc \in {"restart", "done"} => flow[cb[c].key].outcome = "ok"

AuthInv == Typed /\ KeyOfFlow /\ ResultOfFlow /\ SeenIsTrue

\* The absent result is no result.
LEMMA NoResult ==
  /\ Absent.type = "absent" /\ Absent \notin Record
  /\ \A f \in Flows : f \in Keys /\ f # NoState
  /\ NoState \in Keys
PROOF
<1> QED
  BY KeysAssumption DEF Absent, Record, ResultType, Results, Keys

LEMMA InitAuthInv == Init => AuthInv
PROOF
<1> QED
  BY NoResult
  DEF Init, AuthInv, Typed, KeyOfFlow, ResultOfFlow, SeenIsTrue, FlowRecord, FlowPcs, LoginRecord,
      LoginPcs, CbRecord, Outcomes, Results

\* The end of a flow, successful or not.
LEMMA EndKeeps ==
  ASSUME NEW f \in Flows, NEW ok \in BOOLEAN, AuthInv, End(f, ok),
         flow[f].pc \in {"connect", "refused", "exchange", "init"},
         ok => flow[f].pc \in {"connect", "init"}
  PROVE  AuthInv'
PROOF
<1> DEFINE k == flow[f].key
<1> DEFINE new == [type |-> IF ok THEN "auth_success" ELSE "auth_failed",
                   code |-> result[k].code,
                   error |-> (IF Present(k) THEN result[k].error ELSE FALSE) \/ ~ok]
<1>k. k \in {NoState, f} /\ k \in Keys
  BY NoResult DEF AuthInv, KeyOfFlow
<1>r. result' = [result EXCEPT ![k] = new]
  BY DEF End
<1>1. result[k] \in Record \cup {Absent}
  BY <1>k DEF AuthInv, Typed
<1>2. result[k].code \in BOOLEAN /\ result[k].error \in BOOLEAN
  <2> DEFINE r == result[k]
  <2>1. r \in Record => r.code \in BOOLEAN /\ r.error \in BOOLEAN
    BY DEF Record
  <2>2. r = Absent => r.code = FALSE /\ r.error = FALSE
    BY DEF Absent
  <2> QED
    BY <1>1, <2>1, <2>2
<1>3. new \in Record /\ new.type = IF ok THEN "auth_success" ELSE "auth_failed"
  BY <1>2 DEF Record, ResultType, Results
<1> HIDE DEF new, k
<1>4. flow' = [flow EXCEPT ![f].pc = "over", ![f].outcome = IF ok THEN "ok" ELSE "failed"]
      /\ cb' = cb /\ Told(f, k)
  BY DEF End, k
<1>5. \A g \in Flows : /\ login'[g].last = login[g].last
                       /\ login'[g] \in LoginRecord
  BY <1>k, <1>4 DEF Told, AuthInv, Typed, LoginRecord
<1>6. Typed'
  <2>1. result' \in [Keys -> Record \cup {Absent}]
    BY <1>k, <1>r, <1>3 DEF AuthInv, Typed
  <2>2. flow' \in [Flows -> FlowRecord]
    BY <1>4 DEF AuthInv, Typed, FlowRecord, FlowPcs, Outcomes
  <2>3. login' \in [Flows -> LoginRecord]
    BY <1>4, <1>5 DEF Told, AuthInv, Typed
  <2> QED
    BY <2>1, <2>2, <2>3, <1>4 DEF AuthInv, Typed
<1>7. \A g \in Flows : g # f => flow'[g] = flow[g] /\ result'[g] = result[g]
  BY <1>k, <1>r, <1>4, NoResult DEF AuthInv, Typed
<1>8. /\ flow'[f].pc = "over" /\ flow'[f].key = k
      /\ flow'[f].outcome = IF ok THEN "ok" ELSE "failed"
  BY <1>4 DEF AuthInv, Typed, FlowRecord, k
<1>9. (k = f => result'[f] = new) /\ (k = NoState => result'[f] = result[f])
  BY <1>k, <1>r, NoResult DEF AuthInv, Typed
<1>10. flow[f].outcome # "ok"
  BY DEF AuthInv, KeyOfFlow
<1>11. KeyOfFlow'
  BY <1>k, <1>3, <1>7, <1>8, <1>9, NoResult DEF AuthInv, KeyOfFlow, k
<1>12. ResultOfFlow'
  BY <1>k, <1>3, <1>7, <1>8, <1>9, NoResult DEF AuthInv, KeyOfFlow, ResultOfFlow, k
<1>13. SeenIsTrue'
  <2>1. ASSUME NEW g \in Flows
        PROVE  /\ login'[g].last = "auth_success" => flow'[g].outcome = "ok"
               /\ login'[g].last = "auth_failed" =>
                    flow'[g].pc \in {"refused", "over"} /\ flow'[g].outcome # "ok"
    BY <1>5, <1>7, <1>8, <1>10 DEF AuthInv, SeenIsTrue
  <2>2. ASSUME NEW c \in Callbacks
        PROVE  /\ cb'[c].pc # "idle" => cb'[c].key \in Flows
               /\ cb'[c].pc \in {"restart", "done"} => flow'[cb'[c].key].outcome = "ok"
    BY <1>4, <1>7, <1>10 DEF AuthInv, SeenIsTrue
  <2> QED
    BY <2>1, <2>2 DEF SeenIsTrue
<1> QED
  BY <1>6, <1>11, <1>12, <1>13 DEF AuthInv

LEMMA NextAuthInv == AuthInv /\ [Next]_vars => AuthInv'
PROOF
<1> SUFFICES ASSUME AuthInv, [Next]_vars PROVE AuthInv'
  OBVIOUS
<1>t. Typed
  BY DEF AuthInv
<1>1. ASSUME NEW f \in Flows, Login(f) PROVE AuthInv'
  <2>1. /\ flow' \in [Flows -> FlowRecord]
        /\ \A g \in Flows : g # f => flow'[g] = flow[g]
        /\ flow'[f].pc = "connect" /\ flow'[f].key = flow[f].key
        /\ flow'[f].outcome = flow[f].outcome
    BY <1>1, <1>t DEF Login, Typed, FlowRecord, FlowPcs
  <2>2. login' \in [Flows -> LoginRecord] /\ \A g \in Flows : login'[g].last = login[g].last
    BY <1>1, <1>t DEF Login, Typed, LoginRecord, LoginPcs
  <2>3. flow[f].key = NoState /\ result[f] = Absent /\ flow[f].outcome # "ok" /\ flow[f].pc = "idle"
    BY <1>1 DEF Login, AuthInv, KeyOfFlow
  <2> QED
    BY <1>1, <1>t, <2>1, <2>2, <2>3, NoResult
    DEF Login, AuthInv, Typed, KeyOfFlow, ResultOfFlow, SeenIsTrue
<1>2. ASSUME NEW f \in Flows, AskCode(f) PROVE AuthInv'
  <2> DEFINE new == [type |-> "wait_code", code |-> FALSE, error |-> FALSE]
  <2>1. new \in Record /\ new.type = "wait_code"
    BY DEF Record, ResultType
  <2> HIDE DEF new
  <2>2. result' = [result EXCEPT ![f] = new]
    BY <1>2 DEF AskCode, Asked, new
  <2>3. \A g \in Flows : login'[g].last = login[g].last /\ login'[g] \in LoginRecord
    BY <1>2, <1>t, NoResult DEF AskCode, Told, Typed, LoginRecord
  <2>4. login' \in [Flows -> LoginRecord]
    BY <1>2, <1>t, <2>3 DEF AskCode, Told, Typed
  <2> QED
    BY <1>2, <1>t, <2>1, <2>2, <2>3, <2>4, NoResult
    DEF AskCode, AuthInv, Typed, KeyOfFlow, ResultOfFlow, SeenIsTrue, FlowRecord, FlowPcs
<1>3. ASSUME NEW f \in Flows, TakeCode(f) PROVE AuthInv'
  BY <1>3, <1>t, NoResult
  DEF TakeCode, AuthInv, Typed, KeyOfFlow, ResultOfFlow, SeenIsTrue, FlowRecord, FlowPcs
<1>4. ASSUME NEW f \in Flows, CodeTimeout(f) PROVE AuthInv'
  <2>1. result[f] \in Record
    BY <1>4, NoResult DEF CodeTimeout, TimesOut, AuthInv, KeyOfFlow
  <2> DEFINE new == [result[f] EXCEPT !.type = "auth_failed", !.error = TRUE]
  <2>2. new \in Record /\ new.type = "auth_failed"
    BY <2>1 DEF Record, ResultType, Results
  <2>3. result' = [result EXCEPT ![f] = new]
    BY <1>4, <1>t, NoResult DEF CodeTimeout, Typed
  <2> HIDE DEF new
  <2>4. /\ result' \in [Keys -> Record \cup {Absent}] /\ result'[f] = new
        /\ \A g \in Flows : g # f => result'[g] = result[g]
    BY <1>t, <2>2, <2>3, NoResult DEF Typed
  <2>5. /\ flow' \in [Flows -> FlowRecord]
        /\ flow'[f].pc = "refused" /\ flow'[f].key = flow[f].key
        /\ flow'[f].outcome = flow[f].outcome
        /\ \A g \in Flows : g # f => flow'[g] = flow[g]
    BY <1>4, <1>t DEF CodeTimeout, AfterTimeout, Typed, FlowRecord, FlowPcs
  <2>6. flow[f].pc = "wait" /\ flow[f].key = f /\ flow[f].outcome # "ok" /\ f # NoState
    BY <1>4, NoResult DEF CodeTimeout, TimesOut, AuthInv, KeyOfFlow
  <2>7. login' = login /\ cb' = cb
    BY <1>4 DEF CodeTimeout
  <2>8. Typed'
    BY <1>t, <2>4, <2>5, <2>7 DEF Typed
  <2>9. KeyOfFlow'
    BY <2>2, <2>4, <2>5, <2>6 DEF AuthInv, KeyOfFlow
  <2>10. ResultOfFlow'
    BY <2>2, <2>4, <2>5, <2>6 DEF AuthInv, ResultOfFlow
  <2>11. SeenIsTrue'
    BY <2>5, <2>6, <2>7 DEF AuthInv, SeenIsTrue
  <2> QED
    BY <2>8, <2>9, <2>10, <2>11 DEF AuthInv
<1>5. ASSUME NEW f \in Flows, Exchange(f) PROVE AuthInv'
  BY <1>5, <1>t, NoResult
  DEF Exchange, AuthInv, Typed, KeyOfFlow, ResultOfFlow, SeenIsTrue, FlowRecord, FlowPcs
<1>6. ASSUME NEW f \in Flows, Succeed(f) \/ Break(f) PROVE AuthInv'
  BY <1>6, EndKeeps DEF Succeed, Break
<1>7. ASSUME NEW f \in Flows, LoginStep(f) PROVE AuthInv'
  BY <1>7, <1>t, NoResult
  DEF LoginStep, LoginFirst, LoginLast, IsResult, AuthInv, Typed, KeyOfFlow, ResultOfFlow,
      SeenIsTrue, LoginRecord, LoginPcs, Results
<1>8. ASSUME NEW c \in Callbacks, NEW f \in Flows, Callback(c, f) PROVE AuthInv'
  <2>1. result[f] \in Record /\ result[f] # Absent /\ f \in Keys
    BY <1>8, <1>t, NoResult DEF Callback, Present, Typed
  <2> DEFINE new == [result[f] EXCEPT !.type = "code_set", !.code = TRUE]
  <2>2. new \in Record /\ new.type = "code_set"
    BY <2>1 DEF Record, ResultType
  <2>3. result' = [result EXCEPT ![f] = new]
    BY <1>8, <1>t, <2>1 DEF Callback, Typed
  <2> HIDE DEF new
  <2>4. /\ result' \in [Keys -> Record \cup {Absent}] /\ result'[f] = new
        /\ \A g \in Flows : g # f => result'[g] = result[g]
    BY <1>t, <2>2, <2>3, NoResult DEF Typed
  <2>5. /\ cb' \in [Callbacks -> CbRecord]
        /\ cb'[c].pc = "wait" /\ cb'[c].key = f
        /\ \A d \in Callbacks : d # c => cb'[d] = cb[d]
    BY <1>8, <1>t, <2>1 DEF Callback, Typed, CbRecord
  <2>6. flow' = flow /\ login' = login /\ flow[f].key # NoState
    BY <1>8, <2>1 DEF Callback, AuthInv, KeyOfFlow
  <2>7. Typed'
    BY <1>t, <2>4, <2>5, <2>6 DEF Typed
  <2>8. KeyOfFlow'
    BY <2>2, <2>4, <2>6 DEF AuthInv, KeyOfFlow
  <2>9. ResultOfFlow'
    BY <2>2, <2>4, <2>6 DEF AuthInv, ResultOfFlow
  <2>10. SeenIsTrue'
    BY <2>5, <2>6 DEF AuthInv, SeenIsTrue
  <2> QED
    BY <2>7, <2>8, <2>9, <2>10 DEF AuthInv
<1>9. ASSUME NEW c \in Callbacks, CallbackStep(c) PROVE AuthInv'
  <2> USE DEF AuthInv, Typed, KeyOfFlow, ResultOfFlow, SeenIsTrue, CbRecord
  <2>1. CASE CallbackResult(c)
    BY <2>1, <1>t, NoResult DEF CallbackResult, Authorized, IsResult, Results
  <2>2. CASE CallbackTimeout(c)
    BY <2>2, <1>t DEF CallbackTimeout, GivesUp
  <2>3. CASE CallbackRestart(c)
    BY <2>3, <1>t DEF CallbackRestart
  <2> QED
    BY <1>9, <2>1, <2>2, <2>3 DEF CallbackStep
<1>10. ASSUME NEW s \in Servers, DeleteOAuth(s) \/ DeleteRestart(s) \/ Refresh(s) PROVE AuthInv'
  BY <1>10, <1>t
  DEF DeleteOAuth, DeleteRestart, Refresh, AuthInv, Typed, KeyOfFlow, ResultOfFlow, SeenIsTrue
<1>11. CASE UNCHANGED vars
  BY <1>11, <1>t DEF vars, AuthInv, Typed, KeyOfFlow, ResultOfFlow, SeenIsTrue
<1> QED
  BY <1>1, <1>2, <1>3, <1>4, <1>5, <1>6, <1>7, <1>8, <1>9, <1>10, <1>11 DEF Next, FlowStep

LEMMA AuthInvariance == Spec => []AuthInv
PROOF
<1> QED
  BY InitAuthInv, NextAuthInv, PTL DEF Spec

LEMMA TokensInvariance == Spec => []TokensTyped
PROOF
<1>1. Init => TokensTyped
  BY BoundAssumption DEF Init, TokensTyped, Stored
<1>2. TokensTyped /\ [Next]_vars => TokensTyped'
  <2> SUFFICES ASSUME TokensTyped, [Next]_vars PROVE TokensTyped'
    OBVIOUS
  <2>1. ASSUME NEW f \in Flows, Login(f) PROVE TokensTyped'
    BY <2>1 DEF Login, TokensTyped, Stored
  <2>2. ASSUME NEW f \in Flows, Exchange(f) PROVE TokensTyped'
    BY <2>2 DEF Exchange, TokensTyped, Stored
  <2>3. ASSUME NEW s \in Servers, DeleteOAuth(s) PROVE TokensTyped'
    BY <2>3, BoundAssumption DEF DeleteOAuth, TokensTyped, Stored
  <2>4. ASSUME NEW s \in Servers, DeleteRestart(s) \/ Refresh(s) PROVE TokensTyped'
    BY <2>4 DEF DeleteRestart, Refresh, TokensTyped
  <2>5. ASSUME NEW c \in Callbacks, CallbackStep(c) PROVE TokensTyped'
    BY <2>5 DEF CallbackStep, CallbackResult, CallbackTimeout, CallbackRestart, TokensTyped
  <2>6. ASSUME UNCHANGED <<tokens, held, removing, deletes>> PROVE TokensTyped'
    BY <2>6 DEF TokensTyped
  <2> QED
    BY <2>1, <2>2, <2>3, <2>4, <2>5, <2>6
    DEF Next, FlowStep, AskCode, TakeCode, CodeTimeout, Succeed, Break, End, LoginStep, LoginFirst,
        LoginLast, Callback, vars
<1> QED
  BY <1>1, <1>2, PTL DEF Spec

\* Every variable of the authorizations keeps its type, for any number of servers,
\* authorizations, codes and deletions.
THEOREM TypesAreKept == Spec => []TypeOK
PROOF
<1>1. AuthInv /\ TokensTyped => TypeOK
  BY DEF AuthInv, Typed, TokensTyped, TypeOK
<1> QED
  BY <1>1, AuthInvariance, TokensInvariance, PTL

\* The last word of a login is how its authorization really ends.
THEOREM LastWordIsTrue == Spec => []LastWordTrue
PROOF
<1>1. AuthInv => LastWordTrue
  BY DEF AuthInv, SeenIsTrue, LastWordTrue
<1> QED
  BY <1>1, AuthInvariance, PTL

\* The callback route restarts a server only after its authorization has succeeded.
THEOREM RestartsAreAuthorized == Spec => []RestartsAuthorized
PROOF
<1>1. AuthInv => RestartsAuthorized
  BY DEF AuthInv, SeenIsTrue, RestartsAuthorized
<1> QED
  BY <1>1, AuthInvariance, PTL
=============================================================================
