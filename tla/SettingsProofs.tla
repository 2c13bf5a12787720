--------------------------- MODULE SettingsProofs ---------------------------
(***************************************************************************)
(* The lock of the host keeps reloads in the order in which settings were  *)
(* saved: for any number of clients, settings and restarts the host ends   *)
(* with what was saved last (ServesSaved), the files hold what the         *)
(* managers hold (FilesCurrent), and a logout leaves no token              *)
(* (LogoutForgets).                                                        *)
(***************************************************************************)
EXTENDS Settings, TLAPS

\* The last reload at the lock is with what was saved last.
LastIsSaved ==
  up /\ reloads # <<>> =>
    /\ reloads[Len(reloads)].config.llm = setting
    /\ reloads[Len(reloads)].config.server.on = servers.on

\* The reload that restarts the tools holds the lock, and the host has its configuration.
HeadServed == stage = "tools" => up /\ reloads # <<>> /\ host = Head(reloads).config

\* A host that has a model has that of its configuration.
ModelOfHost == up /\ model # None => model = host.llm

\* When no reload is left the host has what was saved, or no model.
SavedWhenDone ==
  up /\ reloads = <<>> /\ model # None => host.llm = setting /\ tools.on = servers.on

\* What the managers hold is in the files, also between two writes of a handler.
FilesAgree == up => modelFile = setting /\ serverFile = servers /\ authFile = auth

\* A server that is down has no reloads.
DownIsQuiet == ~up => reloads = <<>>

IInv == DownIsQuiet /\ TypeOK /\ LastIsSaved /\ HeadServed /\ ModelOfHost /\ SavedWhenDone /\ FilesAgree

\* Filling in a token, or the placeholder, changes nothing else.
LEMMA FilledKeepsOn ==
  ASSUME NEW s \in Server, NEW token \in Tokens \cup {None}
  PROVE  Filled(s, token) \in Server /\ Filled(s, token).on = s.on
PROOF
<1> QED
  BY DEF Filled, Server

LEMMA BlankedKeepsOn ==
  ASSUME NEW s \in Server, NEW token \in Tokens \cup {None}
  PROVE  Blanked(s, token) \in Server /\ Blanked(s, token).on = s.on
PROOF
<1> QED
  BY DEF Blanked, Server

\* The queue with one more reload at its end.
LEMMA Queued ==
  ASSUME NEW c \in Clients, NEW llm \in Llms, NEW s \in Server, NEW Q \in Seq(Reload)
  PROVE  LET new == Append(Q, ReloadOf(c, llm, s))
         IN /\ new \in Seq(Reload) /\ new # <<>>
            /\ new[Len(new)].config = [llm |-> llm, server |-> s]
            /\ Q # <<>> => Head(new) = Head(Q)
PROOF
<1> DEFINE r == ReloadOf(c, llm, s)
<1>1. r \in Reload /\ r.config = [llm |-> llm, server |-> s]
  BY DEF ReloadOf, Reload, HostConfig
<1> HIDE DEF r
<1>2. /\ Append(Q, r) \in Seq(Reload) /\ Len(Append(Q, r)) = Len(Q) + 1
      /\ Append(Q, r)[Len(Q) + 1] = r
      /\ Len(Q) > 0 => Append(Q, r)[1] = Q[1]
  BY <1>1
<1> QED
  BY <1>1, <1>2 DEF r

\* The queue without its head ends as before.
LEMMA Dequeued ==
  ASSUME NEW Q \in Seq(Reload), Q # <<>>
  PROVE  /\ Tail(Q) \in Seq(Reload) /\ Head(Q) \in Reload
         /\ Tail(Q) # <<>> => Tail(Q)[Len(Tail(Q))] = Q[Len(Q)]
         /\ Tail(Q) = <<>> => Head(Q) = Q[Len(Q)]
PROOF
<1>1. Len(Q) \in Nat /\ Len(Q) > 0 /\ Tail(Q) \in Seq(Reload) /\ Len(Tail(Q)) = Len(Q) - 1
  OBVIOUS
<1>2. \A i \in 1..(Len(Q) - 1) : Tail(Q)[i] = Q[i + 1]
  OBVIOUS
<1>3. Tail(Q) # <<>> => Len(Q) - 1 \in 1..(Len(Q) - 1)
  BY <1>1
<1>4. ASSUME Tail(Q) = <<>> PROVE Len(Q) = 1
  <2>1. \A m, n \in Nat : n > 0 /\ m = n - 1 /\ m = 0 => n = 1
    OBVIOUS
  <2>2. Len(<<>>) = 0 /\ Len(Tail(Q)) \in Nat
    BY <1>1, SMTT(20)
  <2>3. Len(Tail(Q)) = 0
    BY <1>4, <2>2, Zenon
  <2> QED
    BY <1>1, <2>1, <2>2, <2>3, Zenon
<1> QED
  BY <1>1, <1>2, <1>3, <1>4

LEMMA InitIInv == Init => IInv
PROOF
<1> SUFFICES ASSUME Init PROVE IInv
  OBVIOUS
<1>1. Idle \in Handlers /\ serverFile \in Server /\ "free" \in Stages /\ modelFile \in Llms
  BY LlmsAssumption DEF Idle, Handlers, Server, Stages, Init
<1>2. reloads \in Seq(Reload) /\ host \in HostConfig
  BY <1>1 DEF Init, HostConfig
<1>3. TypeOK
  BY <1>1, <1>2 DEF Init, TypeOK
<1> QED
  BY <1>3 DEF Init, IInv, LastIsSaved, HeadServed, DownIsQuiet, ModelOfHost, SavedWhenDone, FilesAgree,
       HostConfig, Stages

LEMMA NextIInv == IInv /\ [Next]_vars => IInv'
PROOF
<1> SUFFICES ASSUME IInv, [Next]_vars PROVE IInv'
  OBVIOUS
<1>i. Idle \in Handlers
  BY DEF Idle, Handlers
<1>t. TypeOK
  BY DEF IInv
<1> USE DEF IInv
<1>1. ASSUME NEW c \in Clients, NEW llm \in Llms, PostModel(c, llm) PROVE IInv'
  <2>1. Current \in Server /\ Current.on = servers.on
    BY <1>t, FilledKeepsOn DEF TypeOK, Current
  <2>2. /\ reloads' \in Seq(Reload) /\ reloads' # <<>>
        /\ reloads'[Len(reloads')].config = [llm |-> llm, server |-> Current]
        /\ reloads # <<>> => Head(reloads') = Head(reloads)
    BY <1>t, <1>1, <2>1, Queued DEF PostModel, TypeOK
  <2> QED
    BY <1>t, <1>1, <2>1, <2>2
    DEF PostModel, Serving, TypeOK, LastIsSaved, HeadServed, DownIsQuiet, ModelOfHost, SavedWhenDone, FilesAgree
<1>2. ASSUME NEW c \in Clients, PostServers(c) PROVE IInv'
  <2>1. PICK on \in BOOLEAN : LET s == [Current EXCEPT !.on = on]
         IN /\ serverFile' = s /\ servers' = Saved(s)
            /\ reloads' = Append(reloads, ReloadOf(c, setting, Filled(Saved(s), auth)))
    BY <1>2 DEF PostServers
  <2> DEFINE s == [Current EXCEPT !.on = on]
  <2>2. s \in Server
    BY <1>t, FilledKeepsOn DEF TypeOK, Current, Server
  <2> DEFINE f == Filled(s, auth)
  <2>3. f \in Server /\ f.on = s.on
    BY <1>t, <2>2, FilledKeepsOn DEF TypeOK
  <2>4. serverFile' = s /\ servers' = s /\ reloads' = Append(reloads, ReloadOf(c, setting, f))
    BY <2>1 DEF Saved
  <2> HIDE DEF f, s
  <2>5. /\ reloads' \in Seq(Reload) /\ reloads' # <<>>
        /\ reloads'[Len(reloads')].config = [llm |-> setting, server |-> f]
        /\ reloads # <<>> => Head(reloads') = Head(reloads)
    BY <1>t, <2>3, <2>4, Queued DEF TypeOK
  <2> QED
    BY <1>t, <1>2, <2>2, <2>3, <2>4, <2>5
    DEF PostServers, Serving, TypeOK, LastIsSaved, HeadServed, DownIsQuiet, ModelOfHost, SavedWhenDone, FilesAgree
<1>3. ASSUME NEW token \in Tokens, Login(token) PROVE IInv'
  <2>1. between' \in Handlers
    BY <1>t, <1>3 DEF Login, TypeOK, Handlers
  <2> QED
    BY <1>t, <1>3, <2>1
    DEF Login, Serving, running, TypeOK, LastIsSaved, HeadServed, DownIsQuiet, ModelOfHost, SavedWhenDone, FilesAgree
<1>4. CASE LoginRefresh
  <2>1. Current \in Server /\ Current.on = servers.on
    BY <1>t, FilledKeepsOn DEF TypeOK, Current
  <2> QED
    BY <1>i, <1>t, <1>4, <2>1
    DEF LoginRefresh, running, TypeOK, LastIsSaved, HeadServed, DownIsQuiet, ModelOfHost, SavedWhenDone, FilesAgree
<1>5. CASE Logout
  <2>1. between' \in Handlers
    BY <1>t, <1>5 DEF Logout, TypeOK, Handlers
  <2> QED
    BY <1>t, <1>5, <2>1
    DEF Logout, Serving, running, TypeOK, LastIsSaved, HeadServed, DownIsQuiet, ModelOfHost, SavedWhenDone, FilesAgree
<1>6. CASE LogoutRefresh
  <2>1. Current \in Server /\ Current.on = servers.on
    BY <1>t, FilledKeepsOn DEF TypeOK, Current
  <2>2. between.prev \in Tokens \cup {None}
    BY <1>t DEF TypeOK, Handlers
  <2>3. servers' \in Server /\ servers'.on = servers.on /\ serverFile' = servers'
    BY <1>6, <2>1, <2>2, BlankedKeepsOn DEF LogoutRefresh
  <2> QED
    BY <1>i, <1>t, <1>6, <2>3
    DEF LogoutRefresh, running, TypeOK, LastIsSaved, HeadServed, DownIsQuiet, ModelOfHost, SavedWhenDone, FilesAgree
<1>7. CASE BeginReload
  <2>1. /\ Tail(reloads) \in Seq(Reload) /\ Head(reloads) \in Reload
        /\ Tail(reloads) # <<>> => Tail(reloads)[Len(Tail(reloads))] = reloads[Len(reloads)]
    BY <1>t, <1>7, Dequeued DEF BeginReload, TypeOK
  <2>2. Head(reloads).config \in HostConfig /\ Head(reloads).config.llm \in Llms
    BY <2>1 DEF Reload, HostConfig
  <2> QED
    BY <1>t, <1>7, <2>1, <2>2
    DEF BeginReload, Held, Serving, files, managers, TypeOK, LastIsSaved, HeadServed, DownIsQuiet, ModelOfHost,
        SavedWhenDone, FilesAgree, Stages
<1>8. CASE EndReload
  <2>1. /\ Tail(reloads) \in Seq(Reload)
        /\ Tail(reloads) # <<>> => Tail(reloads)[Len(Tail(reloads))] = reloads[Len(reloads)]
        /\ Tail(reloads) = <<>> => host = reloads[Len(reloads)].config
    BY <1>t, <1>8, Dequeued DEF EndReload, TypeOK, HeadServed
  <2>2. host.server \in Server
    BY <1>t DEF TypeOK, HostConfig
  <2> QED
    BY <1>t, <1>8, <2>1, <2>2
    DEF EndReload, Released, Serving, files, managers, TypeOK, LastIsSaved, HeadServed, DownIsQuiet, ModelOfHost,
        SavedWhenDone, FilesAgree, Stages
<1>9. CASE Crash
  <2>1. <<>> \in Seq(Reload)
    OBVIOUS
  <2> QED
    BY <1>i, <1>t, <1>9, <2>1
    DEF Crash, files, managers, TypeOK, LastIsSaved, HeadServed, DownIsQuiet, ModelOfHost,
        SavedWhenDone, FilesAgree, Stages
<1>10. CASE Restart
  <2>1. Filled(serverFile, authFile) \in Server /\ Filled(serverFile, authFile).on = serverFile.on
    BY <1>t, FilledKeepsOn DEF TypeOK
  <2> QED
    BY <1>t, <1>10, <2>1
    DEF Restart, files, TypeOK, LastIsSaved, HeadServed, DownIsQuiet, ModelOfHost, SavedWhenDone, FilesAgree,
        HostConfig
<1>11. CASE UNCHANGED vars
  BY <1>t, <1>11
  DEF vars, files, managers, running, TypeOK, LastIsSaved, HeadServed, DownIsQuiet, ModelOfHost, SavedWhenDone,
      FilesAgree
<1> QED
  BY <1>1, <1>2, <1>3, <1>4, <1>5, <1>6, <1>7, <1>8, <1>9, <1>10, <1>11 DEF Next

LEMMA Invariance == Spec => []IInv
PROOF
<1> QED
  BY InitIInv, NextIInv, PTL DEF Spec

\* Every variable of the settings keeps its type, for any number of clients, settings,
\* logins and restarts.
THEOREM TypesAreKept == Spec => []TypeOK
PROOF
<1>1. IInv => TypeOK
  BY DEF IInv
<1> QED
  BY <1>1, Invariance, PTL

\* When the last reload is over the host serves what was saved last, for any number of
\* clients, settings and restarts, with models that load or not.
THEOREM ReloadsServeSaved == Spec => []ServesSaved
PROOF
<1>1. IInv => ServesSaved
  BY DEF IInv, ModelOfHost, SavedWhenDone, ServesSaved, Settled, Serving
<1> QED
  BY <1>1, Invariance, PTL

\* The files hold what the managers hold, so a restart changes nothing.
THEOREM FilesAreCurrent == Spec => []FilesCurrent
PROOF
<1>1. IInv => FilesCurrent
  BY DEF IInv, FilesAgree, FilesCurrent, Serving
<1> QED
  BY <1>1, Invariance, PTL

---------------------------------------------------------------------------
(* Tokens, as long as no login follows a login and no kill falls halfway   *)
(* into a logout.                                                          *)

\* The servers hold the token of the login, or none; that of a login before is only
\* there while its logout is between its writes.  A server that is down has left
\* the same in its files.
OneToken ==
  /\ up => /\ between.op = "none" => between = Idle /\ servers.key \in {Blank, auth}
           /\ between.op = "login" => servers.key = Blank
           /\ between.op = "logout" => auth = None /\ servers.key \in {Blank, between.prev}
  /\ ~up => between = Idle /\ serverFile.key \in {Blank, authFile}

\* Without a token the key of a server is the placeholder.
LEMMA NoKey == TypeOK => servers.key # None /\ auth # Blank /\ Idle.op = "none"
PROOF
<1> QED
  BY TokensAssumption DEF TypeOK, Server, Idle

LEMMA InitOneToken == Init => OneToken
PROOF
<1> QED
  BY DEF Init, OneToken, Idle

LEMMA NextOneToken ==
  ASSUME IInv, ~slipped => OneToken, [Next]_vars, ~slipped'
  PROVE  OneToken'
PROOF
<1>t. servers \in Server /\ between \in Handlers /\ auth \in Tokens \cup {None}
  BY DEF IInv, TypeOK
<1>k. servers.key # None /\ auth # Blank /\ None # Blank /\ Idle.op = "none"
  BY NoKey, TokensAssumption DEF IInv
<1>s. ~slipped
  BY DEF Next, PostServers, PostModel, Login, LoginRefresh, Logout, LogoutRefresh, BeginReload,
         EndReload, Crash, Restart, vars
<1>o. OneToken
  BY <1>s
<1>1. ASSUME NEW c \in Clients, PostServers(c) PROVE OneToken'
  <2>1. PICK on \in BOOLEAN : servers' = [Current EXCEPT !.on = on]
    BY <1>1 DEF PostServers, Saved
  <2>2. servers'.key = Current.key
    BY <1>t, <2>1 DEF Current, Filled, Server
  <2>3. Current.key \in {servers.key, auth}
    BY <1>t DEF Current, Filled, Server
  <2> QED
    BY <1>1, <1>k, <1>o, <2>2, <2>3 DEF PostServers, Serving, OneToken
<1>2. ASSUME NEW token \in Tokens, Login(token) PROVE OneToken'
  BY <1>2, <1>k, <1>o DEF Login, Serving, OneToken
<1>3. CASE LoginRefresh
  <2>1. Current.key \in {servers.key, auth}
    BY <1>t DEF Current, Filled, Server
  <2> QED
    BY <1>3, <1>k, <1>o, <2>1 DEF LoginRefresh, OneToken
<1>4. CASE Logout
  BY <1>4, <1>k, <1>o DEF Logout, Serving, OneToken
<1>5. CASE LogoutRefresh
  <2>0. auth = None /\ servers.key \in {Blank, between.prev}
    BY <1>5, <1>o DEF LogoutRefresh, OneToken
  <2>1. Current = servers
    BY <2>0 DEF Current, Filled
  <2>2. Blanked(Current, between.prev).key = Blank
    BY <1>t, <2>0, <2>1 DEF Blanked, Server
  <2> QED
    BY <1>5, <1>k, <2>2 DEF LogoutRefresh, OneToken
<1>6. CASE Crash
  <2>1. between.op \in {"none", "login"}
    BY <1>6, <1>t DEF Crash, Handlers
  <2>2. up /\ servers.key \in {Blank, auth} /\ serverFile = servers /\ authFile = auth
    BY <1>6, <1>o, <2>1 DEF Crash, OneToken, IInv, FilesAgree
  <2>3. ~up' /\ between' = Idle /\ serverFile' = serverFile /\ authFile' = authFile
    BY <1>6 DEF Crash, files
  <2> QED
    BY <2>2, <2>3 DEF OneToken
<1>7. ASSUME NEW c \in Clients, NEW llm \in Llms, PostModel(c, llm) PROVE OneToken'
  BY <1>7, <1>o DEF PostModel, OneToken, Serving
<1>8. CASE BeginReload \/ EndReload
  BY <1>8, <1>o DEF BeginReload, EndReload, managers, files, OneToken
<1>9. CASE Restart
  BY <1>9, <1>k, <1>o DEF Restart, OneToken
<1>10. CASE UNCHANGED vars
  BY <1>10, <1>o DEF vars, managers, files, OneToken
<1> QED
  BY <1>1, <1>2, <1>3, <1>4, <1>5, <1>6, <1>7, <1>8, <1>9, <1>10 DEF Next

\* A logout leaves no token in what is saved, whatever was saved in between, unless a
\* login has followed a login or a kill has fallen between the writes of a logout.
THEOREM LogoutLeavesNoToken == Spec => []LogoutForgets
PROOF
<1> DEFINE I == IInv /\ (~slipped => OneToken)
<1>1. Init => I
  BY InitIInv, InitOneToken
<1>2. I /\ [Next]_vars => I'
  BY NextIInv, NextOneToken
<1>3. I => LogoutForgets
  <2> SUFFICES ASSUME IInv, OneToken, Serving, auth = None
               PROVE  servers.key = Blank /\ serverFile.key = Blank
    BY DEF LogoutForgets
  <2>1. up /\ between.op = "none"
    BY NoKey DEF IInv, Serving
  <2>2. servers.key = Blank
    BY <2>1, NoKey DEF IInv, OneToken
  <2> QED
    BY <2>1, <2>2 DEF IInv, FilesAgree
<1> QED
  BY <1>1, <1>2, <1>3, PTL DEF Spec
=============================================================================
