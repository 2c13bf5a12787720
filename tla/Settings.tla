------------------------------ MODULE Settings ------------------------------
(***************************************************************************)
(* The settings of the server and the host that runs with them: the files  *)
(* of the model and of the MCP servers with their managers, the login of   *)
(* the OAP platform, the routes that save settings and DiveMcpHost.reload. *)
(*                                                                         *)
(* A route saves first, then computes the configuration of the host from   *)
(* what is saved, and reloads the host with it under a lock.  No callback  *)
(* of a configuration suspends, so all of a route up to the lock is one    *)
(* step; what may come in between its writes is a kill of the process.     *)
(*                                                                         *)
(* The configuration of MCP servers is abstracted to one server of the     *)
(* platform: whether it is enabled, and the token its headers hold or the  *)
(* placeholder {{AccessToken}}.  The checkpointer never changes.           *)
(***************************************************************************)
EXTENDS Naturals, Sequences, FiniteSets, SequencesExt

CONSTANTS
  Clients,   \* clients of the routes, one request each at a time
  Llms,      \* settings of models that may be saved
  Loadable,  \* those of them load_model accepts
  Tokens,    \* tokens of the OAP platform
  None,      \* no model, no token
  Blank,     \* the placeholder
  MaxCrash   \* bound: kills of the process

ASSUME LlmsAssumption == Loadable \subseteq Llms /\ None \notin Llms
ASSUME TokensAssumption == None \notin Tokens /\ Blank \notin Tokens /\ None # Blank
ASSUME BoundAssumption == MaxCrash \in Nat

VARIABLES
  up,          \* whether the server runs
  modelFile, setting,      \* the saved model, and ModelManager's current setting
  serverFile, servers,     \* the saved servers, and MCPServerManager's
  authFile, auth,          \* the saved token, and MCPServerManagerPlugin's
  between,     \* the handler that is between two writes, with the token before
  host,        \* configuration of the host
  model,       \* model of the host
  tools,       \* configuration the tool manager has applied
  reloads,     \* reloads at the lock of the host: the head holds it
  stage,       \* what the head is doing
  slipped,     \* history: a login upon a login, or a kill halfway through a logout
  crashes

files == <<modelFile, serverFile, authFile>>
managers == <<setting, servers, auth>>
running == <<host, model, tools, reloads, stage>>
vars == <<up, files, managers, between, running, slipped, crashes>>

Server == [on : BOOLEAN, key : Tokens \cup {Blank}]
HostConfig == [llm : Llms, server : Server]
Reload == [by : Clients, config : HostConfig]
Stages == {"free", "tools"}
Handlers == [op : {"none", "login", "logout"}, prev : Tokens \cup {None}]
Idle == [op |-> "none", prev |-> None]

\* current_config_callback: the placeholder is replaced, and nothing else.
Filled(s, token) ==
  IF token # None /\ s.key = Blank THEN [s EXCEPT !.key = token] ELSE s

\* Mutant: the placeholder is not put back.
MutBlanked(s, token) == s
\* _logout_handler: the token becomes the placeholder again.
Blanked(s, token) == IF s.key = token THEN [s EXCEPT !.key = Blank] ELSE s

\* get_current_config, as the routes and load_host_config see it.
Current == Filled(servers, auth)

Init ==
  /\ up = TRUE
  /\ modelFile \in Loadable /\ setting = modelFile
  /\ serverFile = [on |-> TRUE, key |-> Blank] /\ servers = serverFile
  /\ authFile = None /\ auth = None
  /\ between = Idle
  /\ host = [llm |-> setting, server |-> servers]
  /\ model = setting /\ tools = servers
  /\ reloads = <<>> /\ stage = "free"
  /\ slipped = FALSE /\ crashes = 0

\* The event loop runs no handler halfway.
Serving == up /\ between = Idle
Waiting(c) == \E i \in DOMAIN reloads : reloads[i].by = c

---------------------------------------------------------------------------
(* Routes.                                                                *)

\* Mutant: the reload is made with the configuration before the save.
MutReloadOf(c, llm, server) ==
  [by |-> c, config |-> [llm |-> setting, server |-> server]]
\* load_host_config, once the settings are saved.
ReloadOf(c, llm, server) == [by |-> c, config |-> [llm |-> llm, server |-> server]]

\* post_model, post_model_replace_all: saved, read again, and the host reloaded.
PostModel(c, llm) ==
  /\ Serving /\ ~Waiting(c)
  /\ modelFile' = llm /\ setting' = llm
  /\ reloads' = Append(reloads, ReloadOf(c, llm, Current))
  /\ UNCHANGED <<up, serverFile, authFile, servers, auth, between,
                 host, model, tools, stage, slipped, crashes>>

\* update_all_configs: what is written becomes the current configuration.
Saved(s) == s

\* post_mcp_server, with all of the configuration a client has just got and changed.
PostServers(c) ==
  /\ Serving /\ ~Waiting(c)
  /\ \E on \in BOOLEAN :
       LET s == [Current EXCEPT !.on = on]
       IN /\ serverFile' = s /\ servers' = Saved(s)
          /\ reloads' = Append(reloads, ReloadOf(c, setting, Filled(Saved(s), auth)))
  /\ UNCHANGED <<up, modelFile, authFile, setting, auth, between,
                 host, model, tools, stage, slipped, crashes>>

\* auth_handler: the token is taken and saved.
Login(token) ==
  /\ Serving
  /\ auth' = token /\ authFile' = token
  /\ between' = [op |-> "login", prev |-> auth]
  /\ slipped' = (slipped \/ auth # None)
  /\ UNCHANGED <<up, modelFile, serverFile, setting, servers, running, crashes>>

\* ... then refresh saves the configuration with the token filled in.
LoginRefresh ==
  /\ up /\ between.op = "login"
  /\ serverFile' = Current /\ servers' = Current
  /\ between' = Idle
  /\ UNCHANGED <<up, modelFile, authFile, setting, auth, running, slipped, crashes>>

\* logout_handler: the token is dropped.  A refresh with no token before changes
\* nothing.
Logout ==
  /\ Serving /\ auth # None
  /\ auth' = None /\ authFile' = None
  /\ between' = [op |-> "logout", prev |-> auth]
  /\ UNCHANGED <<up, modelFile, serverFile, setting, servers, running,
                 slipped, crashes>>

\* ... then refresh puts the placeholder back for the token before.
LogoutRefresh ==
  /\ up /\ between.op = "logout"
  /\ LET s == Blanked(Current, between.prev)
     IN serverFile' = s /\ servers' = s
  /\ between' = Idle
  /\ UNCHANGED <<up, modelFile, authFile, setting, auth, running,
                 slipped, crashes>>

---------------------------------------------------------------------------
(* DiveMcpHost.                                                           *)

\* The reload that has begun keeps the lock.
Held == reloads

\* The lock is taken; the model is dropped and loaded if its setting changed.
BeginReload ==
  /\ Serving /\ stage = "free" /\ reloads # <<>>
  /\ LET new == Head(reloads).config
         same == new.llm = host.llm
     IN \/ /\ same \/ new.llm \in Loadable
           /\ host' = new /\ stage' = "tools"
           /\ model' = IF same THEN model ELSE new.llm
           /\ reloads' = Held
        \/ \* load_model raises, and the configuration before is restored.
           /\ ~same /\ new.llm \notin Loadable
           /\ model' = None
           /\ reloads' = Tail(reloads)
           /\ UNCHANGED <<host, stage>>
  /\ UNCHANGED <<up, files, managers, between, tools, slipped, crashes>>

\* Mutant: the head stays at the lock.
MutReleased == reloads
Released == Tail(reloads)

\* The tool manager has stopped and started what changed; no failure of a server
\* makes it raise.
EndReload ==
  /\ Serving /\ stage = "tools"
  /\ tools' = host.server
  /\ stage' = "free" /\ reloads' = Released
  /\ UNCHANGED <<up, files, managers, between, host, model, slipped, crashes>>

---------------------------------------------------------------------------
(* The process.                                                           *)

\* The process is killed, also between two writes of a handler.
Crash ==
  /\ up /\ crashes < MaxCrash
  /\ up' = FALSE /\ crashes' = crashes + 1
  /\ between' = Idle /\ reloads' = <<>> /\ stage' = "free"
  /\ slipped' = (slipped \/ between.op = "logout")
  /\ UNCHANGED <<files, managers, host, model, tools>>

\* DiveHostAPI's setup: everything is read from the files.  With a model that
\* cannot be loaded the server does not start.
Restart ==
  /\ ~up /\ modelFile \in Loadable
  /\ up' = TRUE
  /\ setting' = modelFile /\ servers' = serverFile
  /\ auth' = authFile
  /\ host' = [llm |-> modelFile, server |-> Filled(serverFile, authFile)]
  /\ model' = modelFile /\ tools' = Filled(serverFile, authFile)
  /\ UNCHANGED <<files, between, reloads, stage, slipped, crashes>>

Next ==
  \/ \E c \in Clients : PostServers(c) \/ \E llm \in Llms : PostModel(c, llm)
  \/ \E token \in Tokens : Login(token)
  \/ LoginRefresh \/ Logout \/ LogoutRefresh
  \/ BeginReload \/ EndReload
  \/ Crash \/ Restart

Spec == Init /\ [][Next]_vars

\* Handlers run to their end, and the tool manager's reloads end.  The event loop
\* runs its ready tasks in turn: handlers that come again and again keep no reload
\* from going on.
Fairness == WF_vars(LoginRefresh \/ LogoutRefresh) /\ SF_vars(BeginReload) /\ SF_vars(EndReload)
FairSpec == Spec /\ Fairness

---------------------------------------------------------------------------
(* Properties.                                                            *)

TypeOK ==
  /\ up \in BOOLEAN /\ slipped \in BOOLEAN
  /\ modelFile \in Llms /\ setting \in Llms
  /\ serverFile \in Server /\ servers \in Server /\ tools \in Server
  /\ auth \in Tokens \cup {None} /\ authFile \in Tokens \cup {None}
  /\ between \in Handlers
  /\ host \in HostConfig /\ model \in Llms \cup {None}
  /\ stage \in Stages /\ reloads \in Seq(Reload)

Settled == Serving /\ reloads = <<>>

\* When all reloads are over, the host serves what was saved last, whichever of the
\* clients saved it: no reload brings an older configuration back.  A host without
\* a model has said so to whoever saved its model, and the configuration it kept is
\* not the one that was saved.
ServesSaved ==
  Settled /\ model # None =>
    /\ model = host.llm /\ host.llm = setting
    /\ tools.on = servers.on

\* A restart changes nothing: what the managers hold is what the files hold, so the
\* server that starts again serves what the one before it was told.
FilesCurrent ==
  Serving => modelFile = setting /\ serverFile = servers /\ authFile = auth

\* Once the user is logged out no saved configuration holds a token, whatever was
\* saved in between by clients that had just read it, unless a login has followed a
\* login or the process was killed between the two writes of a logout.
LogoutForgets ==
  Serving /\ auth = None /\ ~slipped => servers.key = Blank /\ serverFile.key = Blank

\* Every request that saves settings is answered.
PostsEnd == \A c \in Clients : Waiting(c) ~> ~Waiting(c)
=============================================================================
