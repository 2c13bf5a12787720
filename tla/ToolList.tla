------------------------------ MODULE ToolList ------------------------------
(***************************************************************************)
(* GET /tools: the running servers with their tools, and the configured    *)
(* ones that do not run with the tools they had in the list made last,     *)
(* which is kept in a file (httpd/routers/tools.py, httpd/store/cache.py). *)
(*                                                                         *)
(* A list reads the configuration, awaits the logins, and is then made and *)
(* written without giving way.  Meanwhile the configuration is saved       *)
(* (Settings) and servers are launched and stopped (ToolManager), here in  *)
(* any order.  A server is shown by its tools; prompts and icons go along. *)
(***************************************************************************)
EXTENDS Integers

CONSTANTS
  Servers, Tools,
  Lists,      \* requests for the list
  Idle,       \* a request that is not under way
  Invalid,    \* contents of a cache file that do not validate
  MaxChanges

VARIABLES
  settings,   \* configured servers: name to exclude_tools
  active,     \* mcp_server_info: name to [tools, excluded]
  cacheFile,  \* the cache LIST_TOOLS
  readAt,     \* of a list: the configuration it has read, or Idle
  answer,     \* history: the list given last, [servers, read]
  changes

listVars == <<settings, active, cacheFile, readAt, answer, changes>>

ListInit ==
  /\ settings = <<>> /\ active = <<>> /\ cacheFile = <<>>
  /\ readAt = [l \in Lists |-> Idle]
  /\ answer = [servers |-> <<>>, read |-> <<>>]
  /\ changes = 0

With(f, k, v) == [x \in DOMAIN f \cup {k} |-> IF x = k THEN v ELSE f[x]]
Without(f, k) == [x \in DOMAIN f \ {k} |-> f[x]]

Changing == changes < MaxChanges /\ changes' = changes + 1

\* A server is configured, or other tools of it are excluded.
Configure(n, excluded) ==
  /\ Changing
  /\ settings' = With(settings, n, excluded)
  /\ UNCHANGED <<active, cacheFile, readAt, answer>>

Remove(n) ==
  /\ Changing
  /\ n \in DOMAIN settings
  /\ settings' = Without(settings, n)
  /\ UNCHANGED <<active, cacheFile, readAt, answer>>

\* The manager launches a server, which has tools or has failed.
Launch(n, tools) ==
  /\ Changing
  /\ n \in DOMAIN settings
  /\ active' = With(active, n, [tools |-> tools, excluded |-> settings[n]])
  /\ UNCHANGED <<settings, cacheFile, readAt, answer>>

Stop(n) ==
  /\ n \in DOMAIN active
  /\ active' = Without(active, n)
  /\ UNCHANGED <<settings, cacheFile, readAt, answer, changes>>

ListBegins(l) ==
  /\ readAt[l] = Idle
  /\ readAt' = [readAt EXCEPT ![l] = settings]
  /\ UNCHANGED <<settings, active, cacheFile, answer, changes>>

\* LocalFileCache.get and the validation of what it read.
Cached == IF cacheFile = Invalid THEN <<>> ELSE cacheFile

Shown(n) ==
  [tools |-> active[n].tools, on |-> active[n].tools \ active[n].excluded, enabled |-> TRUE]
Recalled(n, read) ==
  [tools |-> Cached[n].tools, on |-> Cached[n].tools \ read[n], enabled |-> FALSE]
Empty == [tools |-> {}, on |-> {}, enabled |-> FALSE]

\* Mutant: only running servers are written to the cache.
MutKept(list) == [n \in DOMAIN active |-> list[n]]
\* LocalFileCache.set
Kept(list) == list

\* list_tools
ListEnds(l) ==
  LET read == readAt[l]
      list == [n \in DOMAIN active \cup DOMAIN read |->
                 IF n \in DOMAIN active THEN Shown(n)
                 ELSE IF n \in DOMAIN Cached THEN Recalled(n, read)
                 ELSE Empty]
  IN /\ readAt[l] # Idle
     /\ answer' = [servers |-> list, read |-> read]
     /\ cacheFile' = Kept(list)
     /\ readAt' = [readAt EXCEPT ![l] = Idle]
     /\ UNCHANGED <<settings, active, changes>>

\* The server stops, perhaps while it writes the cache, and starts again.
Restart ==
  /\ Changing
  /\ active' = <<>>
  /\ readAt' = [l \in Lists |-> Idle]
  /\ cacheFile' \in {cacheFile} \cup {Invalid : l \in {m \in Lists : readAt[m] # Idle}}
  /\ UNCHANGED <<settings, answer>>

ListNext ==
  \/ \E n \in Servers : \/ Remove(n) \/ Stop(n)
                        \/ \E s \in SUBSET Tools : Configure(n, s) \/ Launch(n, s)
  \/ \E l \in Lists : ListBegins(l) \/ ListEnds(l)
  \/ Restart

---------------------------------------------------------------------------
(* Properties.                                                            *)

\* A list that is made shows every server that runs or was configured when it was
\* asked for.  One that does not run has the tools the list before showed for it,
\* whatever was stopped, saved or restarted since, unless the cache was damaged; and
\* its excluded tools are off, unless its configuration was saved while the list was
\* made (list_tools).
ListTrue(before, after, damaged) ==
  LET stopped == {n \in DOMAIN after.servers : ~after.servers[n].enabled}
  IN /\ DOMAIN active \cup DOMAIN after.read = DOMAIN after.servers
     /\ stopped \cap DOMAIN active = {}
     /\ ~damaged => \A n \in stopped \cap DOMAIN before.servers :
          after.servers[n].tools = before.servers[n].tools
     /\ \A n \in stopped \cap DOMAIN settings :
          settings[n] = after.read[n] =>
            after.servers[n].on = after.servers[n].tools \ settings[n]

ListsTrue == [][answer' # answer => ListTrue(answer, answer', cacheFile = Invalid)]_listVars
=============================================================================
