---------------------------- MODULE ToolManager ----------------------------
(***************************************************************************)
(* ToolManager of host/tools/__init__.py: the set of running MCP servers   *)
(* and the operations that change it.                                      *)
(*                                                                         *)
(* Operations are the initial launch, reload(new_configs, force) (one at a *)
(* time, under DiveMcpHost._lock), restart_mcp_server(name) (called by the *)
(* OAuth endpoints without that lock) and the exit of the context.  Each   *)
(* takes ToolManager._lock for its shutdown part and again for its launch  *)
(* part; what it does in between and before runs without the lock.         *)
(*                                                                         *)
(* A McpServer object is entered by its tool_process task and left when    *)
(* the task's exit event is set.  An object can be entered again after it  *)
(* was left, but not while it is entered (ContextProtocol).                *)
(***************************************************************************)
EXTENDS Integers, Sequences, FiniteSets, Functions

CONSTANTS
  Names,      \* names of MCP servers
  Versions,   \* contents of a server's configuration
  Objs,       \* identities of McpServer objects, reused once garbage
  Ops,        \* tasks that run an operation of the manager
  InitOp,     \* the operation of Ops that runs the initial launch
  None,
  Overlap     \* may restart_mcp_server overlap another operation?

ASSUME InitOpAssumption  == InitOp \in Ops
ASSUME NoneAssumption    == None \notin Names \cup Versions \cup Objs \cup Ops
ASSUME OverlapAssumption == Overlap \in BOOLEAN

VARIABLES
  configs,   \* self._configs: name -> configuration or None
  servers,   \* self._mcp_servers: name -> object or None
  task,      \* self._mcp_servers_task: name -> the object its task runs, or None
  lock,      \* self._lock: the holder, then the waiters, first come first served
  st,        \* where an object's context is
  ver,       \* the configuration an object was made from
  pc,        \* where an operation is
  kind,      \* which operation it is
  downs,     \* the names it shuts down
  popped,    \* the objects whose end its shutdown awaits
  upNames,   \* reload: the names it will launch
  ups,       \* the objects it launches and has not recorded yet
  dead,      \* names whose tool_process raised before it set `ready`
  closed     \* the manager's context was left

opVars == <<kind, downs, upNames>>
vars == <<configs, servers, task, lock, st, ver, pc, kind, downs, popped, upNames,
          ups, dead, closed>>

NoObjs == [n \in Names |-> None]

\* An object whose context is entered and not left.
Entered(x) == st[x] \in {"starting", "up"}
Running(x) == st[x] \in {"starting", "up", "stopping"}

\* No reference to the object is left.
Garbage(x) ==
  /\ ~Running(x)
  /\ \A n \in Names : servers[n] # x /\ task[n] # x
  /\ \A o \in Ops, n \in Names : ups[o][n] # x /\ popped[o][n] # x

Active(o) == pc[o] # "idle"
Holds(o)  == lock # <<>> /\ Head(lock) = o

\* The context was just entered: __init__ made one object per configuration and
\* the init-launch-tools task has the lock and has started every server.
Init ==
  /\ configs \in [Names -> Versions \cup {None}]
  /\ servers \in [Names -> Objs \cup {None}]
  /\ \A n \in Names : servers[n] = None <=> configs[n] = None
  /\ \A m, n \in Names : m # n /\ servers[m] # None => servers[m] # servers[n]
  /\ task = NoObjs
  /\ lock = <<InitOp>>
  /\ st = [x \in Objs |-> IF \E n \in Names : servers[n] = x THEN "starting" ELSE "made"]
  /\ ver = [x \in Objs |-> IF \E n \in Names : servers[n] = x
                           THEN configs[CHOOSE n \in Names : servers[n] = x] ELSE None]
  /\ pc = [o \in Ops |-> IF o = InitOp THEN "up" ELSE "idle"]
  /\ kind = [o \in Ops |-> "launch"]
  /\ downs = [o \in Ops |-> {}]
  /\ popped = [o \in Ops |-> NoObjs]
  /\ upNames = [o \in Ops |-> {}]
  /\ ups = [o \in Ops |-> IF o = InitOp THEN servers ELSE NoObjs]
  /\ dead = [o \in Ops |-> {}]
  /\ closed = FALSE

---------------------------------------------------------------------------
\* Mutant: a changed configuration is only launched, not shut down first.
MutToShutdown(new, force) ==
  {n \in Names : configs[n] # None /\ (force \/ new[n] = None)}

\* The names reload() shuts down and launches.
ToShutdown(new, force) ==
  {n \in Names : configs[n] # None /\ (force \/ new[n] # configs[n])}
ToLaunch(new, force) ==
  {n \in Names : new[n] # None /\ (force \/ new[n] # configs[n])}

\* reload(new_configs, force): the difference and self._configs, before the lock.
CallReload(o, new, force) ==
  /\ ~Active(o) /\ ~closed
  /\ \A p \in Ops : Active(p) => kind[p] \notin {"reload", "exit"} /\ (kind[p] = "restart" => Overlap)
  /\ kind' = [kind EXCEPT ![o] = "reload"]
  /\ downs' = [downs EXCEPT ![o] = ToShutdown(new, force)]
  /\ upNames' = [upNames EXCEPT ![o] = ToLaunch(new, force)]
  /\ configs' = new
  /\ pc' = [pc EXCEPT ![o] = "down_wait"]
  /\ lock' = Append(lock, o)
  /\ UNCHANGED <<servers, task, st, ver, popped, ups, dead, closed>>

\* restart_mcp_server(name): it keeps the object and launches it again later.
CallRestart(o, n) ==
  /\ ~Active(o) /\ ~closed /\ servers[n] # None
  /\ \A p \in Ops : Active(p) => Overlap /\ kind[p] # "exit"
  /\ kind' = [kind EXCEPT ![o] = "restart"]
  /\ downs' = [downs EXCEPT ![o] = {n}]
  /\ ups' = [ups EXCEPT ![o][n] = servers[n]]
  /\ pc' = [pc EXCEPT ![o] = "down_wait"]
  /\ lock' = Append(lock, o)
  /\ UNCHANGED <<configs, servers, task, st, ver, popped, upNames, dead, closed>>

\* The finally clause of _run_in_context.  Requests are over by then; the
\* initial launch need not be.
CallExit(o) ==
  /\ ~Active(o) /\ ~closed
  /\ \A p \in Ops : Active(p) => kind[p] = "launch"
  /\ kind' = [kind EXCEPT ![o] = "exit"]
  /\ downs' = [downs EXCEPT ![o] = {n \in Names : servers[n] # None}]
  /\ pc' = [pc EXCEPT ![o] = "down_wait"]
  /\ lock' = Append(lock, o)
  /\ UNCHANGED <<configs, servers, task, st, ver, popped, upNames, ups, dead, closed>>

---------------------------------------------------------------------------
\* Mutant: the exit event is not set.
MutDownBegin(o) ==
  /\ pc[o] = "down_wait" /\ Holds(o)
  /\ popped' = [popped EXCEPT ![o] = [n \in Names |-> IF n \in downs[o] THEN task[n] ELSE None]]
  /\ task' = [n \in Names |-> IF n \in downs[o] THEN None ELSE task[n]]
  /\ pc' = [pc EXCEPT ![o] = "down"]
  /\ UNCHANGED <<configs, servers, lock, st, ver, opVars, ups, dead, closed>>

\* _shutdown_tools with the lock held: every _shutdown_task pops its entry and
\* sets the exit event; a name without an entry is only warned about.
DownBegin(o) ==
  /\ pc[o] = "down_wait" /\ Holds(o)
  /\ popped' = [popped EXCEPT ![o] = [n \in Names |-> IF n \in downs[o] THEN task[n] ELSE None]]
  /\ task' = [n \in Names |-> IF n \in downs[o] THEN None ELSE task[n]]
  /\ st' = [x \in Objs |-> IF \E n \in downs[o] : task[n] = x THEN "stopping" ELSE st[x]]
  /\ pc' = [pc EXCEPT ![o] = "down"]
  /\ UNCHANGED <<configs, servers, lock, ver, opVars, ups, dead, closed>>

\* A server's context has been left.
Stopped(x) ==
  /\ st[x] = "stopping"
  /\ st' = [st EXCEPT ![x] = "down"]
  /\ UNCHANGED <<configs, servers, task, lock, ver, pc, opVars, popped, ups, dead, closed>>

\* `await task` returns and the server is deleted by name.  If the name is gone
\* the KeyError ends the whole operation.
DownOne(o, n) ==
  /\ pc[o] = "down" /\ popped[o][n] # None /\ st[popped[o][n]] = "down"
  /\ IF servers[n] # None
     THEN /\ servers' = [servers EXCEPT ![n] = None]
          /\ popped' = [popped EXCEPT ![o][n] = None]
          /\ UNCHANGED <<lock, pc, ups>>
     ELSE /\ popped' = [popped EXCEPT ![o] = NoObjs]
          /\ ups' = [ups EXCEPT ![o] = NoObjs]
          /\ pc' = [pc EXCEPT ![o] = "idle"]
          /\ lock' = Tail(lock)
          /\ UNCHANGED servers
  /\ UNCHANGED <<configs, task, st, ver, opVars, dead, closed>>

\* The lock is released and, in the same step, the servers to launch are put
\* into _mcp_servers and the lock is asked for again.
DownEndReload(o) ==
  /\ pc[o] = "down" /\ popped[o] = NoObjs /\ kind[o] = "reload"
  /\ \E new \in [upNames[o] -> {x \in Objs : Garbage(x)}] :
       /\ IsInjective(new)
       /\ ups' = [ups EXCEPT ![o] = [n \in Names |-> IF n \in upNames[o] THEN new[n] ELSE None]]
       /\ servers' = [n \in Names |-> IF n \in upNames[o] THEN new[n] ELSE servers[n]]
       /\ st' = [x \in Objs |-> IF x \in Range(new) THEN "made" ELSE st[x]]
       /\ ver' = [x \in Objs |-> IF x \in Range(new)
                                 THEN configs[CHOOSE n \in upNames[o] : new[n] = x] ELSE ver[x]]
  /\ pc' = [pc EXCEPT ![o] = "up_wait"]
  /\ lock' = Append(Tail(lock), o)
  /\ UNCHANGED <<configs, task, opVars, popped, dead, closed>>

\* Mutant: restart_mcp_server does not put the server back.
MutDownEndRestart(o) ==
  /\ pc[o] = "down" /\ popped[o] = NoObjs /\ kind[o] = "restart"
  /\ pc' = [pc EXCEPT ![o] = "up_wait"]
  /\ lock' = Append(Tail(lock), o)
  /\ UNCHANGED <<configs, servers, task, st, ver, opVars, popped, ups, dead, closed>>

DownEndRestart(o) ==
  /\ pc[o] = "down" /\ popped[o] = NoObjs /\ kind[o] = "restart"
  /\ servers' = [n \in Names |-> IF n \in downs[o] THEN ups[o][n] ELSE servers[n]]
  /\ pc' = [pc EXCEPT ![o] = "up_wait"]
  /\ lock' = Append(Tail(lock), o)
  /\ UNCHANGED <<configs, task, st, ver, opVars, popped, ups, dead, closed>>

DownEndExit(o) ==
  /\ pc[o] = "down" /\ popped[o] = NoObjs /\ kind[o] = "exit"
  /\ closed' = TRUE
  /\ pc' = [pc EXCEPT ![o] = "idle"]
  /\ lock' = Tail(lock)
  /\ UNCHANGED <<configs, servers, task, st, ver, opVars, popped, ups, dead>>

\* _launch_tools with the lock held: a tool_process per server.  Entering an
\* object that is entered raises, and its `ready` event is never set.
UpBegin(o) ==
  /\ pc[o] = "up_wait" /\ Holds(o)
  /\ dead' = [dead EXCEPT ![o] = {n \in Names : ups[o][n] # None /\ Entered(ups[o][n])}]
  /\ st' = [x \in Objs |-> IF (\E n \in Names : ups[o][n] = x) /\ ~Entered(x)
                           THEN "starting" ELSE st[x]]
  /\ pc' = [pc EXCEPT ![o] = "up"]
  /\ UNCHANGED <<configs, servers, task, lock, ver, opVars, popped, ups, closed>>

\* A server's context has been entered (a server that failed counts: its state
\* says so), and tool_process sets `ready`.
Started(x) ==
  /\ st[x] = "starting"
  /\ st' = [st EXCEPT ![x] = "up"]
  /\ UNCHANGED <<configs, servers, task, lock, ver, pc, opVars, popped, ups, dead, closed>>

\* The _launch_task of one server records its task.
UpOne(o, n) ==
  /\ pc[o] = "up" /\ n \notin dead[o] /\ ups[o][n] # None /\ st[ups[o][n]] = "up"
  /\ task' = [task EXCEPT ![n] = ups[o][n]]
  /\ ups' = [ups EXCEPT ![o][n] = None]
  /\ UNCHANGED <<configs, servers, lock, st, ver, pc, opVars, popped, dead, closed>>

UpEnd(o) ==
  /\ pc[o] = "up" /\ ups[o] = NoObjs
  /\ pc' = [pc EXCEPT ![o] = "idle"]
  /\ lock' = Tail(lock)
  /\ UNCHANGED <<configs, servers, task, st, ver, opVars, popped, ups, dead, closed>>

---------------------------------------------------------------------------
Call(o) ==
  \/ \E new \in [Names -> Versions \cup {None}], force \in BOOLEAN : CallReload(o, new, force)
  \/ \E n \in Names : CallRestart(o, n)
  \/ CallExit(o)

Step(o) ==
  \/ DownBegin(o) \/ DownEndReload(o) \/ DownEndRestart(o) \/ DownEndExit(o)
  \/ UpBegin(o) \/ UpEnd(o)
  \/ \E n \in Names : DownOne(o, n) \/ UpOne(o, n)

Serve(x) == Started(x) \/ Stopped(x)

Next ==
  \/ \E o \in Ops : Call(o) \/ Step(o)
  \/ \E x \in Objs : Serve(x)

Spec == Init /\ [][Next]_vars

\* The event loop runs every ready task; a server's context is entered or fails
\* within its initial_timeout, and is left once its exit event is set.
Fairness ==
  /\ \A o \in Ops : WF_vars(Step(o))
  /\ \A x \in Objs : WF_vars(Serve(x))

FairSpec == Spec /\ Fairness

---------------------------------------------------------------------------
\* Objects that may run a process for server n.
Processes(n) ==
  {x \in Objs : /\ Running(x)
                /\ \/ task[n] = x \/ servers[n] = x
                   \/ \E o \in Ops : ups[o][n] = x \/ popped[o][n] = x}

\* At most one process of a server runs at any time, whatever reloads and
\* restarts happen, and none runs that no table or operation knows of: an old
\* process is gone before its successor is started, and is never forgotten.
OneProcess ==
  /\ \A n \in Names : Cardinality(Processes(n)) <= 1
  /\ \A x \in Objs : Running(x) => \E n \in Names : x \in Processes(n)

\* When nothing is in progress the running servers are exactly the configured
\* ones, each with its current configuration and with a task that can stop it;
\* after the context is left nothing runs.
Settled ==
  (\A o \in Ops : ~Active(o)) =>
    IF closed THEN \A x \in Objs : ~Running(x)
    ELSE /\ task = servers
         /\ \A n \in Names : IF configs[n] = None THEN servers[n] = None
                             ELSE /\ servers[n] # None /\ st[servers[n]] = "up"
                                  /\ ver[servers[n]] = configs[n]
         /\ \A x \in Objs : Running(x) => x \in Range(servers)

\* Every operation ends: no reload, restart or exit waits forever for the lock,
\* for a server to start or for one to stop.
OperationsEnd == \A o \in Ops : Active(o) ~> ~Active(o)

\* A launch never enters an object that is entered: the assertion of
\* ContextProtocol.__aenter__.  The launch that did would wait for `ready`
\* forever, and hold the lock.
NoReentry == \A o \in Ops : dead[o] = {}

=============================================================================
