-------------------------- MODULE ToolManagerProofs --------------------------
(***************************************************************************)
(* Proofs about ToolManager: whatever reloads, restarts and exits happen,  *)
(* as long as restart_mcp_server overlaps no other operation, a server has *)
(* one process at most and none is forgotten, an entered server is never   *)
(* entered again, and what runs when all is quiet is what is configured.   *)
(* Proofs about ToolList: the cache of the tools is true to the servers at *)
(* every moment of a list, so a list is true. Proofs about SkillStore: what *)
(* refresh() computes from the directory, and that lists, searches and the *)
(* page agree with what was reported of it.                                *)
(***************************************************************************)
EXTENDS MCToolManager, FiniteSetTheorems, SequenceTheorems, WellFoundedInduction, TLAPS

ObjStates == {"made", "starting", "up", "stopping", "down"}
Phases    == {"idle", "down_wait", "down", "up_wait", "up"}
Tables    == [Names -> Objs \cup {None}]

\* Every variable has its type.
TypeOK ==
  /\ configs \in [Names -> Versions \cup {None}]
  /\ servers \in Tables /\ task \in Tables
  /\ lock \in Seq(Ops)
  /\ st \in [Objs -> ObjStates]
  /\ ver \in [Objs -> Versions \cup {None}]
  /\ pc \in [Ops -> Phases]
  /\ kind \in [Ops -> {"launch", "reload", "restart", "exit"}]
  /\ downs \in [Ops -> SUBSET Names]
  /\ popped \in [Ops -> Tables]
  /\ upNames \in [Ops -> SUBSET Names]
  /\ ups \in [Ops -> Tables]
  /\ dead \in [Ops -> SUBSET Names]
  /\ closed \in BOOLEAN

\* Nothing is under way, or one operation that has the lock, or the initial launch has
\* it and a reload or the exit waits.
Queue ==
  \/ lock = <<>> /\ \A p \in Ops : ~Active(p)
  \/ \E o \in Ops : lock = <<o>> /\ \A p \in Ops : Active(p) <=> p = o
  \/ \E o \in Ops : /\ lock = <<InitOp, o>> /\ o # InitOp
                    /\ \A p \in Ops : Active(p) <=> p \in {InitOp, o}
                    /\ kind[InitOp] = "launch"
                    /\ pc[o] = "down_wait" /\ kind[o] \in {"reload", "exit"}

\* Where an operation of a kind can be.
PhaseOfKind ==
  \A o \in Ops : Active(o) =>
    /\ kind[o] = "launch" => o = InitOp /\ pc[o] = "up"
    /\ kind[o] = "exit" => pc[o] \in {"down_wait", "down"}

\* The operation is shutting server n down, or launching it.
Sinks(o, n) == pc[o] = "down" /\ n \in downs[o]
Rises(o, n) == pc[o] \in {"up_wait", "up"} /\ ups[o][n] # None

\* A server that no operation is at: what is running is what the tables say.
Steady(n) == task[n] = servers[n] /\ (servers[n] # None => st[servers[n]] = "up")

\* The tables of a name agree, wherever the operation is that is at it.
NameInv(n) ==
  /\ (\A o \in Ops : ~Sinks(o, n) /\ ~Rises(o, n)) => Steady(n)
  /\ \A o \in Ops :
       /\ Sinks(o, n) => /\ task[n] = None /\ servers[n] = popped[o][n]
                         /\ servers[n] # None => st[servers[n]] \in {"stopping", "down"}
       /\ Rises(o, n) => /\ task[n] = None /\ servers[n] = ups[o][n]
                         /\ pc[o] = "up" => st[servers[n]] \in {"starting", "up"}
                         /\ pc[o] = "up_wait" => st[servers[n]] \in {"made", "down"}
       /\ popped[o][n] # None => Sinks(o, n)

\* What a restart keeps of its server while it is down.
KeptInv ==
  \A o \in Ops, n \in Names : ups[o][n] # None /\ ~Rises(o, n) =>
    /\ kind[o] = "restart" /\ pc[o] \in {"down_wait", "down"} /\ downs[o] = {n}
    /\ servers[n] \in {None, ups[o][n]}
    /\ \A m \in Names : m # n => servers[m] # ups[o][n]
    /\ configs[n] # None /\ ver[ups[o][n]] = configs[n]

\* No two names share an object, and no object runs that is of no name.
Owned ==
  /\ \A m, n \in Names : servers[m] # None /\ servers[m] = servers[n] => m = n
  /\ \A x \in Objs : Running(x) => \E n \in Names : servers[n] = x

Matches(n) == IF configs[n] = None THEN servers[n] = None
              ELSE servers[n] # None /\ ver[servers[n]] = configs[n]

\* What is still to be done until the servers are the configured ones.
ConfigInv ==
  /\ closed => servers = NoObjs /\ \A o \in Ops : ~Active(o)
  /\ ~closed /\ (\A o \in Ops : pc[o] \notin {"down_wait", "down"}) => \A n \in Names : Matches(n)
  /\ \A o \in Ops : pc[o] \in {"down_wait", "down"} =>
       /\ kind[o] = "exit" => \A n \in Names : servers[n] # None => n \in downs[o]
       /\ kind[o] = "restart" =>
            \E n \in Names : /\ downs[o] = {n} /\ ups[o][n] # None
                             /\ \A m \in Names : m # n => Matches(m)
       /\ kind[o] = "reload" =>
            \A n \in Names :
              /\ n \in upNames[o] => configs[n] # None
              /\ IF n \in upNames[o] \/ configs[n] = None THEN servers[n] # None => n \in downs[o]
                 ELSE n \notin downs[o] /\ Matches(n)

IInv ==
  /\ TypeOK /\ Queue /\ PhaseOfKind /\ KeptInv /\ Owned /\ ConfigInv /\ NoReentry
  /\ \A n \in Names : NameInv(n)

---------------------------------------------------------------------------
\* What becomes of a lock with one or two operations.
LEMMA LockFacts ==
  ASSUME NEW o \in Ops, NEW p \in Ops
  PROVE  /\ <<o>> # <<>> /\ Head(<<o>>) = o /\ Tail(<<o>>) = <<>> /\ Append(<<>>, o) = <<o>>
         /\ <<o, p>> # <<>> /\ Head(<<o, p>>) = o /\ Tail(<<o, p>>) = <<p>>
         /\ Append(<<o>>, p) = <<o, p>>
PROOF
<1>1. <<o>> # <<>> /\ Head(<<o>>) = o /\ Tail(<<o>>) = <<>> /\ Append(<<>>, o) = <<o>>
  OBVIOUS
<1>2. <<o, p>> # <<>> /\ Head(<<o, p>>) = o
  OBVIOUS
<1>3. Tail(<<o, p>>) = <<p>>
  OBVIOUS
<1>4. Append(<<o>>, p) = <<o, p>>
  <2> DEFINE s == Append(<<o>>, p)
             u == <<o, p>>
  <2>1. <<o>> \in Seq(Ops) /\ Len(<<o>>) = 1 /\ <<o>>[1] = o
    OBVIOUS
  <2>2. u \in Seq(Ops) /\ Len(u) = 2 /\ u[1] = o /\ u[2] = p
    OBVIOUS
  <2>3. s \in Seq(Ops) /\ Len(s) = 2 /\ s[1] = o /\ s[2] = p
    BY <2>1, AppendProperties
  <2> HIDE DEF s, u
  <2>4. \A i \in 1..Len(s) : s[i] = u[i]
    BY <2>2, <2>3
  <2>5. s = u
    BY <2>2, <2>3, <2>4, SeqEqual
  <2> QED
    BY <2>5 DEF s, u
<1> QED
  BY <1>1, <1>2, <1>3, <1>4

\* An operation that shuts down, or is about to launch, is the only one.
LEMMA Sole ==
  ASSUME TypeOK, Queue, PhaseOfKind, NEW o \in Ops,
         \/ pc[o] \in {"down", "up_wait"}
         \/ Holds(o) /\ pc[o] = "down_wait"
  PROVE  lock = <<o>> /\ \A p \in Ops : p # o => pc[p] = "idle"
PROOF
<1>1. CASE \E p \in Ops : lock = <<p>> /\ \A q \in Ops : Active(q) <=> q = p
  BY <1>1 DEF Active
<1>2. ASSUME NEW p \in Ops, lock = <<InitOp, p>>, p # InitOp, kind[InitOp] = "launch",
             \A q \in Ops : Active(q) <=> q \in {InitOp, p}, pc[p] = "down_wait"
      PROVE  FALSE
  <2>1. pc[InitOp] = "up"
    BY <1>2, InitOpAssumption DEF PhaseOfKind
  <2>2. o \in {InitOp, p}
    BY <1>2 DEF Active
  <2>3. Head(lock) = InitOp
    BY <1>2, LockFacts, InitOpAssumption
  <2> QED
    BY <1>2, <2>1, <2>2, <2>3 DEF Holds
<1>3. CASE lock = <<>> /\ \A q \in Ops : ~Active(q)
  BY <1>3 DEF Active
<1> QED
  BY <1>1, <1>2, <1>3 DEF Queue

\* The first operation is the initial launch, which starts every server.
LEMMA InitIInv == Init => IInv
PROOF
<1> SUFFICES ASSUME Init PROVE IInv
  OBVIOUS
<1> USE InitOpAssumption
<1>1. TypeOK
  <2>1. \A x \in Objs : (CHOOSE n \in Names : servers[n] = x) \in Names \/ ~\E n \in Names : servers[n] = x
    OBVIOUS
  <2>2. \A x \in Objs : ver[x] \in Versions \cup {None}
    BY <2>1 DEF Init
  <2>3. ver \in [Objs -> Versions \cup {None}]
    BY <2>2 DEF Init
  <2>4. NoObjs \in Tables
    BY DEF NoObjs, Tables
  <2>5. \A o \in Ops : ups[o] \in Tables
    BY <2>4 DEF Init, Tables
  <2>6. popped \in [Ops -> Tables] /\ ups \in [Ops -> Tables]
    BY <2>4, <2>5 DEF Init
  <2>7. st \in [Objs -> ObjStates]
    BY DEF Init, ObjStates
  <2>8. servers \in Tables /\ task \in Tables /\ lock \in Seq(Ops)
    BY <2>4 DEF Init, Tables
  <2> QED
    BY <2>3, <2>6, <2>7, <2>8 DEF Init, TypeOK, Phases
<1>2. Queue /\ PhaseOfKind
  BY DEF Init, Queue, PhaseOfKind, Active
<1>3. KeptInv /\ NoReentry
  BY DEF Init, KeptInv, Rises, NoObjs, NoReentry
<1>4. Owned
  BY DEF Init, Owned, Running
<1>5. ASSUME NEW n \in Names PROVE Matches(n)
  <2>1. CASE configs[n] = None
    BY <2>1 DEF Init, Matches
  <2>2. CASE configs[n] # None
    <3>1. servers[n] # None /\ servers[n] \in Objs
      BY <2>2 DEF Init
    <3>2. ver[servers[n]] = configs[CHOOSE m \in Names : servers[m] = servers[n]]
      BY <3>1 DEF Init
    <3>3. \A m \in Names : servers[m] = servers[n] => m = n
      BY <3>1 DEF Init
    <3>4. (CHOOSE m \in Names : servers[m] = servers[n]) = n
      BY <3>3
    <3> QED
      BY <2>2, <3>1, <3>2, <3>4 DEF Matches
  <2> QED
    BY <2>1, <2>2
<1>6. ConfigInv
  BY <1>5 DEF Init, ConfigInv
<1>7. ASSUME NEW n \in Names PROVE NameInv(n)
  <2>1. servers[n] # None => st[servers[n]] = "starting"
    BY DEF Init
  <2> QED
    BY <2>1 DEF Init, NameInv, Steady, Sinks, Rises, NoObjs
<1> QED
  BY <1>1, <1>2, <1>3, <1>4, <1>6, <1>7 DEF IInv

\* reload() is called while nothing else is under way but the initial launch.
LEMMA CallReloadKeeps ==
  ASSUME Overlap = FALSE, IInv, NEW o \in Ops, NEW new \in [Names -> Versions \cup {None}],
         NEW force \in BOOLEAN, CallReload(o, new, force)
  PROVE  IInv'
PROOF
<1> USE InitOpAssumption
<1>0. /\ TypeOK /\ Queue /\ PhaseOfKind /\ KeptInv /\ Owned /\ ConfigInv /\ NoReentry
      /\ \A n \in Names : NameInv(n)
  BY DEF IInv
<1>1. TypeOK'
  BY <1>0 DEF TypeOK, CallReload, Phases, ToShutdown, ToLaunch
<1>2. /\ \A p \in Ops : Active(p) => p = InitOp /\ kind[p] = "launch" /\ pc[p] = "up"
      /\ pc[o] = "idle"
  <2>1. \A p \in Ops : Active(p) => kind[p] = "launch"
    BY <1>0 DEF CallReload, TypeOK
  <2> QED
    BY <1>0, <2>1 DEF CallReload, PhaseOfKind, Queue, Active, TypeOK
<1>3. /\ \A p \in Ops : /\ pc'[p] = IF p = o THEN "down_wait" ELSE pc[p]
                       /\ kind'[p] = IF p = o THEN "reload" ELSE kind[p]
      /\ downs'[o] = ToShutdown(new, force) /\ upNames'[o] = ToLaunch(new, force)
      /\ configs' = new /\ lock' = Append(lock, o) /\ ~closed
      /\ UNCHANGED <<servers, task, st, ver, popped, ups, dead, closed>>
  BY <1>0 DEF CallReload, TypeOK
<1>4. Queue'
  <2>1. CASE \A p \in Ops : ~Active(p)
    <3>1. lock = <<>>
      BY <1>0, <2>1 DEF Queue
    <3>2. lock' = <<o>>
      BY <1>3, <3>1, LockFacts
    <3> QED
      BY <1>3, <2>1, <3>2 DEF Queue, Active
  <2>2. CASE \E p \in Ops : Active(p)
    <3>1. Active(InitOp) /\ kind[InitOp] = "launch" /\ o # InitOp
          /\ \A p \in Ops : Active(p) <=> p = InitOp
      BY <1>2, <2>2 DEF Active
    <3>2. lock = <<InitOp>>
      BY <1>0, <3>1 DEF Queue
    <3>3. lock' = <<InitOp, o>>
      BY <1>3, <3>2, LockFacts
    <3> QED
      BY <1>3, <3>1, <3>3 DEF Queue, Active
  <2> QED
    BY <2>1, <2>2
<1>5. PhaseOfKind'
  BY <1>0, <1>3 DEF PhaseOfKind, Active
<1>6. KeptInv'
  BY <1>0, <1>2, <1>3 DEF KeptInv, Rises, Active
<1>7. Owned' /\ NoReentry'
  BY <1>0, <1>3 DEF Owned, NoReentry, Running
<1>8. ConfigInv'
  <2>1. \A n \in Names : Matches(n)
    BY <1>0, <1>2, <1>3 DEF ConfigInv, Active
  <2>2. ASSUME NEW n \in Names
        PROVE  /\ n \in ToLaunch(new, force) => new[n] # None
               /\ IF n \in ToLaunch(new, force) \/ new[n] = None
                  THEN servers[n] # None => n \in ToShutdown(new, force)
                  ELSE n \notin ToShutdown(new, force) /\ configs[n] = new[n]
    BY <2>1 DEF ToLaunch, ToShutdown, Matches
  <2>3. \A p \in Ops : pc'[p] \in {"down_wait", "down"} => p = o
    BY <1>2, <1>3 DEF Active
  <2>4. \A n \in Names : configs[n] = new[n] => Matches(n)'
    BY <1>3, <2>1 DEF Matches
  <2> QED
    BY <1>3, <2>2, <2>3, <2>4 DEF ConfigInv
<1>9. ASSUME NEW n \in Names PROVE NameInv(n)'
  <2>1. \A p \in Ops : (Sinks(p, n)' <=> Sinks(p, n)) /\ (Rises(p, n)' <=> Rises(p, n))
    BY <1>2, <1>3, <1>0 DEF Sinks, Rises, CallReload, TypeOK
  <2>2. NameInv(n) /\ \A p \in Ops : Rises(p, n) => p # o /\ pc'[p] = pc[p]
    BY <1>0, <1>2, <1>3 DEF Rises
  <2> QED
    BY <1>3, <2>1, <2>2 DEF NameInv, Steady
<1> QED
  BY <1>1, <1>4, <1>5, <1>6, <1>7, <1>8, <1>9 DEF IInv

\* restart_mcp_server() is called while nothing else is under way.
LEMMA CallRestartKeeps ==
  ASSUME Overlap = FALSE, IInv, NEW o \in Ops, NEW s \in Names, CallRestart(o, s)
  PROVE  IInv'
PROOF
<1> USE InitOpAssumption
<1>0. /\ TypeOK /\ Queue /\ PhaseOfKind /\ KeptInv /\ Owned /\ ConfigInv /\ NoReentry
      /\ \A n \in Names : NameInv(n)
  BY DEF IInv
<1>1. TypeOK'
  <2>1. [ups EXCEPT ![o][s] = servers[s]] \in [Ops -> Tables]
    BY <1>0 DEF TypeOK, Tables
  <2> QED
    BY <1>0, <2>1 DEF TypeOK, CallRestart, Phases
<1>2. (\A p \in Ops : pc[p] = "idle") /\ lock = <<>>
  BY <1>0 DEF CallRestart, Active, Queue
<1>3. /\ \A p \in Ops : /\ pc'[p] = IF p = o THEN "down_wait" ELSE pc[p]
                       /\ kind'[p] = IF p = o THEN "restart" ELSE kind[p]
      /\ downs'[o] = {s} /\ lock' = <<o>> /\ servers[s] # None /\ ~closed
      /\ UNCHANGED <<configs, servers, task, st, ver, popped, dead, closed>>
  BY <1>0, <1>2, LockFacts DEF CallRestart, TypeOK
<1>4. \A p \in Ops, n \in Names :
        ups'[p][n] = IF p = o /\ n = s THEN servers[s] ELSE None
  <2>1. \A p \in Ops, n \in Names : ups[p][n] = None
    BY <1>0, <1>2 DEF KeptInv, Rises
  <2>2. ups' = [ups EXCEPT ![o][s] = servers[s]]
    BY DEF CallRestart
  <2> QED
    BY <1>0, <2>1, <2>2 DEF TypeOK, Tables
<1>5. Queue' /\ PhaseOfKind'
  BY <1>2, <1>3 DEF Queue, PhaseOfKind, Active
<1>6. \A n \in Names : Matches(n)
  BY <1>0, <1>2, <1>3 DEF ConfigInv
<1>7. KeptInv'
  BY <1>0, <1>3, <1>4, <1>6 DEF KeptInv, Matches, Owned
<1>8. Owned' /\ NoReentry'
  BY <1>0, <1>3 DEF Owned, NoReentry, Running
<1>9. ConfigInv'
  <2>1. \A n \in Names : Matches(n)'
    BY <1>3, <1>6 DEF Matches
  <2> QED
    BY <1>2, <1>3, <1>4, <2>1 DEF ConfigInv
<1>10. ASSUME NEW n \in Names PROVE NameInv(n)'
  BY <1>0, <1>2, <1>3 DEF NameInv, Steady, Sinks, Rises
<1> QED
  BY <1>1, <1>5, <1>7, <1>8, <1>9, <1>10 DEF IInv

\* The exit is called while nothing else is under way but the initial launch.
LEMMA CallExitKeeps ==
  ASSUME Overlap = FALSE, IInv, NEW o \in Ops, CallExit(o)
  PROVE  IInv'
PROOF
<1> USE InitOpAssumption
<1>0. /\ TypeOK /\ Queue /\ PhaseOfKind /\ KeptInv /\ Owned /\ ConfigInv /\ NoReentry
      /\ \A n \in Names : NameInv(n)
  BY DEF IInv
<1>1. TypeOK'
  BY <1>0 DEF TypeOK, CallExit, Phases
<1>2. /\ \A p \in Ops : Active(p) => p = InitOp /\ kind[p] = "launch" /\ pc[p] = "up"
      /\ pc[o] = "idle"
  BY <1>0 DEF CallExit, PhaseOfKind, Active
<1>3. /\ \A p \in Ops : /\ pc'[p] = IF p = o THEN "down_wait" ELSE pc[p]
                       /\ kind'[p] = IF p = o THEN "exit" ELSE kind[p]
      /\ downs'[o] = {n \in Names : servers[n] # None} /\ lock' = Append(lock, o) /\ ~closed
      /\ UNCHANGED <<configs, servers, task, st, ver, popped, ups, dead, closed>>
  BY <1>0 DEF CallExit, TypeOK
<1>4. Queue'
  <2>1. CASE \A p \in Ops : ~Active(p)
    <3>1. lock = <<>>
      BY <1>0, <2>1 DEF Queue
    <3>2. lock' = <<o>>
      BY <1>3, <3>1, LockFacts
    <3> QED
      BY <1>3, <2>1, <3>2 DEF Queue, Active
  <2>2. CASE \E p \in Ops : Active(p)
    <3>1. Active(InitOp) /\ kind[InitOp] = "launch" /\ o # InitOp
          /\ \A p \in Ops : Active(p) <=> p = InitOp
      BY <1>2, <2>2 DEF Active
    <3>2. lock = <<InitOp>>
      BY <1>0, <3>1 DEF Queue
    <3>3. lock' = <<InitOp, o>>
      BY <1>3, <3>2, LockFacts
    <3> QED
      BY <1>3, <3>1, <3>3 DEF Queue, Active
  <2> QED
    BY <2>1, <2>2
<1>5. PhaseOfKind'
  BY <1>0, <1>3 DEF PhaseOfKind, Active
<1>6. KeptInv'
  BY <1>0, <1>2, <1>3 DEF KeptInv, Rises, Active
<1>7. Owned' /\ NoReentry'
  BY <1>0, <1>3 DEF Owned, NoReentry, Running
<1>8. ConfigInv'
  BY <1>2, <1>3 DEF ConfigInv, Active
<1>9. ASSUME NEW n \in Names PROVE NameInv(n)'
  <2>1. \A p \in Ops : (Sinks(p, n)' <=> Sinks(p, n)) /\ (Rises(p, n)' <=> Rises(p, n))
    BY <1>2, <1>3, <1>0 DEF Sinks, Rises, CallExit, TypeOK
  <2>2. NameInv(n) /\ \A p \in Ops : Rises(p, n) => p # o /\ pc'[p] = pc[p]
    BY <1>0, <1>2, <1>3 DEF Rises
  <2> QED
    BY <1>3, <2>1, <2>2 DEF NameInv, Steady
<1> QED
  BY <1>1, <1>4, <1>5, <1>6, <1>7, <1>8, <1>9 DEF IInv

\* The operation with the lock tells the servers that it shuts down to end.
LEMMA DownBeginKeeps ==
  ASSUME IInv, NEW o \in Ops, DownBegin(o)
  PROVE  IInv'
PROOF
<1>0. /\ TypeOK /\ Queue /\ PhaseOfKind /\ KeptInv /\ Owned /\ ConfigInv /\ NoReentry
      /\ \A n \in Names : NameInv(n)
  BY DEF IInv
<1>1. TypeOK'
  BY <1>0 DEF TypeOK, DownBegin, opVars, Phases, Tables, ObjStates
<1>2. lock = <<o>> /\ pc[o] = "down_wait" /\ \A p \in Ops : p # o => pc[p] = "idle"
  BY <1>0, Sole DEF DownBegin
<1>3. /\ \A p \in Ops : pc'[p] = IF p = o THEN "down" ELSE "idle"
      /\ \A n \in Names : task'[n] = IF n \in downs[o] THEN None ELSE task[n]
      /\ UNCHANGED <<configs, servers, lock, ver, kind, downs, upNames, ups, dead, closed>>
  BY <1>0, <1>2 DEF DownBegin, TypeOK, opVars
<1>4. \A n \in Names : Steady(n)
  BY <1>0, <1>2 DEF NameInv, Sinks, Rises
<1>5. /\ \A p \in Ops, n \in Names :
           popped'[p][n] = IF p = o /\ n \in downs[o] THEN servers[n] ELSE None
      /\ \A x \in Objs : st'[x] = IF \E n \in downs[o] : servers[n] = x THEN "stopping" ELSE st[x]
  BY <1>0, <1>2, <1>4 DEF DownBegin, TypeOK, Tables, NameInv, Sinks, Steady
<1>6. Queue' /\ PhaseOfKind'
  BY <1>0, <1>2, <1>3 DEF Queue, PhaseOfKind, Active
<1>7. KeptInv'
  BY <1>0, <1>2, <1>3 DEF KeptInv, Rises
<1>8. Owned' /\ NoReentry'
  BY <1>0, <1>3, <1>4, <1>5 DEF Owned, NoReentry, Running, TypeOK
<1>9. ConfigInv'
  BY <1>0, <1>2, <1>3 DEF ConfigInv, Matches, Active
<1>10. ASSUME NEW n \in Names PROVE NameInv(n)'
  <2>1. ~Rises(o, n)' /\ (Sinks(o, n)' <=> n \in downs[o])
        /\ \A p \in Ops : p # o => ~Sinks(p, n)' /\ ~Rises(p, n)'
    BY <1>3 DEF Rises, Sinks
  <2>2. servers[n] # None => servers[n] \in Objs /\ \A m \in Names : servers[m] = servers[n] => m = n
    BY <1>0 DEF TypeOK, Tables, Owned
  <2>3. servers[n] # None => st'[servers[n]] = IF n \in downs[o] THEN "stopping" ELSE st[servers[n]]
    BY <1>5, <2>2, <1>0 DEF TypeOK
  <2> QED
    BY <1>3, <1>4, <1>5, <2>1, <2>3 DEF NameInv, Steady
<1> QED
  BY <1>1, <1>6, <1>7, <1>8, <1>9, <1>10 DEF IInv

\* Only the state of an object changes, from what nothing waits for but its operation.
LEMMA ServeKeeps ==
  ASSUME IInv, NEW x \in Objs, Serve(x)
  PROVE  IInv'
PROOF
<1>0. /\ TypeOK /\ Queue /\ PhaseOfKind /\ KeptInv /\ Owned /\ ConfigInv /\ NoReentry
      /\ \A n \in Names : NameInv(n)
  BY DEF IInv
<1>1. /\ \/ st[x] = "starting" /\ st' = [st EXCEPT ![x] = "up"]
         \/ st[x] = "stopping" /\ st' = [st EXCEPT ![x] = "down"]
      /\ UNCHANGED <<configs, servers, task, lock, ver, pc, kind, downs, upNames, popped, ups,
                     dead, closed>>
  BY DEF Serve, Started, Stopped, opVars
<1>2. TypeOK'
  BY <1>0, <1>1 DEF TypeOK, ObjStates
<1>3. Queue' /\ PhaseOfKind' /\ KeptInv' /\ NoReentry'
  BY <1>0, <1>1 DEF Queue, PhaseOfKind, KeptInv, NoReentry, Active, Rises
<1>4. Owned'
  BY <1>0, <1>1 DEF Owned, Running, TypeOK
<1>5. ConfigInv'
  BY <1>0, <1>1 DEF ConfigInv, Matches, Active
<1>6. ASSUME NEW n \in Names PROVE NameInv(n)'
  <2>1. servers[n] # None /\ servers[n] # x => st'[servers[n]] = st[servers[n]]
    BY <1>0, <1>1 DEF TypeOK, Tables
  <2>2. st'[x] \in IF st[x] = "starting" THEN {"up"} ELSE {"down"}
    BY <1>0, <1>1 DEF TypeOK
  <2>3. Steady(n) => Steady(n)'
    BY <1>1, <2>1 DEF Steady
  <2> QED
    BY <1>0, <1>1, <2>1, <2>2, <2>3 DEF NameInv, Sinks, Rises
<1> QED
  BY <1>2, <1>3, <1>4, <1>5, <1>6 DEF IInv

\* A server has ended and its name is free.  Nobody else can have taken it.
LEMMA DownOneKeeps ==
  ASSUME IInv, NEW o \in Ops, NEW s \in Names, DownOne(o, s)
  PROVE  IInv'
PROOF
<1>0. /\ TypeOK /\ Queue /\ PhaseOfKind /\ KeptInv /\ Owned /\ ConfigInv /\ NoReentry
      /\ \A n \in Names : NameInv(n)
  BY DEF IInv
<1>1. lock = <<o>> /\ pc[o] = "down" /\ \A p \in Ops : p # o => pc[p] = "idle"
  BY <1>0, Sole DEF DownOne
<1>2. Sinks(o, s) /\ task[s] = None /\ servers[s] = popped[o][s] /\ servers[s] # None
      /\ st[servers[s]] = "down"
  BY <1>0 DEF NameInv, DownOne
<1>3. /\ servers' = [servers EXCEPT ![s] = None] /\ popped' = [popped EXCEPT ![o][s] = None]
      /\ UNCHANGED <<configs, task, lock, st, ver, pc, kind, downs, upNames, ups, dead, closed>>
  BY <1>2 DEF DownOne, opVars
<1>4. TypeOK'
  <2>1. [popped EXCEPT ![o][s] = None] \in [Ops -> Tables]
    BY <1>0 DEF TypeOK, Tables
  <2> QED
    BY <1>0, <1>3, <2>1 DEF TypeOK, Tables
<1>5. Queue' /\ PhaseOfKind' /\ NoReentry'
  BY <1>0, <1>3 DEF Queue, PhaseOfKind, NoReentry, Active
<1>6. \A n \in Names : servers'[n] = IF n = s THEN None ELSE servers[n]
  BY <1>0, <1>3 DEF TypeOK, Tables
<1>7. KeptInv'
  BY <1>0, <1>1, <1>3, <1>6 DEF KeptInv, Rises
<1>8. Owned'
  BY <1>0, <1>2, <1>3, <1>6, NoneAssumption DEF Owned, Running
<1>9. ConfigInv'
  <2>1. s \in downs[o] /\ ~closed
    BY <1>0, <1>1, <1>2 DEF Sinks, ConfigInv, Active
  <2>2. \A n \in Names : n # s => (Matches(n)' <=> Matches(n))
    BY <1>3, <1>6 DEF Matches
  <2>3. \A p \in Ops : pc'[p] \in {"down_wait", "down"} => p = o
    BY <1>1, <1>3
  <2>4. kind[o] = "restart" => (\E n \in Names : downs[o] = {n} /\ ups[o][n] # None
                                   /\ \A m \in Names : m # n => Matches(m)')
    BY <1>0, <1>1, <2>1, <2>2 DEF ConfigInv
  <2>5. ASSUME kind[o] = "reload", NEW n \in Names
        PROVE  /\ n \in upNames[o] => configs[n] # None
               /\ IF n \in upNames[o] \/ configs[n] = None THEN servers'[n] # None => n \in downs[o]
                  ELSE n \notin downs[o] /\ Matches(n)'
    BY <1>0, <1>1, <1>6, <2>1, <2>2, <2>5 DEF ConfigInv
  <2>6. kind[o] = "exit" => \A n \in Names : servers'[n] # None => n \in downs[o]
    BY <1>0, <1>1, <1>6 DEF ConfigInv
  <2>7. pc'[o] = "down"
    BY <1>1, <1>3
  <2> QED
    BY <1>3, <2>1, <2>3, <2>4, <2>5, <2>6, <2>7 DEF ConfigInv
<1>10. ASSUME NEW n \in Names PROVE NameInv(n)'
  <2>1. \A p \in Ops : popped'[p][n] = IF p = o /\ n = s THEN None ELSE popped[p][n]
    BY <1>0, <1>3 DEF TypeOK, Tables
  <2>2. \A p \in Ops : (Sinks(p, n)' <=> Sinks(p, n)) /\ (Rises(p, n)' <=> Rises(p, n))
    BY <1>3 DEF Sinks, Rises
  <2>3. \A p \in Ops : ~Rises(p, n) /\ (Sinks(p, n) => p = o)
    BY <1>1 DEF Rises, Sinks
  <2>4. NameInv(n)
    BY <1>0
  <2>5. CASE n = s
    BY <1>2, <1>3, <1>6, <2>1, <2>2, <2>3, <2>4, <2>5 DEF NameInv
  <2>6. CASE n # s
    BY <1>3, <1>6, <2>1, <2>2, <2>3, <2>4, <2>6 DEF NameInv, Steady
  <2> QED
    BY <2>5, <2>6
<1> QED
  BY <1>4, <1>5, <1>7, <1>8, <1>9, <1>10 DEF IInv

\* What was shut down is gone; the servers of the new configuration get objects of
\* their own.
LEMMA DownEndReloadKeeps ==
  ASSUME IInv, NEW o \in Ops, DownEndReload(o)
  PROVE  IInv'
PROOF
<1>0. /\ TypeOK /\ Queue /\ PhaseOfKind /\ KeptInv /\ Owned /\ ConfigInv /\ NoReentry
      /\ \A n \in Names : NameInv(n)
  BY DEF IInv
<1>1. lock = <<o>> /\ pc[o] = "down" /\ \A p \in Ops : p # o => pc[p] = "idle"
  BY <1>0, Sole DEF DownEndReload
<1>2. PICK new \in [upNames[o] -> {x \in Objs : Garbage(x)}] :
        /\ IsInjective(new)
        /\ ups' = [ups EXCEPT ![o] = [n \in Names |-> IF n \in upNames[o] THEN new[n] ELSE None]]
        /\ servers' = [n \in Names |-> IF n \in upNames[o] THEN new[n] ELSE servers[n]]
        /\ st' = [x \in Objs |-> IF x \in Range(new) THEN "made" ELSE st[x]]
        /\ ver' = [x \in Objs |-> IF x \in Range(new)
                                  THEN configs[CHOOSE n \in upNames[o] : new[n] = x] ELSE ver[x]]
  BY DEF DownEndReload
<1>3. /\ \A p \in Ops : pc'[p] = IF p = o THEN "up_wait" ELSE "idle"
      /\ lock' = <<o>> /\ kind[o] = "reload" /\ popped[o] = NoObjs
      /\ UNCHANGED <<configs, task, kind, downs, upNames, popped, dead, closed>>
  <2>1. Append(Tail(lock), o) = <<o>>
    BY <1>1, LockFacts
  <2> QED
    BY <1>0, <1>1, <2>1 DEF DownEndReload, opVars, TypeOK
<1>4. /\ upNames[o] \subseteq Names
      /\ \A n \in upNames[o] : new[n] \in Objs /\ Garbage(new[n])
      /\ \A m, n \in upNames[o] : new[m] = new[n] => m = n
      /\ \A x : x \in Range(new) <=> \E n \in upNames[o] : new[n] = x
  BY <1>0, <1>2 DEF TypeOK, IsInjective, Range
<1>5. \A n \in Names : servers'[n] = IF n \in upNames[o] THEN new[n] ELSE servers[n]
  BY <1>2
<1>6. \A p \in Ops, n \in Names :
        ups'[p][n] = IF p = o /\ n \in upNames[o] THEN new[n] ELSE None
  <2>1. \A n \in Names : ups[o][n] = None
    BY <1>0, <1>1, <1>3 DEF KeptInv, Rises
  <2>2. \A p \in Ops, n \in Names : ups[p][n] = None
    BY <1>0, <1>1, <2>1 DEF KeptInv, Rises
  <2> QED
    BY <1>0, <1>2, <2>2 DEF TypeOK
\* What was shut down is gone.
<1>7. \A n \in Names : /\ n \in downs[o] => task[n] = None /\ servers[n] = None
                       /\ n \notin downs[o] => Steady(n)
  <2> TAKE n \in Names
  <2>1. n \in downs[o] => Sinks(o, n) /\ popped[o][n] = None
    BY <1>1, <1>3 DEF Sinks, NoObjs
  <2>2. n \notin downs[o] => \A p \in Ops : ~Sinks(p, n) /\ ~Rises(p, n)
    BY <1>1 DEF Sinks, Rises
  <2> QED
    BY <1>0, <2>1, <2>2 DEF NameInv
<1>8. \A n \in Names : n \in upNames[o] => servers[n] = None /\ task[n] = None /\ configs[n] # None
  <2> TAKE n \in Names
  <2>1. n \in upNames[o] => configs[n] # None /\ (servers[n] # None => n \in downs[o])
    BY <1>0, <1>1, <1>3 DEF ConfigInv
  <2> QED
    BY <1>7, <2>1 DEF Steady
<1>9. \A n \in Names, m \in upNames[o] : servers[n] # new[m]
  BY <1>4 DEF Garbage
<1>10. TypeOK'
  <2>1. servers' \in Tables /\ [n \in Names |-> IF n \in upNames[o] THEN new[n] ELSE None] \in Tables
    BY <1>0, <1>2, <1>4 DEF TypeOK, Tables
  <2>2. ups' \in [Ops -> Tables]
    BY <1>0, <1>2, <2>1 DEF TypeOK
  <2>3. \A x \in Range(new) : (CHOOSE n \in upNames[o] : new[n] = x) \in Names
    BY <1>4
  <2>4. ver' \in [Objs -> Versions \cup {None}]
    BY <1>0, <1>2, <2>3 DEF TypeOK
  <2>5. st' \in [Objs -> ObjStates]
    BY <1>0, <1>2 DEF TypeOK, ObjStates
  <2>6. pc' \in [Ops -> Phases] /\ lock' \in Seq(Ops)
    <3>1. pc' = [pc EXCEPT ![o] = "up_wait"]
      BY DEF DownEndReload
    <3> QED
      BY <1>0, <1>3, <3>1 DEF TypeOK, Phases
  <2> QED
    BY <1>0, <1>3, <2>1, <2>2, <2>4, <2>5, <2>6 DEF TypeOK
<1>11. Queue' /\ PhaseOfKind'
  BY <1>3 DEF Queue, PhaseOfKind, Active
<1>12. KeptInv' /\ NoReentry'
  BY <1>0, <1>3, <1>6 DEF KeptInv, Rises, NoReentry
<1>13. Owned'
  <2>1. \A m, n \in Names : servers'[m] # None /\ servers'[m] = servers'[n] => m = n
    BY <1>0, <1>4, <1>5, <1>9 DEF Owned
  <2>2. \A x \in Objs : Running(x)' => \E n \in Names : n \notin upNames[o] /\ servers[n] = x
    BY <1>0, <1>2, <1>8, NoneAssumption DEF Running, Owned
  <2> QED
    BY <1>5, <2>1, <2>2 DEF Owned
<1>14. ConfigInv'
  <2>1. ASSUME NEW n \in Names PROVE Matches(n)'
    <3>1. CASE n \in upNames[o]
      <4>1. new[n] \in Objs /\ new[n] \in Range(new) /\ new[n] # None
        BY <1>4, <3>1, NoneAssumption
      <4>2. (CHOOSE m \in upNames[o] : new[m] = new[n]) = n
        BY <1>4, <3>1
      <4>3. ver'[new[n]] = configs[n]
        BY <1>2, <4>1, <4>2
      <4> QED
        BY <1>3, <1>5, <1>8, <3>1, <4>1, <4>3 DEF Matches
    <3>2. CASE n \notin upNames[o]
      <4>1. Matches(n)
        BY <1>0, <1>1, <1>3, <1>7, <3>2 DEF ConfigInv, Matches
      <4>2. servers[n] # None => ver'[servers[n]] = ver[servers[n]]
        BY <1>0, <1>2, <1>4, <1>9 DEF TypeOK, Tables
      <4> QED
        BY <1>3, <1>5, <3>2, <4>1, <4>2 DEF Matches
    <3> QED
      BY <3>1, <3>2
  <2>2. ~closed
    BY <1>0, <1>1 DEF ConfigInv, Active
  <2> QED
    BY <1>3, <2>1, <2>2 DEF ConfigInv
<1>15. ASSUME NEW n \in Names PROVE NameInv(n)'
  <2>1. \A p \in Ops : /\ ~Sinks(p, n)' /\ popped'[p][n] = None
                       /\ Rises(p, n)' <=> p = o /\ n \in upNames[o]
    <3>1. \A p \in Ops : popped[p][n] = None
      BY <1>0, <1>1, <1>3 DEF NameInv, Sinks, NoObjs
    <3>2. \A m \in upNames[o] : new[m] # None
      BY <1>4, NoneAssumption
    <3> QED
      BY <1>3, <1>6, <3>1, <3>2 DEF Sinks, Rises
  <2>2. CASE n \in upNames[o]
    <3>1. st'[new[n]] = "made"
      BY <1>2, <1>4, <2>2
    <3> QED
      BY <1>3, <1>5, <1>6, <1>8, <2>1, <2>2, <3>1 DEF NameInv
  <2>3. CASE n \notin upNames[o]
    <3>1. Steady(n)
      BY <1>7 DEF Steady
    <3>2. servers[n] # None => st'[servers[n]] = st[servers[n]]
      BY <1>0, <1>2, <1>4, <1>9 DEF TypeOK, Tables
    <3> QED
      BY <1>3, <1>5, <2>1, <2>3, <3>1, <3>2 DEF NameInv, Steady
  <2> QED
    BY <2>2, <2>3
<1> QED
  BY <1>10, <1>11, <1>12, <1>13, <1>14, <1>15 DEF IInv

\* The server of a restart gets its object back.
LEMMA DownEndRestartKeeps ==
  ASSUME IInv, NEW o \in Ops, DownEndRestart(o)
  PROVE  IInv'
PROOF
<1>0. /\ TypeOK /\ Queue /\ PhaseOfKind /\ KeptInv /\ Owned /\ ConfigInv /\ NoReentry
      /\ \A n \in Names : NameInv(n)
  BY DEF IInv
<1>1. lock = <<o>> /\ pc[o] = "down" /\ \A p \in Ops : p # o => pc[p] = "idle"
  BY <1>0, Sole DEF DownEndRestart
<1>2. /\ \A p \in Ops : pc'[p] = IF p = o THEN "up_wait" ELSE "idle"
      /\ lock' = <<o>> /\ kind[o] = "restart" /\ popped[o] = NoObjs
      /\ UNCHANGED <<configs, task, st, ver, kind, downs, upNames, popped, ups, dead, closed>>
  <2>1. Append(Tail(lock), o) = <<o>>
    BY <1>1, LockFacts
  <2> QED
    BY <1>0, <1>1, <2>1 DEF DownEndRestart, opVars, TypeOK
<1>3. PICK s \in Names : /\ downs[o] = {s} /\ ups[o][s] # None
                         /\ \A m \in Names : m # s => Matches(m)
  BY <1>0, <1>1, <1>2 DEF ConfigInv
<1>4. /\ \A m \in Names : m # s => servers[m] # ups[o][s]
      /\ configs[s] # None /\ ver[ups[o][s]] = configs[s] /\ ups[o][s] \in Objs
  <2>1. ~Rises(o, s)
    BY <1>1 DEF Rises
  <2>2. ups[o][s] \in Objs \cup {None}
    BY <1>0 DEF TypeOK, Tables
  <2> QED
    BY <1>0, <1>3, <2>1, <2>2 DEF KeptInv
<1>5. \A n \in Names : servers'[n] = IF n = s THEN ups[o][s] ELSE servers[n]
  BY <1>3 DEF DownEndRestart
<1>6. \A p \in Ops, n \in Names : ups[p][n] # None => p = o /\ n = s
  BY <1>0, <1>1, <1>3 DEF KeptInv, Rises
<1>7. Sinks(o, s) /\ task[s] = None /\ servers[s] = None
  BY <1>0, <1>1, <1>2, <1>3 DEF Sinks, NameInv, NoObjs
<1>8. st[ups[o][s]] \in {"made", "down"}
  <2>1. \A n \in Names : servers[n] # ups[o][s]
    BY <1>3, <1>4, <1>7
  <2>2. ~Running(ups[o][s])
    BY <1>0, <1>4, <2>1 DEF Owned
  <2> QED
    BY <1>0, <1>4, <2>2 DEF Running, TypeOK, ObjStates
<1>9. TypeOK'
  <2>1. servers' \in Tables
    BY <1>0 DEF DownEndRestart, TypeOK, Tables
  <2>2. pc' \in [Ops -> Phases] /\ lock' \in Seq(Ops)
    <3>1. pc' = [pc EXCEPT ![o] = "up_wait"]
      BY DEF DownEndRestart
    <3> QED
      BY <1>0, <1>2, <3>1 DEF TypeOK, Phases
  <2> QED
    BY <1>0, <1>2, <2>1, <2>2 DEF TypeOK
<1>10. Queue' /\ PhaseOfKind'
  BY <1>2 DEF Queue, PhaseOfKind, Active
<1>11. KeptInv' /\ NoReentry'
  BY <1>0, <1>2, <1>6 DEF KeptInv, Rises, NoReentry
<1>12. Owned'
  BY <1>0, <1>2, <1>3, <1>4, <1>5, <1>7, NoneAssumption DEF Owned, Running
<1>13. ConfigInv'
  <2>1. \A n \in Names : Matches(n)'
    BY <1>2, <1>3, <1>4, <1>5 DEF Matches
  <2>2. ~closed
    BY <1>0, <1>1 DEF ConfigInv, Active
  <2> QED
    BY <1>2, <2>1, <2>2 DEF ConfigInv
<1>14. ASSUME NEW n \in Names PROVE NameInv(n)'
  <2>1. \A p \in Ops : /\ ~Sinks(p, n)' /\ popped'[p][n] = None
                       /\ Rises(p, n)' <=> p = o /\ n = s
    <3>1. \A p \in Ops : popped[p][n] = None
      BY <1>0, <1>1, <1>2 DEF NameInv, Sinks, NoObjs
    <3> QED
      BY <1>2, <1>3, <1>6, <3>1 DEF Sinks, Rises
  <2>2. n # s => Steady(n)
    BY <1>0, <1>1, <1>3 DEF NameInv, Sinks, Rises
  <2> QED
    BY <1>2, <1>3, <1>4, <1>5, <1>7, <1>8, <2>1, <2>2 DEF NameInv, Steady
<1> QED
  BY <1>9, <1>10, <1>11, <1>12, <1>13, <1>14 DEF IInv

\* Every server was shut down.
LEMMA DownEndExitKeeps ==
  ASSUME IInv, NEW o \in Ops, DownEndExit(o)
  PROVE  IInv'
PROOF
<1>0. /\ TypeOK /\ Queue /\ PhaseOfKind /\ KeptInv /\ Owned /\ ConfigInv /\ NoReentry
      /\ \A n \in Names : NameInv(n)
  BY DEF IInv
<1>1. lock = <<o>> /\ pc[o] = "down" /\ \A p \in Ops : p # o => pc[p] = "idle"
  BY <1>0, Sole DEF DownEndExit
<1>2. /\ \A p \in Ops : pc'[p] = "idle"
      /\ lock' = <<>> /\ kind[o] = "exit" /\ popped[o] = NoObjs /\ closed'
      /\ UNCHANGED <<configs, servers, task, st, ver, kind, downs, upNames, popped, ups, dead>>
  BY <1>0, <1>1, LockFacts DEF DownEndExit, opVars, TypeOK
<1>3. \A p \in Ops, n \in Names : ups[p][n] = None /\ popped[p][n] = None
  BY <1>0, <1>1, <1>2 DEF KeptInv, NameInv, Rises, Sinks, NoObjs
<1>4. \A n \in Names : servers[n] = None /\ task[n] = None
  <2> TAKE n \in Names
  <2>1. servers[n] # None => Sinks(o, n)
    BY <1>0, <1>1, <1>2 DEF ConfigInv, Sinks
  <2>2. servers[n] = None
    BY <1>0, <1>3, <2>1 DEF NameInv
  <2>3. task[n] = None
    BY <1>0, <1>3, <2>2 DEF NameInv, Rises, Steady
  <2> QED
    BY <2>2, <2>3
<1>5. TypeOK'
  <2>1. pc' = [pc EXCEPT ![o] = "idle"]
    BY DEF DownEndExit
  <2>2. pc' \in [Ops -> Phases] /\ lock' \in Seq(Ops)
    BY <1>0, <1>2, <2>1 DEF TypeOK, Phases
  <2> QED
    BY <1>0, <1>2, <2>2 DEF TypeOK, DownEndExit
<1>6. Queue' /\ PhaseOfKind' /\ KeptInv' /\ Owned' /\ NoReentry'
  BY <1>0, <1>2, <1>3 DEF Queue, PhaseOfKind, KeptInv, Owned, NoReentry, Active, Running
<1>7. ConfigInv'
  BY <1>0, <1>2, <1>4 DEF ConfigInv, NoObjs, Active, TypeOK, Tables
<1>8. \A n \in Names : NameInv(n)'
  BY <1>2, <1>3, <1>4 DEF NameInv, Sinks, Rises, Steady
<1> QED
  BY <1>5, <1>6, <1>7, <1>8 DEF IInv

\* The servers to launch are all down, and each gets its process.
LEMMA UpBeginKeeps ==
  ASSUME IInv, NEW o \in Ops, UpBegin(o)
  PROVE  IInv'
PROOF
<1>0. /\ TypeOK /\ Queue /\ PhaseOfKind /\ KeptInv /\ Owned /\ ConfigInv /\ NoReentry
      /\ \A n \in Names : NameInv(n)
  BY DEF IInv
<1>1. lock = <<o>> /\ pc[o] = "up_wait" /\ \A p \in Ops : p # o => pc[p] = "idle"
  BY <1>0, Sole DEF UpBegin
<1>2. \A n \in Names : ups[o][n] # None =>
        /\ Rises(o, n) /\ servers[n] = ups[o][n] /\ ups[o][n] \in Objs
        /\ st[ups[o][n]] \in {"made", "down"}
  BY <1>0, <1>1 DEF Rises, NameInv, TypeOK, Tables
<1>3. /\ \A p \in Ops : pc'[p] = IF p = o THEN "up" ELSE "idle"
      /\ \A x \in Objs : st'[x] = IF (\E n \in Names : ups[o][n] = x) THEN "starting" ELSE st[x]
      /\ dead' = dead
      /\ UNCHANGED <<configs, servers, task, lock, ver, kind, downs, upNames, popped, ups, closed>>
  <2>1. \A n \in Names : ups[o][n] # None => ~Entered(ups[o][n])
    BY <1>2 DEF Entered
  <2>2. \A x \in Objs : st'[x] = IF (\E n \in Names : ups[o][n] = x) THEN "starting" ELSE st[x]
    BY <2>1, NoneAssumption DEF UpBegin
  <2>3. dead' = [dead EXCEPT ![o] = {}]
    BY <2>1 DEF UpBegin
  <2>4. dead' = dead
    BY <1>0, <2>3 DEF NoReentry, TypeOK
  <2> QED
    BY <1>0, <1>1, <2>2, <2>4 DEF UpBegin, opVars, TypeOK
<1>4. TypeOK'
  <2>1. st' \in [Objs -> ObjStates] /\ pc' \in [Ops -> Phases]
    BY <1>0 DEF UpBegin, TypeOK, ObjStates, Phases
  <2> QED
    BY <1>0, <1>3, <2>1 DEF TypeOK
<1>5. Queue' /\ PhaseOfKind' /\ NoReentry'
  BY <1>0, <1>1, <1>3 DEF Queue, PhaseOfKind, NoReentry, Active
<1>6. KeptInv'
  BY <1>0, <1>1, <1>3 DEF KeptInv, Rises
<1>7. Owned'
  BY <1>0, <1>2, <1>3, NoneAssumption DEF Owned, Running
<1>8. ConfigInv'
  BY <1>0, <1>1, <1>3 DEF ConfigInv, Matches, Active
<1>9. ASSUME NEW n \in Names PROVE NameInv(n)'
  <2>1. \A p \in Ops : ~Sinks(p, n) /\ ~Sinks(p, n)' /\ (Rises(p, n)' <=> Rises(p, n))
                       /\ (Rises(p, n) => p = o)
    BY <1>1, <1>3 DEF Sinks, Rises
  <2>2. servers[n] # None => servers[n] \in Objs /\ \A m \in Names : servers[m] = servers[n] => m = n
    BY <1>0 DEF TypeOK, Tables, Owned
  <2>3. servers[n] # None =>
          st'[servers[n]] = IF Rises(o, n) THEN "starting" ELSE st[servers[n]]
    BY <1>1, <1>2, <1>3, <2>2 DEF Rises
  <2>4. NameInv(n)
    BY <1>0
  <2> QED
    BY <1>1, <1>3, <2>1, <2>3, <2>4 DEF NameInv, Steady, Rises
<1> QED
  BY <1>4, <1>5, <1>6, <1>7, <1>8, <1>9 DEF IInv

\* The task of a server is recorded once the server runs.
LEMMA UpOneKeeps ==
  ASSUME IInv, NEW o \in Ops, NEW s \in Names, UpOne(o, s)
  PROVE  IInv'
PROOF
<1>0. /\ TypeOK /\ Queue /\ PhaseOfKind /\ KeptInv /\ Owned /\ ConfigInv /\ NoReentry
      /\ \A n \in Names : NameInv(n)
  BY DEF IInv
<1>1. /\ pc[o] = "up" /\ ups[o][s] # None /\ st[ups[o][s]] = "up"
      /\ task' = [task EXCEPT ![s] = ups[o][s]] /\ ups' = [ups EXCEPT ![o][s] = None]
      /\ UNCHANGED <<configs, servers, lock, st, ver, pc, kind, downs, upNames, popped, dead, closed>>
  BY DEF UpOne, opVars
<1>2. TypeOK'
  <2>1. task' \in Tables /\ ups' \in [Ops -> Tables]
    BY <1>0, <1>1 DEF TypeOK, Tables
  <2> QED
    BY <1>0, <1>1, <2>1 DEF TypeOK
<1>3. /\ \A n \in Names : task'[n] = IF n = s THEN ups[o][s] ELSE task[n]
      /\ \A p \in Ops, n \in Names : ups'[p][n] = IF p = o /\ n = s THEN None ELSE ups[p][n]
  BY <1>0, <1>1 DEF TypeOK, Tables
<1>4. Rises(o, s) /\ servers[s] = ups[o][s]
      /\ \A p \in Ops, n \in Names : Rises(p, n)' <=> Rises(p, n) /\ ~(p = o /\ n = s)
  BY <1>0, <1>1, <1>3 DEF Rises, NameInv
<1>5. Queue' /\ PhaseOfKind' /\ Owned' /\ NoReentry'
  BY <1>0, <1>1 DEF Queue, PhaseOfKind, Owned, NoReentry, Active, Running
<1>6. KeptInv'
  BY <1>0, <1>1, <1>3, <1>4 DEF KeptInv
<1>7. ConfigInv'
  <2>1. \A n \in Names : Matches(n)' <=> Matches(n)
    BY <1>1 DEF Matches
  <2>2. \A p \in Ops : pc[p] \in {"down_wait", "down"} => p # o
    BY <1>1
  <2>3. \A p \in Ops, n \in Names : pc[p] \in {"down_wait", "down"} => ups'[p][n] = ups[p][n]
    BY <1>3, <2>2
  <2> QED
    BY <1>0, <1>1, <2>1, <2>3 DEF ConfigInv, Active
<1>8. ASSUME NEW n \in Names PROVE NameInv(n)'
  <2>1. \A p \in Ops : (Sinks(p, n)' <=> Sinks(p, n)) /\ popped'[p][n] = popped[p][n]
    BY <1>1 DEF Sinks
  <2>2. NameInv(n)
    BY <1>0
  <2>3. CASE n = s
    <3>1. \A p \in Ops : Rises(p, s) => p = o
      BY <1>0, <1>1 DEF Rises, Queue, Active
    <3>2. \A p \in Ops : ~Sinks(p, s)
      BY <1>0, <1>1 DEF Sinks, Queue, Active
    <3> QED
      BY <1>1, <1>3, <1>4, <2>1, <2>2, <2>3, <3>1, <3>2 DEF NameInv, Steady
  <2>4. CASE n # s
    <3>1. \A p \in Ops : Rises(p, n)' <=> Rises(p, n)
      BY <1>4, <2>4
    <3> QED
      BY <1>1, <1>3, <2>1, <2>2, <2>4, <3>1 DEF NameInv, Steady
  <2> QED
    BY <2>3, <2>4
<1> QED
  BY <1>2, <1>5, <1>6, <1>7, <1>8 DEF IInv

\* A launch gives the lock back, to the operation that waits if there is one.
LEMMA UpEndKeeps ==
  ASSUME IInv, NEW o \in Ops, UpEnd(o)
  PROVE  IInv'
PROOF
<1> USE InitOpAssumption
<1>0. /\ TypeOK /\ Queue /\ PhaseOfKind /\ KeptInv /\ Owned /\ ConfigInv /\ NoReentry
      /\ \A n \in Names : NameInv(n)
  BY DEF IInv
<1>1. /\ pc[o] = "up" /\ ups[o] = NoObjs /\ lock' = Tail(lock)
      /\ \A p \in Ops : pc'[p] = IF p = o THEN "idle" ELSE pc[p]
      /\ UNCHANGED <<configs, servers, task, st, ver, kind, downs, upNames, popped, ups, dead, closed>>
  BY <1>0 DEF UpEnd, opVars, TypeOK
<1>2. Queue'
  <2>1. CASE lock = <<o>> /\ \A p \in Ops : Active(p) <=> p = o
    BY <1>1, <2>1, LockFacts DEF Queue, Active
  <2>2. ASSUME NEW p \in Ops, lock = <<InitOp, p>>, p # InitOp, pc[p] = "down_wait",
               \A q \in Ops : Active(q) <=> q \in {InitOp, p}
        PROVE  Queue'
    <3>1. o = InitOp
      BY <1>1, <2>2 DEF Active
    <3>2. lock' = <<p>>
      BY <1>1, <2>2, LockFacts
    <3> QED
      BY <1>1, <2>2, <3>1, <3>2 DEF Queue, Active
  <2> QED
    BY <1>0, <1>1, <2>1, <2>2 DEF Queue, Active
<1>3. TypeOK'
  <2>1. pc' = [pc EXCEPT ![o] = "idle"]
    BY DEF UpEnd
  <2>2. pc' \in [Ops -> Phases]
    BY <1>0, <2>1 DEF TypeOK, Phases
  <2>3. lock' \in Seq(Ops)
    <3>1. lock \in Seq(Ops) /\ lock # <<>>
      BY <1>0, <1>1, LockFacts DEF TypeOK, Queue, Active
    <3> QED
      BY <1>1, <3>1
  <2> QED
    BY <1>0, <1>1, <2>2, <2>3 DEF TypeOK
<1>4. PhaseOfKind' /\ Owned' /\ NoReentry'
  BY <1>0, <1>1 DEF PhaseOfKind, Owned, NoReentry, Active, Running
<1>5. \A p \in Ops, n \in Names : /\ Rises(p, n)' <=> Rises(p, n)
                                  /\ Sinks(p, n)' <=> Sinks(p, n)
                                  /\ Rises(p, n) \/ Sinks(p, n) => pc'[p] = pc[p]
  BY <1>1 DEF Rises, Sinks, NoObjs
<1>6. KeptInv'
  <2>1. \A n \in Names : ups[o][n] = None
    BY <1>1 DEF NoObjs
  <2> QED
    BY <1>0, <1>1, <1>5, <2>1 DEF KeptInv
<1>7. ConfigInv'
  <2>1. \A n \in Names : Matches(n)' <=> Matches(n)
    BY <1>1 DEF Matches
  <2> QED
    BY <1>0, <1>1, <2>1 DEF ConfigInv, Active
<1>8. ASSUME NEW n \in Names PROVE NameInv(n)'
  <2>1. NameInv(n)
    BY <1>0
  <2> QED
    BY <1>1, <1>5, <2>1 DEF NameInv, Steady
<1> QED
  BY <1>2, <1>3, <1>4, <1>6, <1>7, <1>8 DEF IInv

---------------------------------------------------------------------------
\* Every step keeps the invariant, unless a restart overlaps another operation.
LEMMA NextKeeps ==
  ASSUME Overlap = FALSE, IInv, [Next]_vars
  PROVE  IInv'
PROOF
<1>1. ASSUME NEW o \in Ops, Call(o) PROVE IInv'
  BY <1>1, CallReloadKeeps, CallRestartKeeps, CallExitKeeps DEF Call
<1>2. ASSUME NEW o \in Ops, Step(o) PROVE IInv'
  BY <1>2, DownBeginKeeps, DownOneKeeps, DownEndReloadKeeps, DownEndRestartKeeps,
     DownEndExitKeeps, UpBeginKeeps, UpOneKeeps, UpEndKeeps DEF Step
<1>3. CASE UNCHANGED vars
  BY <1>3 DEF vars, opVars, IInv, TypeOK, Queue, PhaseOfKind, KeptInv, Owned, ConfigInv, NoReentry,
     NameInv, Steady, Matches, Rises, Sinks, Active, Running
<1> QED
  BY <1>1, <1>2, <1>3, ServeKeeps DEF Next

\* Whatever reloads, restarts and exits happen, every table agrees with every
\* operation (host/tools/__init__.py).
THEOREM Invariance ==
  ASSUME Overlap = FALSE
  PROVE  Spec => []IInv
PROOF
<1> QED
  BY InitIInv, NextKeeps, PTL DEF Spec

\* A launch never enters a server that is entered, if no restart overlaps another
\* operation (ContextProtocol.__aenter__).
THEOREM NeverReentered ==
  ASSUME Overlap = FALSE
  PROVE  Spec => []NoReentry
PROOF
<1>1. IInv => NoReentry
  BY DEF IInv
<1> QED
  BY <1>1, Invariance, PTL

\* A server has one process at most, and no process runs that no table or operation
\* knows of (_launch_tools, _shutdown_tools).
THEOREM OneProcessEach ==
  ASSUME Overlap = FALSE
  PROVE  Spec => []OneProcess
PROOF
<1>1. ASSUME IInv PROVE OneProcess
  <2>1. /\ TypeOK /\ KeptInv /\ Owned /\ \A n \in Names : NameInv(n)
    BY <1>1 DEF IInv
  <2>2. ASSUME NEW n \in Names, NEW x \in Processes(n) PROVE x = servers[n]
    <3>1. PICK m \in Names : servers[m] = x
      BY <2>1, <2>2 DEF Processes, Owned
    <3>2. x \in Objs /\ x # None
      BY NoneAssumption, <2>2 DEF Processes
    <3>3. CASE task[n] = x
      BY <2>1, <3>2, <3>3 DEF NameInv, Steady
    <3>4. ASSUME NEW o \in Ops, ups[o][n] = x PROVE x = servers[n]
      <4>1. CASE Rises(o, n)
        BY <2>1, <3>4, <4>1 DEF NameInv
      <4>2. CASE ~Rises(o, n)
        BY <2>1, <3>1, <3>2, <3>4, <4>2 DEF KeptInv
      <4> QED
        BY <4>1, <4>2
    <3>5. ASSUME NEW o \in Ops, popped[o][n] = x PROVE x = servers[n]
      BY <2>1, <3>2, <3>5 DEF NameInv
    <3> QED
      BY <2>2, <3>3, <3>4, <3>5 DEF Processes
  <2>3. ASSUME NEW n \in Names PROVE Cardinality(Processes(n)) <= 1
    <3>1. Processes(n) = {} \/ Processes(n) = {servers[n]}
      BY <2>2, <2>3
    <3>2. Cardinality({}) = 0 /\ Cardinality({servers[n]}) = 1
      BY FS_EmptySet, FS_Singleton
    <3> QED
      BY <3>1, <3>2
  <2>4. ASSUME NEW x \in Objs, Running(x) PROVE \E n \in Names : x \in Processes(n)
    BY <2>1, <2>4 DEF Owned, Processes
  <2> QED
    BY <2>3, <2>4 DEF OneProcess
<1> QED
  BY <1>1, Invariance, PTL

\* When nothing is in progress the servers that run are the configured ones, and
\* after the exit none runs (reload, restart_mcp_server, _run_in_context).
THEOREM SettledAlways ==
  ASSUME Overlap = FALSE
  PROVE  Spec => []Settled
PROOF
<1>1. ASSUME IInv PROVE Settled
  <2> SUFFICES ASSUME \A o \in Ops : ~Active(o)
               PROVE  IF closed THEN \A x \in Objs : ~Running(x)
                      ELSE /\ task = servers
                           /\ \A n \in Names : IF configs[n] = None THEN servers[n] = None
                                               ELSE /\ servers[n] # None /\ st[servers[n]] = "up"
                                                    /\ ver[servers[n]] = configs[n]
                           /\ \A x \in Objs : Running(x) => x \in Range(servers)
    BY DEF Settled
  <2>1. /\ TypeOK /\ Owned /\ ConfigInv /\ \A n \in Names : NameInv(n)
    BY <1>1 DEF IInv
  <2>2. \A n \in Names : Steady(n)
    BY <2>1 DEF NameInv, Sinks, Rises, Active
  <2>3. ASSUME closed, NEW x \in Objs PROVE ~Running(x)
    BY <2>1, <2>3, NoneAssumption DEF ConfigInv, NoObjs, Owned
  <2>4. task = servers
    BY <2>1, <2>2 DEF Steady, TypeOK, Tables
  <2>5. ~closed => \A n \in Names : Matches(n)
    BY <2>1 DEF ConfigInv, Active
  <2>6. \A x \in Objs : Running(x) => x \in Range(servers)
    BY <2>1 DEF Owned, Range, TypeOK, Tables
  <2> QED
    BY <2>2, <2>3, <2>4, <2>5, <2>6 DEF Steady, Matches
<1> QED
  BY <1>1, Invariance, PTL

---------------------------------------------------------------------------
(* The list of tools.                                                      *)

\* The cache holds the list that was given last, unless it was damaged.
CacheTells == cacheFile = Invalid \/ cacheFile = answer.servers

LEMMA CacheStep ==
  ASSUME CacheTells, [AllNext]_<<served, vars, listVars, skillVars>>
  PROVE  CacheTells'
PROOF
<1>1. CASE UNCHANGED <<cacheFile, answer>>
  BY <1>1 DEF CacheTells
<1>2. ASSUME NEW l \in Lists, List!ListEnds(l) PROVE CacheTells'
  BY <1>2 DEF CacheTells, List!ListEnds, List!Kept
<1>3. CASE List!Restart
  BY <1>3 DEF CacheTells, List!Restart
<1>4. CASE List!ListNext
  BY <1>1, <1>2, <1>3, <1>4
  DEF List!ListNext, List!Configure, List!Remove, List!Launch, List!Stop, List!ListBegins
<1> QED
  BY <1>1, <1>4 DEF AllNext, listVars

\* What a list shows of a server that does not run comes from the list before.
LEMMA ListedTrue ==
  ASSUME CacheTells, NEW l \in Lists, List!ListEnds(l)
  PROVE  List!ListTrue(answer, answer', cacheFile = Invalid)
PROOF
<1> DEFINE read == readAt[l]
           list == [n \in DOMAIN active \cup DOMAIN read |->
                      IF n \in DOMAIN active THEN List!Shown(n)
                      ELSE IF n \in DOMAIN List!Cached THEN List!Recalled(n, read)
                      ELSE List!Empty]
           stopped == {n \in DOMAIN list : ~list[n].enabled}
<1>1. answer' = [servers |-> list, read |-> read]
  BY DEF List!ListEnds
<1>2. ASSUME NEW n \in stopped
      PROVE  /\ n \notin DOMAIN active
             /\ \/ n \in DOMAIN List!Cached /\ list[n] = List!Recalled(n, read)
                \/ n \notin DOMAIN List!Cached /\ list[n] = List!Empty
  BY <1>2 DEF List!Shown
<1>3. DOMAIN list = DOMAIN active \cup DOMAIN read
  OBVIOUS
<1>4. answer'.servers = list /\ answer'.read = read
  BY <1>1
<1> HIDE DEF list
<1>5. ASSUME cacheFile # Invalid, NEW n \in stopped \cap DOMAIN answer.servers
      PROVE  list[n].tools = answer.servers[n].tools
  BY <1>2, <1>5 DEF CacheTells, List!Cached, List!Recalled
<1>6. ASSUME NEW n \in stopped \cap DOMAIN settings, settings[n] = read[n]
      PROVE  list[n].on = list[n].tools \ settings[n]
  BY <1>2, <1>6 DEF List!Recalled, List!Empty
<1> QED
  BY <1>2, <1>3, <1>4, <1>5, <1>6 DEF List!ListTrue

\* A list shows every server that runs or was configured when it was asked for, and of one
\* that does not run what the list before showed of it, for any servers, tools and lists
\* side by side (list_tools).
THEOREM ListsAreTrue == AllSpec => ListsTrue
PROOF
<1>1. CacheTells /\ [AllNext]_<<served, vars, listVars, skillVars>> =>
        [answer' # answer => List!ListTrue(answer, answer', cacheFile = Invalid)]_listVars
  BY ListedTrue
  DEF AllNext, listVars, List!ListNext, List!Configure, List!Remove, List!Launch, List!Stop, List!ListBegins,
      List!Restart
<1>2. AllInit => CacheTells
  BY DEF AllInit, List!ListInit, CacheTells
<1> QED
  BY <1>1, <1>2, CacheStep, PTL DEF AllSpec, ListsTrue, List!ListsTrue, List!listVars, listVars

---------------------------------------------------------------------------
(* The skills.                                                             *)

\* A set of numbers has a least one.
LEMMA LeastExists ==
  ASSUME NEW S \in SUBSET Nat, S # {}
  PROVE  \E i \in S : \A j \in S : i <= j
PROOF
<1> DEFINE R == {p \in Nat \X Nat : p[1] < p[2]}
<1>1. IsWellFoundedOn(R, Nat)
  BY NatLessThanWellFounded DEF OpToRel
<1>2. PICK i \in S : \A j \in S : ~(<<j, i>> \in R)
  BY <1>1, WFMin
<1>3. \A j \in S : j \in Nat /\ i \in Nat /\ ~(j < i)
  BY <1>2
<1> QED
  BY <1>2, <1>3

\* And a largest one, if it has an upper bound.
LEMMA LargestExists ==
  ASSUME NEW n \in Nat, NEW S \in SUBSET (1..n), S # {}
  PROVE  \E i \in S : \A j \in S : j <= i
PROOF
<1> DEFINE T == {n - i : i \in S}
<1>1. \A i \in S : i \in Nat /\ n - i \in Nat
  OBVIOUS
<1>2. T \in SUBSET Nat /\ T # {}
  BY <1>1
<1>3. PICK d \in T : \A e \in T : d <= e
  BY <1>2, LeastExists
<1>4. PICK i \in S : d = n - i
  BY <1>3
<1>5. ASSUME NEW j \in S PROVE j <= i
  <2>1. n - j \in T
    OBVIOUS
  <2>2. n - i <= n - j
    BY <1>3, <1>4, <2>1
  <2>3. i \in Nat /\ j \in Nat
    BY <1>1
  <2> HIDE DEF T
  <2> QED
    BY <2>2, <2>3
<1> QED
  BY <1>5

\* The place i holds a skill that can be read.
HoldsSkill(disk, i) == Sorted[i] \in DOMAIN disk /\ disk[Sorted[i]] # Broken
NameAt(disk, i) == disk[Sorted[i]].name

\* The names of the skills in the places s, and the last place of a name.
NamesIn(disk, s) == {NameAt(disk, i) : i \in {j \in s : HoldsSkill(disk, j)}}
LastIn(disk, s, n) ==
  {i \in s : /\ HoldsSkill(disk, i) /\ NameAt(disk, i) = n
             /\ \A j \in s : HoldsSkill(disk, j) /\ NameAt(disk, j) = n => j <= i}
AnyOf(S) == CHOOSE i \in S : TRUE
SkillAt(disk, i) == [dir |-> Sorted[i], body |-> disk[Sorted[i]].body]

\* What is found in the places s: of each name the skill in its last place.
Found(disk, s) ==
  IF NamesIn(disk, s) = {} THEN <<>>
  ELSE [n \in NamesIn(disk, s) |-> SkillAt(disk, AnyOf(LastIn(disk, s, n)))]

LEMMA FoundNames ==
  ASSUME NEW disk, NEW s
  PROVE  /\ DOMAIN Found(disk, s) = NamesIn(disk, s)
         /\ \A n \in NamesIn(disk, s) :
              Found(disk, s)[n] = SkillAt(disk, AnyOf(LastIn(disk, s, n)))
PROOF
<1>1. DOMAIN <<>> = {}
  OBVIOUS
<1> QED
  BY <1>1 DEF Found

LEMMA SortedPlaces == Sorted \in Seq(Range(Sorted)) /\ Len(Sorted) \in Nat /\ DOMAIN Sorted = 1..Len(Sorted)
PROOF
  BY SkillsAssumption, LenProperties

\* The last of the places adds its skill, or shadows the one of the same name.
LEMMA FoundStep ==
  ASSUME NEW disk, NEW s \in SUBSET (1..Len(Sorted)), NEW m \in s, \A j \in s : j <= m
  PROVE  Found(disk, s) = Skills!Shadow(Found(disk, s \ {m}), disk, Sorted[m])
PROOF
<1> DEFINE t == s \ {m}
           f == Found(disk, t)
<1>0. \A j \in s : j \in Nat
  BY SortedPlaces
<1>1. DOMAIN f = NamesIn(disk, t)
  BY FoundNames
<1>2. CASE ~HoldsSkill(disk, m)
  <2>1. NamesIn(disk, s) = NamesIn(disk, t)
    BY <1>2 DEF NamesIn
  <2>2. \A n : LastIn(disk, s, n) = LastIn(disk, t, n)
    BY <1>2 DEF LastIn
  <2>3. Found(disk, s) = f
    BY <2>1, <2>2 DEF Found
  <2> QED
    BY <1>2, <2>3 DEF Skills!Shadow, HoldsSkill
<1>3. CASE HoldsSkill(disk, m)
  <2> DEFINE k == NameAt(disk, m)
  <2>1. NamesIn(disk, s) = NamesIn(disk, t) \cup {k}
    BY <1>3 DEF NamesIn
  <2>2. LastIn(disk, s, k) = {m}
    <3>1. \A i \in LastIn(disk, s, k) : i = m
      BY <1>0, <1>3 DEF LastIn
    <3>2. m \in LastIn(disk, s, k)
      BY <1>3 DEF LastIn
    <3> QED
      BY <3>1, <3>2
  <2>3. ASSUME NEW n, n # k PROVE LastIn(disk, s, n) = LastIn(disk, t, n)
    BY <2>3 DEF LastIn
  <2>4. Skills!Shadow(f, disk, Sorted[m]) =
          [n \in DOMAIN f \cup {k} |-> IF n = k THEN SkillAt(disk, m) ELSE f[n]]
    BY <1>3 DEF Skills!Shadow, HoldsSkill, NameAt, SkillAt
  <2>5. Found(disk, s) =
          [n \in NamesIn(disk, s) |-> SkillAt(disk, AnyOf(LastIn(disk, s, n)))]
    BY <2>1 DEF Found
  <2>6. ASSUME NEW n \in NamesIn(disk, s)
        PROVE  SkillAt(disk, AnyOf(LastIn(disk, s, n)))
                 = IF n = k THEN SkillAt(disk, m) ELSE f[n]
    <3>1. CASE n = k
      <4>1. AnyOf({m}) = m
        BY DEF AnyOf
      <4> QED
        BY <2>2, <3>1, <4>1
    <3>2. CASE n # k
      BY <2>1, <2>3, <2>6, <3>2, FoundNames
    <3> QED
      BY <3>1, <3>2
  <2>8. f = Found(disk, s \ {m})
    OBVIOUS
  <2> HIDE DEF k, f
  <2>7. Found(disk, s) = [n \in NamesIn(disk, s) |-> IF n = k THEN SkillAt(disk, m) ELSE f[n]]
    BY <2>5, <2>6
  <2> QED
    BY <1>1, <2>1, <2>4, <2>7, <2>8
<1> QED
  BY <1>2, <1>3

\* refresh finds of each name the skill in the last directory that has it.
LEMMA LoadedIsFound ==
  ASSUME NEW disk
  PROVE  Skills!Loaded(disk) = Found(disk, DOMAIN Sorted)
PROOF
<1> DEFINE S == DOMAIN Sorted
           F == CHOOSE g : g = [s \in SUBSET S |->
                  IF s = {} THEN <<>>
                  ELSE Skills!Shadow(g[s \ {Skills!Max(s)}], disk, Sorted[Skills!Max(s)])]
           h == [s \in SUBSET S |-> Found(disk, s)]
<1>1. Skills!Loaded(disk) = F[S]
  BY DEF Skills!Loaded, Skills!FoldLeft, Skills!MapThenFoldSet
<1>2. ASSUME NEW s \in SUBSET S, s # {}
      PROVE  Skills!Max(s) \in s /\ \A j \in s : j <= Skills!Max(s)
  <2>1. \E i \in s : \A j \in s : j <= i
    BY <1>2, SortedPlaces, LargestExists
  <2>2. \E i \in s : \A j \in s : i >= j
    BY <2>1, SortedPlaces
  <2>3. Skills!Max(s) \in s /\ \A j \in s : Skills!Max(s) >= j
    BY <2>2 DEF Skills!Max
  <2> QED
    BY <2>3, SortedPlaces
<1>3. Found(disk, {}) = <<>>
  BY DEF Found, NamesIn
<1>4. ASSUME NEW s \in SUBSET S
      PROVE  h[s] = IF s = {} THEN <<>>
                    ELSE Skills!Shadow(h[s \ {Skills!Max(s)}], disk, Sorted[Skills!Max(s)])
  <2>1. CASE s = {}
    BY <1>3, <2>1
  <2>2. CASE s # {}
    <3>1. Found(disk, s) = Skills!Shadow(Found(disk, s \ {Skills!Max(s)}), disk, Sorted[Skills!Max(s)])
      BY <1>2, <2>2, SortedPlaces, FoundStep
    <3> QED
      BY <2>2, <3>1
  <2> QED
    BY <2>1, <2>2
<1>5. F = [s \in SUBSET S |-> IF s = {} THEN <<>>
                              ELSE Skills!Shadow(F[s \ {Skills!Max(s)}], disk, Sorted[Skills!Max(s)])]
  <2>1. h = [s \in SUBSET S |-> IF s = {} THEN <<>>
                                ELSE Skills!Shadow(h[s \ {Skills!Max(s)}], disk, Sorted[Skills!Max(s)])]
    BY <1>4
  <2> HIDE DEF h
  <2> QED
    BY <2>1
<1> HIDE DEF F, h
<1> DEFINE Bad == {k \in 0..Len(Sorted) : F[1..k] # Found(disk, 1..k)}
<1>6. ASSUME Bad # {} PROVE FALSE
  <2>1. Bad \in SUBSET Nat
    BY SortedPlaces
  <2>2. PICK k \in Bad : \A l \in Bad : k <= l
    <3> HIDE DEF Bad
    <3> QED
      BY <1>6, <2>1, LeastExists
  <2>3. k \in Nat /\ k \in 0..Len(Sorted) /\ 1..k \in SUBSET S /\ 1..0 = {}
    BY SortedPlaces
  <2>4. k # 0
    BY <1>3, <1>5, <2>3
  <2>5. k \in 1..k /\ (\A j \in 1..k : j <= k) /\ (1..k) \ {k} = 1..(k - 1) /\ 1..k # {}
    <3>1. k \in Nat /\ k >= 1
      BY <2>3, <2>4
    <3>2. k \in 1..k /\ \A j \in 1..k : j <= k
      BY <3>1
    <3>3. \A j : j \in (1..k) \ {k} <=> j \in 1..(k - 1)
      BY <3>1
    <3> QED
      BY <3>2, <3>3
  <2>6. Skills!Max(1..k) = k
    <3>1. Skills!Max(1..k) \in 1..k /\ k <= Skills!Max(1..k)
      BY <1>2, <2>3, <2>5
    <3> QED
      BY <2>3, <3>1
  <2>7. F[1..(k - 1)] = Found(disk, 1..(k - 1))
    <3>1. k - 1 \in 0..Len(Sorted) /\ ~(k <= k - 1)
      BY <2>3, <2>4, SortedPlaces
    <3>2. k - 1 \notin Bad
      <4> HIDE DEF Bad
      <4> QED
        BY <2>2, <3>1
    <3> QED
      BY <3>1, <3>2
  <2>8. F[1..k] = Skills!Shadow(F[1..(k - 1)], disk, Sorted[k])
    BY <1>5, <2>3, <2>5, <2>6
  <2>9. Found(disk, 1..k) = Skills!Shadow(Found(disk, 1..(k - 1)), disk, Sorted[k])
    BY <2>3, <2>5, SortedPlaces, FoundStep
  <2> QED
    BY <2>2, <2>7, <2>8, <2>9
<1> QED
  BY <1>1, <1>6, SortedPlaces

\* AsReported, of what was reported.
Told(said, shown, changed) ==
  \A d \in Skills!Dirs \ changed : said[d] # Unknown =>
    /\ \A n \in DOMAIN shown : shown[n].dir = d => said[d] = [name |-> n, body |-> shown[n].body]
    /\ said[d] \notin {Broken, Gone} =>
         LET n == said[d].name
         IN n \in DOMAIN shown /\ (shown[n].dir = d \/ Skills!Before(d, shown[n].dir))

\* What was reported of a directory, and is known, is so.
DiskTells(disk, said) ==
  /\ \A d \in DOMAIN disk : d \in Skills!Dirs /\ disk[d] \in Skills!Contents
  /\ \A d \in Skills!Dirs : said[d] # Unknown =>
       IF d \in DOMAIN disk THEN said[d] = disk[d] ELSE said[d] = Gone

Bodied(shown) == \A n \in DOMAIN shown : shown[n].body \in Bodies

\* What is loaded from the disk tells what was reported.
LEMMA LoadedTells ==
  ASSUME NEW disk, NEW said, DiskTells(disk, said)
  PROVE  Told(said, Skills!Loaded(disk), {}) /\ Bodied(Skills!Loaded(disk))
PROOF
<1> DEFINE S == DOMAIN Sorted
           shown == Found(disk, S)
<1>0. S = 1..Len(Sorted) /\ Len(Sorted) \in Nat /\ Skills!Dirs = {Sorted[i] : i \in S}
  BY SortedPlaces DEF Skills!Dirs, Skills!Range
<1>1. ASSUME NEW i \in S, HoldsSkill(disk, i)
      PROVE  /\ disk[Sorted[i]] = [name |-> NameAt(disk, i), body |-> disk[Sorted[i]].body]
             /\ disk[Sorted[i]].body \in Bodies /\ NameAt(disk, i) \in NamesIn(disk, S)
  <2>1. disk[Sorted[i]] \in [name : Skills!Dirs, body : Bodies]
    BY <1>1 DEF DiskTells, HoldsSkill, Skills!Contents
  <2> QED
    BY <1>1, <2>1 DEF NameAt, NamesIn
<1>2. ASSUME NEW n \in NamesIn(disk, S)
      PROVE  \E i \in S : /\ HoldsSkill(disk, i) /\ NameAt(disk, i) = n /\ shown[n] = SkillAt(disk, i)
                          /\ \A j \in S : HoldsSkill(disk, j) /\ NameAt(disk, j) = n => j <= i
  <2> DEFINE at == {i \in S : HoldsSkill(disk, i) /\ NameAt(disk, i) = n}
  <2>1. at # {} /\ at \in SUBSET (1..Len(Sorted))
    BY <1>0, <1>2 DEF NamesIn
  <2>2. \E i \in at : \A j \in at : j <= i
    <3> HIDE DEF at
    <3> QED
      BY <1>0, <2>1, LargestExists
  <2>3. LastIn(disk, S, n) # {}
    BY <2>2 DEF LastIn
  <2>4. AnyOf(LastIn(disk, S, n)) \in LastIn(disk, S, n)
    BY <2>3 DEF AnyOf
  <2>5. shown[n] = SkillAt(disk, AnyOf(LastIn(disk, S, n)))
    BY <1>2, FoundNames
  <2> QED
    BY <2>4, <2>5 DEF LastIn
<1>3. DOMAIN shown = NamesIn(disk, S)
  BY FoundNames
<1> HIDE DEF shown
<1>4. ASSUME NEW n \in DOMAIN shown
      PROVE  /\ shown[n].body \in Bodies
             /\ disk[shown[n].dir] = [name |-> n, body |-> shown[n].body] /\ shown[n].dir \in DOMAIN disk
  <2>1. PICK i \in S : HoldsSkill(disk, i) /\ NameAt(disk, i) = n /\ shown[n] = SkillAt(disk, i)
    BY <1>2, <1>3
  <2>2. shown[n].dir = Sorted[i] /\ shown[n].body = disk[Sorted[i]].body
    BY <2>1 DEF SkillAt
  <2> QED
    BY <1>1, <2>1, <2>2 DEF HoldsSkill
<1>5. ASSUME NEW d \in Skills!Dirs, said[d] # Unknown, said[d] \notin {Broken, Gone}
      PROVE  LET n == said[d].name
             IN n \in DOMAIN shown /\ (shown[n].dir = d \/ Skills!Before(d, shown[n].dir))
  <2>1. PICK j \in S : Sorted[j] = d
    BY <1>0
  <2>2. d \in DOMAIN disk /\ said[d] = disk[d]
    BY <1>5 DEF DiskTells
  <2>3. HoldsSkill(disk, j) /\ NameAt(disk, j) = said[d].name
    BY <1>5, <2>1, <2>2 DEF HoldsSkill, NameAt
  <2> DEFINE n == said[d].name
  <2> HIDE DEF n
  <2>4. n \in NamesIn(disk, S) /\ NameAt(disk, j) = n
    BY <1>1, <2>3 DEF n
  <2>5. PICK i \in S : /\ shown[n] = SkillAt(disk, i)
                       /\ \A k \in S : HoldsSkill(disk, k) /\ NameAt(disk, k) = n => k <= i
    BY <1>2, <2>4
  <2>6. j <= i /\ shown[n].dir = Sorted[i]
    BY <2>3, <2>4, <2>5 DEF SkillAt
  <2>7. j = i \/ j < i
    BY <1>0, <2>6
  <2>8. shown[n].dir = d \/ Skills!Before(d, shown[n].dir)
    BY <2>1, <2>6, <2>7 DEF Skills!Before
  <2> QED
    BY <1>3, <2>4, <2>8 DEF n
<1>6. ASSUME NEW d \in Skills!Dirs, said[d] # Unknown, NEW n \in DOMAIN shown, shown[n].dir = d
      PROVE  said[d] = [name |-> n, body |-> shown[n].body]
  BY <1>4, <1>6 DEF DiskTells
<1>7. Told(said, shown, {}) /\ Bodied(shown)
  BY <1>4, <1>5, <1>6 DEF Told, Bodied
<1> QED
  BY <1>7, LoadedIsFound DEF shown

\* What is told goes on to be so: another directory has changed, or more are left open.
LEMMA StillTold ==
  ASSUME NEW said, NEW now, NEW shown, NEW before, NEW after, Told(said, shown, before),
         before \subseteq after, \A d \in Skills!Dirs \ after : now[d] = said[d]
  PROVE  Told(now, shown, after)
PROOF
  BY DEF Told

SkillInv ==
  /\ phase \in [Reqs -> {"new", "made", "open", "done"}]
  /\ DOMAIN cached = Reqs /\ DOMAIN offered = Reqs /\ DOMAIN behind = Reqs /\ DOMAIN aged = Reqs
  /\ DOMAIN reported = Skills!Dirs
  /\ DiskTells(folder, reported)
  /\ \A r \in Reqs :
       /\ phase[r] \in {"made", "open"} => Told(reported, cached[r], behind[r]) /\ Bodied(cached[r])
       /\ phase[r] = "open" => Told(reported, offered[r], aged[r]) /\ Bodied(offered[r])

LEMMA ChangeTells ==
  ASSUME SkillInv, NEW r \in Reqs, NEW d \in Skills!Dirs, NEW now \in Skills!Contents \cup {Gone}, NEW tells,
         Skills!Change(r, d, now, tells), tells = now \/ tells = Unknown
  PROVE  /\ DiskTells(folder', reported') /\ DOMAIN reported' = Skills!Dirs
         /\ \A e \in Skills!Dirs \ {d} : reported'[e] = reported[e]
PROOF
<1>1. /\ folder' = IF now = Gone THEN [e \in DOMAIN folder \ {d} |-> folder[e]]
                   ELSE [e \in DOMAIN folder \cup {d} |-> IF e = d THEN now ELSE folder[e]]
      /\ reported' = [reported EXCEPT ![d] = tells]
  BY DEF Skills!Change
<1>2. /\ DOMAIN reported' = Skills!Dirs /\ reported'[d] = tells
      /\ \A e \in Skills!Dirs \ {d} : reported'[e] = reported[e]
  BY <1>1 DEF SkillInv
<1>3. CASE now = Gone
  <2>1. folder' = [e \in DOMAIN folder \ {d} |-> folder[e]]
    BY <1>1, <1>3
  <2> QED
    BY <1>2, <1>3, <2>1 DEF SkillInv, DiskTells
<1>4. CASE now # Gone
  <2>1. folder' = [e \in DOMAIN folder \cup {d} |-> IF e = d THEN now ELSE folder[e]]
    BY <1>1, <1>4
  <2>2. now \in Skills!Contents
    BY <1>4
  <2> QED
    BY <1>2, <2>1, <2>2 DEF SkillInv, DiskTells
<1> QED
  BY <1>2, <1>3, <1>4

\* A directory changes: what r knows of it is refreshed, or is open for all.
LEMMA ChangeKeeps ==
  ASSUME SkillInv, NEW r \in Reqs, NEW d \in Skills!Dirs, NEW now \in Skills!Contents \cup {Gone}, NEW tells,
         Skills!Change(r, d, now, tells), tells = now \/ tells = Unknown,
         Skills!Refreshed(r, d) \/ Skills!NotRefreshed(d)
  PROVE  SkillInv'
PROOF
<1>1. /\ DiskTells(folder', reported') /\ DOMAIN reported' = Skills!Dirs
      /\ \A e \in Skills!Dirs \ {d} : reported'[e] = reported[e]
  BY ChangeTells
<1>2. /\ UNCHANGED <<phase, offered>>
      /\ aged' = [q \in Reqs |-> IF q \in Skills!Alive THEN aged[q] \cup {d} ELSE {}]
  BY DEF Skills!Change
<1>3. /\ DOMAIN cached' = Reqs /\ DOMAIN behind' = Reqs
      /\ \A q \in Reqs : \/ cached'[q] = cached[q] /\ (q \in Skills!Alive => behind'[q] = behind[q] \cup {d})
                         \/ cached'[q] = Skills!Loaded(folder')
  BY DEF Skills!Refreshed, Skills!NotRefreshed, SkillInv
<1>4. Told(reported', Skills!Loaded(folder'), {}) /\ Bodied(Skills!Loaded(folder'))
  BY <1>1, LoadedTells
<1>5. ASSUME NEW q \in Reqs, phase'[q] \in {"made", "open"}
      PROVE  Told(reported', cached'[q], behind'[q]) /\ Bodied(cached'[q])
  <2>1. q \in Skills!Alive /\ Told(reported, cached[q], behind[q]) /\ Bodied(cached[q])
    BY <1>2, <1>5 DEF SkillInv, Skills!Alive
  <2>2. CASE cached'[q] = Skills!Loaded(folder')
    <3>1. Told(reported', cached'[q], behind'[q])
      BY <1>4, <2>2, StillTold
    <3> QED
      BY <1>4, <2>2, <3>1
  <2>3. CASE cached'[q] = cached[q] /\ behind'[q] = behind[q] \cup {d}
    <3>1. Told(reported', cached'[q], behind'[q])
      BY <1>1, <2>1, <2>3, StillTold
    <3> QED
      BY <2>1, <2>3, <3>1
  <2> QED
    BY <1>3, <2>1, <2>2, <2>3
<1>6. ASSUME NEW q \in Reqs, phase'[q] = "open"
      PROVE  Told(reported', offered'[q], aged'[q]) /\ Bodied(offered'[q])
  <2>1. q \in Skills!Alive /\ Told(reported, offered[q], aged[q]) /\ Bodied(offered[q])
    BY <1>2, <1>6 DEF SkillInv, Skills!Alive
  <2>2. offered'[q] = offered[q] /\ aged'[q] = aged[q] \cup {d}
    BY <1>2, <2>1
  <2>3. Told(reported', offered'[q], aged'[q])
    BY <1>1, <2>1, <2>2, StillTold
  <2> QED
    BY <2>1, <2>2, <2>3
<1>7. /\ phase' \in [Reqs -> {"new", "made", "open", "done"}]
      /\ DOMAIN offered' = Reqs /\ DOMAIN aged' = Reqs
  BY <1>2 DEF SkillInv
<1> QED
  BY <1>1, <1>3, <1>5, <1>6, <1>7 DEF SkillInv

LEMMA SkillStep ==
  ASSUME SkillInv, Skills!SkillNext
  PROVE  SkillInv'
PROOF
<1> PICK r \in Reqs :
      \/ Skills!MakeManager(r) \/ Skills!GetTools(r) \/ Skills!EndRequest(r)
      \/ \E d \in Skills!Dirs :
           \/ \E content \in Skills!Contents, overwrite \in BOOLEAN : Skills!Install(r, d, content, overwrite)
           \/ \E body \in Bodies, overwrite \in BOOLEAN : Skills!Create(r, d, body, overwrite)
           \/ Skills!InstallItself(r, d) \/ Skills!Uninstall(r, d)
           \/ \E content \in Skills!Contents : Skills!WriteFails(r, d, content)
  BY DEF Skills!SkillNext
<1>1. CASE Skills!MakeManager(r)
  <2>1. Told(reported, Skills!Loaded(folder), {}) /\ Bodied(Skills!Loaded(folder))
    BY LoadedTells DEF SkillInv
  <2>2. Told(reported, Skills!Loaded(folder), behind[r])
    BY <2>1, StillTold
  <2> QED
    BY <1>1, <2>1, <2>2 DEF Skills!MakeManager, SkillInv
<1>2. CASE Skills!GetTools(r)
  BY <1>2 DEF Skills!GetTools, SkillInv
<1>3. CASE Skills!EndRequest(r)
  BY <1>3 DEF Skills!EndRequest, SkillInv
<1>4. ASSUME NEW d \in Skills!Dirs, NEW content \in Skills!Contents, NEW overwrite,
             Skills!Install(r, d, content, overwrite)
      PROVE  SkillInv'
  BY <1>4, ChangeKeeps DEF Skills!Install
<1>5. ASSUME NEW d \in Skills!Dirs, NEW body \in Bodies, NEW overwrite, Skills!Create(r, d, body, overwrite)
      PROVE  SkillInv'
  <2>1. [name |-> d, body |-> body] \in Skills!Contents
    BY DEF Skills!Contents
  <2> QED
    BY <1>5, <2>1, ChangeKeeps DEF Skills!Create
<1>6. ASSUME NEW d \in Skills!Dirs, Skills!InstallItself(r, d) PROVE SkillInv'
  BY <1>6, ChangeKeeps DEF Skills!InstallItself
<1>7. ASSUME NEW d \in Skills!Dirs, Skills!Uninstall(r, d) PROVE SkillInv'
  BY <1>7, ChangeKeeps DEF Skills!Uninstall
<1>8. ASSUME NEW d \in Skills!Dirs, NEW content \in Skills!Contents, Skills!WriteFails(r, d, content)
      PROVE  SkillInv'
  <2>1. PICK left \in {content, Broken, Gone} \cup {folder[e] : e \in {d} \cap DOMAIN folder} :
          Skills!Change(r, d, left, Unknown) /\ Skills!NotRefreshed(d)
    BY <1>8 DEF Skills!WriteFails
  <2>2. left \in Skills!Contents \cup {Gone}
    BY <2>1 DEF SkillInv, DiskTells, Skills!Contents
  <2> QED
    BY <2>1, <2>2, ChangeKeeps
<1> QED
  BY <1>1, <1>2, <1>3, <1>4, <1>5, <1>6, <1>7, <1>8

\* What a request lists, searches and reads of skills, and the page of skills, is what was
\* reported of them, but for what changed since it looked, and no skill that is read is
\* longer than the limit: for any directories, requests, changes and failures
\* (SkillManager, the tools of skills).
THEOREM SkillsAreTrue == AllSpec => []SkillsTrue
PROOF
<1>1. AllInit => SkillInv
  <2>1. AllInit => /\ folder = <<>> /\ reported = [d \in Skills!Dirs |-> Gone]
                   /\ phase = [r \in Reqs |-> "new"] /\ cached = [r \in Reqs |-> <<>>]
                   /\ offered = [r \in Reqs |-> <<>>]
                   /\ behind = [r \in Reqs |-> {}] /\ aged = [r \in Reqs |-> {}]
    BY DEF AllInit, Skills!SkillInit
  <2>2. DOMAIN <<>> = {}
    OBVIOUS
  <2> QED
    BY <2>1, <2>2 DEF SkillInv, DiskTells
<1>2. SkillInv /\ [AllNext]_<<served, vars, listVars, skillVars>> => SkillInv'
  <2>1. CASE UNCHANGED skillVars
    BY <2>1 DEF SkillInv, skillVars
  <2> QED
    BY <2>1, SkillStep DEF AllNext
<1>3. ASSUME SkillInv PROVE SkillsTrue
  <2>1. ASSUME NEW shown, NEW changed, Told(reported, shown, changed)
        PROVE  Skills!AsReported(shown, changed)
    BY <2>1 DEF Told, Skills!AsReported
  <2>2. Skills!AsReported(Skills!Page, {})
    BY <1>3, <2>1, LoadedTells DEF Skills!Page, SkillInv
  <2>3. ASSUME NEW body \in Bodies
        PROVE  Skills!ReadLength(body) <= MAX_SKILL_CONTENT_LENGTH
    BY SkillsAssumption DEF Skills!ReadLength
  <2>4. ASSUME NEW r \in Skills!Alive
        PROVE  /\ Skills!AsReported(Skills!Listed(r), behind[r])
               /\ phase[r] = "open" => Skills!AsReported(Skills!Readable(r), aged[r]) /\ Bodied(offered[r])
    BY <1>3, <2>1 DEF SkillInv, Skills!Alive, Skills!Listed, Skills!Readable
  <2> QED
    BY <2>2, <2>3, <2>4 DEF SkillsTrue, Skills!SkillsTrue, Bodied, Skills!Readable
<1> QED
  BY <1>1, <1>2, <1>3, PTL DEF AllSpec
=============================================================================
