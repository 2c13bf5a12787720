------------------------------ MODULE CallGraph ------------------------------
(***************************************************************************)
(* What the tools tell of an extracted project, as functions of it.        *)
(*                                                                         *)
(* A PLC project is a sequence of blocks [name, kind, calls, tags] of      *)
(* different names; calls and tags are sets, and a block may call what is  *)
(* no block of the project.  An HMI project is a sequence of screens       *)
(* [name, links, tags].  Names are numbers, to be sorted by.  Lower maps a *)
(* name to its spelling in lower case.                                     *)
(***************************************************************************)
EXTENDS Integers, Sequences, FiniteSets, SequencesExt, FiniteSetsExt, TLC
CONSTANTS Lower, MaxNodes, Nobody

Sorted(S) == [i \in 1..Cardinality(S) |-> CHOOSE n \in S : Cardinality({m \in S : m < n}) = i - 1]
Of(map, name) == IF name \in DOMAIN map THEN map[name] ELSE <<>>
Names(items) == [i \in DOMAIN items |-> items[i].name]

\* build_call_tree: whom a block calls, and by whom it is called.
CallTree(blocks) ==
  [n \in Range(Names(blocks)) |-> Sorted((CHOOSE b \in Range(blocks) : b.name = n).calls)]
CalledBy(blocks) ==
  [n \in UNION {b.calls : b \in Range(blocks)} |->
     Sorted({b.name : b \in {c \in Range(blocks) : n \in c.calls}})]

\* The entry of a name, else the first of another spelling.
Spelled(names, name) ==
  LET alike == SelectSeq(names, LAMBDA n : Lower[n] = Lower[name])
  IN IF name \in Range(names) THEN name ELSE IF alike = <<>> THEN Nobody ELSE Head(alike)

---------------------------------------------------------------------------
\* `path`: breadth first over the callers, until a block that nobody calls begins the
\* path; <<>> if there is none.
RECURSIVE Climb(_, _, _)
Climb(calledBy, queue, visited) ==
  IF queue = <<>> THEN <<>>
  ELSE LET path == Head(queue)
           callers == Of(calledBy, Last(path))
           fresh == SelectSeq(callers, LAMBDA c : c \notin visited)
           longer == [i \in DOMAIN fresh |-> Append(path, fresh[i])]
       IN IF callers = <<>> THEN Reverse(path)
          ELSE Climb(calledBy, Tail(queue) \o longer, visited \cup Range(fresh))

Path(blocks, name) ==
  LET start == Spelled(Names(blocks), name)
  IN IF start = Nobody THEN <<>> ELSE Climb(CalledBy(blocks), <<<<start>>>>, {start})

\* `dead_code`: neither an entry point nor data, and called by nobody.
DeadCode(blocks) ==
  SelectSeq(blocks, LAMBDA b : b.kind \notin {"OB", "DB", "IDB"} /\ Of(CalledBy(blocks), b.name) = <<>>)

\* `orphans`: screens that no screen leads to.
Orphans(screens) ==
  SelectSeq(screens, LAMBDA s : s.name \notin UNION {t.links : t \in Range(screens)})

---------------------------------------------------------------------------
\* `mermaid`: breadth first from the starts, no further once there are MaxNodes nodes.
RECURSIVE Draw(_, _, _, _)
Draw(tree, queue, nodes, edges) ==
  IF queue = <<>> \/ Cardinality(nodes) >= MaxNodes
  THEN [nodes |-> nodes, edges |-> {e \in edges : e[1] \in nodes /\ e[2] \in nodes}]
  ELSE LET node == Head(queue)
           next == Of(tree, node)
           met == SelectSeq(next, LAMBDA n : n \notin nodes)
           room == SubSeq(met, 1, Min({Len(met), MaxNodes - Cardinality(nodes)}))
       IN Draw(tree, Tail(queue) \o room, nodes \cup Range(room),
               edges \cup {<<node, n>> : n \in Range(next)})

\* From one block, or the entry points, or the first blocks.
CallStarts(blocks, root) ==
  LET obs == SelectSeq(blocks, LAMBDA b : b.kind = "OB")
  IN IF root # Nobody THEN <<root>>
     ELSE Names(IF obs # <<>> THEN obs ELSE SubSeq(blocks, 1, Min({5, Len(blocks)})))

CallChart(blocks, root) ==
  LET starts == CallStarts(blocks, root)
  IN Draw(CallTree(blocks), starts, Range(starts), {})

\* navigation_map has the screens that lead somewhere.
Navigation(screens) ==
  LET linked == {s \in Range(screens) : s.links # {}}
  IN [n \in {s.name : s \in linked} |-> Sorted((CHOOSE s \in linked : s.name = n).links)]

ScreenStarts(screens, root) ==
  LET sources == Sorted(DOMAIN Navigation(screens))
  IN IF root # Nobody THEN <<root>>
     ELSE IF sources # <<>> THEN sources
     ELSE Names(SubSeq(screens, 1, Min({5, Len(screens)})))

ScreenChart(screens, root) ==
  LET starts == ScreenStarts(screens, root)
  IN Draw(Navigation(screens), starts, Range(starts), {})

---------------------------------------------------------------------------
\* `cycles`: the strongly connected components after Tarjan.  A node on the way has
\* a number, the lowest number it leads back to, and its next successor to look at.
Begun == [index |-> <<>>, low |-> <<>>, stack |-> <<>>, work |-> <<>>, found |-> {}]

Enter(s, node) ==
  LET n == node :> Cardinality(DOMAIN s.index)
  IN [s EXCEPT !.index = @ @@ n, !.low = @ @@ n, !.stack = Append(@, node),
               !.work = Append(@, [node |-> node, next |-> 1])]

\* A node whose low is its number is the root of a component: all above it on the stack.
Leave(s, node) ==
  LET at == CHOOSE i \in DOMAIN s.stack : s.stack[i] = node
      root == s.low[node] = s.index[node]
      rest == Front(s.work)
  IN [s EXCEPT !.found = IF root THEN @ \cup {Range(SubSeq(s.stack, at, Len(s.stack)))} ELSE @,
               !.stack = IF root THEN SubSeq(@, 1, at - 1) ELSE @,
               !.work = rest,
               !.low = IF rest = <<>> THEN @
                       ELSE [@ EXCEPT ![Last(rest).node] = Min({@, s.low[node]})]]

\* Up to its next successor that has no number yet.
\* Mutant: what has left the stack lowers, too.
MutWalk(graph, s) ==
  LET top == Last(s.work)
      next == graph[top.node]
      new == {i \in top.next..Len(next) : next[i] \notin DOMAIN s.index}
      stop == IF new = {} THEN Len(next) + 1 ELSE Min(new)
      back == {next[i] : i \in top.next..stop - 1}
      t == [s EXCEPT !.low[top.node] = Min({@} \cup {s.index[n] : n \in back}),
                     !.work[Len(s.work)].next = stop + 1]
  IN IF new = {} THEN Leave(t, top.node) ELSE Enter(t, next[stop])
Walk(graph, s) ==
  LET top == Last(s.work)
      next == graph[top.node]
      new == {i \in top.next..Len(next) : next[i] \notin DOMAIN s.index}
      stop == IF new = {} THEN Len(next) + 1 ELSE Min(new)
      back == {next[i] : i \in top.next..stop - 1} \cap Range(s.stack)
      t == [s EXCEPT !.low[top.node] = Min({@} \cup {s.index[n] : n \in back}),
                     !.work[Len(s.work)].next = stop + 1]
  IN IF new = {} THEN Leave(t, top.node) ELSE Enter(t, next[stop])

RECURSIVE Components(_, _, _)
Components(graph, roots, s) ==
  CASE s.work # <<>> -> Components(graph, roots, Walk(graph, s))
    [] s.work = <<>> /\ roots = <<>> -> s.found
    [] s.work = <<>> /\ roots # <<>> ->
         Components(graph, Tail(roots), IF Head(roots) \in DOMAIN s.index THEN s ELSE Enter(s, Head(roots)))

\* Calls of what is no block of the project make no cycle.
CallCycles(blocks) ==
  LET tree == CallTree(blocks)
      graph == [n \in DOMAIN tree |-> SelectSeq(tree[n], LAMBDA c : c \in DOMAIN tree)]
  IN [groups |-> {c \in Components(graph, Names(blocks), Begun) : Cardinality(c) >= 2},
      loops |-> {n \in DOMAIN graph : n \in Range(graph[n])}]

---------------------------------------------------------------------------
\* tag_xref and plc_tag_index: where a tag is used, in the order of the blocks or screens.
UsedIn(items, tag) == Names(SelectSeq(items, LAMBDA i : tag \in i.tags))
TagXref(blocks) == [t \in UNION {b.tags : b \in Range(blocks)} |-> UsedIn(blocks, t)]
PlcTagIndex(screens) == [t \in UNION {s.tags : s \in Range(screens)} |-> UsedIn(screens, t)]

\* trace_tag finds a tag on either side in any spelling, coverage_gap compares as spelled.
Usage(index, tag) ==
  LET key == Spelled(Sorted(DOMAIN index), tag)
  IN IF key = Nobody THEN <<>> ELSE index[key]
Trace(blocks, screens, tag) ==
  [plc |-> Usage(TagXref(blocks), tag), hmi |-> Usage(PlcTagIndex(screens), tag)]
Gap(blocks, screens) ==
  LET plc == DOMAIN TagXref(blocks)
      hmi == DOMAIN PlcTagIndex(screens)
  IN [bound |-> plc \cap hmi, plcOnly |-> plc \ hmi, hmiOnly |-> hmi \ plc]

---------------------------------------------------------------------------
\* What a relation leads to from a set in at most n steps.
Within(edges, S, n) ==
  FoldLeft(LAMBDA W, i : W \cup {e[2] : e \in {d \in edges : d[1] \in W}}, S, [i \in 1..n |-> i])
Calls(blocks) == UNION {{<<b.name, c>> : c \in b.calls} : b \in Range(blocks)}
Links(screens) == UNION {{<<s.name, t>> : t \in s.links} : s \in Range(screens)}
Far(edges, S) == Within(edges, S, Cardinality({e[2] : e \in edges}))

\* The groups are the sets of blocks that call each other, however indirectly
\* (_tarjan_scc, _find_call_cycles).
CyclesTold(blocks) ==
  LET names == Range(Names(blocks))
      known == Calls(blocks) \cap (names \X names)
      Mutual(n) == {m \in Far(known, {n}) : n \in Far(known, {m})}
  IN CallCycles(blocks).groups = {g \in {Mutual(n) : n \in names} : Cardinality(g) >= 2}

\* The path to a block is a chain of calls from a block that nobody calls, there is none
\* only if no such block leads to it, and none is shorter; code is dead if it is its own
\* path and no entry point (format_plc_query).
PathTold(blocks) ==
  LET names == Range(Names(blocks))
      calls == Calls(blocks)
      callers == {<<e[2], e[1]>> : e \in calls}
      entries == {n \in names : \A e \in calls : e[2] # n}
  IN \A n \in names :
       LET path == Path(blocks, n)
           near == {k \in 0..Cardinality(names) : Within(callers, {n}, k) \cap entries # {}}
       IN /\ Len(path) = (IF near = {} THEN 0 ELSE Min(near) + 1)
          /\ path # <<>> => path[1] \in entries /\ Last(path) = n
          /\ \A i \in 1..Len(path) - 1 : <<path[i], path[i + 1]>> \in calls
          /\ (\E b \in Range(DeadCode(blocks)) : b.name = n) => path = <<n>>

\* A chart of fewer than MaxNodes nodes has all that the starts lead to and every edge
\* of it; a larger one has nothing else (_mermaid_call_graph, _mermaid_navigation).
Charted(chart, starts, edges) ==
  LET all == Far(edges, Range(starts))
  IN /\ chart.nodes \subseteq all
     /\ Cardinality(chart.nodes) <= MaxNodes \/ chart.nodes = Range(starts)
     /\ chart.edges \subseteq {e \in edges : e[1] \in chart.nodes /\ e[2] \in chart.nodes}
     /\ Cardinality(all) < MaxNodes =>
          chart.nodes = all /\ chart.edges = {e \in edges : e[1] \in all}

ChartsTold(blocks) ==
  \A root \in Range(Names(blocks)) \cup {Nobody} :
    Charted(CallChart(blocks, root), CallStarts(blocks, root), Calls(blocks))

\* Screens lead through all they link to, and an orphan is reached from no other.
ScreensTold(screens) ==
  /\ \A root \in Range(Names(screens)) \cup {Nobody} :
       Charted(ScreenChart(screens, root), ScreenStarts(screens, root), Links(screens))
  /\ \A s \in Range(Orphans(screens)) : \A t \in Range(Names(screens)) \ {s.name} :
       s.name \notin Far(Links(screens), {t})

Alike(S, T) == S \subseteq T /\ (S = {} <=> T = {})

\* A tag that the gap tells of is traced on the sides it names, and on the other if it
\* has another spelling there (format_coverage_gap, format_tag_trace).
TagsTold(blocks, screens) ==
  LET gap == Gap(blocks, screens)
      tags == gap.bound \cup gap.plcOnly \cup gap.hmiOnly
      Used(t, items) == {i.name : i \in {j \in Range(items) : t \in j.tags}}
      Respelled(t, items) ==
        UNION {Used(o, items) : o \in {p \in tags \ {t} : Lower[p] = Lower[t]}}
  IN \A t \in tags :
       LET trace == Trace(blocks, screens, t)
       IN /\ t \in gap.bound \cup gap.plcOnly => Range(trace.plc) = Used(t, blocks)
          /\ t \in gap.bound \cup gap.hmiOnly => Range(trace.hmi) = Used(t, screens)
          /\ t \in gap.plcOnly => Used(t, screens) = {} /\ Alike(Range(trace.hmi), Respelled(t, screens))
          /\ t \in gap.hmiOnly => Used(t, blocks) = {} /\ Alike(Range(trace.plc), Respelled(t, blocks))
=============================================================================
