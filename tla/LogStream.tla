------------------------------ MODULE LogStream ------------------------------
(***************************************************************************)
(* The logs of MCP servers and the streams of POST /tools/logs/stream:     *)
(* LogBuffer and LogManager of host/tools/log.py, LogStreamHandler and     *)
(* EventStreamContextManager of httpd/routers/utils.py.                    *)
(*                                                                         *)
(* A push starts one task for each listener of the buffer.  No listener    *)
(* suspends: a stream puts into a queue without a limit, a file writes.    *)
(* So the tasks run in the order in which they were created, a task is     *)
(* started before a cancellation of its pusher is, and the replay of the   *)
(* buffer to a new listener is one step with its addition.                 *)
(*                                                                         *)
(* A buffer belongs to a server object.  A restart registers the same      *)
(* buffer again, a changed configuration makes a server with another one.  *)
(***************************************************************************)
EXTENDS Integers, Sequences, FiniteSets, SequencesExt

CONSTANTS
  Names,       \* names of servers
  Buffers,
  NameOf,      \* the name of the server of a buffer
  Streams,     \* requests of the route
  Reports,     \* states that servers enter while they run
  Untils,      \* states a request may wait for, besides the two final ones
  NoBuffer,    \* where a chunk comes from that is no log
  File,        \* the listener that writes the log file
  Size,        \* LogBuffer._size
  MaxRetries,  \* max_retries of the requests
  MaxLogs,     \* bound: pushes to each buffer while its server runs
  MaxEnters    \* bound: times each buffer is registered

ASSUME NameAssumption == NameOf \in [Buffers -> Names] /\ IsFiniteSet(Buffers)
ASSUME FileAssumption == File \notin Streams /\ NoBuffer \notin Buffers
ASSUME SizeAssumption == {Size, MaxRetries} \subseteq Nat /\ Size > 0
ASSUME BoundsAssumption == {MaxLogs, MaxEnters} \subseteq [Buffers -> Nat]

VARIABLES
  logs,      \* history: the state in each log ever pushed to a buffer
  ears,      \* LogBuffer._listeners
  phase,     \* the server of a buffer: "out", "up", "leaving"
  enters,
  calls,     \* tasks of listeners that have not run
  handlers,  \* handlers of the logger of a name
  file,      \* how often a log stands in the file of its server
  st,        \* LogStreamHandler, its task and the response
  queue,     \* EventStreamContextManager.queue
  got        \* what the client has received

vars == <<logs, ears, phase, enters, calls, handlers, file, st, queue, got>>
server == <<logs, phase, enters, handlers>>

States == {"INIT", "RUNNING", "CLOSED", "RESTARTING", "FAILED", "UNAUTHORIZED"}
ASSUME UntilsAssumption == Untils \subseteq States

\* One push more for each time its server leaves.
AllLogs(b) == 1..(MaxLogs[b] + MaxEnters[b])
Message == [buf : Buffers, n : Nat]
Error == [buf |-> NoBuffer, n |-> 0]
End == [buf |-> NoBuffer, n |-> 1]
Handler == [pc : {"idle", "try", "listen", "sleep", "over"}, names : SUBSET Names,
            until : SUBSET States, stop : BOOLEAN, retries : 0..MaxRetries, reached : SUBSET Names,
            ended : BOOLEAN, gen : {"none", "open", "over", "gone"}]

\* The registered buffer of a name; two never are registered at a time.
Registered(name) == {b \in Buffers : NameOf[b] = name /\ phase[b] # "out"}
State(b) == IF logs[b] = <<>> THEN "INIT" ELSE Last(logs[b])

\* push_log: the buffer keeps the last Size logs, so many of the oldest are gone.
Gone(b) == IF Len(logs[b]) > Size THEN Len(logs[b]) - Size ELSE 0
Held(b) == (Gone(b) + 1)..Len(logs[b])

\* Mutant: the newest is dropped instead of the oldest.
MutReplay(b) == [i \in 1..(Len(logs[b]) - Gone(b)) |-> [buf |-> b, n |-> i]]
Replay(b) == [i \in 1..(Len(logs[b]) - Gone(b)) |-> [buf |-> b, n |-> Gone(b) + i]]

Idle == [pc |-> "idle", names |-> {}, until |-> {}, stop |-> FALSE, retries |-> MaxRetries,
         reached |-> {}, ended |-> FALSE, gen |-> "none"]

Init ==
  /\ logs = [b \in Buffers |-> <<>>] /\ ears = [b \in Buffers |-> <<>>]
  /\ phase = [b \in Buffers |-> "out"] /\ enters = [b \in Buffers |-> 0]
  /\ calls = <<>>
  /\ handlers = [m \in Names |-> 0] /\ file = [b \in Buffers |-> [n \in AllLogs(b) |-> 0]]
  /\ st = [s \in Streams |-> Idle]
  /\ queue = [s \in Streams |-> <<>>] /\ got = [s \in Streams |-> <<>>]

---------------------------------------------------------------------------
(* Servers and their buffers.                                             *)

\* register_buffer: the file gets what the buffer holds, once for each handler
\* of the logger, which are as many as buffers of the name were registered.
Register(b) ==
  /\ phase[b] = "out" /\ enters[b] < MaxEnters[b] /\ Registered(NameOf[b]) = {}
  /\ phase' = [phase EXCEPT ![b] = "up"] /\ enters' = [enters EXCEPT ![b] = @ + 1]
  /\ handlers' = [handlers EXCEPT ![NameOf[b]] = @ + 1]
  /\ file' = [file EXCEPT ![b] = [n \in AllLogs(b) |-> IF n \in Held(b) THEN @[n] + handlers'[NameOf[b]] ELSE @[n]]]
  /\ ears' = [ears EXCEPT ![b] = Append(@, File)]
  /\ UNCHANGED <<logs, calls, st, queue, got>>

CallsOf(b, n) == [i \in 1..Len(ears[b]) |-> [to |-> ears[b][i], log |-> [buf |-> b, n |-> n]]]

\* push_log
Push(b, state) ==
  /\ logs' = [logs EXCEPT ![b] = Append(@, state)]
  /\ calls' = calls \o CallsOf(b, Len(logs[b]) + 1)

\* __change_state; StdioServer and LocalHttpServer say when.
Change(b) == \E new \in Reports :
  /\ phase[b] # "out" /\ Len(logs[b]) < MaxLogs[b]
  /\ \/ new \in {"RUNNING", "UNAUTHORIZED"}
     \/ new = "RESTARTING" /\ State(b) = "RUNNING"
     \/ new = "FAILED" /\ State(b) # "CLOSED"
  /\ Push(b, new)
  /\ UNCHANGED <<ears, phase, enters, handlers, file, st, queue, got>>

\* push_stderr, push_stdout, push_session_error
Write(b) ==
  /\ phase[b] # "out" /\ Len(logs[b]) < MaxLogs[b]
  /\ Push(b, State(b))
  /\ UNCHANGED <<ears, phase, enters, handlers, file, st, queue, got>>

\* The server begins to leave its context; only INIT and RUNNING become CLOSED.
\* Its sessions and tasks end after that.
Leave(b) ==
  /\ phase[b] = "up"
  /\ phase' = [phase EXCEPT ![b] = "leaving"]
  /\ IF State(b) \in {"INIT", "RUNNING"} THEN Push(b, "CLOSED") ELSE UNCHANGED <<logs, calls>>
  /\ UNCHANGED <<ears, enters, handlers, file, st, queue, got>>

\* register_buffer is left; the pushes were awaited.
Unregister(b) ==
  /\ phase[b] = "leaving" /\ \A i \in 1..Len(calls) : calls[i].log.buf # b
  /\ phase' = [phase EXCEPT ![b] = "out"]
  /\ ears' = [ears EXCEPT ![b] = RemoveFirst(@, File)]
  /\ UNCHANGED <<logs, enters, calls, handlers, file, st, queue, got>>

---------------------------------------------------------------------------
(* Streams.                                                               *)

\* stream_server_logs: the response and the task are made.
Post(s) == \E names \in SUBSET Names, until \in Untils, stop \in BOOLEAN, tries \in {0, MaxRetries} :
  /\ st[s].pc = "idle"
  /\ st' = [st EXCEPT ![s] = [pc |-> "try", names |-> names, until |-> {until, "CLOSED", "FAILED"}, stop |-> stop,
                               retries |-> tries, reached |-> {}, ended |-> FALSE, gen |-> "open"]]
  /\ UNCHANGED <<server, ears, calls, file, queue, got>>

\* _log_listener, for some messages one after the other.
Reached(s, msgs) == {NameOf[m.buf] : m \in {x \in Range(msgs) : logs[x.buf][x.n] \in st[s].until}}

AllReached(s, names) == st[s].names = names

Ending(s, chunks) == queue[s] \o chunks \o <<End>>

\* listen_log finds all buffers: each is replayed, and the stream listens to it
\* unless that has ended it.
Listen(s) == \E order \in SetToSeqs(UNION {Registered(m) : m \in st[s].names}) :
  LET msgs  == FlattenSeq([i \in 1..Len(order) |-> Replay(order[i])])
      names == Reached(s, msgs)
      ended == AllReached(s, names)
  IN
  /\ st[s].pc = "try" /\ st[s].retries > 0
  /\ st[s].names # {} /\ \A m \in st[s].names : Registered(m) # {}
  /\ st' = [st EXCEPT ![s].pc = IF ended THEN "over" ELSE "listen", ![s].retries = @ - 1,
                      ![s].reached = names, ![s].ended = ended]
  /\ queue' = [queue EXCEPT ![s] = IF ended THEN Ending(s, msgs) ELSE @ \o msgs]
  /\ ears' = [b \in Buffers |-> IF b \in Range(order) /\ ~ended THEN Append(ears[b], s) ELSE ears[b]]
  /\ UNCHANGED <<server, calls, file, got>>

LastTry(s) == st[s].stop \/ st[s].retries = 1

\* listen_log finds a name without a buffer.
NotFound(s) ==
  /\ st[s].pc = "try" /\ st[s].retries > 0
  /\ st[s].names = {} \/ \E m \in st[s].names : Registered(m) = {}
  /\ st' = [st EXCEPT ![s].pc = IF LastTry(s) THEN "over" ELSE "sleep", ![s].retries = @ - 1, ![s].reached = {}]
  /\ queue' = [queue EXCEPT ![s] = IF LastTry(s) THEN Ending(s, <<Error>>) ELSE Append(@, Error)]
  /\ UNCHANGED <<server, ears, calls, file, got>>

\* A request without retries.
NoTry(s) ==
  /\ st[s].pc = "try" /\ st[s].retries = 0
  /\ st' = [st EXCEPT ![s].pc = "over"]
  /\ queue' = [queue EXCEPT ![s] = Ending(s, <<>>)]
  /\ UNCHANGED <<server, ears, calls, file, got>>

\* asyncio.sleep(0.5)
\* Mutant: the next try waits for the servers.
MutAgain(s) ==
  /\ st[s].pc = "sleep" /\ \A m \in st[s].names : Registered(m) # {}
  /\ st' = [st EXCEPT ![s].pc = "try"]
  /\ UNCHANGED <<server, ears, calls, file, queue, got>>

Again(s) ==
  /\ st[s].pc = "sleep"
  /\ st' = [st EXCEPT ![s].pc = "try"]
  /\ UNCHANGED <<server, ears, calls, file, queue, got>>

\* The first task of a listener runs.
Heard(s, m) ==
  LET names == st[s].reached \cup Reached(s, <<m>>) IN
  /\ queue' = [queue EXCEPT ![s] = Append(@, m)]
  /\ st' = [st EXCEPT ![s].reached = names, ![s].ended = @ \/ AllReached(s, names)]
  /\ UNCHANGED file

Call ==
  /\ calls # <<>>
  /\ calls' = Tail(calls)
  /\ LET to == Head(calls).to  m == Head(calls).log IN
     IF to = File
       THEN /\ file' = [file EXCEPT ![m.buf][m.n] = @ + handlers[NameOf[m.buf]]]
            /\ UNCHANGED <<st, queue>>
       ELSE Heard(to, m)
  /\ UNCHANGED <<server, ears, got>>

\* stream_logs after _end_event: the listeners are removed, the stream is left.
Wake(s) ==
  /\ st[s].pc = "listen" /\ st[s].ended
  /\ st' = [st EXCEPT ![s].pc = "over"]
  /\ ears' = [b \in Buffers |-> RemoveFirst(ears[b], s)]
  /\ queue' = [queue EXCEPT ![s] = Ending(s, <<>>)]
  /\ UNCHANGED <<server, calls, file, got>>

LastChunk(s) == st[s].pc = "over" /\ Len(queue[s]) = 1

Generate(s) ==
  /\ st[s].gen = "open" /\ queue[s] # <<>>
  /\ queue' = [queue EXCEPT ![s] = Tail(@)]
  /\ got' = [got EXCEPT ![s] = IF Head(queue[s]) = End THEN @ ELSE Append(@, Head(queue[s]))]
  /\ st' = [st EXCEPT ![s].gen = IF LastChunk(s) THEN "over" ELSE @]
  /\ UNCHANGED <<server, ears, calls, file>>

\* The client closes the connection: the generator is cancelled, the task is not.
Disconnect(s) ==
  /\ st[s].gen = "open"
  /\ st' = [st EXCEPT ![s].gen = "gone"]
  /\ UNCHANGED <<server, ears, calls, file, queue, got>>

---------------------------------------------------------------------------
Server(b) == Register(b) \/ Change(b) \/ Write(b) \/ Leave(b) \/ Unregister(b)
Task(s) == Listen(s) \/ NotFound(s) \/ NoTry(s) \/ Again(s) \/ Wake(s)

Next ==
  \/ Call
  \/ \E b \in Buffers : Server(b)
  \/ \E s \in Streams : Post(s) \/ Task(s) \/ Generate(s) \/ Disconnect(s)

Spec == Init /\ [][Next]_vars

\* The event loop runs what is ready; a client that stays reads its response.
\* Servers owe nothing.
Fairness == WF_vars(Call) /\ \A s \in Streams : WF_vars(Task(s)) /\ WF_vars(Generate(s))
FairSpec == Spec /\ Fairness

---------------------------------------------------------------------------
(* Properties.                                                            *)

\* What a stream has got or will get without another push; other streams' calls are no
\* message of a buffer.
Way(s) ==
  got[s] \o queue[s] \o [i \in DOMAIN calls |-> IF calls[i].to = s THEN calls[i].log ELSE End]

\* A stream that listens to a buffer gets its logs from some point on in the
\* order of the pushes, none twice and none left out, whatever is pushed while
\* the replay and the tasks of earlier logs are under way.
NoGaps == \A s \in Streams, b \in Buffers : s \in Range(ears[b]) =>
  LET w == Way(s)
      own == {i \in DOMAIN w : w[i].buf = b}
  IN \A i \in own :
       \/ w[i].n = Len(logs[b]) /\ \A j \in own : j <= i
       \/ \E j \in own : i < j /\ w[j].n = w[i].n + 1 /\ \A k \in own : k <= i \/ j <= k

\* A response that ends has brought, for each of its servers, a log with a
\* state it waits for, or the error of its last try; or it was given none.
EndsWithReason == \A s \in Streams : st[s].gen = "over" =>
  \/ st[s].retries = 0 /\ got[s] = <<>>
  \/ Error \in Range(got[s])
  \/ \A m \in st[s].names : \E c \in Range(got[s]) \ {Error} :
       NameOf[c.buf] = m /\ logs[c.buf][c.n] \in st[s].until

\* While a buffer is registered every log it ever got is in the file or on its
\* way, although the buffer itself forgets the oldest.
FileComplete == \A b \in Buffers : phase[b] # "out" =>
  \A n \in 1..Len(logs[b]) :
    \/ file[b][n] > 0
    \/ \E i \in 1..Len(calls) : calls[i].to = File /\ calls[i].log = [buf |-> b, n |-> n]

\* A response ends once all servers of its request have reached their states, and
\* a request listens or ends after its tries, also when its servers never come.
StreamsEnd == \A s \in Streams :
  /\ st[s].ended ~> st[s].gen # "open"
  /\ st[s].pc = "try" ~> st[s].pc \in {"listen", "over"}
=============================================================================
