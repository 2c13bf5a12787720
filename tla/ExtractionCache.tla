--------------------------- MODULE ExtractionCache ---------------------------
(***************************************************************************)
(* The cache of extractions (extraction/__init__.py) and the tools that    *)
(* fill and read it.                                                       *)
(*                                                                         *)
(* An extraction tool parses a directory in a thread, stores the result    *)
(* under the key of its kind and directory, and tells the key.  What else  *)
(* it was asked for (tags_path, hmi_tags_path, instance_id: With) is not   *)
(* in the key.  Entries older than TTL are not served, and are dropped     *)
(* with the next that is stored.                                           *)
(***************************************************************************)
EXTENDS Integers
CONSTANTS Dirs, With, Callers, TTL, MaxNow, None

VARIABLES
  now,    \* the clock
  cache,  \* per key: None, or what is stored and since when
  call,   \* per caller: None, or the extraction it waits for
  told    \* per key: None, or the extraction whose answer named it last, and when

cacheVars == <<now, cache, call, told>>

Keys == {"plc", "hmi"} \X Dirs
Kind(key) == key[1]

CacheInit ==
  /\ now = 0
  /\ cache = [k \in Keys |-> None]
  /\ call = [c \in Callers |-> None]
  /\ told = [k \in Keys |-> None]

Tick == now < MaxNow /\ now' = now + 1 /\ UNCHANGED <<cache, call, told>>

\* The tool starts the parser; without the directory it answers at once.
Parse(c, kind) ==
  /\ call[c] = None
  /\ \E d \in Dirs, w \in With : call' = [call EXCEPT ![c] = [key |-> <<kind, d>>, with |-> w]]
  /\ UNCHANGED <<now, cache, told>>
ExtractPlc(c) == Parse(c, "plc")
ExtractHmi(c) == Parse(c, "hmi")

\* cache_result, and the answer with the key.
Store(c) ==
  /\ call[c] # None
  /\ LET k == call[c].key
         entry == [with |-> call[c].with, at |-> now]
         stored == [cache EXCEPT ![k] = entry]
     IN /\ cache' = [j \in Keys |-> IF stored[j] # None /\ stored[j].at < now - TTL THEN None ELSE stored[j]]
        /\ told' = [told EXCEPT ![k] = entry]
  /\ call' = [call EXCEPT ![c] = None]
  /\ UNCHANGED now

\* The parser raises, or the call is cancelled while the thread goes on in vain.
Fail(c) == call[c] # None /\ call' = [call EXCEPT ![c] = None] /\ UNCHANGED <<now, cache, told>>

CacheNext == Tick \/ \E c \in Callers : ExtractPlc(c) \/ ExtractHmi(c) \/ Store(c) \/ Fail(c)

---------------------------------------------------------------------------
GetCached(key) ==
  IF cache[key] = None \/ now - cache[key].at > TTL THEN None ELSE cache[key]

\* list_extraction_cache
Snapshot == {k \in Keys : cache[k] # None /\ ~(now - cache[k].at > TTL)}

\* An error is another kind of answer.
Query(kind, key) ==
  CASE GetCached(key) = None -> "not cached"
    [] GetCached(key) # None /\ Kind(key) # kind -> "other kind"
    [] OTHER -> "answer"
QueryPlc(key) == Query("plc", key)
QueryHmi(key) == Query("hmi", key)

\* trace_tag and coverage_gap read one of each kind.
QueryBoth(plc, hmi) ==
  CASE GetCached(plc) = None \/ GetCached(hmi) = None -> "not cached"
    [] Kind(plc) # "plc" \/ Kind(hmi) # "hmi" -> "other kind"
    [] OTHER -> "answer"

\* For TTL after it was told a key is listed and answers, of the extraction it was told
\* for last and to the tools of its kind; later it is neither listed nor does it answer
\* (cache_result, get_cached, cache_snapshot).
KeysAnswer ==
  \A k \in Keys :
    LET current == told[k] # None /\ now - told[k].at <= TTL
    IN /\ GetCached(k) = IF current THEN told[k] ELSE None
       /\ k \in Snapshot <=> current
       /\ QueryPlc(k) = "answer" <=> current /\ Kind(k) = "plc"
       /\ QueryHmi(k) = "answer" <=> current /\ Kind(k) = "hmi"
       /\ \A j \in Keys :
            QueryBoth(k, j) = "answer" <=> QueryPlc(k) = "answer" /\ QueryHmi(j) = "answer"
=============================================================================
