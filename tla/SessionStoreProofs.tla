------------------------ MODULE SessionStoreProofs ------------------------
(***************************************************************************)
(* Proofs about SessionStore for every set of chats, clients and items and *)
(* every number of cleanups, and about LocalTools for every set of calls   *)
(* and every content of the file.                                          *)
(***************************************************************************)
EXTENDS MCSessionStore, SequenceTheorems, TLAPS

\* An item identity not in use is blank.
FreeBlank ==
  \A i \in Items : phase[i] = "free" =>
    ~init[i] /\ ~session[i] /\ ~cleared[i] /\ ~kill[i] /\ tasks[i] = {}

\* An allocated item belongs to a chat.
OwnedByChat == \A i \in Items : phase[i] # "free" => chat[i] \in Chats

Unmapped(i) == \A k \in Chats : map[k] # i

\* An item whose event is set but whose session is gone was torn down: by
\* _error_cleanup, or by cleanup(), which empties the client list instead.
TornDown ==
  \A i \in Items : init[i] /\ ~session[i] => cleared[i] \/ (tasks[i] = {} /\ Unmapped(i))

\* A client holds an allocated item; once that item is torn down it has a
\* cancellation pending; it uses only sessions that were published.
Holders ==
  \A c \in Clients : pc[c] # "out" =>
    /\ phase[uses[c]] # "free"
    /\ cleared[uses[c]] \/ c \notin tasks[uses[c]] => cancel[c]
    /\ pc[c] = "use" => init[uses[c]]

\* A watcher works on an allocated item.  A cancelled watcher, and one that
\* found another item under its chat id, have lost their own map entry.
Watchers ==
  \A i \in Items :
    /\ bound[i] # None => phase[bound[i]] # "free"
    /\ kill[i] => Unmapped(i)
    /\ bound[i] \notin {None, i} => Unmapped(i)

\* The inductive invariant.
IInv ==
  /\ TypeOK /\ FreeBlank /\ OwnedByChat /\ MapSound
  /\ TornDown /\ Holders /\ Watchers

LEMMA InitIInv == Init => IInv
  BY NoneAssumption, CleanupAssumption
  DEF Init, IInv, TypeOK, FreeBlank, OwnedByChat, MapSound, TornDown, Holders, Watchers,
      Unmapped, Phases

\* A new item is blank but for its chat, its entry and its first client.
LEMMA CreateIInv ==
  ASSUME IInv, NEW c \in Clients, NEW k \in Chats, NEW i \in Items, Create(c, k, i)
  PROVE  IInv'
  BY NoneAssumption
  DEF Create, IInv, TypeOK, FreeBlank, OwnedByChat, MapSound, TornDown, Holders, Watchers,
      Unmapped, Phases

\* A mapped item is neither cleared nor emptied, so joining it keeps Holders.
LEMMA JoinIInv ==
  ASSUME IInv, NEW c \in Clients, NEW k \in Chats, Join(c, k)
  PROVE  IInv'
  BY NoneAssumption
  DEF Join, IInv, TypeOK, FreeBlank, OwnedByChat, MapSound, TornDown, Holders, Watchers,
      Unmapped, Phases

\* Leaving only shrinks the client list of one item.
LEMMA LeaveIInv ==
  ASSUME IInv, NEW c \in Clients, Leave(c)
  PROVE  IInv'
  BY NoneAssumption
  DEF Leave, IInv, TypeOK, FreeBlank, OwnedByChat, MapSound, TornDown, Holders, Watchers,
      Unmapped, Phases

\* A pending cancellation only weakens what Holders asks.
LEMMA AbortIInv ==
  ASSUME IInv, NEW c \in Clients, Abort(c)
  PROVE  IInv'
  BY NoneAssumption
  DEF Abort, IInv, TypeOK, FreeBlank, OwnedByChat, MapSound, TornDown, Holders, Watchers,
      Unmapped, Phases

\* The invariant is kept by WatcherStart.
LEMMA WatcherStartIInv ==
  ASSUME IInv, NEW i \in Items, WatcherStart(i)
  PROVE  IInv'
  BY NoneAssumption
  DEF WatcherStart, notWatcher, IInv, TypeOK, FreeBlank, OwnedByChat, MapSound, TornDown, Holders, Watchers,
      Unmapped, Phases

\* The invariant is kept by WatcherOpened.
LEMMA WatcherOpenedIInv ==
  ASSUME IInv, NEW i \in Items, WatcherOpened(i)
  PROVE  IInv'
  BY NoneAssumption
  DEF WatcherOpened, notWatcher, IInv, TypeOK, FreeBlank, OwnedByChat, MapSound, TornDown, Holders, Watchers,
      Unmapped, Phases

\* The invariant is kept by WatcherOpenFails.
LEMMA WatcherOpenFailsIInv ==
  ASSUME IInv, NEW i \in Items, WatcherOpenFails(i)
  PROVE  IInv'
  BY NoneAssumption
  DEF WatcherOpenFails, notWatcher, IInv, TypeOK, FreeBlank, OwnedByChat, MapSound, TornDown, Holders, Watchers,
      Unmapped, Phases

\* The invariant is kept by WatcherIdle.
LEMMA WatcherIdleIInv ==
  ASSUME IInv, NEW i \in Items, WatcherIdle(i)
  PROVE  IInv'
  BY NoneAssumption
  DEF WatcherIdle, notWatcher, IInv, TypeOK, FreeBlank, OwnedByChat, MapSound, TornDown, Holders, Watchers,
      Unmapped, Phases

\* The invariant is kept by WatcherFails.
LEMMA WatcherFailsIInv ==
  ASSUME IInv, NEW i \in Items, WatcherFails(i)
  PROVE  IInv'
  BY NoneAssumption
  DEF WatcherFails, notWatcher, IInv, TypeOK, FreeBlank, OwnedByChat, MapSound, TornDown, Holders, Watchers,
      Unmapped, Phases

\* The invariant is kept by WatcherKilled.
LEMMA WatcherKilledIInv ==
  ASSUME IInv, NEW i \in Items, WatcherKilled(i)
  PROVE  IInv'
  BY NoneAssumption
  DEF WatcherKilled, notWatcher, IInv, TypeOK, FreeBlank, OwnedByChat, MapSound, TornDown, Holders, Watchers,
      Unmapped, Phases

\* Nothing refers to a forgotten item.
LEMMA ForgetIInv ==
  ASSUME IInv, NEW i \in Items, Forget(i)
  PROVE  IInv'
  BY NoneAssumption
  DEF Forget, IInv, TypeOK, FreeBlank, OwnedByChat, MapSound, TornDown, Holders, Watchers,
      Unmapped, Phases

\* A client that leaves on an error or a cancellation tears its item down.
LEMMA LeaveOnErrorIInv ==
  ASSUME IInv, NEW c \in Clients, pc[c] # "out", LeaveOnError(c, uses[c])
  PROVE  IInv'
<1> DEFINE s == uses[c]
<1>0. s \in Items /\ c # None /\ s # None
  BY NoneAssumption DEF IInv, TypeOK
<1>1. TypeOK'
  BY <1>0, NoneAssumption
  DEF LeaveOnError, ErrorCleanup, IInv, TypeOK, FreeBlank, OwnedByChat, MapSound, TornDown, Holders, Watchers,
      Unmapped, Phases
<1>2. FreeBlank'
  BY <1>0, NoneAssumption
  DEF LeaveOnError, ErrorCleanup, IInv, TypeOK, FreeBlank, OwnedByChat, MapSound, TornDown, Holders, Watchers,
      Unmapped, Phases
<1>3. OwnedByChat'
  BY <1>0, NoneAssumption
  DEF LeaveOnError, ErrorCleanup, IInv, TypeOK, FreeBlank, OwnedByChat, MapSound, TornDown, Holders, Watchers,
      Unmapped, Phases
<1>4. MapSound'
  BY <1>0, NoneAssumption
  DEF LeaveOnError, ErrorCleanup, IInv, TypeOK, FreeBlank, OwnedByChat, MapSound, TornDown, Holders, Watchers,
      Unmapped, Phases
<1>5. TornDown'
  BY <1>0, NoneAssumption
  DEF LeaveOnError, ErrorCleanup, IInv, TypeOK, FreeBlank, OwnedByChat, MapSound, TornDown, Holders, Watchers,
      Unmapped, Phases
<1>6. Holders'
  <2> SUFFICES ASSUME NEW d \in Clients, pc'[d] # "out"
               PROVE  /\ phase'[uses'[d]] # "free"
                      /\ cleared'[uses'[d]] \/ d \notin tasks'[uses'[d]] => cancel'[d]
                      /\ pc'[d] = "use" => init'[uses'[d]]
    BY DEF Holders
  <2>1. uses'[d] = uses[d] /\ uses[d] \in Items /\ pc[d] = pc'[d]
    BY <1>0, NoneAssumption DEF LeaveOnError, ErrorCleanup, IInv, TypeOK
  <2>2. phase'[uses[d]] # "free"
    BY <2>1, <1>0, NoneAssumption DEF LeaveOnError, ErrorCleanup, IInv, TypeOK, Holders
  <2>3. cleared'[uses[d]] \/ d \notin tasks'[uses[d]] => cancel'[d]
    <3>1. d # c
      BY <2>1 DEF LeaveOnError, IInv, TypeOK
    <3>2. cancel'[d] = (cancel[d] \/ (~cleared[s] /\ d \in tasks[s]))
      BY <3>1 DEF LeaveOnError, ErrorCleanup
    <3>3. CASE uses[d] = s
      BY <2>1, <3>2, <3>3 DEF IInv, Holders
    <3>4. CASE uses[d] # s
      BY <1>0, <2>1, <3>1, <3>2, <3>4 DEF LeaveOnError, ErrorCleanup, IInv, TypeOK, Holders
    <3>q. QED
      BY <3>3, <3>4
  <2>4. pc'[d] = "use" => init'[uses[d]]
    BY <2>1, <1>0, NoneAssumption DEF LeaveOnError, ErrorCleanup, IInv, TypeOK, Holders
  <2>q. QED
    BY <2>1, <2>2, <2>3, <2>4
<1>7. Watchers'
  BY <1>0, NoneAssumption
  DEF LeaveOnError, ErrorCleanup, IInv, TypeOK, FreeBlank, OwnedByChat, MapSound, TornDown, Holders, Watchers,
      Unmapped, Phases
<1>q. QED
  BY <1>1, <1>2, <1>3, <1>4, <1>5, <1>6, <1>7 DEF IInv

\* So does a watcher at its end, and its own entry is gone by then.
LEMMA WatcherEndIInv ==
  ASSUME IInv, NEW i \in Items, WatcherEnd(i)
  PROVE  IInv'
<1> DEFINE s == bound[i]
<1>0. s \in Items
  BY NoneAssumption DEF IInv, TypeOK, WatcherEnd
<1>1. TypeOK'
  BY <1>0, NoneAssumption
  DEF WatcherEnd, notWatcher, ErrorCleanup, IInv, TypeOK, FreeBlank, OwnedByChat, MapSound, TornDown, Holders, Watchers,
      Unmapped, Phases
<1>2. FreeBlank'
  BY <1>0, NoneAssumption
  DEF WatcherEnd, notWatcher, ErrorCleanup, IInv, TypeOK, FreeBlank, OwnedByChat, MapSound, TornDown, Holders, Watchers,
      Unmapped, Phases
<1>3. OwnedByChat'
  BY <1>0, NoneAssumption
  DEF WatcherEnd, notWatcher, ErrorCleanup, IInv, TypeOK, FreeBlank, OwnedByChat, MapSound, TornDown, Holders, Watchers,
      Unmapped, Phases
<1>4. MapSound'
  BY <1>0, NoneAssumption
  DEF WatcherEnd, notWatcher, ErrorCleanup, IInv, TypeOK, FreeBlank, OwnedByChat, MapSound, TornDown, Holders, Watchers,
      Unmapped, Phases
<1>5. TornDown'
  BY <1>0, NoneAssumption
  DEF WatcherEnd, notWatcher, ErrorCleanup, IInv, TypeOK, FreeBlank, OwnedByChat, MapSound, TornDown, Holders, Watchers,
      Unmapped, Phases
<1>6. Holders'
  <2> SUFFICES ASSUME NEW d \in Clients, pc'[d] # "out"
               PROVE  /\ phase'[uses'[d]] # "free"
                      /\ cleared'[uses'[d]] \/ d \notin tasks'[uses'[d]] => cancel'[d]
                      /\ pc'[d] = "use" => init'[uses'[d]]
    BY DEF Holders
  <2>1. uses'[d] = uses[d] /\ uses[d] \in Items /\ pc[d] = pc'[d]
    BY <1>0, NoneAssumption DEF WatcherEnd, notWatcher, ErrorCleanup, IInv, TypeOK
  <2>2. phase'[uses[d]] # "free"
    BY <2>1, <1>0, NoneAssumption DEF WatcherEnd, notWatcher, ErrorCleanup, IInv, TypeOK, Holders
  <2>3. cleared'[uses[d]] \/ d \notin tasks'[uses[d]] => cancel'[d]
    BY <2>1, <1>0, NoneAssumption DEF WatcherEnd, notWatcher, ErrorCleanup, IInv, TypeOK, Holders, MapSound
  <2>4. pc'[d] = "use" => init'[uses[d]]
    BY <2>1, <1>0, NoneAssumption DEF WatcherEnd, notWatcher, ErrorCleanup, IInv, TypeOK, Holders
  <2>q. QED
    BY <2>1, <2>2, <2>3, <2>4
<1>7. Watchers'
  BY <1>0, NoneAssumption
  DEF WatcherEnd, notWatcher, ErrorCleanup, IInv, TypeOK, FreeBlank, OwnedByChat, MapSound, TornDown, Holders, Watchers,
      Unmapped, Phases
<1>q. QED
  BY <1>1, <1>2, <1>3, <1>4, <1>5, <1>6, <1>7 DEF IInv

\* cleanup() empties the client lists of the items it unmaps.
LEMMA CleanupIInv ==
  ASSUME IInv, Cleanup
  PROVE  IInv'
<1>1. TypeOK'
  BY NoneAssumption, CleanupAssumption
  DEF Cleanup, IInv, TypeOK, FreeBlank, OwnedByChat, MapSound, TornDown, Holders, Watchers,
      Unmapped, Phases
<1>2. FreeBlank'
  BY NoneAssumption, CleanupAssumption
  DEF Cleanup, IInv, TypeOK, FreeBlank, OwnedByChat, MapSound, TornDown, Holders, Watchers,
      Unmapped, Phases
<1>3. OwnedByChat'
  BY NoneAssumption, CleanupAssumption
  DEF Cleanup, IInv, TypeOK, FreeBlank, OwnedByChat, MapSound, TornDown, Holders, Watchers,
      Unmapped, Phases
<1>4. MapSound'
  BY NoneAssumption, CleanupAssumption
  DEF Cleanup, IInv, TypeOK, FreeBlank, OwnedByChat, MapSound, TornDown, Holders, Watchers,
      Unmapped, Phases
<1>5. TornDown'
  BY NoneAssumption, CleanupAssumption
  DEF Cleanup, IInv, TypeOK, FreeBlank, OwnedByChat, MapSound, TornDown, Holders, Watchers,
      Unmapped, Phases
<1>6. Holders'
  <2> SUFFICES ASSUME NEW d \in Clients, pc'[d] # "out"
               PROVE  /\ phase'[uses'[d]] # "free"
                      /\ cleared'[uses'[d]] \/ d \notin tasks'[uses'[d]] => cancel'[d]
                      /\ pc'[d] = "use" => init'[uses'[d]]
    BY DEF Holders
  <2>1. uses'[d] = uses[d] /\ uses[d] \in Items /\ pc[d] = pc'[d]
    BY NoneAssumption DEF Cleanup, IInv, TypeOK
  <2>2. phase'[uses[d]] # "free"
    BY <2>1, NoneAssumption DEF Cleanup, IInv, TypeOK, Holders
  <2>3. cleared'[uses[d]] \/ d \notin tasks'[uses[d]] => cancel'[d]
    BY <2>1, NoneAssumption DEF Cleanup, IInv, TypeOK, Holders, MapSound
  <2>4. pc'[d] = "use" => init'[uses[d]]
    BY <2>1, NoneAssumption DEF Cleanup, IInv, TypeOK, Holders
  <2>q. QED
    BY <2>1, <2>2, <2>3, <2>4
<1>7. Watchers'
  BY NoneAssumption, CleanupAssumption
  DEF Cleanup, IInv, TypeOK, FreeBlank, OwnedByChat, MapSound, TornDown, Holders, Watchers,
      Unmapped, Phases
<1>q. QED
  BY <1>1, <1>2, <1>3, <1>4, <1>5, <1>6, <1>7 DEF IInv

\* The other steps of a client: its wait ends, its block raises, its
\* cancellation is delivered.
LEMMA ClientStepIInv ==
  ASSUME IInv, NEW c \in Clients, ClientStep(c)
  PROVE  IInv'
<1>1. CASE Resume(c)
  <2>1. CASE session[uses[c]]
    BY <1>1, <2>1, NoneAssumption
    DEF Resume, IInv, TypeOK, FreeBlank, OwnedByChat, MapSound, TornDown, Holders,
        Watchers, Unmapped
  <2>2. CASE ~session[uses[c]]
    <3>1. LeaveOnError(c, uses[c]) /\ pc[c] # "out"
      BY <1>1, <2>2 DEF Resume
    <3>q. QED
      BY <3>1, LeaveOnErrorIInv
  <2>q. QED
    BY <2>1, <2>2
<1>2. CASE Leave(c)
  BY <1>2, LeaveIInv
<1>3. CASE Fail(c)
  <2>1. LeaveOnError(c, uses[c]) /\ pc[c] # "out"
    BY <1>3 DEF Fail
  <2>q. QED
    BY <2>1, LeaveOnErrorIInv
<1>4. CASE Cancelled(c)
  <2>1. LeaveOnError(c, uses[c]) /\ pc[c] # "out"
    BY <1>4 DEF Cancelled
  <2>q. QED
    BY <2>1, LeaveOnErrorIInv
<1>q. QED
  BY <1>1, <1>2, <1>3, <1>4 DEF ClientStep

LEMMA NextIInv == IInv /\ [Next]_vars => IInv'
<1> SUFFICES ASSUME IInv, [Next]_vars PROVE IInv'
  OBVIOUS
<1>1. CASE \E c \in Clients, k \in Chats : Join(c, k) \/ \E i \in Items : Create(c, k, i)
  BY <1>1, JoinIInv, CreateIInv
<1>2. CASE \E c \in Clients : ClientStep(c) \/ Abort(c)
  BY <1>2, ClientStepIInv, AbortIInv
<1>3. CASE \E i \in Items : WatcherStep(i) \/ Forget(i)
  BY <1>3, WatcherStartIInv, WatcherOpenedIInv, WatcherOpenFailsIInv, WatcherIdleIInv,
     WatcherFailsIInv, WatcherKilledIInv, WatcherEndIInv, ForgetIInv
  DEF WatcherStep
<1>4. CASE Cleanup
  BY <1>4, CleanupIInv
<1>5. CASE UNCHANGED vars
  BY <1>5 DEF vars, IInv, TypeOK, FreeBlank, OwnedByChat, MapSound, TornDown, Holders,
     Watchers, Unmapped
<1>q. QED
  BY <1>1, <1>2, <1>3, <1>4, <1>5 DEF Next

LEMMA Invariance == Spec => []IInv
  BY InitIInv, NextIInv, PTL DEF Spec

\* Every variable keeps its type; a client holds an item exactly while it is
\* inside get_session_ctx_mgr, a watcher exactly while its session is open.
THEOREM TypeCorrect == Spec => []TypeOK
<1>1. IInv => TypeOK
  BY DEF IInv
<1>q. QED
  BY <1>1, Invariance, PTL

\* No client goes on using, or is handed, a session that was torn down, however
\* calls, failures, aborts, idle closes and cleanups of the store interleave.
THEOREM TornDownCancels == Spec => []LiveUse
<1>1. IInv => LiveUse
  <2> SUFFICES ASSUME IInv, NEW c \in Clients, pc[c] # "out", ~cancel[c],
                      pc[c] = "use" \/ init[uses[c]], ~session[uses[c]]
               PROVE  FALSE
    BY DEF LiveUse
  <2>1. uses[c] \in Items /\ init[uses[c]]
    BY DEF IInv, TypeOK, Holders
  <2>2. cleared[uses[c]] \/ c \notin tasks[uses[c]]
    BY <2>1 DEF IInv, TornDown
  <2>q. QED
    BY <2>2 DEF IInv, Holders
<1>q. QED
  BY <1>1, Invariance, PTL

\* The entry a caller finds under its chat id is always usable.
THEOREM EntriesUsable == Spec => []MapSound
<1>1. IInv => MapSound
  BY DEF IInv
<1>q. QED
  BY <1>1, Invariance, PTL

---------------------------------------------------------------------------
\* Before any cleanup(): an item cleared before its watcher first ran has a
\* cancelled watcher, which therefore never looks its item up.
OneInv ==
  /\ OneLive
  /\ \A i \in Items : phase[i] = "new" /\ cleared[i] => kill[i]

\* _error_cleanup of s leaves every other item that is not cleared under its
\* chat id: had they the same chat, both would be the chat's one entry.
LEMMA CleanupKeepsOthers ==
  ASSUME IInv, OneInv, NEW s \in Items, phase[s] # "free", NEW c, ErrorCleanup(c, s),
         NEW j \in Items, phase[j] # "free", ~cleared'[j]
  PROVE  ~cleared[j] /\ map'[chat[j]] = j
<1>1. j # s /\ ~cleared[j]
  BY DEF ErrorCleanup, IInv, TypeOK
<1>2. map[chat[j]] = j /\ chat[j] \in Chats
  BY <1>1 DEF OneInv, OneLive, IInv, OwnedByChat
<1>3. CASE cleared[s]
  BY <1>1, <1>2, <1>3 DEF ErrorCleanup
<1>4. CASE ~cleared[s]
  <2>1. map[chat[s]] = s
    BY <1>4 DEF OneInv, OneLive
  <2>2. chat[j] # chat[s]
    BY <1>1, <1>2, <2>1
  <2>q. QED
    BY <1>1, <1>2, <1>4, <2>2 DEF ErrorCleanup, IInv, TypeOK
<1>q. QED
  BY <1>3, <1>4

LEMMA LeaveOnErrorOneInv ==
  ASSUME IInv, OneInv, NEW c \in Clients, pc[c] # "out", LeaveOnError(c, uses[c])
  PROVE  OneInv'
<1> DEFINE s == uses[c]
<1>1. s \in Items /\ c # None /\ phase[s] # "free"
  BY NoneAssumption DEF IInv, TypeOK, Holders
<1>2. ErrorCleanup(c, s) /\ UNCHANGED <<chat, phase, bound>>
  BY DEF LeaveOnError
<1>3. OneLive'
  BY <1>1, <1>2, CleanupKeepsOthers DEF OneLive, OneInv
<1>4. ASSUME NEW i \in Items, phase'[i] = "new", cleared'[i]
      PROVE  kill'[i]
  <2>1. CASE i = s
    BY <1>1, <1>2, <1>4, <2>1 DEF ErrorCleanup, OneInv, IInv, TypeOK
  <2>2. CASE i # s
    BY <1>1, <1>2, <1>4, <2>2 DEF ErrorCleanup, OneInv, IInv, TypeOK
  <2>q. QED
    BY <2>1, <2>2
<1>q. QED
  BY <1>3, <1>4 DEF OneInv

LEMMA WatcherOneInv ==
  ASSUME IInv, OneInv, NEW i \in Items, WatcherStep(i) \/ Forget(i)
  PROVE  OneInv'
<1> USE NoneAssumption DEF OneInv, OneLive, IInv, TypeOK, notWatcher
<1>1. CASE WatcherStart(i)
  BY <1>1 DEF WatcherStart
<1>2. CASE WatcherOpened(i) \/ WatcherOpenFails(i) \/ WatcherIdle(i) \/ WatcherFails(i)
  BY <1>2 DEF WatcherOpened, WatcherOpenFails, WatcherIdle, WatcherFails
<1>3. CASE WatcherKilled(i)
  BY <1>3 DEF WatcherKilled
<1>4. CASE WatcherEnd(i)
  <2> DEFINE s == bound[i]
  <2>1. s = i /\ ErrorCleanup(None, s) /\ phase[s] = "closing"
    BY <1>4 DEF WatcherEnd
  <2>2. phase' = [phase EXCEPT ![i] = "ended"] /\ bound' = [bound EXCEPT ![i] = None]
        /\ chat' = chat
    BY <1>4 DEF WatcherEnd
  <2>3. ASSUME NEW j \in Items, phase'[j] # "free", ~cleared'[j]
        PROVE  map'[chat[j]] = j /\ bound'[j] \in {None, j}
    BY <2>1, <2>2, <2>3, CleanupKeepsOthers
  <2>4. ASSUME NEW j \in Items, phase'[j] = "new", cleared'[j]
        PROVE  kill'[j]
    BY <2>1, <2>2, <2>4 DEF ErrorCleanup
  <2>q. QED
    BY <2>2, <2>3, <2>4
<1>5. CASE Forget(i)
  BY <1>5 DEF Forget
<1>q. QED
  BY <1>1, <1>2, <1>3, <1>4, <1>5 DEF WatcherStep

LEMMA NextOneInv ==
  ASSUME cleanups' = 0, IInv, OneInv, [Next]_vars
  PROVE  OneInv'
<1>1. CASE \E c \in Clients, k \in Chats : Join(c, k) \/ \E i \in Items : Create(c, k, i)
  BY <1>1, NoneAssumption
  DEF Join, Create, OneInv, OneLive, IInv, TypeOK, FreeBlank, OwnedByChat
<1>2. CASE \E c \in Clients : ClientStep(c) \/ Abort(c)
  <2> PICK c \in Clients : ClientStep(c) \/ Abort(c)
    BY <1>2
  <2>1. CASE pc[c] # "out" /\ LeaveOnError(c, uses[c])
    BY <2>1, LeaveOnErrorOneInv
  <2>2. CASE UNCHANGED <<map, chat, cleared, phase, bound, kill>>
    BY <2>2 DEF OneInv, OneLive
  <2>q. QED
    BY <2>1, <2>2 DEF ClientStep, Resume, Leave, Fail, Cancelled, Abort
<1>3. CASE \E i \in Items : WatcherStep(i) \/ Forget(i)
  BY <1>3, WatcherOneInv
<1>4. CASE Cleanup
  BY <1>4 DEF Cleanup, IInv, TypeOK
<1>5. CASE UNCHANGED vars
  BY <1>5 DEF vars, OneInv, OneLive
<1>q. QED
  BY <1>1, <1>2, <1>3, <1>4, <1>5 DEF Next

\* As long as cleanup() has not been called, a chat has one live session.
\* (After it the store can hold two: the clean-up of an emptied item deletes
\* the entry of its successor.)
THEOREM OneSessionPerChat == Spec => []OneLiveSession
<1> DEFINE I == IInv /\ (cleanups = 0 => OneInv)
<1>1. Init => I
  BY InitIInv DEF Init, OneInv, OneLive
<1>2. I /\ [Next]_vars => I'
  <2> SUFFICES ASSUME I, [Next]_vars, cleanups' = 0
               PROVE  OneInv'
    BY NextIInv
  <2>1. cleanups = 0
    BY CleanupAssumption
    DEF IInv, TypeOK, Next, vars, Join, Create, ClientStep, Resume, Leave, Fail, Cancelled,
        LeaveOnError, Abort, WatcherStep, WatcherStart, WatcherOpened, WatcherOpenFails,
        WatcherIdle, WatcherFails, WatcherKilled, WatcherEnd, notWatcher, Forget, Cleanup
  <2>q. QED
    BY <2>1, NextOneInv
<1>3. I => OneLiveSession
  BY DEF OneInv, OneLiveSession
<1>q. QED
  BY <1>1, <1>2, <1>3, PTL DEF Spec

---------------------------------------------------------------------------
\* A client is a user of the item it holds and of no other.
Members == \A i \in Items : \A c \in tasks[i] : uses[c] = i

LEMMA MembersKept ==
  ASSUME IInv, Members, [Next]_vars
  PROVE  Members'
<1> USE NoneAssumption DEF IInv, TypeOK, Members
<1>1. CASE \E c \in Clients, k \in Chats : Join(c, k) \/ \E i \in Items : Create(c, k, i)
  BY <1>1 DEF Join, Create, FreeBlank
<1>2. ASSUME NEW c \in Clients, pc[c] # "out", LeaveOnError(c, uses[c])
      PROVE  Members'
  BY <1>2 DEF LeaveOnError
<1>3. ASSUME NEW c \in Clients, Leave(c)
      PROVE  Members'
  BY <1>3 DEF Leave
<1>4. CASE UNCHANGED <<tasks, uses>>
  BY <1>4
<1>5. ASSUME NEW i \in Items, Forget(i)
      PROVE  Members'
  BY <1>5 DEF Forget
<1>6. CASE Cleanup
  BY <1>6 DEF Cleanup
<1>q. QED
  BY <1>1, <1>2, <1>3, <1>4, <1>5, <1>6
  DEF Next, vars, ClientStep, Resume, Fail, Cancelled, Abort, WatcherStep, WatcherStart, WatcherOpened,
      WatcherOpenFails, WatcherIdle, WatcherFails, WatcherKilled, WatcherEnd, notWatcher

\* What the clean-up of s does, it does to s: the entry it deletes is that of s, and those
\* it cancels use s.
Isolated ==
  /\ \A k \in Chats : map[k] # None /\ map'[k] # map[k] => cleared'[map[k]]
  /\ \A c \in Clients : ~cancel[c] /\ cancel'[c] =>
       aborted'[c] # aborted[c] \/ (cleared'[uses[c]] /\ ~cleared[uses[c]])

LEMMA CleanupIsolated ==
  ASSUME IInv, OneInv, Members, NEW s \in Items, phase[s] # "free", NEW c \in Clients \cup {None},
         ErrorCleanup(c, s)
  PROVE  Isolated
<1>1. ASSUME NEW k \in Chats, map[k] # None, map'[k] # map[k]
      PROVE  cleared'[map[k]]
  <2>1. ~cleared[s] /\ k = chat[s]
    BY <1>1 DEF ErrorCleanup, IInv, TypeOK
  <2>2. map[k] = s
    BY <2>1 DEF OneInv, OneLive
  <2>q. QED
    BY <2>2 DEF ErrorCleanup, IInv, TypeOK
<1>2. ASSUME NEW d \in Clients, ~cancel[d], cancel'[d]
      PROVE  cleared'[uses[d]] /\ ~cleared[uses[d]]
  <2>1. ~cleared[s] /\ d \in tasks[s]
    BY <1>2 DEF ErrorCleanup
  <2>2. uses[d] = s
    BY <2>1 DEF Members
  <2>q. QED
    BY <2>1, <2>2 DEF ErrorCleanup, IInv, TypeOK
<1>q. QED
  BY <1>1, <1>2 DEF Isolated

LEMMA StepIsolated ==
  ASSUME IInv, OneInv, Members, cleanups' = 0, [Next]_vars
  PROVE  Isolated
<1> USE NoneAssumption DEF IInv, TypeOK
<1>1. CASE \E c \in Clients, k \in Chats : Join(c, k) \/ \E i \in Items : Create(c, k, i)
  BY <1>1 DEF Join, Create, Isolated
<1>2. ASSUME NEW c \in Clients, pc[c] # "out", LeaveOnError(c, uses[c])
      PROVE  Isolated
  BY <1>2, CleanupIsolated DEF LeaveOnError, Holders
<1>3. ASSUME NEW c \in Clients, Abort(c)
      PROVE  Isolated
  BY <1>3 DEF Abort, Isolated
<1>4. CASE UNCHANGED <<map, cancel>>
  BY <1>4 DEF Isolated
<1>5. ASSUME NEW i \in Items, WatcherEnd(i)
      PROVE  Isolated
  BY <1>5, CleanupIsolated DEF WatcherEnd, Watchers
<1>6. CASE Cleanup
  BY <1>6 DEF Cleanup
<1>q. QED
  BY <1>1, <1>2, <1>3, <1>4, <1>5, <1>6
  DEF Next, vars, ClientStep, Resume, Leave, Fail, Cancelled, WatcherStep, WatcherStart, WatcherOpened,
      WatcherOpenFails, WatcherIdle, WatcherFails, WatcherKilled, notWatcher, Forget

\* An entry goes away only because its item was cleared, and a client is cancelled only by
\* its caller or with the others of its own item: chats leave each other alone, as long as
\* cleanup() has not been called.
THEOREM ChatsLeaveEachOther == Spec => ChatsIsolated
<1> DEFINE I == IInv /\ Members /\ (cleanups = 0 => OneInv)
<1>1. Init => I
  BY InitIInv DEF Init, OneInv, OneLive, Members
<1>2. ASSUME IInv, [Next]_vars, cleanups' = 0 PROVE cleanups = 0
  BY <1>2, CleanupAssumption
  DEF IInv, TypeOK, Next, vars, Join, Create, ClientStep, Resume, Leave, Fail, Cancelled,
      LeaveOnError, Abort, WatcherStep, WatcherStart, WatcherOpened, WatcherOpenFails,
      WatcherIdle, WatcherFails, WatcherKilled, WatcherEnd, notWatcher, Forget, Cleanup
<1>3. I /\ [Next]_vars => I'
  <2> SUFFICES ASSUME I, [Next]_vars PROVE I'
    OBVIOUS
  <2>1. cleanups' = 0 => OneInv'
    BY <1>2, NextOneInv
  <2>q. QED
    BY <2>1, NextIInv, MembersKept
<1>4. I /\ [Next]_vars => (cleanups' = 0 => Isolated)
  BY <1>2, StepIsolated
<1>q. QED
  BY <1>1, <1>3, <1>4, PTL DEF Spec, ChatsIsolated, Isolated

---------------------------------------------------------------------------
(* The server's own tools.                                                 *)

Questions == {"confirm", "password"}
Edits == [old : Words, new : Tools, all : BOOLEAN]

Kinds == {"none", "bash", "write", "append", "edit", "confirm", "add", "reload"}
Places == {"idle", "next", "ask", "drain", "run", "stop", "post", "over"}
Answers == {"none", "accept", "decline", "cancel", "timeout"}
Replies == {"none", "done", "error", "aborted", "cancelled", "timeout", "killed", "later", "manual",
            "loaded", "failed", "refused"}
Calls == [kind : Kinds, at : Places, needs : Seq(Questions), asks : Seq(Questions), answer : Answers,
          read : Seq(Words \cup Tools), known : SUBSET Tools, edit : Edits \cup {<<>>}, reply : Replies]

ToolTypes ==
  /\ tool \in [Tools -> Calls]
  /\ given \in [Tools -> SUBSET Questions]
  /\ file \in Seq(Words \cup Tools)
  /\ proc \in [Tools -> {"none", "running", "ended"}]
  /\ saved \in SUBSET Tools /\ post \in SUBSET Tools

\* Where a call is, and what it then may have: an edit, its command, a reply.
PlaceOf(c) ==
  /\ c.at = "idle" => c.kind = "none"
  /\ c.kind = "edit" /\ c.at # "over" => c.edit \in Edits
  /\ c.at \in {"ask", "drain"} => c.asks # <<>>
  /\ c.reply \notin {"none", "aborted", "timeout"} => c.at = "over"
  /\ c.reply # "none" => c.at \in {"stop", "over"}
  /\ c.at = "stop" => c.reply \in {"aborted", "timeout"}

\* The command of a call runs while the call waits for it, or when nobody waits any more.
CommandOf(t) ==
  proc[t] = "running" => tool[t].at \in {"run", "stop"} \/ (tool[t].at = "over" /\ tool[t].reply = "killed")

\* What a call needed to know was agreed to, but for what it has not asked yet.
AskedOf(t) ==
  /\ tool[t].at \in {"next", "ask", "drain"} => Range(tool[t].needs) \subseteq given[t] \cup Range(tool[t].asks)
  /\ tool[t].at = "drain" /\ tool[t].answer = "accept" => Head(tool[t].asks) \in given[t]

\* A configuration that is on its way is that of a call that is not answered by it yet.
PostedBy(t) == t \in post => tool[t].kind \in {"add", "reload"} /\ tool[t].reply # "loaded"

ToolInv ==
  /\ ToolTypes
  /\ \A t \in Tools : PlaceOf(tool[t]) /\ CommandOf(t) /\ AskedOf(t) /\ PostedBy(t)
  /\ Local!LoadedKept

\* A call that returned.
Ended(c, reply) == [Local!NoTool EXCEPT !.kind = c.kind, !.known = c.known, !.at = "over", !.reply = reply]

LEMMA OverEnds ==
  ASSUME ToolInv, NEW t \in Tools, NEW reply \in Replies
  PROVE  /\ Local!Over(t, reply) = [tool EXCEPT ![t] = Ended(tool[t], reply)]
         /\ Ended(tool[t], reply) \in Calls
         /\ Ended(tool[t], reply).kind = tool[t].kind /\ Ended(tool[t], reply).known = tool[t].known
         /\ Ended(tool[t], reply).at = "over" /\ Ended(tool[t], reply).reply = reply
<1>1. tool[t] \in Calls /\ tool[t].known \in SUBSET Tools /\ tool[t].kind \in Kinds
  BY DEF ToolInv, ToolTypes, Calls
<1>2. <<>> \in Seq(Questions) /\ <<>> \in Seq(Words \cup Tools)
  BY EmptySeq
<1>3. Ended(tool[t], reply) \in Calls
  BY <1>1, <1>2 DEF Ended, Local!NoTool, Calls, Kinds, Places, Answers, Replies
<1>q. QED
  BY <1>3 DEF Ended, Local!NoTool, Local!Over

\* A step of one call keeps what is said of all.
LEMMA CallMoves ==
  ASSUME ToolInv, NEW t \in Tools, NEW c \in Calls, tool' = [tool EXCEPT ![t] = c], PlaceOf(c),
         (c.kind = tool[t].kind /\ c.known = tool[t].known) \/ tool[t].kind = "none",
         c.kind = "add" => c.reply # "loaded",
         given' \in [Tools -> SUBSET Questions], file' \in Seq(Words \cup Tools),
         proc' \in [Tools -> {"none", "running", "ended"}], saved' = saved, post' \in SUBSET Tools,
         \A u \in Tools \ {t} : given'[u] = given[u] /\ proc'[u] = proc[u] /\ (u \in post' => u \in post),
         CommandOf(t)', AskedOf(t)', PostedBy(t)'
  PROVE  ToolInv'
<1>1. tool' \in [Tools -> Calls] /\ tool'[t] = c /\ \A u \in Tools \ {t} : tool'[u] = tool[u]
  BY DEF ToolInv, ToolTypes
<1>2. ToolTypes'
  BY <1>1 DEF ToolInv, ToolTypes
<1>3. ASSUME NEW u \in Tools PROVE PlaceOf(tool'[u]) /\ CommandOf(u)' /\ AskedOf(u)' /\ PostedBy(u)'
  <2>1. CASE u = t
    BY <1>1, <2>1
  <2>2. CASE u # t
    BY <1>1, <2>2 DEF ToolInv, CommandOf, AskedOf, PostedBy
  <2>q. QED
    BY <2>1, <2>2
<1>4. Local!LoadedKept'
  <2> SUFFICES ASSUME NEW u \in Tools, tool'[u].kind = "add", tool'[u].reply = "loaded", u \notin saved'
               PROVE  \E v \in Tools \ {u} : tool'[v].kind \in {"add", "reload"} /\ u \notin tool'[v].known
    BY DEF Local!LoadedKept
  <2>1. u # t /\ tool'[u] = tool[u]
    BY <1>1
  <2>2. PICK v \in Tools \ {u} : tool[v].kind \in {"add", "reload"} /\ u \notin tool[v].known
    BY <2>1 DEF ToolInv, Local!LoadedKept
  <2>3. tool'[v].kind = tool[v].kind /\ tool'[v].known = tool[v].known
    BY <1>1, <2>2
  <2>q. QED
    BY <2>2, <2>3
<1>q. QED
  BY <1>2, <1>3, <1>4 DEF ToolInv

\* A call starts: nothing was asked, and it has no command yet.
LEMMA CallStarts ==
  ASSUME ToolInv, NEW t \in Tools, NEW c \in Calls, Local!Start(t), tool' = [tool EXCEPT ![t] = c], PlaceOf(c),
         c.kind = "add" => c.reply # "loaded",
         c.at \in {"next", "over", "post"}, c.needs = c.asks,
         UNCHANGED <<abort, given, file, proc, saved>>,
         post' = post \/ (post' = post \cup {t} /\ c.kind \in {"add", "reload"} /\ c.reply # "loaded")
  PROVE  ToolInv'
<1>1. tool[t].at = "idle" /\ tool[t].kind = "none" /\ t \notin post /\ proc[t] # "running" /\ tool'[t] = c
  BY DEF Local!Start, ToolInv, ToolTypes, PlaceOf, CommandOf, PostedBy
<1>2. CommandOf(t)' /\ PostedBy(t)'
  BY <1>1 DEF CommandOf, PostedBy
<1>3. AskedOf(t)'
  BY <1>1 DEF AskedOf
<1>q. QED
  BY <1>1, <1>2, <1>3, CallMoves DEF ToolInv, ToolTypes

\* The types of what a call starts with.
LEMMA StartsWith ==
  ASSUME ToolInv
  PROVE  /\ <<>> \in Seq(Questions) /\ <<>> \in Seq(Words \cup Tools)
         /\ <<"confirm">> \in Seq(Questions) /\ <<"confirm", "password">> \in Seq(Questions)
         /\ file \in Seq(Words \cup Tools) /\ saved \in SUBSET Tools
  BY EmptySeq DEF Questions, ToolInv, ToolTypes

LEMMA StartBashKeeps ==
  ASSUME ToolInv, NEW t \in Tools, NEW asks \in {<<>>, <<"confirm">>, <<"confirm", "password">>},
         Local!StartBash(t, asks)
  PROVE  ToolInv'
<1> DEFINE c == [Local!NoTool EXCEPT !.kind = "bash", !.at = "next", !.needs = asks, !.asks = asks]
<1>1. c \in Calls /\ PlaceOf(c) /\ c.kind = "bash" /\ c.at = "next" /\ c.needs = c.asks
  BY StartsWith DEF Local!NoTool, Calls, Kinds, Places, Answers, Replies, PlaceOf
<1>2. tool' = [tool EXCEPT ![t] = c] /\ Local!Start(t) /\ UNCHANGED <<abort, given, file, proc, saved, post>>
  BY DEF Local!StartBash
<1> HIDE DEF c
<1>q. QED
  BY <1>1, <1>2, CallStarts

LEMMA StartAskingKeeps ==
  ASSUME ToolInv, NEW t \in Tools, NEW kind \in {"write", "append", "confirm"}, Local!StartAsking(t, kind)
  PROVE  ToolInv'
<1> DEFINE c == [Local!Asking EXCEPT !.kind = kind]
<1>1. c \in Calls /\ PlaceOf(c) /\ c.kind = kind /\ c.at = "next" /\ c.needs = c.asks
  BY StartsWith DEF Local!Asking, Local!NoTool, Calls, Kinds, Places, Answers, Replies, PlaceOf
<1>2. tool' = [tool EXCEPT ![t] = c] /\ Local!Start(t) /\ UNCHANGED <<abort, given, file, proc, saved, post>>
  BY DEF Local!StartAsking
<1> HIDE DEF c
<1>q. QED
  BY <1>1, <1>2, CallStarts

LEMMA StartEditKeeps ==
  ASSUME ToolInv, NEW t \in Tools, NEW old \in Words, NEW all \in BOOLEAN,
         Local!StartEdit(t, [old |-> old, new |-> t, all |-> all])
  PROVE  ToolInv'
<1> DEFINE e == [old |-> old, new |-> t, all |-> all]
           a == [Local!Asking EXCEPT !.kind = "edit", !.read = file, !.edit = e]
           b == [Local!NoTool EXCEPT !.kind = "edit", !.at = "over", !.reply = "error"]
<1>0. e \in Edits
  BY DEF Edits
<1> HIDE DEF e
<1> USE DEF Local!NoTool, Calls, Kinds, Places, Answers, Replies, PlaceOf
<1>1. a \in Calls /\ PlaceOf(a) /\ a.kind = "edit" /\ a.at = "next" /\ a.needs = a.asks
  BY <1>0, StartsWith DEF Local!Asking
<1>2. b \in Calls /\ PlaceOf(b) /\ b.kind = "edit" /\ b.at = "over" /\ b.needs = b.asks
  BY StartsWith
<1>3. tool' = [tool EXCEPT ![t] = IF Local!Replaceable(file, e) THEN a ELSE b] /\ Local!Start(t)
      /\ UNCHANGED <<abort, given, file, proc, saved, post>>
  BY DEF Local!StartEdit, e
<1> HIDE DEF a, b
<1>4. tool' = [tool EXCEPT ![t] = a] \/ tool' = [tool EXCEPT ![t] = b]
  BY <1>3
<1>q. QED
  BY <1>1, <1>2, <1>3, <1>4, CallStarts

LEMMA StartServerKeeps ==
  ASSUME ToolInv, NEW t \in Tools, NEW kind \in {"add", "reload"}, Local!StartServer(t, kind)
  PROVE  ToolInv'
<1> DEFINE a == [Local!NoTool EXCEPT !.kind = kind, !.at = "post", !.known = saved]
           b == [Local!NoTool EXCEPT !.kind = kind, !.at = "over", !.reply = "later"]
<1> USE DEF Local!NoTool, Calls, Kinds, Places, Answers, Replies, PlaceOf
<1>1. a \in Calls /\ PlaceOf(a) /\ a.kind = kind /\ a.at = "post" /\ a.needs = a.asks /\ a.reply = "none"
  BY StartsWith
<1>2. b \in Calls /\ PlaceOf(b) /\ b.kind = kind /\ b.at = "over" /\ b.needs = b.asks /\ b.reply = "later"
  BY StartsWith
<1>3. \/ tool' = [tool EXCEPT ![t] = a] /\ post' = post \cup {t}
      \/ tool' = [tool EXCEPT ![t] = b] /\ post' = post
  BY DEF Local!StartServer
<1>4. Local!Start(t) /\ UNCHANGED <<abort, given, file, proc, saved>>
  BY DEF Local!StartServer
<1> HIDE DEF a, b
<1>q. QED
  BY <1>1, <1>2, <1>3, <1>4, CallStarts

LEMMA ReturnsKeep ==
  ASSUME ToolInv, NEW t \in Tools, NEW reply \in Replies \ {"loaded"}, tool' = Local!Over(t, reply),
         tool[t].at # "idle",
         proc' \in [Tools -> {"none", "running", "ended"}], \A u \in Tools \ {t} : proc'[u] = proc[u],
         proc'[t] # "running" \/ reply = "killed",
         file' \in Seq(Words \cup Tools), UNCHANGED <<given, saved, post>>
  PROVE  ToolInv'
<1> DEFINE c == Ended(tool[t], reply)
<1>1. /\ tool' = [tool EXCEPT ![t] = c] /\ c \in Calls /\ c.kind = tool[t].kind /\ c.known = tool[t].known
      /\ c.at = "over" /\ c.reply = reply
  BY OverEnds
<1> HIDE DEF c
<1>2. PlaceOf(c)
  BY <1>1 DEF PlaceOf
<1>3. tool'[t] = c
  BY <1>1 DEF ToolInv, ToolTypes
<1>4. CommandOf(t)' /\ AskedOf(t)' /\ PostedBy(t)'
  BY <1>1, <1>3 DEF CommandOf, AskedOf, PostedBy, ToolInv
<1>q. QED
  BY <1>1, <1>2, <1>4, CallMoves DEF ToolInv, ToolTypes

\* A call goes on: only where it is, what it still asks, the answer or its reply changes.
LEMMA GoesOn ==
  ASSUME ToolInv, NEW t \in Tools, NEW c \in Calls, tool' = [tool EXCEPT ![t] = c],
         c.kind = tool[t].kind, c.known = tool[t].known, c.edit = tool[t].edit, c.needs = tool[t].needs,
         tool[t].at \notin {"idle", "over"}, c.at \notin {"idle", "over"}, PlaceOf(c), c.reply # "loaded",
         given' \in [Tools -> SUBSET Questions], \A u \in Tools \ {t} : given'[u] = given[u],
         proc' \in [Tools -> {"none", "running", "ended"}], \A u \in Tools \ {t} : proc'[u] = proc[u],
         proc'[t] = "running" => c.at \in {"run", "stop"},
         c.at \in {"next", "ask", "drain"} => Range(c.needs) \subseteq given'[t] \cup Range(c.asks),
         c.at = "drain" /\ c.answer = "accept" => Head(c.asks) \in given'[t],
         UNCHANGED <<file, saved, post>>
  PROVE  ToolInv'
<1>1. tool'[t] = c
  BY DEF ToolInv, ToolTypes
<1>2. CommandOf(t)' /\ AskedOf(t)' /\ PostedBy(t)'
  BY <1>1 DEF CommandOf, AskedOf, PostedBy, ToolInv
<1>q. QED
  BY <1>1, <1>2, CallMoves DEF ToolInv, ToolTypes

\* What an edit makes of a file is a file.
LEMMA WrittenIsFile ==
  ASSUME ToolInv, NEW t \in Tools, tool[t].at = "next"
  PROVE  Local!Written(t) \in Seq(Words \cup Tools)
<1> DEFINE W == Words \cup Tools
<1>1. tool[t].read \in Seq(W) /\ file \in Seq(W) /\ t \in W
      /\ (tool[t].kind = "edit" => tool[t].edit \in Edits)
  BY DEF ToolInv, ToolTypes, Calls, PlaceOf
<1>2. ASSUME NEW e \in Edits, NEW s \in Seq(W)
      PROVE  Local!EditText(s, e) \in Seq(W)
  <2>1. DOMAIN s = 1..Len(s) /\ Len(s) \in Nat /\ e.new \in W /\ \A i \in DOMAIN s : s[i] \in W
    BY <1>2, LenProperties, ElementOfSeq DEF Edits
  <2> HIDE DEF W
  <2>q. QED
    BY <2>1, IsASeq DEF Local!EditText
<1>3. <<t>> \in Seq(W) /\ Append(file, t) \in Seq(W)
  BY <1>1
<1> HIDE DEF W
<1>q. QED
  BY <1>1, <1>2, <1>3 DEF Local!Written, W

LEMMA GoesKeep ==
  ASSUME ToolInv, NEW t \in Tools, Local!Goes(t)
  PROVE  ToolInv'
<1>0. /\ tool[t] \in Calls /\ tool[t].at = "next" /\ proc[t] # "running" /\ PlaceOf(tool[t])
      /\ Range(tool[t].needs) \subseteq given[t] \cup Range(tool[t].asks)
      /\ UNCHANGED <<abort, given, saved, post>>
  BY DEF Local!Goes, ToolInv, ToolTypes, CommandOf, AskedOf
<1>1. CASE tool[t].asks # <<>> /\ tool' = [tool EXCEPT ![t].at = "ask", ![t].answer = "none"] /\ UNCHANGED <<file, proc>>
  <2> DEFINE c == [tool[t] EXCEPT !.at = "ask", !.answer = "none"]
  <2>1. c \in Calls
    BY <1>0 DEF Calls, Places, Answers
  <2>2. /\ c.kind = tool[t].kind /\ c.known = tool[t].known /\ c.edit = tool[t].edit /\ c.needs = tool[t].needs
        /\ c.asks = tool[t].asks /\ c.at = "ask" /\ c.answer = "none" /\ c.reply = tool[t].reply
    BY <1>0 DEF Calls
  <2>3. tool' = [tool EXCEPT ![t] = c]
    BY <1>0, <1>1 DEF ToolInv, ToolTypes
  <2> HIDE DEF c
  <2>4. PlaceOf(c) /\ c.reply # "loaded"
    BY <1>0, <1>1, <2>2 DEF PlaceOf
  <2>q. QED
    BY <1>0, <1>1, <2>1, <2>2, <2>3, <2>4, GoesOn DEF ToolInv, ToolTypes
<1>2. CASE tool' = Local!Over(t, "aborted") /\ UNCHANGED <<file, proc>>
  BY <1>0, <1>2, ReturnsKeep DEF ToolInv, ToolTypes, Replies
<1>3. CASE tool' = [tool EXCEPT ![t].at = "run"] /\ proc' = [proc EXCEPT ![t] = "running"] /\ file' = file
  <2> DEFINE c == [tool[t] EXCEPT !.at = "run"]
  <2>1. c \in Calls
    BY <1>0 DEF Calls, Places
  <2>2. /\ c.kind = tool[t].kind /\ c.known = tool[t].known /\ c.edit = tool[t].edit /\ c.needs = tool[t].needs
        /\ c.at = "run" /\ c.reply = tool[t].reply
    BY <1>0 DEF Calls
  <2>3. tool' = [tool EXCEPT ![t] = c]
    BY <1>3
  <2> HIDE DEF c
  <2>4. PlaceOf(c) /\ c.reply # "loaded"
    BY <1>0, <2>2 DEF PlaceOf
  <2>5. proc' \in [Tools -> {"none", "running", "ended"}] /\ \A u \in Tools \ {t} : proc'[u] = proc[u]
    BY <1>3 DEF ToolInv, ToolTypes
  <2>q. QED
    BY <1>0, <1>3, <2>1, <2>2, <2>3, <2>4, <2>5, GoesOn DEF ToolInv, ToolTypes
<1>4. CASE tool' = Local!Over(t, "done") /\ file' = Local!Written(t) /\ proc' = proc
  BY <1>0, <1>4, ReturnsKeep, WrittenIsFile DEF ToolInv, ToolTypes, Replies
<1>q. QED
  BY <1>1, <1>2, <1>3, <1>4 DEF Local!Goes

LEMMA RangeOfTail ==
  ASSUME NEW S, NEW s \in Seq(S), s # <<>>
  PROVE  Tail(s) \in Seq(S) /\ Head(s) \in S /\ Range(s) \subseteq {Head(s)} \cup Range(Tail(s))
<1>1. /\ Tail(s) \in Seq(S) /\ Head(s) = s[1] /\ Len(Tail(s)) = Len(s) - 1 /\ Len(s) \in Nat \ {0}
      /\ \A i \in 1..Len(s) - 1 : Tail(s)[i] = s[i + 1]
  BY HeadTailProperties, LenProperties, EmptySeq
<1>2. DOMAIN s = 1..Len(s) /\ DOMAIN Tail(s) = 1..(Len(s) - 1)
  BY <1>1, LenProperties
<1>3. ASSUME NEW i \in 1..Len(s), i # 1 PROVE s[i] \in Range(Tail(s))
  <2>1. i - 1 \in 1..(Len(s) - 1) /\ (i - 1) + 1 = i
    BY <1>1, <1>3
  <2>2. Tail(s)[i - 1] = s[i]
    BY <1>1, <2>1
  <2>q. QED
    BY <1>2, <2>1, <2>2 DEF Range
<1>4. Head(s) \in S
  BY <1>1, ElementOfSeq
<1>q. QED
  BY <1>1, <1>2, <1>3, <1>4 DEF Range

LEMMA AnswersKeep ==
  ASSUME ToolInv, NEW t \in Tools,
         \/ \E a \in {"accept", "decline", "cancel", "timeout"} : Local!Answer(t, a)
         \/ Local!AskAborted(t)
  PROVE  ToolInv'
<1>0. /\ tool[t] \in Calls /\ tool[t].at = "ask" /\ proc[t] # "running" /\ PlaceOf(tool[t])
      /\ Range(tool[t].needs) \subseteq given[t] \cup Range(tool[t].asks)
      /\ tool[t].asks \in Seq(Questions) /\ tool[t].asks # <<>>
      /\ given[t] \in SUBSET Questions /\ given \in [Tools -> SUBSET Questions]
      /\ UNCHANGED <<file, proc, saved, post>>
  BY DEF Local!Answer, Local!AskAborted, ToolInv, ToolTypes, CommandOf, AskedOf, Calls, PlaceOf
<1>1. PICK a \in {"accept", "decline", "cancel", "timeout"} :
        /\ tool' = [tool EXCEPT ![t].at = "drain", ![t].answer = a]
        /\ given' = [given EXCEPT ![t] = IF a = "accept" THEN @ \cup {Head(tool[t].asks)} ELSE @]
  <2>1. CASE Local!AskAborted(t)
    <3>1. given' = [given EXCEPT ![t] = given[t]]
      BY <1>0, <2>1 DEF Local!AskAborted
    <3>q. QED
      BY <2>1, <3>1 DEF Local!AskAborted
  <2>q. QED
    BY <2>1 DEF Local!Answer
<1> DEFINE c == [tool[t] EXCEPT !.at = "drain", !.answer = a]
<1>2. c \in Calls
  BY <1>0 DEF Calls, Places, Answers
<1>3. /\ c.kind = tool[t].kind /\ c.known = tool[t].known /\ c.edit = tool[t].edit /\ c.needs = tool[t].needs
      /\ c.asks = tool[t].asks /\ c.at = "drain" /\ c.answer = a /\ c.reply = tool[t].reply
  BY <1>0 DEF Calls
<1>4. tool' = [tool EXCEPT ![t] = c]
  BY <1>0, <1>1 DEF ToolInv, ToolTypes
<1> HIDE DEF c
<1>5. PlaceOf(c) /\ c.reply # "loaded"
  BY <1>0, <1>3 DEF PlaceOf
<1>6. Head(tool[t].asks) \in Questions
  BY <1>0, RangeOfTail
<1>7. /\ given' \in [Tools -> SUBSET Questions] /\ given[t] \subseteq given'[t]
      /\ \A u \in Tools \ {t} : given'[u] = given[u]
      /\ a = "accept" => Head(tool[t].asks) \in given'[t]
  BY <1>0, <1>1, <1>6
<1>8. proc' \in [Tools -> {"none", "running", "ended"}] /\ \A u \in Tools \ {t} : proc'[u] = proc[u]
  BY <1>0 DEF ToolInv, ToolTypes
<1>q. QED
  BY <1>0, <1>2, <1>3, <1>4, <1>5, <1>7, <1>8, GoesOn

LEMMA AnsweredKeeps ==
  ASSUME ToolInv, NEW t \in Tools, Local!Answered(t)
  PROVE  ToolInv'
<1>0. /\ tool[t] \in Calls /\ tool[t].at = "drain" /\ proc[t] # "running" /\ PlaceOf(tool[t])
      /\ Range(tool[t].needs) \subseteq given[t] \cup Range(tool[t].asks)
      /\ tool[t].asks \in Seq(Questions) /\ tool[t].asks # <<>>
      /\ tool[t].answer = "accept" => Head(tool[t].asks) \in given[t]
      /\ UNCHANGED <<given, file, proc, saved, post>>
  BY DEF Local!Answered, ToolInv, ToolTypes, CommandOf, AskedOf, Calls, PlaceOf
<1>1. CASE tool[t].answer = "accept" /\ tool' = [tool EXCEPT ![t].at = "next", ![t].asks = Tail(@)]
  <2> DEFINE c == [tool[t] EXCEPT !.at = "next", !.asks = Tail(@)]
  <2>1. Tail(tool[t].asks) \in Seq(Questions)
        /\ Range(tool[t].asks) \subseteq {Head(tool[t].asks)} \cup Range(Tail(tool[t].asks))
    BY <1>0, RangeOfTail
  <2>2. c \in Calls
    BY <1>0, <2>1 DEF Calls, Places
  <2>3. /\ c.kind = tool[t].kind /\ c.known = tool[t].known /\ c.edit = tool[t].edit /\ c.needs = tool[t].needs
        /\ c.asks = Tail(tool[t].asks) /\ c.at = "next" /\ c.reply = tool[t].reply
    BY <1>0 DEF Calls
  <2>4. tool' = [tool EXCEPT ![t] = c]
    BY <1>0, <1>1 DEF ToolInv, ToolTypes
  <2> HIDE DEF c
  <2>5. PlaceOf(c) /\ c.reply # "loaded"
    BY <1>0, <2>3 DEF PlaceOf
  <2>6. Range(c.needs) \subseteq given'[t] \cup Range(c.asks)
    BY <1>0, <1>1, <2>1, <2>3
  <2>q. QED
    BY <1>0, <2>2, <2>3, <2>4, <2>5, <2>6, GoesOn DEF ToolInv, ToolTypes
<1>2. CASE tool' = Local!Over(t, "cancelled")
  BY <1>0, <1>2, ReturnsKeep DEF ToolInv, ToolTypes, Replies
<1>q. QED
  BY <1>1, <1>2 DEF Local!Answered, Local!Agreed

\* A command ends, by itself or because it is killed.
LEMMA CommandsKeep ==
  ASSUME ToolInv, NEW t \in Tools, Local!Exits(t) \/ Local!Wakes(t) \/ Local!Stops(t)
  PROVE  ToolInv'
<1>0. tool[t] \in Calls /\ PlaceOf(tool[t]) /\ UNCHANGED <<given, file, saved, post>>
      /\ proc \in [Tools -> {"none", "running", "ended"}]
  BY DEF Local!Exits, Local!Wakes, Local!Stops, ToolInv, ToolTypes
<1>1. CASE Local!Exits(t)
  <2>1. tool' = tool /\ proc' = [proc EXCEPT ![t] = "ended"]
    BY <1>1 DEF Local!Exits
  <2>2. ToolTypes'
    BY <1>0, <2>1 DEF ToolInv, ToolTypes
  <2>q. QED
    BY <1>0, <2>1, <2>2 DEF ToolInv, ToolTypes, CommandOf, AskedOf, PostedBy, Local!LoadedKept
<1>2. ASSUME NEW reply \in {"aborted", "timeout"}, tool[t].at = "run", proc' = proc,
             tool' = [tool EXCEPT ![t].at = "stop", ![t].reply = reply]
      PROVE  ToolInv'
  <2> DEFINE c == [tool[t] EXCEPT !.at = "stop", !.reply = reply]
  <2>1. c \in Calls
    BY <1>0 DEF Calls, Places, Replies
  <2>2. /\ c.kind = tool[t].kind /\ c.known = tool[t].known /\ c.edit = tool[t].edit /\ c.needs = tool[t].needs
        /\ c.asks = tool[t].asks /\ c.at = "stop" /\ c.reply = reply
    BY <1>0 DEF Calls
  <2>3. tool' = [tool EXCEPT ![t] = c]
    BY <1>0, <1>2 DEF ToolInv, ToolTypes
  <2> HIDE DEF c
  <2>4. PlaceOf(c) /\ c.reply # "loaded"
    BY <1>0, <2>2, <1>2 DEF PlaceOf
  <2>q. QED
    BY <1>0, <1>2, <2>1, <2>2, <2>3, <2>4, GoesOn DEF ToolInv, ToolTypes
<1>3. CASE tool[t].at = "run" /\ proc[t] = "ended" /\ tool' = Local!Over(t, "done") /\ proc' = proc
  BY <1>0, <1>3, ReturnsKeep DEF ToolInv, ToolTypes, Replies
<1>4. CASE Local!Stops(t)
  <2>1. tool[t].at = "stop" /\ tool[t].reply \in Replies \ {"loaded"}
        /\ tool' = Local!Over(t, tool[t].reply) /\ proc' = [proc EXCEPT ![t] = "ended"]
    BY <1>0, <1>4 DEF Local!Stops, PlaceOf, Replies
  <2>q. QED
    BY <1>0, <2>1, ReturnsKeep DEF ToolInv, ToolTypes
<1>q. QED
  BY <1>1, <1>2, <1>3, <1>4 DEF Local!Wakes

\* The configuration of t replaces the one there was: a server that it does not know of is
\* gone, and t is the call that had read too early.
LEMMA PostKeeps ==
  ASSUME ToolInv, NEW t \in Tools, NEW reply \in {"loaded", "failed", "refused"}, Local!PostHandled(t, reply)
  PROVE  ToolInv'
<1>0. /\ t \in post /\ post' = post \ {t} /\ UNCHANGED <<abort, given, file, proc>>
      /\ saved' = IF reply = "refused" THEN saved ELSE Local!Sent(t)
      /\ tool' = IF tool[t].at = "post" THEN Local!Over(t, reply) ELSE tool
  BY DEF Local!PostHandled
<1>1. tool[t] \in Calls /\ PlaceOf(tool[t]) /\ tool[t].kind \in {"add", "reload"} /\ tool[t].reply # "loaded"
      /\ tool[t].known \in SUBSET Tools
  BY <1>0 DEF ToolInv, ToolTypes, PostedBy, Calls
<1> DEFINE c == Ended(tool[t], reply)
<1>2. /\ Local!Over(t, reply) = [tool EXCEPT ![t] = c] /\ c \in Calls
      /\ c.kind = tool[t].kind /\ c.known = tool[t].known /\ c.at = "over" /\ c.reply = reply
  BY OverEnds DEF Replies
<1> HIDE DEF c
<1>3. PlaceOf(c)
  BY <1>2 DEF PlaceOf
<1>4. /\ tool' \in [Tools -> Calls] /\ \A u \in Tools \ {t} : tool'[u] = tool[u]
      /\ tool'[t].kind = tool[t].kind /\ tool'[t].known = tool[t].known
      /\ \/ tool'[t] = tool[t]
         \/ tool'[t] = c /\ tool[t].at = "post"
  BY <1>0, <1>1, <1>2 DEF ToolInv, ToolTypes
<1>5. ToolTypes'
  BY <1>0, <1>1, <1>4 DEF ToolInv, ToolTypes, Local!Sent
<1>6. ASSUME NEW u \in Tools PROVE PlaceOf(tool'[u]) /\ CommandOf(u)' /\ AskedOf(u)' /\ PostedBy(u)'
  <2>1. CASE tool'[u] = tool[u]
    BY <1>0, <2>1 DEF ToolInv, CommandOf, AskedOf, PostedBy
  <2>2. CASE u = t /\ tool'[t] = c /\ tool[t].at = "post"
    <3>1. proc'[t] # "running"
      BY <1>0, <2>2 DEF ToolInv, CommandOf
    <3>q. QED
      BY <1>0, <1>2, <1>3, <2>2, <3>1 DEF CommandOf, AskedOf, PostedBy
  <2>q. QED
    BY <1>4, <2>1, <2>2
<1>7. ASSUME NEW u \in Tools, tool'[u].kind = "add", tool'[u].reply = "loaded", u \notin saved'
      PROVE  \E v \in Tools \ {u} : tool'[v].kind \in {"add", "reload"} /\ u \notin tool'[v].known
  <2>1. CASE u = t
    <3>1. reply = "loaded" /\ tool[t].kind = "add"
      BY <1>1, <1>2, <1>4, <1>7, <2>1
    <3>q. QED
      BY <1>0, <1>7, <2>1, <3>1 DEF Local!Sent
  <2>2. CASE u # t /\ u \in saved
    <3>1. u \notin tool[t].known
      BY <1>0, <1>7, <2>2 DEF Local!Sent
    <3>q. QED
      BY <1>1, <1>4, <2>2, <3>1
  <2>3. CASE u # t /\ u \notin saved
    <3>1. PICK v \in Tools \ {u} : tool[v].kind \in {"add", "reload"} /\ u \notin tool[v].known
      BY <1>4, <1>7, <2>3 DEF ToolInv, Local!LoadedKept
    <3>2. tool'[v].kind = tool[v].kind /\ tool'[v].known = tool[v].known
      BY <1>4
    <3>q. QED
      BY <3>1, <3>2
  <2>q. QED
    BY <2>1, <2>2, <2>3
<1>8. Local!LoadedKept'
  BY <1>7 DEF Local!LoadedKept
<1>q. QED
  BY <1>5, <1>6, <1>8 DEF ToolInv

LEMMA ToolsKeep ==
  ASSUME ToolInv, Local!Next
  PROVE  ToolInv'
<1> PICK t \in Tools :
       \/ \E asks \in {<<>>, <<"confirm">>, <<"confirm", "password">>} : Local!StartBash(t, asks)
       \/ \E kind \in {"write", "append", "confirm"} : Local!StartAsking(t, kind)
       \/ \E old \in Words, all \in BOOLEAN : Local!StartEdit(t, [old |-> old, new |-> t, all |-> all])
       \/ \E kind \in {"add", "reload"} : Local!StartServer(t, kind)
       \/ Local!Moves(t) \/ Local!Exits(t) \/ Local!Abort(t) \/ Local!Cancelled(t)
       \/ \E a \in {"accept", "decline", "cancel"} : Local!Answer(t, a)
       \/ \E reply \in {"loaded", "failed", "refused"} : Local!PostHandled(t, reply)
  BY DEF Local!Next
<1>1. CASE Local!Abort(t)
  BY <1>1 DEF Local!Abort, ToolInv, ToolTypes, CommandOf, AskedOf, PostedBy, Local!LoadedKept
<1>2. CASE Local!PostTimeout(t)
  <2>1. proc[t] # "running" /\ proc \in [Tools -> {"none", "running", "ended"}]
    BY <1>2 DEF Local!PostTimeout, ToolInv, ToolTypes, CommandOf
  <2>q. QED
    BY <1>2, <2>1, ReturnsKeep DEF Local!PostTimeout, Replies, ToolInv, ToolTypes
<1>3. CASE Local!Cancelled(t)
  BY <1>3, ReturnsKeep DEF Local!Cancelled, Replies, ToolInv, ToolTypes
<1>4. ASSUME NEW asks \in {<<>>, <<"confirm">>, <<"confirm", "password">>}, Local!StartBash(t, asks)
      PROVE  ToolInv'
  BY <1>4, StartBashKeeps
<1>5. ASSUME NEW old \in Words, NEW all \in BOOLEAN, Local!StartEdit(t, [old |-> old, new |-> t, all |-> all])
      PROVE  ToolInv'
  BY <1>5, StartEditKeeps
<1>q. QED
  BY <1>1, <1>2, <1>3, <1>4, <1>5, StartAskingKeeps, StartServerKeeps, GoesKeep, AnswersKeep, AnsweredKeeps,
     CommandsKeep, PostKeeps
  DEF Local!Moves

LEMMA ToolsInit == CallInit => ToolInv
<1> SUFFICES ASSUME CallInit PROVE ToolInv
  OBVIOUS
<1>1. /\ tool = [t \in Tools |-> Local!NoTool] /\ given = [t \in Tools |-> {}] /\ file \in Local!Contents
      /\ proc = [t \in Tools |-> "none"] /\ saved = {} /\ post = {}
  BY DEF CallInit, Local!Init
<1>2. file \in Seq(Words \cup Tools)
  <2>1. PICK n \in 0..MaxWords : file \in [1..n -> Words]
    BY <1>1 DEF Local!Contents
  <2>2. n \in Nat
    BY <2>1, BoundsAssumption
  <2>q. QED
    BY <2>1, <2>2, IsASeq
<1>3. Local!NoTool \in Calls
  <2>1. <<>> \in Seq(Questions) /\ <<>> \in Seq(Words \cup Tools)
    BY EmptySeq
  <2>q. QED
    BY <2>1 DEF Local!NoTool, Calls, Kinds, Places, Answers, Replies
<1>4. Local!NoTool.at = "idle" /\ Local!NoTool.kind = "none" /\ Local!NoTool.reply = "none"
  BY DEF Local!NoTool
<1> HIDE DEF CallInit
<1>5. \A t \in Tools : PlaceOf(tool[t]) /\ CommandOf(t) /\ AskedOf(t) /\ PostedBy(t)
  BY <1>1, <1>4 DEF PlaceOf, CommandOf, AskedOf, PostedBy
<1>6. Local!LoadedKept
  BY <1>1, <1>4 DEF Local!LoadedKept
<1>q. QED
  BY <1>1, <1>2, <1>3, <1>5, <1>6 DEF ToolInv, ToolTypes

LEMMA ToolsInvariance == ToolInv /\ [CallNext]_allVars => ToolInv'
<1> SUFFICES ASSUME ToolInv, [CallNext]_allVars PROVE ToolInv'
  OBVIOUS
<1>1. CASE UNCHANGED toolVars
  BY <1>1 DEF toolVars, ToolInv, ToolTypes, CommandOf, AskedOf, PostedBy, Local!LoadedKept
<1>2. CASE Local!Next
  BY <1>2, ToolsKeep
<1>q. QED
  BY <1>1, <1>2 DEF CallNext, allVars

\* A command that timed out or was aborted is gone when its call returns, and a server that
\* was reported as loaded is configured, unless a call had read the configuration before
\* and sent it back: for any calls side by side (wait_with_abort, add_mcp_server,
\* reload_mcp_server).
THEOREM ToolsReportTruly == CallSpec => []DoneAsReported
<1>1. ToolInv => DoneAsReported
  BY DEF ToolInv, CommandOf, DoneAsReported, Local!NoProcessLeft
<1>q. QED
  BY <1>1, ToolsInit, ToolsInvariance, PTL DEF CallSpec

\* The step that acts is the one that found no question left and the chat not aborted.
LEMMA ActsAgreed ==
  ASSUME ToolInv, Local!Next, NEW t \in Tools,
         \/ proc[t] # "running" /\ proc'[t] = "running"
         \/ tool[t].kind \in {"write", "append", "edit"} /\ tool[t].at = "next" /\ tool'[t].reply = "done"
  PROVE  t \notin abort /\ Local!Range(tool[t].needs) \subseteq given[t]
<1>0. PICK u \in Tools :
       \/ \E asks \in {<<>>, <<"confirm">>, <<"confirm", "password">>} : Local!StartBash(u, asks)
       \/ \E kind \in {"write", "append", "confirm"} : Local!StartAsking(u, kind)
       \/ \E old \in Words, all \in BOOLEAN : Local!StartEdit(u, [old |-> old, new |-> u, all |-> all])
       \/ \E kind \in {"add", "reload"} : Local!StartServer(u, kind)
       \/ Local!Moves(u) \/ Local!Exits(u) \/ Local!Abort(u) \/ Local!Cancelled(u)
       \/ \E a \in {"accept", "decline", "cancel"} : Local!Answer(u, a)
       \/ \E reply \in {"loaded", "failed", "refused"} : Local!PostHandled(u, reply)
  BY DEF Local!Next
<1>1. tool[t] \in Calls /\ tool \in [Tools -> Calls] /\ PlaceOf(tool[t])
  BY DEF ToolInv, ToolTypes
<1>2. CASE Local!Goes(u)
  <2>1. u = t
    BY <1>1, <1>2 DEF Local!Goes, Local!Over, ToolInv, ToolTypes, PlaceOf
  <2>2. tool[t].at = "next" /\ tool[t].asks = <<>> /\ t \notin abort
    <3>1. CASE tool' = [tool EXCEPT ![t].at = "ask", ![t].answer = "none"] /\ UNCHANGED <<file, proc>>
      BY <1>1, <3>1 DEF PlaceOf, Calls
    <3>2. CASE tool' = Local!Over(t, "aborted") /\ UNCHANGED <<file, proc>>
      <4>1. tool'[t].reply = "aborted"
        BY <1>1, <3>2 DEF Local!Over, Local!NoTool
      <4>q. QED
        BY <3>2, <4>1
    <3>3. CASE tool[t].kind = "confirm" /\ proc' = proc
      BY <3>3
    <3>q. QED
      BY <1>2, <2>1, <3>1, <3>2, <3>3 DEF Local!Goes, Local!MayAct
  <2>3. Range(tool[t].asks) = {}
    BY <2>2 DEF Range
  <2>q. QED
    BY <2>2, <2>3 DEF ToolInv, AskedOf, Range, Local!Range
<1>3. CASE ~Local!Goes(u)
  <2>1. /\ tool[u].at = "next" => tool' = tool
        /\ proc' = proc \/ proc' = [proc EXCEPT ![u] = "ended"]
    BY <1>0, <1>3
    DEF Local!StartBash, Local!StartAsking, Local!StartEdit, Local!StartServer, Local!Start, Local!Moves, Local!Exits,
        Local!Abort, Local!Cancelled, Local!Answer, Local!PostHandled, Local!AskAborted, Local!Answered, Local!Wakes,
        Local!Stops, Local!PostTimeout
  <2>2. ASSUME NEW v \in Tools, v # u PROVE tool'[v] = tool[v]
    <3>1. CASE \/ \E asks \in {<<>>, <<"confirm">>, <<"confirm", "password">>} : Local!StartBash(u, asks)
               \/ \E kind \in {"write", "append", "confirm"} : Local!StartAsking(u, kind)
               \/ \E old \in Words, all \in BOOLEAN : Local!StartEdit(u, [old |-> old, new |-> u, all |-> all])
               \/ \E kind \in {"add", "reload"} : Local!StartServer(u, kind)
      BY <1>1, <2>2, <3>1 DEF Local!StartBash, Local!StartAsking, Local!StartEdit, Local!StartServer
    <3>2. CASE Local!Answered(u) \/ \E a \in {"accept", "decline", "cancel", "timeout"} : Local!Answer(u, a)
      BY <1>1, <2>2, <3>2 DEF Local!Answer, Local!Answered, Local!Over
    <3>3. CASE \E reply \in {"loaded", "failed", "refused"} : Local!PostHandled(u, reply)
      BY <1>1, <2>2, <3>3 DEF Local!PostHandled, Local!Over
    <3>4. CASE Local!Abort(u) \/ Local!Cancelled(u) \/ Local!AskAborted(u) \/ Local!Stops(u)
      BY <1>1, <2>2, <3>4 DEF Local!Abort, Local!Cancelled, Local!AskAborted, Local!Stops, Local!Over
    <3>5. CASE Local!Exits(u) \/ Local!Wakes(u) \/ Local!PostTimeout(u)
      BY <1>1, <2>2, <3>5 DEF Local!Exits, Local!Wakes, Local!PostTimeout, Local!Over
    <3>q. QED
      BY <1>0, <1>3, <3>1, <3>2, <3>3, <3>4, <3>5 DEF Local!Moves
  <2>3. proc'[t] # "running" \/ proc[t] = "running"
    BY <2>1 DEF ToolInv, ToolTypes
  <2>4. tool[t].at = "next" => tool'[t] = tool[t]
    BY <2>1, <2>2
  <2>q. QED
    BY <1>1, <2>3, <2>4 DEF PlaceOf
<1>q. QED
  BY <1>2, <1>3

\* A tool writes the file or starts a command only when the user said yes to each of its
\* questions and its chat was not aborted meanwhile (execute_bash, execute_write,
\* edit_file).
THEOREM ToolsAskFirst == CallSpec => Consent
<1>1. ToolInv /\ [CallNext]_allVars =>
        [\A t \in Tools :
           (\/ proc[t] # "running" /\ proc'[t] = "running"
            \/ tool[t].kind \in {"write", "append", "edit"} /\ tool[t].at = "next" /\ tool'[t].reply = "done")
           => t \notin abort /\ Local!Range(tool[t].needs) \subseteq given[t]]_toolVars
  BY ActsAgreed DEF CallNext, allVars
<1>q. QED
  BY <1>1, ToolsInit, ToolsInvariance, PTL DEF CallSpec, Consent, Local!Consent, Local!vars, toolVars
=============================================================================
