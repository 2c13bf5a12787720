---------------------------- MODULE StreamsProofs ----------------------------
(***************************************************************************)
(* Proofs about what the frontend hears: for any number of tool calls and  *)
(* requests an answer is the one that was given to that very request       *)
(* (AnswerKept), for any models and settings the results of a              *)
(* verification are those of its progress (VerifiedAsTold), and for any    *)
(* servers and streams a log of a server reaches the streams and the file  *)
(* (LogsReach).                                                            *)
(***************************************************************************)
EXTENDS MCStreams, SequenceTheorems, FiniteSetTheorems, WellFoundedInduction, TLAPS

---------------------------------------------------------------------------
(* The questions of the tool calls.                                        *)

QActions == {"accept", "decline", "cancel"}
QReqs == 1..MaxReqs

QuestionTypes ==
  /\ callback \in Calls \cup {None}
  /\ counter \in Nat
  /\ owner \in [QReqs -> Calls \cup {None}]
  /\ asked \in SUBSET QReqs /\ pending \in SUBSET QReqs
  /\ future \in [QReqs -> QActions \cup {"pending", "cancelled"}]
  /\ at \in [QReqs -> {"none", "wait", "drain", "over"}]
  /\ result \in [QReqs -> QActions \cup {"none", "timeout", "killed"}]
  /\ shown \in SUBSET QReqs /\ acked \in SUBSET QReqs

\* A request that was not made yet is in no table.
Unmade == \A r \in QReqs : r > counter => at[r] = "none"

\* An answer is acknowledged exactly when a future takes it, and the table holds only
\* requests that are under way.
AckedIsTaken == \A r \in QReqs : r \in acked <=> future[r] \in QActions
TableOpen == \A r \in pending : at[r] \in {"wait", "drain"}

\* What a request is about to return, or has returned.
Returned ==
  \A r \in QReqs :
    /\ at[r] = "drain" => result[r] = "timeout" \/ (result[r] \in QActions /\ result[r] = future[r])
    /\ at[r] = "over" =>
         \/ result[r] \in {"timeout", "killed"}
         \/ result[r] = "cancel" /\ owner[r] \in abort
         \/ result[r] \in QActions /\ result[r] = future[r]

QuestionInv == QuestionTypes /\ Unmade /\ AckedIsTaken /\ TableOpen /\ Returned

\* A request that is made waits, and nobody else notices.
LEMMA NewRequestKeeps ==
  ASSUME QuestionInv, NEW c \in Calls, Questions!NewRequest(c), asked' \in SUBSET QReqs
  PROVE  QuestionInv'
PROOF
<1>0. QuestionTypes /\ Unmade /\ AckedIsTaken /\ TableOpen /\ Returned
  BY DEF QuestionInv
<1> DEFINE new == counter + 1
<1>1. new \in QReqs /\ counter' = new /\ counter \in Nat /\ at[new] = "none"
  BY <1>0, MaxReqsAssumption DEF QuestionTypes, Unmade, Questions!NewRequest, QReqs
<1>2. /\ callback' = callback /\ future' = future /\ result' = result /\ acked' = acked /\ abort' = abort
      /\ owner' = [owner EXCEPT ![new] = c] /\ pending' = pending \cup {new}
      /\ at' = [at EXCEPT ![new] = "wait"] /\ shown' \in {shown, shown \cup {new}}
  BY DEF Questions!NewRequest
<1> HIDE DEF new
<1>3. QuestionTypes'
  <2>1. owner' \in [QReqs -> Calls \cup {None}]
    BY <1>0, <1>1, <1>2 DEF QuestionTypes
  <2>2. at' \in [QReqs -> {"none", "wait", "drain", "over"}]
    BY <1>0, <1>1, <1>2 DEF QuestionTypes
  <2> QED
    BY <1>0, <1>1, <1>2, <2>1, <2>2 DEF QuestionTypes, new
<1>4. \A r \in QReqs : at'[r] = IF r = new THEN "wait" ELSE at[r]
  BY <1>0, <1>2 DEF QuestionTypes
<1>5. \A r \in QReqs : r # new => owner'[r] = owner[r]
  BY <1>0, <1>2 DEF QuestionTypes
<1>6. Unmade'
  BY <1>0, <1>1, <1>4 DEF Unmade, QReqs, new
<1>7. TableOpen' /\ AckedIsTaken' /\ Returned'
  BY <1>0, <1>1, <1>2, <1>4, <1>5 DEF TableOpen, AckedIsTaken, Returned, QuestionTypes
<1> QED
  BY <1>3, <1>6, <1>7 DEF QuestionInv

\* A request that is left returns what it is told.
LEMMA FinishKeeps ==
  ASSUME QuestionInv, NEW r \in QReqs, NEW what \in QActions \cup {"timeout", "killed"},
         Questions!Finish(r, what), at[r] # "none",
         future' = [future EXCEPT ![r] = IF @ = "pending" THEN "cancelled" ELSE @],
         UNCHANGED Questions!notRequest,
         \/ what \in {"timeout", "killed"}
         \/ what = "cancel" /\ owner[r] \in abort
         \/ what = future[r]
  PROVE  QuestionInv'
PROOF
<1>0. QuestionTypes /\ Unmade /\ AckedIsTaken /\ TableOpen /\ Returned
  BY DEF QuestionInv
<1>1. /\ at' = [at EXCEPT ![r] = "over"] /\ result' = [result EXCEPT ![r] = what]
      /\ pending' = pending \ {r} /\ callback' = callback /\ abort' = abort /\ counter' = counter
      /\ owner' = owner /\ asked' = asked /\ shown' = shown /\ acked' = acked
  BY DEF Questions!Finish, Questions!notRequest
<1>2. QuestionTypes'
  <2>1. at' \in [QReqs -> {"none", "wait", "drain", "over"}]
    BY <1>0, <1>1 DEF QuestionTypes
  <2>2. result' \in [QReqs -> QActions \cup {"none", "timeout", "killed"}]
    BY <1>0, <1>1 DEF QuestionTypes
  <2>3. future' \in [QReqs -> QActions \cup {"pending", "cancelled"}]
    BY <1>0 DEF QuestionTypes
  <2> QED
    BY <1>0, <1>1, <2>1, <2>2, <2>3 DEF QuestionTypes
<1>3. /\ \A q \in QReqs : at'[q] = IF q = r THEN "over" ELSE at[q]
      /\ \A q \in QReqs : result'[q] = IF q = r THEN what ELSE result[q]
      /\ \A q \in QReqs : future'[q] = IF q = r /\ future[q] = "pending" THEN "cancelled" ELSE future[q]
  BY <1>0, <1>1 DEF QuestionTypes
<1>4. Unmade' /\ TableOpen'
  BY <1>0, <1>1, <1>3 DEF Unmade, TableOpen, QuestionTypes
<1>5. AckedIsTaken'
  BY <1>0, <1>1, <1>3 DEF AckedIsTaken, QuestionTypes, QActions
<1>6. Returned'
  <2> SUFFICES ASSUME NEW q \in QReqs
      PROVE  /\ at'[q] = "drain" => result'[q] = "timeout" \/ (result'[q] \in QActions /\ result'[q] = future'[q])
             /\ at'[q] = "over" =>
                  \/ result'[q] \in {"timeout", "killed"}
                  \/ result'[q] = "cancel" /\ owner'[q] \in abort'
                  \/ result'[q] \in QActions /\ result'[q] = future'[q]
    BY DEF Returned
  <2>1. CASE q = r
    BY <1>0, <1>1, <1>3, <2>1 DEF Returned, QActions
  <2>2. CASE q # r
    BY <1>0, <1>1, <1>3, <2>2 DEF Returned
  <2> QED
    BY <2>1, <2>2
<1> QED
  BY <1>2, <1>4, <1>5, <1>6 DEF QuestionInv

\* Every step of the questions keeps their invariant.
LEMMA QuestionKeeps ==
  ASSUME QuestionInv, Questions!Next
  PROVE  QuestionInv'
PROOF
<1>0. QuestionTypes /\ Unmade /\ AckedIsTaken /\ TableOpen /\ Returned
  BY DEF QuestionInv
<1>1. ASSUME UNCHANGED Questions!reqVars, abort' \in {abort} \cup {abort \cup {c} : c \in Calls},
             callback' \in Calls \cup {None}
      PROVE  QuestionInv'
  BY <1>0, <1>1 DEF QuestionInv, QuestionTypes, Unmade, AckedIsTaken, TableOpen, Returned, Questions!reqVars
<1>2. ASSUME NEW c \in Calls, Questions!StartCall(c) PROVE QuestionInv'
  BY <1>1, <1>2 DEF Questions!StartCall
<1>3. ASSUME NEW c \in Calls, Questions!CallAsks(c) PROVE QuestionInv'
  BY <1>0, <1>3, NewRequestKeeps DEF Questions!CallAsks, QuestionTypes
<1>4. ASSUME NEW c \in Calls, Questions!EndCall(c) PROVE QuestionInv'
  BY <1>0, <1>1, <1>4 DEF Questions!EndCall, QuestionTypes
<1>5. ASSUME NEW c \in Calls, Questions!Abort(c) PROVE QuestionInv'
  BY <1>0, <1>1, <1>5 DEF Questions!Abort, QuestionTypes
<1>6. CASE Questions!ListPrompts
  BY <1>0, <1>1, <1>6 DEF Questions!ListPrompts
<1>7. CASE Questions!ServerAsks
  <2>1. callback \in Calls /\ Questions!NewRequest(callback)
    BY <1>0, <1>7 DEF Questions!ServerAsks, QuestionTypes
  <2>2. asked' \in SUBSET QReqs
    BY <1>0, <1>7, MaxReqsAssumption DEF Questions!ServerAsks, Questions!NewRequest, QuestionTypes, QReqs
  <2> QED
    BY <2>1, <2>2, NewRequestKeeps
<1>8. CASE Questions!SessionEnds
  BY <1>0, <1>1, <1>8 DEF Questions!SessionEnds
<1>9. ASSUME NEW r \in QReqs, Questions!WakeAnswered(r) PROVE QuestionInv'
  <2>1. /\ at' = [at EXCEPT ![r] = "drain"] /\ result' = [result EXCEPT ![r] = future[r]]
        /\ future[r] \in QActions /\ at[r] = "wait" /\ pending' = pending /\ future' = future
        /\ UNCHANGED <<callback, abort, counter, owner, asked, shown, acked>>
    BY <1>9 DEF Questions!WakeAnswered, Questions!notRequest, Questions!Actions, QActions
  <2>2. at' \in [QReqs -> {"none", "wait", "drain", "over"}]
    BY <1>0, <2>1 DEF QuestionTypes
  <2>3. result' \in [QReqs -> QActions \cup {"none", "timeout", "killed"}]
    BY <1>0, <2>1 DEF QuestionTypes
  <2>4. /\ \A q \in QReqs : at'[q] = IF q = r THEN "drain" ELSE at[q]
        /\ \A q \in QReqs : result'[q] = IF q = r THEN future[r] ELSE result[q]
    BY <1>0, <2>1 DEF QuestionTypes
  <2>5. QuestionTypes'
    BY <1>0, <2>1, <2>2, <2>3 DEF QuestionTypes
  <2>6. Unmade' /\ TableOpen' /\ AckedIsTaken' /\ Returned'
    BY <1>0, <2>1, <2>4 DEF Unmade, TableOpen, AckedIsTaken, Returned, QuestionTypes
  <2> QED
    BY <2>5, <2>6 DEF QuestionInv
<1>10. ASSUME NEW r \in QReqs, Questions!WakeAborted(r) PROVE QuestionInv'
  <2>1. at[r] = "wait" /\ owner[r] \in abort /\ Questions!Finish(r, "cancel")
        /\ future' = [future EXCEPT ![r] = IF @ = "pending" THEN "cancelled" ELSE @]
        /\ UNCHANGED Questions!notRequest
    BY <1>10 DEF Questions!WakeAborted
  <2> QED
    BY <2>1, FinishKeeps DEF QActions
<1>11. ASSUME NEW r \in QReqs, Questions!WakeTimeout(r) PROVE QuestionInv'
  <2>1. /\ at' = [at EXCEPT ![r] = "drain"] /\ result' = [result EXCEPT ![r] = "timeout"]
        /\ future[r] = "pending" /\ at[r] = "wait" /\ pending' = pending
        /\ future' \in {future, [future EXCEPT ![r] = "cancelled"]}
        /\ UNCHANGED <<callback, abort, counter, owner, asked, shown, acked>>
    BY <1>11 DEF Questions!WakeTimeout, Questions!notRequest
  <2>2. at' \in [QReqs -> {"none", "wait", "drain", "over"}]
    BY <1>0, <2>1 DEF QuestionTypes
  <2>3. result' \in [QReqs -> QActions \cup {"none", "timeout", "killed"}]
    BY <1>0, <2>1 DEF QuestionTypes
  <2>4. future' \in [QReqs -> QActions \cup {"pending", "cancelled"}]
    BY <1>0, <2>1 DEF QuestionTypes
  <2>5. /\ \A q \in QReqs : at'[q] = IF q = r THEN "drain" ELSE at[q]
        /\ \A q \in QReqs : result'[q] = IF q = r THEN "timeout" ELSE result[q]
        /\ \A q \in QReqs : q # r => future'[q] = future[q]
        /\ future'[r] \in {"pending", "cancelled"}
    BY <1>0, <2>1 DEF QuestionTypes
  <2>6. QuestionTypes'
    BY <1>0, <2>1, <2>2, <2>3, <2>4 DEF QuestionTypes
  <2>7. Unmade' /\ TableOpen'
    BY <1>0, <2>1, <2>5 DEF Unmade, TableOpen, QuestionTypes
  <2>8. AckedIsTaken' /\ Returned'
    BY <1>0, <2>1, <2>5 DEF AckedIsTaken, Returned, QActions
  <2> QED
    BY <2>6, <2>7, <2>8 DEF QuestionInv
<1>12. ASSUME NEW r \in QReqs, Questions!Drained(r) PROVE QuestionInv'
  <2>1. at[r] = "drain" /\ Questions!Finish(r, result[r])
        /\ future' = [future EXCEPT ![r] = IF @ = "pending" THEN "cancelled" ELSE @]
        /\ UNCHANGED Questions!notRequest
    BY <1>12 DEF Questions!Drained
  <2>2. result[r] = "timeout" \/ (result[r] \in QActions /\ result[r] = future[r])
    BY <1>0, <2>1 DEF Returned
  <2> QED
    BY <2>1, <2>2, FinishKeeps
<1>13. ASSUME NEW r \in QReqs, Questions!Kill(r) PROVE QuestionInv'
  <2>1. at[r] = "wait" /\ Questions!Finish(r, "killed")
        /\ future' = [future EXCEPT ![r] = IF @ = "pending" THEN "cancelled" ELSE @]
        /\ UNCHANGED Questions!notRequest
    BY <1>13 DEF Questions!Kill
  <2> QED
    BY <2>1, FinishKeeps
<1>14. ASSUME NEW r \in QReqs, NEW a \in QActions, Questions!Respond(r, a) PROVE QuestionInv'
  <2>1. /\ r \in pending /\ pending' = pending \ {r}
        /\ \/ /\ future[r] = "pending" /\ future' = [future EXCEPT ![r] = a]
              /\ acked' = acked \cup {r}
           \/ future' = future /\ acked' = acked
        /\ UNCHANGED <<callback, abort, counter, owner, asked, at, result, shown>>
    BY <1>14 DEF Questions!Respond
  <2>2. future' \in [QReqs -> QActions \cup {"pending", "cancelled"}]
    BY <1>0, <2>1 DEF QuestionTypes
  <2>3. QuestionTypes'
    BY <1>0, <2>1, <2>2 DEF QuestionTypes
  <2>4. /\ \A q \in QReqs : q # r => future'[q] = future[q] /\ (q \in acked' <=> q \in acked)
        /\ r \in acked' <=> future'[r] \in QActions
        /\ at[r] \in {"wait", "drain"} /\ r \in QReqs
        /\ future[r] = "pending" \/ future'[r] = future[r]
    BY <1>0, <2>1 DEF QuestionTypes, AckedIsTaken, TableOpen
  <2>5. Unmade' /\ TableOpen' /\ AckedIsTaken'
    BY <1>0, <2>1, <2>4 DEF Unmade, TableOpen, AckedIsTaken
  <2>6. Returned'
    BY <1>0, <2>1, <2>4 DEF Returned, QActions
  <2> QED
    BY <2>3, <2>5, <2>6 DEF QuestionInv
<1>15. Questions!Reqs = QReqs /\ Questions!Actions = QActions
  BY DEF Questions!Reqs, Questions!Actions, QReqs, QActions
<1> QED
  BY <1>2, <1>3, <1>4, <1>5, <1>6, <1>7, <1>8, <1>9, <1>10, <1>11, <1>12, <1>13, <1>14, <1>15
  DEF Questions!Next, Questions!Wake

\* What request() returns is what the user said to this very request, and its table holds
\* exactly the requests somebody waits for, for any number of calls and requests
\* (ElicitationManager.request, respond_to_request).
THEOREM AnswersAreKept == AllSpec => []AnswerKept
PROOF
<1>1. AllInit => QuestionInv
  BY CallsAssumption, MaxReqsAssumption DEF AllInit, Questions!Init, Questions!Reqs, QuestionInv, QuestionTypes,
     Unmade, AckedIsTaken, TableOpen, Returned, QActions, QReqs
<1>2. QuestionInv /\ [AllNext]_<<served, logVars, questionVars, verifyVars>> => QuestionInv'
  <2>1. ASSUME QuestionInv, UNCHANGED questionVars PROVE QuestionInv'
    BY <2>1 DEF questionVars, QuestionInv, QuestionTypes, Unmade, AckedIsTaken, TableOpen, Returned
  <2> QED
    BY <2>1, QuestionKeeps DEF AllNext
<1>3. QuestionInv => AnswerKept
  BY DEF QuestionInv, QuestionTypes, AckedIsTaken, TableOpen, Returned, AnswerKept, Questions!AnswerKept,
     Questions!NoOrphans, Questions!Made, Questions!Open, Questions!Reqs, Questions!Actions, QReqs, QActions
<1> QED
  BY <1>1, <1>2, <1>3, PTL DEF AllSpec

---------------------------------------------------------------------------
(* The verification of models.                                             *)

Subject == {"connection", "tools", "tools_in_prompt"}
Under == vat.pc \in {"next", "check", "close"}
Current == ModelOf[configs[vat.model]]

IsSaid(told) == told \in Seq({told[i] : i \in DOMAIN told})

VerifyTypes ==
  /\ vat = [model |-> vat.model, step |-> vat.step, pc |-> vat.pc]
  /\ vat.pc \in {"idle", "next", "check", "close", "over"} /\ vat.model \in Nat /\ vat.step \in 0..3
  /\ Len(configs) \in Nat /\ DOMAIN configs = 1..Len(configs)
  /\ IsSaid(said)
  /\ found = [s \in Subject |-> found[s]]
  /\ there \in BOOLEAN /\ stop \in BOOLEAN

\* Where a verification is; it stops for nobody but a client that went away.
VerifyPlaces ==
  /\ stop => ~there
  /\ vat.pc = "idle" => results = {} /\ said = <<>>
  /\ Under => 1 <= vat.model /\ vat.model <= Len(configs) + 1
  /\ vat.pc \in {"check", "close"} => vat.model <= Len(configs) /\ 1 <= vat.step

\* The progress that was written for a subject of a model, and the last of it.
Progress(told, name, s) ==
  {i \in DOMAIN told : told[i].kind = "progress" /\ told[i].name = name /\ told[i].subject = s}
LastSaid(told, name, s, outcome) ==
  \E k \in Progress(told, name, s) : told[k].result = outcome /\ \A l \in Progress(told, name, s) : l <= k

\* The last setting of a model before the current one.
LastOf(name, i) ==
  ModelOf[configs[i]] = name /\ \A k \in 1..(vat.model - 1) : ModelOf[configs[k]] = name => k <= i

\* Each result is that of a setting before, the last one of its model, and each such
\* setting has one.
ResultsOfSettings ==
  Under =>
    /\ \A r \in results : \E i \in 1..(vat.model - 1) :
         /\ LastOf(r.name, i)
         /\ \A s \in Subject : s \notin Models!ToVerify(configs[i]) => r.found[s].state = "SKIPPED"
    /\ \A i \in 1..(vat.model - 1) : \E r \in results : r.name = ModelOf[configs[i]]

\* Each result is as it was said, unless its model is being verified again.
ResultsAsSaid ==
  Under => \A r \in results, s \in Subject :
    vat.pc = "next" \/ r.name # Current => LastSaid(said, r.name, s, r.found[s])

\* So is what was found about the current model, subject by subject.
StepOf(s) == IF s = "connection" THEN 1 ELSE IF s = "tools" THEN 2 ELSE 3
FoundAsSaid ==
  vat.pc \in {"check", "close"} => \A s \in Subject :
    /\ vat.pc = "close" \/ StepOf(s) < vat.step => LastSaid(said, Current, s, found[s])
    /\ (vat.pc = "check" /\ StepOf(s) >= vat.step) \/ s \notin Models!ToVerify(configs[vat.model])
         => found[s].state = "SKIPPED"

\* The final results come last, and unless the client went away they are complete.
Final == \E i \in DOMAIN said : said[i].kind = "final"
FinalComplete ==
  /\ Final => vat.pc = "over"
  /\ Final /\ there => \A i \in DOMAIN configs : \E r \in results : r.name = ModelOf[configs[i]]

VerifyInv ==
  VerifyTypes /\ VerifyPlaces /\ ResultsOfSettings /\ ResultsAsSaid /\ FoundAsSaid /\ FinalComplete

\* What the response got is kept when it gets more.
LEMMA AppendKeeps ==
  ASSUME NEW old, IsSaid(old), NEW m, NEW new, new = Append(old, m)
  PROVE  /\ IsSaid(new)
         /\ DOMAIN old = 1..Len(old) /\ Len(old) \in Nat /\ Len(old) + 1 \in DOMAIN new
         /\ DOMAIN new = DOMAIN old \cup {Len(old) + 1} /\ new[Len(old) + 1] = m
         /\ \A i \in DOMAIN old : new[i] = old[i] /\ i <= Len(old)
PROOF
<1> DEFINE S == {old[i] : i \in DOMAIN old} \cup {m}
<1>1. old \in Seq(S)
  BY DEF IsSaid
<1>2. new \in Seq(S) /\ Len(new) = Len(old) + 1 /\ new[Len(old) + 1] = m
      /\ \A i \in 1..Len(old) : new[i] = old[i]
  BY <1>1
<1>3. new \in [1..Len(new) -> S] /\ Len(new) \in Nat
  BY <1>2, LenProperties
<1>4. new \in [1..Len(new) -> {new[i] : i \in DOMAIN new}] /\ DOMAIN new = 1..Len(new)
  BY <1>3
<1> DEFINE R == {new[i] : i \in DOMAIN new}
<1>5. new \in UNION {[1..n -> R] : n \in Nat}
  BY <1>3, <1>4
<1>6. IsSaid(new)
  <2>1. new \in Seq(R)
    <3> HIDE DEF R
    <3> QED BY <1>5, SeqDef
  <2> QED
    BY <2>1 DEF IsSaid
<1>7. DOMAIN old = 1..Len(old) /\ Len(old) \in Nat
  BY <1>1, LenProperties
<1>8. DOMAIN new = DOMAIN old \cup {Len(old) + 1} /\ \A i \in DOMAIN old : i <= Len(old)
  BY <1>2, <1>4, <1>7
<1>9. \A i \in DOMAIN old : new[i] = old[i]
  BY <1>2, <1>7
<1> HIDE DEF S
<1> QED
  BY <1>2, <1>6, <1>7, <1>8, <1>9

\* A message that is no progress of a subject changes nothing of its last one.
LEMMA OthersStay ==
  ASSUME NEW old, IsSaid(old), NEW m, NEW new, new = Append(old, m), NEW name, NEW s, NEW outcome,
         ~(m.kind = "progress" /\ m.name = name /\ m.subject = s),
         LastSaid(old, name, s, outcome)
  PROVE  LastSaid(new, name, s, outcome)
PROOF
<1>1. Progress(new, name, s) = Progress(old, name, s)
  BY AppendKeeps DEF Progress
<1> QED
  BY <1>1, AppendKeeps DEF LastSaid, Progress

\* And one that is, is the last.
LEMMA NewIsLast ==
  ASSUME NEW old, IsSaid(old), NEW m, NEW new, new = Append(old, m), m.kind = "progress"
  PROVE  LastSaid(new, m.name, m.subject, m.result)
PROOF
<1>1. Len(old) + 1 \in Progress(new, m.name, m.subject)
  BY AppendKeeps DEF Progress
<1>2. \A l \in Progress(new, m.name, m.subject) : l <= Len(old) + 1
  BY AppendKeeps DEF Progress
<1> QED
  BY <1>1, <1>2, AppendKeeps DEF LastSaid

\* A verification starts with nothing said and no results.
LEMMA AskKeeps ==
  ASSUME VerifyInv, Models!Ask
  PROVE  VerifyInv'
PROOF
<1>0. VerifyTypes /\ VerifyPlaces /\ FinalComplete
  BY DEF VerifyInv
<1>1. /\ vat.pc = "idle" /\ vat' = [model |-> 1, step |-> 0, pc |-> "next"]
      /\ found' = found /\ results' = results /\ said' = said /\ there' = there /\ stop' = stop
      /\ \E n \in 1..MaxConfigs : configs' \in [1..n -> Configs]
  BY DEF Models!Ask
<1>2. PICK n \in 1..MaxConfigs : configs' \in [1..n -> Configs]
  BY <1>1
<1>3. Len(configs') = n /\ n \in Nat /\ n >= 1 /\ DOMAIN configs' = 1..n
  <2>1. configs' \in Seq(Configs) /\ n \in Nat /\ n >= 1 /\ DOMAIN configs' = 1..n
    BY <1>2, ConfigsAssumption, SeqDef
  <2> QED
    BY <2>1, LenProperties
<1>4. vat'.pc = "next" /\ vat'.model = 1 /\ vat'.step = 0
  BY <1>1
<1>5. said = <<>> /\ results = {} /\ (stop => ~there)
  BY <1>0, <1>1 DEF VerifyPlaces
<1>6. VerifyTypes'
  BY <1>0, <1>1, <1>3, <1>4 DEF VerifyTypes
<1>7. VerifyPlaces'
  BY <1>1, <1>3, <1>4, <1>5 DEF VerifyPlaces, Under
<1>8. ResultsOfSettings' /\ ResultsAsSaid' /\ FoundAsSaid'
  BY <1>1, <1>4, <1>5 DEF ResultsOfSettings, ResultsAsSaid, FoundAsSaid, Under
<1>9. FinalComplete'
  BY <1>1, <1>5 DEF FinalComplete, Final
<1> QED
  BY <1>6, <1>7, <1>8, <1>9 DEF VerifyInv

\* A verification that ends leaves its results, and without the final message before
\* the last one nothing is claimed of them but what that says.
LEMMA OverKeeps ==
  ASSUME VerifyTypes, stop => ~there, ~Final, NEW m, said' = Append(said, m), vat' = Models!Over,
         configs' = configs, found' = found, there' = there, stop' = stop,
         m.kind = "final" /\ there => \A i \in DOMAIN configs : \E r \in results' : r.name = ModelOf[configs[i]]
  PROVE  VerifyInv'
PROOF
<1>1. vat'.pc = "over" /\ vat' = [model |-> vat'.model, step |-> vat'.step, pc |-> vat'.pc]
      /\ vat'.model = 0 /\ vat'.step = 0
  BY DEF Models!Over
<1>2. VerifyTypes'
  <2>1. IsSaid(said')
    BY AppendKeeps DEF VerifyTypes
  <2> QED
    BY <1>1, <2>1 DEF VerifyTypes
<1>3. VerifyPlaces' /\ ResultsOfSettings' /\ ResultsAsSaid' /\ FoundAsSaid'
  BY <1>1 DEF VerifyPlaces, ResultsOfSettings, ResultsAsSaid, FoundAsSaid, Under
<1>4. Final' => m.kind = "final"
  BY AppendKeeps DEF Final, VerifyTypes
<1>5. FinalComplete'
  BY <1>1, <1>4 DEF FinalComplete
<1> QED
  BY <1>2, <1>3, <1>5 DEF VerifyInv

\* The next model starts with nothing found, or the verification ends with an error.
LEMMA OpenHostKeeps ==
  ASSUME VerifyInv, Models!OpenHost
  PROVE  VerifyInv'
PROOF
<1>0. VerifyTypes /\ VerifyPlaces /\ ResultsOfSettings /\ ResultsAsSaid /\ FinalComplete
  BY DEF VerifyInv
<1>1. /\ vat.pc = "next" /\ ~stop /\ vat.model <= Len(configs)
      /\ configs' = configs /\ results' = results /\ there' = there /\ stop' = stop
  BY DEF Models!OpenHost
<1>2. ~Final
  BY <1>0, <1>1 DEF FinalComplete
<1>3. CASE vat' = [vat EXCEPT !.pc = "check", !.step = 1] /\ found' = Models!Fresh /\ said' = said
  <2>1. /\ vat' = [model |-> vat'.model, step |-> vat'.step, pc |-> vat'.pc]
        /\ vat'.pc = "check" /\ vat'.model = vat.model /\ vat'.step = 1
    BY <1>0, <1>3 DEF VerifyTypes
  <2>2. found' = [s \in Subject |-> [ok |-> FALSE, state |-> "SKIPPED"]]
    <3>1. Models!Range(Models!Subjects) = Subject
      BY DEF Models!Range, Models!Subjects, Subject
    <3> QED
      BY <1>3, <3>1 DEF Models!Fresh, Models!Skipped
  <2>3. VerifyTypes'
    BY <1>0, <1>1, <1>3, <2>1, <2>2 DEF VerifyTypes
  <2>4. VerifyPlaces'
    BY <1>0, <1>1, <2>1 DEF VerifyPlaces, VerifyTypes, Under
  <2>5. ResultsOfSettings'
    BY <1>0, <1>1, <2>1 DEF ResultsOfSettings, Under, LastOf
  <2>6. ResultsAsSaid'
    BY <1>0, <1>1, <1>3, <2>1 DEF ResultsAsSaid, Under
  <2>7. FoundAsSaid'
    BY <2>1, <2>2 DEF FoundAsSaid, StepOf
  <2>8. FinalComplete'
    BY <1>2, <1>3 DEF FinalComplete, Final
  <2> QED
    BY <2>3, <2>4, <2>5, <2>6, <2>7, <2>8 DEF VerifyInv
<1>4. CASE vat' = Models!Over /\ said' = Append(said, [kind |-> "error"]) /\ found' = found
  <2>1. [kind |-> "error"].kind # "final"
    OBVIOUS
  <2> QED
    BY <1>0, <1>1, <1>2, <1>4, <2>1, OverKeeps DEF VerifyPlaces
<1> QED
  BY <1>3, <1>4 DEF Models!OpenHost

\* A subject is checked as it is said.
LEMMA CheckKeeps ==
  ASSUME VerifyInv, Models!Check
  PROVE  VerifyInv'
PROOF
<1>0. VerifyTypes /\ VerifyPlaces /\ ResultsOfSettings /\ ResultsAsSaid /\ FoundAsSaid /\ FinalComplete
  BY DEF VerifyInv
<1> DEFINE s == Models!Subjects[vat.step]
<1>1. /\ vat.pc = "check" /\ configs' = configs /\ results' = results /\ there' = there /\ stop' = stop
      /\ vat' = IF vat.step = 3 THEN [vat EXCEPT !.pc = "close"] ELSE [vat EXCEPT !.step = @ + 1]
      /\ \E o \in IF Models!Wanted(s) THEN Models!Outcome(s) ELSE {found[s]} :
           /\ found' = [found EXCEPT ![s] = o]
           /\ said' = Append(said, [kind |-> "progress", name |-> ModelOf[configs[vat.model]],
                                    subject |-> s, result |-> o])
  BY DEF Models!Check
<1>2. PICK o \in IF Models!Wanted(s) THEN Models!Outcome(s) ELSE {found[s]} :
           /\ found' = [found EXCEPT ![s] = o]
           /\ said' = Append(said, [kind |-> "progress", name |-> ModelOf[configs[vat.model]],
                                    subject |-> s, result |-> o])
  BY <1>1
<1>3. s \in Subject /\ StepOf(s) = vat.step /\ vat.step \in 1..3
      /\ \A t \in Subject : t # s => StepOf(t) # vat.step
  BY <1>0, <1>1 DEF VerifyTypes, VerifyPlaces, Models!Subjects, Subject, StepOf
<1>4. s \notin Models!ToVerify(configs[vat.model]) => o = found[s]
  BY <1>2 DEF Models!Wanted
<1> HIDE DEF s
<1> DEFINE m == [kind |-> "progress", name |-> Current, subject |-> s, result |-> o]
<1>5. said' = Append(said, m) /\ m.kind = "progress" /\ m.name = Current /\ m.subject = s /\ m.result = o
  BY <1>2 DEF Current
<1> HIDE DEF m
<1>6. /\ vat' = [model |-> vat'.model, step |-> vat'.step, pc |-> vat'.pc]
      /\ vat'.model = vat.model
      /\ \/ vat.step = 3 /\ vat'.pc = "close" /\ vat'.step = vat.step
         \/ vat.step # 3 /\ vat'.pc = "check" /\ vat'.step = vat.step + 1
  BY <1>0, <1>1 DEF VerifyTypes
<1>7. found' = [t \in Subject |-> IF t = s THEN o ELSE found[t]]
  BY <1>0, <1>2, <1>3 DEF VerifyTypes
<1>8. VerifyTypes'
  <2>1. IsSaid(said')
    BY <1>0, <1>5, AppendKeeps DEF VerifyTypes
  <2>2. found' = [t \in Subject |-> found'[t]]
    BY <1>7
  <2> QED
    BY <1>0, <1>1, <1>3, <1>6, <2>1, <2>2 DEF VerifyTypes
<1>9. VerifyPlaces'
  BY <1>0, <1>1, <1>3, <1>6 DEF VerifyPlaces, Under, VerifyTypes
<1>10. ResultsOfSettings'
  BY <1>0, <1>1, <1>6 DEF ResultsOfSettings, Under, LastOf
<1>11. Current' = Current
  BY <1>1, <1>6 DEF Current
<1>12. ResultsAsSaid'
  <2> SUFFICES ASSUME NEW r \in results, NEW t \in Subject, r.name # Current
               PROVE  LastSaid(said', r.name, t, r.found[t])
    BY <1>1, <1>6, <1>11 DEF ResultsAsSaid, Under
  <2>1. LastSaid(said, r.name, t, r.found[t])
    BY <1>0, <1>1 DEF ResultsAsSaid, Under
  <2> QED
    BY <1>0, <1>5, <2>1, OthersStay DEF VerifyTypes
<1>13. FoundAsSaid'
  <2> SUFFICES ASSUME NEW t \in Subject
               PROVE  /\ vat'.pc = "close" \/ StepOf(t) < vat'.step => LastSaid(said', Current, t, found'[t])
                      /\ (vat'.pc = "check" /\ StepOf(t) >= vat'.step) \/ t \notin Models!ToVerify(configs[vat.model])
                            => found'[t].state = "SKIPPED"
    BY <1>1, <1>6, <1>11 DEF FoundAsSaid, Models!ToVerify, Models!Range, Models!Subjects
  <2>1. CASE t = s
    <3>1. LastSaid(said', Current, s, o)
      BY <1>0, <1>5, NewIsLast DEF VerifyTypes
    <3>2. found'[t] = o
      BY <1>7, <2>1
    <3>3. t \notin Models!ToVerify(configs[vat.model]) => o.state = "SKIPPED"
      BY <1>0, <1>1, <1>3, <1>4, <2>1 DEF FoundAsSaid
    <3> QED
      BY <1>3, <1>6, <2>1, <3>1, <3>2, <3>3
  <2>2. CASE t # s
    <3>1. found'[t] = found[t]
      BY <1>7, <2>2
    <3>2. StepOf(t) \in 1..3 /\ StepOf(t) # vat.step
      BY <1>3, <2>2 DEF StepOf
    <3>3. ASSUME StepOf(t) < vat.step PROVE LastSaid(said', Current, t, found[t])
      BY <1>0, <1>1, <1>5, <2>2, <3>3, OthersStay DEF FoundAsSaid, VerifyTypes
    <3> QED
      BY <1>0, <1>1, <1>3, <1>6, <3>1, <3>2, <3>3 DEF FoundAsSaid
  <2> QED
    BY <2>1, <2>2
<1>14. FinalComplete'
  <2>1. ~Final
    BY <1>0, <1>1 DEF FinalComplete
  <2> QED
    BY <1>0, <1>5, <2>1, AppendKeeps DEF FinalComplete, Final, VerifyTypes
<1> QED
  BY <1>8, <1>9, <1>10, <1>12, <1>13, <1>14 DEF VerifyInv

\* The results of a model replace those of an earlier setting of it.
LEMMA CloseHostKeeps ==
  ASSUME VerifyInv, Models!CloseHost
  PROVE  VerifyInv'
PROOF
<1>0. VerifyTypes /\ VerifyPlaces /\ ResultsOfSettings /\ ResultsAsSaid /\ FoundAsSaid /\ FinalComplete
  BY DEF VerifyInv
<1>1. /\ vat.pc = "close" /\ configs' = configs /\ found' = found /\ there' = there /\ stop' = stop
  BY DEF Models!CloseHost
<1>2. ~Final
  BY <1>0, <1>1 DEF FinalComplete
<1>3. CASE vat' = Models!Over /\ said' = Append(said, [kind |-> "error"])
  <2>1. [kind |-> "error"].kind # "final"
    OBVIOUS
  <2> QED
    BY <1>0, <1>1, <1>2, <1>3, <2>1, OverKeeps DEF VerifyPlaces
<1>4. CASE /\ vat' = [model |-> vat.model + 1, step |-> 0, pc |-> "next"]
           /\ results' = Models!Saved(ModelOf[configs[vat.model]]) /\ said' = said
  <2> DEFINE new == [name |-> Current, found |-> found]
  <2>1. new.name = Current /\ new.found = found
    OBVIOUS
  <2>2. results' = {r \in results : r.name # Current} \cup {new}
    BY <1>4 DEF Models!Saved, Current
  <2> HIDE DEF new
  <2>3. vat'.pc = "next" /\ vat'.model = vat.model + 1 /\ vat'.step = 0
        /\ vat' = [model |-> vat'.model, step |-> vat'.step, pc |-> vat'.pc]
    BY <1>4
  <2>4. vat.model \in Nat /\ 1 <= vat.model /\ vat.model <= Len(configs)
    BY <1>0, <1>1 DEF VerifyTypes, VerifyPlaces, Under
  <2>5. VerifyTypes'
    BY <1>0, <1>1, <1>4, <2>3, <2>4 DEF VerifyTypes
  <2>6. VerifyPlaces'
    BY <1>0, <1>1, <2>3, <2>4 DEF VerifyPlaces, VerifyTypes, Under
  <2>7. ASSUME NEW r \in results'
        PROVE  \E i \in 1..vat.model :
                 /\ ModelOf[configs[i]] = r.name
                 /\ \A k \in 1..vat.model : ModelOf[configs[k]] = r.name => k <= i
                 /\ \A s \in Subject : s \notin Models!ToVerify(configs[i]) => r.found[s].state = "SKIPPED"
    <3>1. CASE r = new
      <4>1. \A s \in Subject : s \notin Models!ToVerify(configs[vat.model]) => found[s].state = "SKIPPED"
        BY <1>0, <1>1 DEF FoundAsSaid
      <4> QED
        BY <2>1, <2>4, <3>1, <4>1 DEF Current
    <3>2. CASE r \in results /\ r.name # Current
      <4>1. PICK i \in 1..(vat.model - 1) :
               /\ LastOf(r.name, i)
               /\ \A s \in Subject : s \notin Models!ToVerify(configs[i]) => r.found[s].state = "SKIPPED"
        BY <1>0, <1>1, <3>2 DEF ResultsOfSettings, Under
      <4>2. i \in 1..vat.model /\ \A k \in 1..vat.model : k \in 1..(vat.model - 1) \/ k = vat.model
        BY <2>4
      <4> QED
        BY <3>2, <4>1, <4>2 DEF LastOf, Current
    <3> QED
      BY <2>2, <3>1, <3>2
  <2>8. ASSUME NEW i \in 1..vat.model PROVE \E r \in results' : r.name = ModelOf[configs[i]]
    <3>1. CASE ModelOf[configs[i]] = Current
      BY <2>1, <2>2, <3>1
    <3>2. CASE ModelOf[configs[i]] # Current
      <4>1. i \in 1..(vat.model - 1)
        BY <2>4, <3>2 DEF Current
      <4> QED
        BY <1>0, <1>1, <2>2, <3>2, <4>1 DEF ResultsOfSettings, Under
    <3> QED
      BY <3>1, <3>2
  <2>9. ResultsOfSettings'
    <3>1. vat'.model - 1 = vat.model
      BY <2>3, <2>4
    <3> QED
      BY <1>1, <2>7, <2>8, <3>1 DEF ResultsOfSettings, LastOf, Models!ToVerify, Models!Range, Models!Subjects
  <2>10. ResultsAsSaid'
    <3>1. \A s \in Subject : LastSaid(said, Current, s, found[s])
      BY <1>0, <1>1 DEF FoundAsSaid
    <3>2. \A r \in results, s \in Subject : r.name # Current => LastSaid(said, r.name, s, r.found[s])
      BY <1>0, <1>1 DEF ResultsAsSaid, Under
    <3> QED
      BY <1>4, <2>1, <2>2, <3>1, <3>2 DEF ResultsAsSaid
  <2>11. FoundAsSaid' /\ FinalComplete'
    BY <1>2, <1>4, <2>3 DEF FoundAsSaid, FinalComplete, Final
  <2> QED
    BY <2>5, <2>6, <2>9, <2>10, <2>11 DEF VerifyInv
<1> QED
  BY <1>3, <1>4 DEF Models!CloseHost

\* The final results are complete, or the client went away.
LEMMA FinishedKeeps ==
  ASSUME VerifyInv, Models!Finish
  PROVE  VerifyInv'
PROOF
<1>0. VerifyTypes /\ VerifyPlaces /\ ResultsOfSettings /\ FinalComplete
  BY DEF VerifyInv
<1>1. /\ vat.pc = "next" /\ (stop \/ vat.model > Len(configs))
      /\ vat' = Models!Over /\ said' = Append(said, [kind |-> "final"])
      /\ configs' = configs /\ found' = found /\ results' = results /\ there' = there /\ stop' = stop
  BY DEF Models!Finish
<1>2. ~Final
  BY <1>0, <1>1 DEF FinalComplete
<1>3. ASSUME there PROVE \A i \in DOMAIN configs : \E r \in results : r.name = ModelOf[configs[i]]
  <2>1. vat.model = Len(configs) + 1
    BY <1>0, <1>1, <1>3 DEF VerifyTypes, VerifyPlaces, Under
  <2>2. DOMAIN configs = 1..(vat.model - 1)
    BY <1>0, <2>1 DEF VerifyTypes
  <2> QED
    BY <1>0, <1>1, <2>2 DEF ResultsOfSettings, Under
<1> QED
  BY <1>0, <1>1, <1>2, <1>3, OverKeeps DEF VerifyPlaces

\* Every step of a verification keeps its invariant.
LEMMA VerifyKeeps ==
  ASSUME VerifyInv, Models!Next
  PROVE  VerifyInv'
PROOF
<1>1. ASSUME UNCHANGED <<configs, vat, found, results, said>>, there' \in BOOLEAN, stop' \in BOOLEAN,
             there' => there, stop' => ~there'
      PROVE  VerifyInv'
  <2>1. VerifyTypes'
    BY <1>1 DEF VerifyInv, VerifyTypes, IsSaid
  <2>2. VerifyPlaces' /\ FinalComplete'
    BY <1>1 DEF VerifyInv, VerifyPlaces, FinalComplete, Under, Final
  <2>3. ResultsOfSettings'
    BY <1>1 DEF VerifyInv, ResultsOfSettings, LastOf, Under, Models!ToVerify
  <2>4. ResultsAsSaid' /\ FoundAsSaid'
    BY <1>1 DEF VerifyInv, ResultsAsSaid, FoundAsSaid, Under, Current, Models!ToVerify
  <2> QED
    BY <2>1, <2>2, <2>3, <2>4 DEF VerifyInv
<1>2. CASE Models!GoAway
  BY <1>1, <1>2 DEF Models!GoAway, VerifyInv, VerifyTypes
<1>3. CASE Models!Notice
  BY <1>1, <1>3 DEF Models!Notice, VerifyInv, VerifyTypes
<1> QED
  BY <1>2, <1>3, AskKeeps, OpenHostKeeps, CheckKeeps, CloseHostKeeps, FinishedKeeps
  DEF Models!Next, Models!Verify

\* The largest of a set is the one that is none smaller than another.
LEMMA LargestIs ==
  ASSUME NEW S \in SUBSET Nat, NEW k \in S, \A l \in S : l <= k
  PROVE  Models!Max(S) = k
PROOF
<1>1. k \in S /\ \A y \in S : k >= y
  OBVIOUS
<1>2. Models!Max(S) \in S /\ \A y \in S : Models!Max(S) >= y
  BY <1>1 DEF Models!Max
<1>3. k \in Nat /\ Models!Max(S) \in Nat /\ Models!Max(S) >= k /\ Models!Max(S) <= k
  BY <1>1, <1>2
<1> QED
  BY <1>3

\* The final results agree with the last progress of each model and are complete unless the
\* client went away, for any models, settings and requests
\* (ModelVerifyService.test_models, test_model).
THEOREM ResultsAreAsTold == AllSpec => []VerifiedAsTold
PROOF
<1>1. AllInit => VerifyInv
  <2> SUFFICES ASSUME AllInit PROVE VerifyInv
    OBVIOUS
  <2>0. /\ configs = <<>> /\ vat = [model |-> 0, step |-> 0, pc |-> "idle"]
        /\ found = Models!Skipped /\ results = {} /\ said = <<>> /\ there = TRUE /\ stop = FALSE
    BY DEF AllInit, Models!Init
  <2>1. found = [s \in Subject |-> found[s]]
    BY <2>0 DEF Models!Skipped, Models!Range, Models!Subjects, Subject
  <2>2. Len(configs) = 0 /\ DOMAIN configs = 1..0 /\ IsSaid(said) /\ DOMAIN said = {}
    BY <2>0 DEF IsSaid
  <2>3. vat.pc = "idle" /\ vat.model = 0 /\ vat.step = 0 /\ vat = [model |-> vat.model, step |-> vat.step, pc |-> vat.pc]
    BY <2>0
  <2>4. VerifyTypes
    <3>1. there \in BOOLEAN /\ stop \in BOOLEAN /\ Len(configs) \in Nat /\ DOMAIN configs = 1..Len(configs)
      BY <2>0, <2>2
    <3> QED
      BY <2>1, <2>2, <2>3, <3>1 DEF VerifyTypes
  <2> QED
    BY <2>0, <2>2, <2>3, <2>4 DEF VerifyInv, VerifyPlaces, ResultsOfSettings, ResultsAsSaid, FoundAsSaid,
       FinalComplete, Final, Under
<1>2. VerifyInv /\ [AllNext]_<<served, logVars, questionVars, verifyVars>> => VerifyInv'
  <2>1. ASSUME VerifyInv, UNCHANGED verifyVars PROVE VerifyInv'
    <3>1. UNCHANGED <<configs, vat, found, results, said, there, stop>>
      BY <2>1 DEF verifyVars
    <3>2. VerifyTypes' /\ VerifyPlaces' /\ FinalComplete'
      BY <2>1, <3>1 DEF VerifyInv, VerifyTypes, IsSaid, VerifyPlaces, FinalComplete, Under, Final
    <3>3. ResultsOfSettings'
      BY <2>1, <3>1 DEF VerifyInv, ResultsOfSettings, LastOf, Under, Models!ToVerify
    <3>4. ResultsAsSaid' /\ FoundAsSaid'
      BY <2>1, <3>1 DEF VerifyInv, ResultsAsSaid, FoundAsSaid, Under, Current, Models!ToVerify
    <3> QED
      BY <3>2, <3>3, <3>4 DEF VerifyInv
  <2> QED
    BY <2>1, VerifyKeeps DEF AllNext
<1>3. VerifyInv => VerifiedAsTold
  <2> SUFFICES ASSUME VerifyInv PROVE Models!VerifiedAsTold
    BY DEF VerifiedAsTold
  <2>0. VerifyTypes /\ ResultsOfSettings /\ ResultsAsSaid /\ FinalComplete
    BY DEF VerifyInv
  <2>1. Models!Range(Models!Subjects) = Subject
    BY DEF Models!Range, Models!Subjects, Subject
  <2>2. ASSUME NEW r \in results, NEW s \in Subject, vat.pc = "next"
        PROVE  LET ps == {i \in DOMAIN said : /\ said[i].kind = "progress"
                                              /\ said[i].name = r.name /\ said[i].subject = s}
                   own == {i \in 1..(vat.model - 1) : ModelOf[configs[i]] = r.name}
               IN /\ r.found[s] = said[Models!Max(ps)].result
                  /\ s \notin Models!ToVerify(configs[Models!Max(own)]) => r.found[s].state = "SKIPPED"
    <3> DEFINE own == {i \in 1..(vat.model - 1) : ModelOf[configs[i]] = r.name}
    <3>1. PICK k \in Progress(said, r.name, s) :
             said[k].result = r.found[s] /\ \A l \in Progress(said, r.name, s) : l <= k
      BY <2>0, <2>2 DEF ResultsAsSaid, Under, LastSaid
    <3>2. Progress(said, r.name, s) \in SUBSET Nat
      <4>1. DOMAIN said = 1..Len(said) /\ Len(said) \in Nat
        BY <2>0, LenProperties DEF VerifyTypes, IsSaid
      <4> QED
        BY <4>1 DEF Progress
    <3>3. Models!Max(Progress(said, r.name, s)) = k
      BY <3>1, <3>2, LargestIs
    <3>4. PICK i \in 1..(vat.model - 1) :
             /\ LastOf(r.name, i)
             /\ \A t \in Subject : t \notin Models!ToVerify(configs[i]) => r.found[t].state = "SKIPPED"
      BY <2>0, <2>2 DEF ResultsOfSettings, Under
    <3>5. own \in SUBSET Nat /\ i \in own /\ \A l \in own : l <= i
      BY <2>0, <3>4 DEF LastOf, VerifyTypes
    <3>6. Models!Max(own) = i
      <4> HIDE DEF own
      <4> QED BY <3>5, LargestIs
    <3> QED
      BY <3>1, <3>3, <3>4, <3>6 DEF Progress
  <2>3. there /\ Final => \A i \in DOMAIN configs : \E r \in results : r.name = ModelOf[configs[i]]
    BY <2>0 DEF FinalComplete
  <2> QED
    BY <2>1, <2>2, <2>3 DEF Models!VerifiedAsTold, Final
<1> QED
  BY <1>1, <1>2, <1>3, PTL DEF AllSpec

---------------------------------------------------------------------------
(* Sequences with a gap, and without one.                                  *)

\* No element stands in a sequence twice.
Once(q) == \A i, j \in DOMAIN q : q[i] = q[j] => i = j

\* What is removed from such a sequence is gone, and nothing else is.
LEMMA RemovedOnce ==
  ASSUME NEW T, NEW q \in Seq(T), Once(q), NEW e
  PROVE  /\ RemoveFirst(q, e) \in Seq(T) /\ Once(RemoveFirst(q, e))
         /\ Range(RemoveFirst(q, e)) = Range(q) \ {e}
PROOF
<1>0. Len(q) \in Nat /\ DOMAIN q = 1..Len(q) /\ \A i \in 1..Len(q) : q[i] \in T
  BY LenProperties, ElementOfSeq
<1>1. CASE \A i \in 1..Len(q) : q[i] # e
  BY <1>0, <1>1 DEF RemoveFirst, Range
<1>2. ASSUME NEW i \in 1..Len(q), q[i] = e
      PROVE  /\ RemoveFirst(q, e) \in Seq(T) /\ Once(RemoveFirst(q, e))
             /\ Range(RemoveFirst(q, e)) = Range(q) \ {e}
  <2> DEFINE r == RemoveAt(q, i)
  <2>1. {j \in 1..Len(q) : q[j] = e} = {i}
    BY <1>0, <1>2 DEF Once
  <2>2. Min({i}) = i
    <3>1. (CHOOSE x \in {i} : \A y \in {i} : x <= y) = i
      BY <1>0
    <3> QED
      BY <3>1 DEF Min
  <2>3. SelectInSeq(q, LAMBDA v : v = e) = i
    BY <2>1, <2>2 DEF SelectInSeq
  <2>4. RemoveFirst(q, e) = r
    BY <1>2, <2>3 DEF RemoveFirst
  <2>5. /\ r \in Seq(T) /\ Len(r) = Len(q) - 1 /\ DOMAIN r = 1..(Len(q) - 1)
        /\ \A j \in 1..(Len(q) - 1) : r[j] = IF j < i THEN q[j] ELSE q[j + 1]
    <3>1. /\ SubSeq(q, 1, i - 1) \in Seq(T) /\ Len(SubSeq(q, 1, i - 1)) = i - 1
          /\ \A j \in 1..(i - 1) : SubSeq(q, 1, i - 1)[j] = q[j]
      BY <1>0, SubSeqProperties
    <3>2. /\ SubSeq(q, i + 1, Len(q)) \in Seq(T) /\ Len(SubSeq(q, i + 1, Len(q))) = Len(q) - i
          /\ \A j \in 1..(Len(q) - i) : SubSeq(q, i + 1, Len(q))[j] = q[i + j]
      <4>1. i + 1 \in Int /\ Len(q) \in Int /\ \A j \in (i + 1)..Len(q) : q[j] \in T
        BY <1>0
      <4>2. /\ SubSeq(q, i + 1, Len(q)) \in Seq(T)
            /\ Len(SubSeq(q, i + 1, Len(q))) = IF i + 1 <= Len(q) THEN Len(q) - (i + 1) + 1 ELSE 0
            /\ \A j \in 1..(Len(q) - (i + 1) + 1) : SubSeq(q, i + 1, Len(q))[j] = q[i + 1 + j - 1]
        BY <4>1, SubSeqProperties
      <4>3. \A l, m \in Nat : m <= l =>
              /\ l - (m + 1) + 1 = l - m /\ \A j \in 1..(l - m) : m + 1 + j - 1 = m + j
              /\ ~(m + 1 <= l) => l - m = 0
        OBVIOUS
      <4>4. Len(q) \in Nat /\ i \in Nat /\ i <= Len(q)
        BY <1>0
      <4> QED
        BY <4>2, <4>3, <4>4
    <3>3. r = SubSeq(q, 1, i - 1) \o SubSeq(q, i + 1, Len(q))
      BY DEF RemoveAt
    <3> DEFINE x == SubSeq(q, 1, i - 1)
               y == SubSeq(q, i + 1, Len(q))
    <3>4. /\ x \in Seq(T) /\ Len(x) = i - 1 /\ \A j \in 1..(i - 1) : x[j] = q[j]
          /\ y \in Seq(T) /\ Len(y) = Len(q) - i /\ \A j \in 1..(Len(q) - i) : y[j] = q[i + j]
          /\ r = x \o y
      BY <3>1, <3>2, <3>3
    <3> HIDE DEF x, y, r
    <3>5. /\ r \in Seq(T) /\ Len(r) = Len(x) + Len(y)
          /\ \A j \in 1..(Len(x) + Len(y)) : r[j] = IF j <= Len(x) THEN x[j] ELSE y[j - Len(x)]
      BY <3>4, ConcatProperties
    <3>6. Len(x) + Len(y) = Len(q) - 1 /\ DOMAIN r = 1..Len(r)
      BY <1>0, <3>4, <3>5, LenProperties
    <3>7. ASSUME NEW j \in 1..(Len(q) - 1) PROVE r[j] = IF j < i THEN q[j] ELSE q[j + 1]
      <4>1. r[j] = IF j <= i - 1 THEN x[j] ELSE y[j - (i - 1)]
        BY <3>4, <3>5, <3>6
      <4>2. CASE j < i
        BY <1>0, <3>4, <4>1, <4>2
      <4>3. CASE ~(j < i)
        <5>1. j - (i - 1) \in 1..(Len(q) - i) /\ i + (j - (i - 1)) = j + 1 /\ ~(j <= i - 1)
          BY <1>0, <4>3
        <5> QED
          BY <3>4, <4>1, <4>3, <5>1
      <4> QED
        BY <4>2, <4>3
    <3> QED
      BY <3>5, <3>6, <3>7
  <2> HIDE DEF r
  <2>6. Once(r)
    <3> SUFFICES ASSUME NEW j \in 1..(Len(q) - 1), NEW k \in 1..(Len(q) - 1), r[j] = r[k] PROVE j = k
      BY <2>5 DEF Once
    <3> DEFINE up(x) == IF x < i THEN x ELSE x + 1
    <3>1. up(j) \in 1..Len(q) /\ up(k) \in 1..Len(q) /\ r[j] = q[up(j)] /\ r[k] = q[up(k)]
      BY <1>0, <2>5
    <3>2. up(j) = up(k)
      BY <1>0, <3>1 DEF Once
    <3> QED
      BY <1>0, <3>2
  <2>7. ASSUME NEW x PROVE x \in Range(r) <=> x \in Range(q) \ {e}
    <3>1. ASSUME NEW j \in 1..(Len(q) - 1), x = r[j] PROVE x \in Range(q) \ {e}
      <4> DEFINE k == IF j < i THEN j ELSE j + 1
      <4>1. k \in 1..Len(q) /\ x = q[k] /\ k # i
        BY <1>0, <2>5, <3>1
      <4> QED
        BY <1>0, <1>2, <4>1 DEF Once, Range
    <3>2. ASSUME NEW k \in 1..Len(q), x = q[k], x # e PROVE x \in Range(r)
      <4> DEFINE j == IF k < i THEN k ELSE k - 1
      <4>1. j \in 1..(Len(q) - 1) /\ r[j] = x
        BY <1>0, <1>2, <2>5, <3>2
      <4> QED
        BY <2>5, <4>1 DEF Range
    <3> QED
      BY <1>0, <2>5, <3>1, <3>2 DEF Range
  <2> QED
    BY <2>4, <2>5, <2>6, <2>7
<1> QED
  BY <1>1, <1>2

\* Where the messages of a buffer are; one follows the other up to the last.
Own(w, b) == {i \in DOMAIN w : w[i].buf = b}
Gapless(w, b, last) ==
  \A i \in Own(w, b) :
    \/ w[i].n = last /\ \A j \in Own(w, b) : j <= i
    \/ \E j \in Own(w, b) : i < j /\ w[j].n = w[i].n + 1 /\ \A k \in Own(w, b) : k <= i \/ j <= k

\* Two sequences with the same messages of a buffer in the same order.
LEMMA SameOwn ==
  ASSUME NEW w, NEW v, NEW b, NEW last, NEW h, Gapless(w, b, last),
         Own(w, b) \subseteq Nat, Own(v, b) \subseteq Nat,
         \A i \in Own(v, b) : h[i] \in Own(w, b) /\ w[h[i]].n = v[i].n,
         \A i, j \in Own(v, b) : i < j => h[i] < h[j],
         \A k \in Own(w, b) : \E i \in Own(v, b) : h[i] = k
  PROVE  Gapless(v, b, last)
PROOF
<1>0. \A i, j \in Own(v, b) : h[i] < h[j] => i < j
  <2> SUFFICES ASSUME NEW i \in Own(v, b), NEW j \in Own(v, b), h[i] < h[j], ~(i < j) PROVE FALSE
    OBVIOUS
  <2>1. i \in Nat /\ j \in Nat /\ h[i] \in Nat /\ h[j] \in Nat
    OBVIOUS
  <2>2. i = j \/ j < i
    BY <2>1
  <2>3. j < i => h[j] < h[i]
    OBVIOUS
  <2> QED
    BY <2>1, <2>2, <2>3
<1> SUFFICES ASSUME NEW i \in Own(v, b)
             PROVE  \/ v[i].n = last /\ \A j \in Own(v, b) : j <= i
                    \/ \E j \in Own(v, b) : i < j /\ v[j].n = v[i].n + 1 /\ \A k \in Own(v, b) : k <= i \/ j <= k
  BY DEF Gapless
<1>1. h[i] \in Own(w, b) /\ w[h[i]].n = v[i].n /\ h[i] \in Nat /\ i \in Nat
  OBVIOUS
<1>2. CASE w[h[i]].n = last /\ \A k \in Own(w, b) : k <= h[i]
  <2>1. ASSUME NEW j \in Own(v, b), ~(j <= i) PROVE FALSE
    <3>1. j \in Nat /\ i < j /\ h[j] \in Nat
      BY <1>1, <2>1
    <3>2. h[i] < h[j] /\ h[j] <= h[i]
      BY <1>2, <3>1
    <3> QED
      BY <1>1, <3>1, <3>2
  <2> QED
    BY <1>1, <1>2, <2>1
<1>3. ASSUME NEW m \in Own(w, b), h[i] < m, w[m].n = w[h[i]].n + 1, \A k \in Own(w, b) : k <= h[i] \/ m <= k
      PROVE  \E j \in Own(v, b) : i < j /\ v[j].n = v[i].n + 1 /\ \A k \in Own(v, b) : k <= i \/ j <= k
  <2>1. PICK j \in Own(v, b) : h[j] = m
    OBVIOUS
  <2>2. i < j /\ v[j].n = v[i].n + 1 /\ j \in Nat
    BY <1>0, <1>1, <1>3, <2>1
  <2>3. ASSUME NEW k \in Own(v, b), ~(k <= i), ~(j <= k) PROVE FALSE
    <3>1. k \in Nat /\ i < k /\ k < j /\ h[k] \in Own(w, b)
      BY <1>1, <2>2, <2>3
    <3>2. h[i] < h[k] /\ h[k] < m /\ h[k] \in Nat /\ m \in Nat
      BY <2>1, <3>1
    <3>3. h[k] <= h[i] \/ m <= h[k]
      BY <1>3, <3>1
    <3> QED
      BY <1>1, <3>2, <3>3
  <2> QED
    BY <2>2, <2>3
<1> QED
  BY <1>1, <1>2, <1>3 DEF Gapless

\* What holds no message of the buffer may stand before and behind.
LEMMA PaddedGapless ==
  ASSUME NEW T, NEW u \in Seq(T), NEW w \in Seq(T), NEW v \in Seq(T), NEW b, NEW last,
         Gapless(w, b, last), Own(u, b) = {}, Own(v, b) = {}
  PROVE  Gapless((u \o w) \o v, b, last)
PROOF
<1> DEFINE z == (u \o w) \o v
           h == [i \in 1..Len(z) |-> i - Len(u)]
<1>1. /\ Len(u) \in Nat /\ Len(w) \in Nat /\ Len(v) \in Nat
      /\ DOMAIN u = 1..Len(u) /\ DOMAIN w = 1..Len(w) /\ DOMAIN v = 1..Len(v)
  BY LenProperties
<1>2. /\ u \o w \in Seq(T) /\ Len(u \o w) = Len(u) + Len(w)
      /\ \A i \in 1..(Len(u) + Len(w)) : (u \o w)[i] = IF i <= Len(u) THEN u[i] ELSE w[i - Len(u)]
  BY ConcatProperties
<1>3. /\ z \in Seq(T) /\ Len(z) = Len(u \o w) + Len(v)
      /\ \A i \in 1..(Len(u \o w) + Len(v)) :
           z[i] = IF i <= Len(u \o w) THEN (u \o w)[i] ELSE v[i - Len(u \o w)]
  BY <1>2, ConcatProperties
<1>4. DOMAIN z = 1..(Len(u) + Len(w) + Len(v)) /\ Len(z) = Len(u) + Len(w) + Len(v)
  BY <1>1, <1>2, <1>3, LenProperties
<1> HIDE DEF z
<1>5. ASSUME NEW i \in Own(z, b)
      PROVE  i \in Nat /\ i - Len(u) \in 1..Len(w) /\ w[i - Len(u)] = z[i] /\ i \in 1..Len(z)
  <2>1. i \in 1..(Len(u) + Len(w) + Len(v)) /\ z[i].buf = b
    BY <1>4 DEF Own
  <2>2. CASE i <= Len(u)
    <3>1. i \in 1..Len(u) /\ z[i] = u[i]
      BY <1>1, <1>2, <1>3, <2>1, <2>2
    <3> QED
      BY <1>1, <2>1, <3>1 DEF Own
  <2>3. CASE ~(i <= Len(u)) /\ i <= Len(u) + Len(w)
    BY <1>1, <1>2, <1>3, <1>4, <2>1, <2>3
  <2>4. CASE ~(i <= Len(u) + Len(w))
    <3>1. i - (Len(u) + Len(w)) \in 1..Len(v) /\ z[i] = v[i - (Len(u) + Len(w))]
      BY <1>1, <1>2, <1>3, <2>1, <2>4
    <3> QED
      BY <1>1, <2>1, <3>1 DEF Own
  <2> QED
    BY <2>2, <2>3, <2>4
<1>6. ASSUME NEW k \in Own(w, b)
      PROVE  k \in Nat /\ k + Len(u) \in Own(z, b) /\ k + Len(u) \in 1..Len(z) /\ k + Len(u) - Len(u) = k
  <2>1. k \in 1..Len(w) /\ w[k].buf = b
    BY <1>1 DEF Own
  <2>2. /\ k + Len(u) \in 1..(Len(u) + Len(w)) /\ ~(k + Len(u) <= Len(u)) /\ k + Len(u) - Len(u) = k
        /\ k + Len(u) \in 1..(Len(u) + Len(w) + Len(v)) /\ k \in Nat
    BY <1>1, <2>1
  <2>3. z[k + Len(u)] = (u \o w)[k + Len(u)] /\ (u \o w)[k + Len(u)] = w[k]
    BY <1>1, <1>2, <1>3, <2>2
  <2> QED
    BY <1>4, <2>1, <2>2, <2>3 DEF Own
<1>7. /\ Own(w, b) \subseteq Nat /\ Own(z, b) \subseteq Nat
      /\ \A i \in Own(z, b) : h[i] \in Own(w, b) /\ w[h[i]].n = z[i].n
  <2>1. ASSUME NEW i \in Own(z, b) PROVE h[i] \in Own(w, b) /\ w[h[i]].n = z[i].n
    BY <1>1, <1>5 DEF Own
  <2> QED
    BY <1>5, <1>6, <2>1
<1>8. \A i, j \in Own(z, b) : i < j => h[i] < h[j]
  BY <1>1, <1>5
<1>9. \A k \in Own(w, b) : \E i \in Own(z, b) : h[i] = k
  BY <1>6
<1> HIDE DEF h
<1>10. Gapless(z, b, last)
  BY <1>7, <1>8, <1>9, SameOwn
<1> QED
  BY <1>10 DEF z

\* Another chunk may be taken out.
LEMMA DroppedGapless ==
  ASSUME NEW T, NEW u \in Seq(T), NEW v \in Seq(T), NEW x \in T, NEW b, NEW last,
         Gapless((u \o <<x>>) \o v, b, last), x.buf # b
  PROVE  Gapless(u \o v, b, last)
PROOF
<1> DEFINE z == u \o v
           y == (u \o <<x>>) \o v
           h == [i \in 1..Len(z) |-> IF i <= Len(u) THEN i ELSE i + 1]
<1>1. Len(u) \in Nat /\ Len(v) \in Nat /\ DOMAIN u = 1..Len(u) /\ DOMAIN v = 1..Len(v)
  BY LenProperties
<1>2. /\ z \in Seq(T) /\ Len(z) = Len(u) + Len(v) /\ DOMAIN z = 1..Len(z)
      /\ \A i \in 1..(Len(u) + Len(v)) : z[i] = IF i <= Len(u) THEN u[i] ELSE v[i - Len(u)]
  BY ConcatProperties, LenProperties
<1>3. /\ u \o <<x>> \in Seq(T) /\ Len(u \o <<x>>) = Len(u) + 1
      /\ \A i \in 1..(Len(u) + 1) : (u \o <<x>>)[i] = IF i <= Len(u) THEN u[i] ELSE x
  <2>1. <<x>> \in Seq(T) /\ Len(<<x>>) = 1 /\ <<x>>[1] = x
    OBVIOUS
  <2>2. /\ u \o <<x>> \in Seq(T) /\ Len(u \o <<x>>) = Len(u) + Len(<<x>>)
        /\ \A i \in 1..(Len(u) + Len(<<x>>)) : (u \o <<x>>)[i] = IF i <= Len(u) THEN u[i] ELSE <<x>>[i - Len(u)]
    BY <2>1, ConcatProperties
  <2>3. \A i \in 1..(Len(u) + 1) : ~(i <= Len(u)) => i - Len(u) = 1
    BY <1>1
  <2> QED
    BY <2>1, <2>2, <2>3
<1>4. /\ y \in Seq(T) /\ Len(y) = Len(u) + 1 + Len(v) /\ DOMAIN y = 1..Len(y)
      /\ \A i \in 1..(Len(u) + 1 + Len(v)) :
           y[i] = IF i <= Len(u) + 1 THEN (u \o <<x>>)[i] ELSE v[i - (Len(u) + 1)]
  BY <1>3, ConcatProperties, LenProperties
<1> HIDE DEF y, z
<1>5. ASSUME NEW i \in 1..(Len(u) + Len(v))
      PROVE  h[i] \in 1..(Len(u) + 1 + Len(v)) /\ y[h[i]] = z[i] /\ h[i] = IF i <= Len(u) THEN i ELSE i + 1
  <2>1. h[i] = IF i <= Len(u) THEN i ELSE i + 1
    BY <1>2
  <2>2. CASE i <= Len(u)
    <3>1. i \in 1..(Len(u) + 1) /\ i <= Len(u) + 1 /\ i \in 1..(Len(u) + 1 + Len(v))
      BY <1>1, <2>2
    <3> HIDE DEF h
    <3> QED
      BY <1>2, <1>3, <1>4, <2>1, <2>2, <3>1
  <2>3. CASE ~(i <= Len(u))
    <3>1. i + 1 \in 1..(Len(u) + 1 + Len(v)) /\ ~(i + 1 <= Len(u) + 1) /\ i + 1 - (Len(u) + 1) = i - Len(u)
      BY <1>1, <2>3
    <3> HIDE DEF h
    <3> QED
      BY <1>2, <1>4, <2>1, <2>3, <3>1
  <2> QED
    BY <2>1, <2>2, <2>3
<1>6. ASSUME NEW k \in Own(y, b) PROVE k \in Nat /\ \E i \in Own(z, b) : h[i] = k
  <2>1. k \in 1..(Len(u) + 1 + Len(v)) /\ y[k].buf = b /\ k \in Nat
    BY <1>1, <1>4 DEF Own
  <2>2. k # Len(u) + 1
    BY <1>1, <1>3, <1>4, <2>1
  <2> DEFINE i == IF k <= Len(u) THEN k ELSE k - 1
  <2>3. i \in 1..(Len(u) + Len(v)) /\ k = IF i <= Len(u) THEN i ELSE i + 1
    BY <1>1, <2>1, <2>2
  <2> HIDE DEF i
  <2>4. h[i] = k /\ z[i] = y[k]
    BY <1>5, <2>3
  <2> QED
    BY <1>2, <2>1, <2>3, <2>4 DEF Own
<1> HIDE DEF h
<1>7. \A i \in Own(z, b) : i \in Nat /\ i \in 1..(Len(u) + Len(v)) /\ z[i].buf = b
  BY <1>1, <1>2 DEF Own
<1>8. \A i \in Own(z, b) : h[i] \in Own(y, b) /\ y[h[i]].n = z[i].n
  BY <1>4, <1>5, <1>7 DEF Own
<1>9. \A i, j \in Own(z, b) : i < j => h[i] < h[j]
  BY <1>1, <1>5, <1>7
<1>10. Gapless(y, b, last)
  BY DEF y
<1>11. Own(y, b) \subseteq Nat /\ Own(z, b) \subseteq Nat /\ \A k \in Own(y, b) : \E i \in Own(z, b) : h[i] = k
  BY <1>6, <1>7
<1>12. Gapless(z, b, last)
  BY <1>8, <1>9, <1>10, <1>11, SameOwn
<1> QED
  BY <1>12 DEF z

\* The next message goes to the end.
LEMMA AddedGapless ==
  ASSUME NEW T, NEW w \in Seq(T), NEW v \in Seq(T), NEW b, NEW last \in Nat, Gapless(w, b, last),
         NEW m \in 1..Len(v), Own(v, b) = {m}, v[m].n = last + 1
  PROVE  Gapless(w \o v, b, last + 1)
PROOF
<1> DEFINE z == w \o v
<1>1. Len(w) \in Nat /\ Len(v) \in Nat /\ DOMAIN w = 1..Len(w) /\ DOMAIN v = 1..Len(v)
  BY LenProperties
<1>2. /\ z \in Seq(T) /\ Len(z) = Len(w) + Len(v) /\ DOMAIN z = 1..Len(z)
      /\ \A i \in 1..(Len(w) + Len(v)) : z[i] = IF i <= Len(w) THEN w[i] ELSE v[i - Len(w)]
  BY ConcatProperties, LenProperties
<1> HIDE DEF z
<1>3. \A i \in Own(w, b) : i \in 1..Len(w) /\ i \in Own(z, b) /\ z[i] = w[i]
  BY <1>1, <1>2 DEF Own
<1>4. ASSUME NEW i \in Own(z, b) PROVE i \in Own(w, b) \/ i = Len(w) + m
  <2>1. i \in 1..(Len(w) + Len(v)) /\ z[i].buf = b
    BY <1>2 DEF Own
  <2>2. CASE i <= Len(w)
    BY <1>1, <1>2, <2>1, <2>2 DEF Own
  <2>3. CASE ~(i <= Len(w))
    <3>1. i - Len(w) \in 1..Len(v) /\ v[i - Len(w)].buf = b
      BY <1>1, <1>2, <2>1, <2>3
    <3>2. i - Len(w) = m
      BY <1>1, <3>1 DEF Own
    <3> QED
      BY <1>1, <2>1, <3>2
  <2> QED
    BY <2>2, <2>3
<1> DEFINE e == Len(w) + m
<1>5. e \in Own(z, b) /\ z[e].n = last + 1 /\ e \in Nat /\ \A i \in Own(w, b) : i < e
  <2>1. e \in 1..(Len(w) + Len(v)) /\ ~(e <= Len(w)) /\ e - Len(w) = m /\ e \in Nat
    BY <1>1
  <2>2. z[e] = v[m] /\ v[m].buf = b
    <3>1. m \in Own(v, b)
      OBVIOUS
    <3> HIDE DEF e
    <3> QED
      BY <1>2, <2>1, <3>1 DEF Own
  <2>3. \A i \in Own(w, b) : i < e
    BY <1>1, <1>3
  <2> HIDE DEF e
  <2> QED
    BY <1>2, <2>1, <2>2, <2>3 DEF Own
<1> HIDE DEF e
<1>6. \A i \in Own(z, b) : i \in Own(w, b) \/ i = e
  BY <1>4 DEF e
<1>7. ASSUME NEW i \in Own(z, b)
      PROVE  \/ z[i].n = last + 1 /\ \A j \in Own(z, b) : j <= i
             \/ \E j \in Own(z, b) : i < j /\ z[j].n = z[i].n + 1 /\ \A k \in Own(z, b) : k <= i \/ j <= k
  <2>1. CASE i = e
    BY <1>1, <1>3, <1>5, <1>6, <2>1
  <2>2. CASE i \in Own(w, b) /\ w[i].n = last /\ \A j \in Own(w, b) : j <= i
    <3>1. i < e /\ z[e].n = z[i].n + 1
      BY <1>3, <1>5, <2>2
    <3>2. \A k \in Own(z, b) : k <= i \/ e <= k
      BY <1>5, <1>6, <2>2
    <3> QED
      BY <1>5, <3>1, <3>2
  <2>3. ASSUME i \in Own(w, b), NEW j \in Own(w, b), i < j, w[j].n = w[i].n + 1,
               \A k \in Own(w, b) : k <= i \/ j <= k
        PROVE  \E jj \in Own(z, b) : i < jj /\ z[jj].n = z[i].n + 1 /\ \A k \in Own(z, b) : k <= i \/ jj <= k
    <3>1. j \in Own(z, b) /\ z[j].n = z[i].n + 1
      BY <1>3, <2>3
    <3>2. j \in Nat /\ j <= e
      BY <1>1, <1>3, <1>5
    <3>3. \A k \in Own(z, b) : k <= i \/ j <= k
      BY <1>6, <2>3, <3>2
    <3> QED
      BY <2>3, <3>1, <3>3
  <2> QED
    BY <1>6, <2>1, <2>2, <2>3 DEF Gapless
<1> QED
  BY <1>7 DEF Gapless, z

\* A set of numbers has a least one.
LEMMA LeastExists ==
  ASSUME NEW S \in SUBSET Nat, S # {}
  PROVE  \E i \in S : \A j \in S : i <= j
PROOF
<1> DEFINE R == {p \in Nat \X Nat : p[1] < p[2]}
<1>1. IsWellFoundedOn(R, Nat)
  BY NatLessThanWellFounded DEF OpToRel
<1>2. PICK i \in S : \A j \in S : ~(<<j, i>> \in R)
  BY <1>1, WFMin
<1>3. \A j \in S : j \in Nat /\ i \in Nat /\ ~(j < i)
  BY <1>2
<1> QED
  BY <1>2, <1>3

\* The sequences that come from the first m of s.
Partial(s, g, m) == g[0] = <<>> /\ \A i \in 1..m : g[i] = g[i - 1] \o s[i]

LEMMA PartialExists ==
  ASSUME NEW T, NEW s \in Seq(Seq(T))
  PROVE  \E g \in [0..Len(s) -> Seq(T)] : Partial(s, g, Len(s))
PROOF
<1>0. Len(s) \in Nat /\ (\A i \in 1..Len(s) : s[i] \in Seq(T)) /\ <<>> \in Seq(T)
  BY LenProperties, ElementOfSeq, EmptySeq
<1> DEFINE Has(m) == \E g \in [0..m -> Seq(T)] : Partial(s, g, m)
           Not == {m \in 0..Len(s) : ~Has(m)}
<1>1. ASSUME Not # {} PROVE FALSE
  <2>1. Not \in SUBSET Nat
    BY <1>0
  <2>2. PICK m \in Not : \A k \in Not : m <= k
    <3> HIDE DEF Not
    <3> QED
      BY <1>1, <2>1, LeastExists
  <2>3. m \in 0..Len(s) /\ m \in Nat
    BY <1>0
  <2>4. CASE m = 0
    <3>1. [i \in 0..m |-> <<>>] \in [0..m -> Seq(T)] /\ Partial(s, [i \in 0..m |-> <<>>], m)
      BY <1>0, <2>4 DEF Partial
    <3> QED
      BY <3>1
  <2>5. CASE m # 0
    <3>a. m - 1 \in 0..Len(s) /\ ~(m <= m - 1)
      BY <1>0, <2>3, <2>5
    <3>b. m - 1 \notin Not
      <4> HIDE DEF Not
      <4> QED
        BY <2>2, <3>a
    <3>1. Has(m - 1)
      BY <3>a, <3>b
    <3>2. PICK g \in [0..(m - 1) -> Seq(T)] : Partial(s, g, m - 1)
      BY <3>1
    <3> DEFINE h == [i \in 0..m |-> IF i = m THEN g[m - 1] \o s[m] ELSE g[i]]
    <3>3. h \in [0..m -> Seq(T)]
      <4>1. g[m - 1] \o s[m] \in Seq(T)
        <5>1. g[m - 1] \in Seq(T) /\ s[m] \in Seq(T)
          BY <1>0, <2>3, <2>5
        <5> QED
          BY <5>1, ConcatProperties
      <4>2. \A i \in 0..m : i # m => i \in 0..(m - 1)
        BY <2>3
      <4> QED
        BY <4>1, <4>2
    <3>4. Partial(s, h, m)
      <4>1. h[0] = <<>>
        BY <2>3, <2>5, <3>2 DEF Partial
      <4>2. ASSUME NEW i \in 1..m PROVE h[i] = h[i - 1] \o s[i]
        <5>1. h[i - 1] = g[i - 1]
          BY <2>3
        <5>2. CASE i = m
          <6>0. m \in 0..m
            BY <2>3
          <6>1. h[m] = g[m - 1] \o s[m]
            BY <6>0
          <6> HIDE DEF h
          <6> QED
            BY <5>1, <5>2, <6>1
        <5>3. CASE i # m
          <6>1. h[i] = g[i] /\ i \in 1..(m - 1)
            BY <2>3, <5>3
          <6> QED
            BY <3>2, <5>1, <6>1 DEF Partial
        <5> QED
          BY <5>2, <5>3
      <4> HIDE DEF h
      <4> QED
        BY <4>1, <4>2 DEF Partial
    <3> HIDE DEF h
    <3> QED
      BY <3>3, <3>4
  <2> QED
    BY <2>4, <2>5
<1>2. Len(s) \in 0..Len(s)
  BY <1>0
<1> QED
  BY <1>1, <1>2

\* FlattenSeq is what comes from all of them.
LEMMA FlattenIsPartial ==
  ASSUME NEW T, NEW p \in Seq(Seq(T)), NEW g, Partial(p, g, Len(p))
  PROVE  FlattenSeq(p) = g[Len(p)]
PROOF
<1> DEFINE n == Len(p)
           F == CHOOSE f : f = [i \in 1..Len(p) |-> IF i = 1 THEN p[i] ELSE f[i - 1] \o p[i]]
           h == [i \in 1..n |-> g[i]]
<1>0. n \in Nat /\ (\A i \in 1..n : p[i] \in Seq(T))
  BY LenProperties, ElementOfSeq
<1>1. CASE n = 0
  <2>1. FlattenSeq(p) = p /\ p = <<>>
    BY <1>1, EmptySeq DEF FlattenSeq
  <2> QED
    BY <1>1, <2>1 DEF Partial
<1>2. CASE n # 0
  <2>1. FlattenSeq(p) = F[n]
    BY <1>2 DEF FlattenSeq
  <2>2. \A i \in 1..n : g[i] = IF i = 1 THEN p[i] ELSE g[i - 1] \o p[i]
    <3>1. ASSUME 1 \in 1..n PROVE g[1] = p[1]
      <4>1. g[1] = g[0] \o p[1] /\ g[0] = <<>> /\ p[1] \in Seq(T)
        <5>1. g[1] = g[1 - 1] \o p[1] /\ g[0] = <<>>
          BY <3>1 DEF Partial
        <5>2. 1 - 1 = 0
          OBVIOUS
        <5> QED
          BY <1>0, <3>1, <5>1, <5>2
      <4> QED
        BY <4>1, ConcatEmptySeq
    <3> QED
      BY <1>0, <3>1 DEF Partial
  <2>3. h = [i \in 1..n |-> IF i = 1 THEN p[i] ELSE h[i - 1] \o p[i]]
    <3>1. ASSUME NEW i \in 1..n PROVE h[i] = IF i = 1 THEN p[i] ELSE h[i - 1] \o p[i]
      BY <1>0, <2>2
    <3> QED
      BY <3>1
  <2>4. F = [i \in 1..n |-> IF i = 1 THEN p[i] ELSE F[i - 1] \o p[i]]
    <3> HIDE DEF h
    <3> QED
      BY <2>3
  <2> HIDE DEF F, h
  <2>5. \A i \in 1..n : F[i] = IF i = 1 THEN p[i] ELSE F[i - 1] \o p[i]
    BY <2>4
  <2> DEFINE Bad == {i \in 1..n : F[i] # g[i]}
  <2>6. ASSUME Bad # {} PROVE FALSE
    <3>1. Bad \in SUBSET Nat
      BY <1>0
    <3>2. PICK i \in Bad : \A k \in Bad : i <= k
      <4> HIDE DEF Bad
      <4> QED
        BY <2>6, <3>1, LeastExists
    <3>3. i # 1
      BY <2>2, <2>5, <3>2
    <3>4. i - 1 \in 1..n /\ i - 1 \notin Bad
      <4>1. i \in 1..n
        OBVIOUS
      <4>2. i - 1 \in 1..n /\ ~(i <= i - 1)
        BY <1>0, <3>3, <4>1
      <4> HIDE DEF Bad
      <4> QED
        BY <3>2, <4>2
    <3>5. i \in 1..n /\ F[i] # g[i] /\ F[i - 1] = g[i - 1]
      BY <3>2, <3>4
    <3>6. F[i] = F[i - 1] \o p[i] /\ g[i] = g[i - 1] \o p[i]
      BY <2>2, <2>5, <3>3, <3>5
    <3> QED
      BY <3>5, <3>6
  <2> QED
    BY <1>0, <1>2, <2>1, <2>6
<1> QED
  BY <1>1, <1>2

---------------------------------------------------------------------------
(* The logs of the servers and the streams.                                *)

Chunk   == [buf : Buffers \cup {NoBuffer}, n : Nat]
CallRec == [to : Streams \cup {File}, log : Message]

LogTypes ==
  /\ logs \in [Buffers -> Seq(States)]
  /\ ears \in [Buffers -> Seq(Streams \cup {File})]
  /\ phase \in [Buffers -> {"out", "up", "leaving"}]
  /\ enters \in [Buffers -> Nat]
  /\ calls \in Seq(CallRec)
  /\ handlers \in [Names -> Nat]
  /\ DOMAIN file = Buffers /\ \A b \in Buffers : file[b] \in [AllLogs(b) -> Nat]
  /\ st \in [Streams -> Handler]
  /\ queue \in [Streams -> Seq(Chunk)] /\ got \in [Streams -> Seq(Chunk)]

\* Who listens: the file while the buffer is registered, a stream while it waits; nobody twice.
EarsTell == \A b \in Buffers :
  /\ Once(ears[b])
  /\ File \in Range(ears[b]) <=> phase[b] # "out"
  /\ \A s \in Streams : s \in Range(ears[b]) => st[s].pc = "listen"

\* A task is of a log that was pushed, and of a stream that did listen.
Heeds(s) == st[s].pc \in {"listen", "over"}
CallsTell == \A i \in DOMAIN calls :
  /\ calls[i].log.n \in 1..Len(logs[calls[i].log.buf])
  /\ calls[i].to # File => Heeds(calls[i].to)

\* What was sent to the client or will be; before a stream listens it is no log.
Sent(s) == Range(got[s]) \cup Range(queue[s])
ChunksTell(s) == \A c \in Sent(s) : c.buf # NoBuffer => c.n \in 1..Len(logs[c.buf]) /\ Heeds(s)

\* What a stream has reached stands in a log that it has sent.
Brought(m, s, chunks) ==
  \E c \in chunks : c.buf \in Buffers /\ NameOf[c.buf] = m /\ logs[c.buf][c.n] \in st[s].until
ReachedTell(s) ==
  /\ \A m \in st[s].reached : Brought(m, s, Sent(s))
  /\ st[s].ended => st[s].names \subseteq st[s].reached /\ Heeds(s)

\* Where a stream stands, and why it is over.
Unasked(s) == got[s] = <<>> /\ Range(queue[s]) \subseteq {End}
Silent(s) == st[s].retries = 0 /\ Unasked(s) /\ \A i \in DOMAIN calls : calls[i].to # s
PlaceTells(s) ==
  /\ st[s].pc = "idle" => st[s].reached = {}
  /\ st[s].pc = "idle" \/ (st[s].pc = "try" /\ st[s].retries = 0) => Unasked(s)
  /\ st[s].pc = "sleep" => st[s].retries > 0
  /\ st[s].pc = "over" => Silent(s) \/ Error \in Sent(s) \/ st[s].names \subseteq st[s].reached

\* A response that has ended gave its reason.
ReasonTold(s) == st[s].gen = "over" =>
  /\ st[s].pc = "over"
  /\ \/ st[s].retries = 0 /\ got[s] = <<>>
     \/ Error \in Range(got[s])
     \/ \A m \in st[s].names : Brought(m, s, Range(got[s]))

\* No gap in what a stream gets of a buffer to which it listens.
WithoutGap(s) == \A b \in Buffers : s \in Range(ears[b]) => Gapless(Way(s), b, Len(logs[b]))

StreamInv(s) == ChunksTell(s) /\ ReachedTell(s) /\ PlaceTells(s) /\ ReasonTold(s) /\ WithoutGap(s)

\* A buffer gets logs while it is registered, each goes to the file.
Entered == \A b \in Buffers :
  /\ phase[b] # "out" \/ logs[b] # <<>> => enters[b] > 0
  /\ enters[b] > 0 => handlers[NameOf[b]] > 0
  /\ Len(logs[b]) + (IF phase[b] = "up" THEN 1 ELSE 0) <= MaxLogs[b] + enters[b]
  /\ enters[b] <= MaxEnters[b]
InFile == \A b \in Buffers : \A n \in 1..Len(logs[b]) :
  \/ file[b][n] > 0
  \/ \E i \in DOMAIN calls : calls[i].to = File /\ calls[i].log = [buf |-> b, n |-> n]

LogInv == LogTypes /\ EarsTell /\ CallsTell /\ Entered /\ InFile /\ \A s \in Streams : StreamInv(s)

\* A replay is without a gap.
LEMMA ReplayGapless ==
  ASSUME LogTypes, NEW b \in Buffers
  PROVE  /\ Replay(b) \in Seq(Chunk) /\ Gapless(Replay(b), b, Len(logs[b]))
         /\ \A i \in DOMAIN Replay(b) : Replay(b)[i].buf = b /\ Replay(b)[i].n \in 1..Len(logs[b])
PROOF
<1> DEFINE l == Len(logs[b])
           g == Gone(b)
           r == Replay(b)
<1>1. l \in Nat /\ g \in Nat /\ g <= l
  BY SizeAssumption, LenProperties DEF LogTypes, Gone
<1> HIDE DEF g
<1>2. r = [i \in 1..(l - g) |-> [buf |-> b, n |-> g + i]]
  BY DEF Replay, g
<1> HIDE DEF r, l
<1> DEFINE m == l - g
<1>3. m \in Nat /\ l = g + m /\ \A i \in 1..m : i \in Nat /\ g + i \in Nat /\ g + i \in 1..l
  BY <1>1
<1>r. r = [i \in 1..m |-> [buf |-> b, n |-> g + i]]
  BY <1>2
<1> HIDE DEF m
<1>c. \A i \in 1..m : r[i].buf = b /\ r[i].n = g + i /\ r[i] \in Chunk
  BY <1>3, <1>r DEF Chunk
<1>4. r \in Seq(Chunk) /\ DOMAIN r = 1..m /\ Own(r, b) = 1..m
  <2>1. r \in [1..m -> Chunk]
    BY <1>r, <1>c
  <2>2. r \in Seq(Chunk)
    BY <1>3, <2>1
  <2>3. DOMAIN r = 1..m
    BY <1>r
  <2> QED
    BY <1>c, <2>2, <2>3 DEF Own
<1>5. ASSUME NEW i \in 1..m
      PROVE  \/ r[i].n = l /\ \A j \in 1..m : j <= i
             \/ \E j \in 1..m : i < j /\ r[j].n = r[i].n + 1 /\ \A k \in 1..m : k <= i \/ j <= k
  <2>1. CASE i = m
    <3>1. r[i].n = l
      BY <1>3, <1>c, <2>1
    <3>2. \A j \in 1..m : j <= i
      BY <1>3, <2>1
    <3> QED
      BY <3>1, <3>2
  <2>2. CASE i # m
    <3>1. i + 1 \in 1..m /\ i < i + 1 /\ g + (i + 1) = g + i + 1
      BY <1>1, <1>3, <2>2
    <3>2. \A k \in 1..m : k <= i \/ i + 1 <= k
      BY <1>3
    <3>3. r[i + 1].n = r[i].n + 1
      BY <1>c, <3>1
    <3> QED
      BY <3>1, <3>2, <3>3
  <2> QED
    BY <2>1, <2>2
<1>6. Gapless(r, b, l)
  BY <1>4, <1>5 DEF Gapless
<1>7. \A i \in DOMAIN r : r[i].buf = b /\ r[i].n \in 1..l
  BY <1>3, <1>4, <1>c
<1> QED
  BY <1>4, <1>6, <1>7 DEF r, l

\* What stands in two sequences one after the other.
LEMMA RangeOfBoth ==
  ASSUME NEW T, NEW u \in Seq(T), NEW v \in Seq(T)
  PROVE  u \o v \in Seq(T) /\ Range(u \o v) = Range(u) \cup Range(v)
PROOF
  BY ConcatProperties, RangeConcatenation

\* Nothing of a buffer, and nothing at all.
LEMMA NothingOwn ==
  /\ \A w, b : Own(w, b) = {} <=> \A c \in Range(w) : c.buf # b
  /\ <<>> \in Seq(Chunk) /\ Range(<<>>) = {} /\ \A b : Own(<<>>, b) = {}
PROOF
  BY DEF Own, Range

\* The replays of some buffers, one after the other, have no gap for any of them.
LEMMA ReplaysTell ==
  ASSUME LogTypes, NEW order \in Seq(Buffers), Once(order)
  PROVE  LET msgs == FlattenSeq([i \in 1..Len(order) |-> Replay(order[i])])
         IN /\ msgs \in Seq(Chunk)
            /\ \A c \in Range(msgs) : c.buf \in Buffers /\ c.n \in 1..Len(logs[c.buf])
            /\ \A b \in Range(order) : Gapless(msgs, b, Len(logs[b]))
PROOF
<1> DEFINE p == [i \in 1..Len(order) |-> Replay(order[i])]
           n == Len(order)
<1>1. n \in Nat /\ DOMAIN order = 1..n /\ \A i \in 1..n : order[i] \in Buffers
  BY LenProperties, ElementOfSeq
<1>2. \A i \in 1..n : p[i] = Replay(order[i]) /\ p[i] \in Seq(Chunk)
  BY <1>1, ReplayGapless
<1>3. p \in Seq(Seq(Chunk)) /\ Len(p) = n
  <2>1. p \in [1..n -> Seq(Chunk)]
    BY <1>2
  <2> HIDE DEF p
  <2>2. p \in Seq(Seq(Chunk))
    BY <1>1, <2>1
  <2>3. Len(p) = n
    BY <1>1, <2>1, <2>2, LenProperties
  <2> QED
    BY <2>2, <2>3
<1> HIDE DEF p, n
<1>4. PICK g \in [0..n -> Seq(Chunk)] : Partial(p, g, n)
  BY <1>3, PartialExists
<1>5. FlattenSeq(p) = g[n]
  BY <1>3, <1>4, FlattenIsPartial
<1> DEFINE Good(k) == /\ \A c \in Range(g[k]) : c.buf \in Buffers /\ c.n \in 1..Len(logs[c.buf])
                      /\ \A b \in Buffers : (\A i \in 1..k : order[i] # b) => Own(g[k], b) = {}
                      /\ \A b \in Buffers : (\E i \in 1..k : order[i] = b) => Gapless(g[k], b, Len(logs[b]))
           Bad == {k \in 0..n : ~Good(k)}
<1> HIDE DEF Good
<1>6. ASSUME Bad # {} PROVE FALSE
  <2>1. Bad \in SUBSET Nat
    BY <1>1
  <2>2. PICK k \in Bad : \A m \in Bad : k <= m
    <3> HIDE DEF Bad
    <3> QED
      BY <1>6, <2>1, LeastExists
  <2>3. k \in 0..n /\ k \in Nat /\ ~Good(k)
    BY <1>1
  <2>4. Good(0)
    <3>1. g[0] = <<>>
      BY <1>4 DEF Partial
    <3> QED
      BY <3>1, NothingOwn DEF Good
  <2>5. k # 0
    BY <2>3, <2>4
  <2>6. k - 1 \in 0..n /\ ~(k <= k - 1) /\ k \in 1..n
    BY <1>1, <2>3, <2>5
  <2>7. Good(k - 1)
    <3>1. k - 1 \notin Bad
      <4> HIDE DEF Bad
      <4> QED
        BY <2>2, <2>6
    <3> QED
      BY <2>6, <3>1
  <2> DEFINE u == g[k - 1]
             a == order[k]
             v == Replay(order[k])
  <2>8. /\ g[k] = u \o v /\ u \in Seq(Chunk) /\ v \in Seq(Chunk) /\ a \in Buffers
        /\ Gapless(v, a, Len(logs[a]))
        /\ \A c \in Range(v) : c.buf = a /\ c.n \in 1..Len(logs[a])
    <3>1. g[k] = u \o v
      BY <1>2, <1>4, <2>6 DEF Partial
    <3>2. u \in Seq(Chunk) /\ a \in Buffers
      BY <1>1, <1>4, <2>6
    <3> QED
      BY <3>1, <3>2, ReplayGapless DEF Range
  <2>9. /\ \A c \in Range(u) : c.buf \in Buffers /\ c.n \in 1..Len(logs[c.buf])
        /\ \A b \in Buffers : (\A i \in 1..(k - 1) : order[i] # b) => Own(u, b) = {}
        /\ \A b \in Buffers : (\E i \in 1..(k - 1) : order[i] = b) => Gapless(u, b, Len(logs[b]))
    BY <2>7 DEF Good
  <2>10. \A i \in 1..(k - 1) : i \in 1..k /\ order[i] # a
    <3>1. ASSUME NEW i \in 1..(k - 1) PROVE i \in 1..k /\ i \in 1..n /\ i # k
      BY <1>1, <2>6
    <3>2. k \in DOMAIN order /\ \A i \in 1..n : i \in DOMAIN order
      BY <1>1, <2>6
    <3> QED
      BY <3>1, <3>2 DEF Once
  <2>11. \A i \in 1..k : i \in 1..(k - 1) \/ i = k
    BY <2>6
  <2> HIDE DEF u, v, Bad
  <2>12. Range(g[k]) = Range(u) \cup Range(v)
    BY <2>8, RangeOfBoth
  <2>13. \A c \in Range(g[k]) : c.buf \in Buffers /\ c.n \in 1..Len(logs[c.buf])
    BY <2>8, <2>9, <2>12
  <2>14. ASSUME NEW b \in Buffers, \A i \in 1..k : order[i] # b PROVE Own(g[k], b) = {}
    <3>1. Own(u, b) = {} /\ b # a
      BY <2>6, <2>9, <2>10, <2>14
    <3> QED
      BY <2>8, <2>12, <3>1, NothingOwn
  <2>15. ASSUME NEW b \in Buffers, NEW i \in 1..k, order[i] = b PROVE Gapless(g[k], b, Len(logs[b]))
    <3>1. CASE b = a
      <4>1. Own(u, b) = {}
        BY <2>9, <2>10, <3>1
      <4>2. Gapless((u \o v) \o <<>>, b, Len(logs[b]))
        BY <2>8, <3>1, <4>1, PaddedGapless, NothingOwn
      <4>3. (u \o v) \o <<>> = u \o v
        <5>1. u \o v \in Seq(Chunk)
          BY <2>8, RangeOfBoth
        <5> QED
          BY <5>1, ConcatEmptySeq
      <4> QED
        BY <2>8, <4>2, <4>3
    <3>2. CASE b # a
      <4>1. Gapless(u, b, Len(logs[b])) /\ Own(v, b) = {}
        BY <2>8, <2>9, <2>11, <2>15, <3>2, NothingOwn
      <4>2. Gapless((<<>> \o u) \o v, b, Len(logs[b]))
        BY <2>8, <4>1, PaddedGapless, NothingOwn
      <4>3. <<>> \o u = u
        BY <2>8, ConcatEmptySeq
      <4> QED
        BY <2>8, <4>2, <4>3
    <3> QED
      BY <3>1, <3>2
  <2>16. Good(k)
    BY <2>13, <2>14, <2>15 DEF Good
  <2> QED
    BY <2>3, <2>16
<1>7. Good(n)
  <2>1. n \in 0..n /\ n \notin Bad
    <3> HIDE DEF Bad
    <3> QED
      BY <1>1, <1>6
  <2> QED
    BY <2>1
<1>8. FlattenSeq(p) \in Seq(Chunk) /\ \A b \in Range(order) : Gapless(g[n], b, Len(logs[b]))
  <2>1. g[n] \in Seq(Chunk) /\ \A i \in 1..n : Gapless(g[n], order[i], Len(logs[order[i]]))
    <3>1. n \in Nat /\ g[n] \in Seq(Chunk)
      BY <1>1, <1>4
    <3>2. \A b \in Buffers : (\E i \in 1..n : order[i] = b) => Gapless(g[n], b, Len(logs[b]))
      BY <1>7 DEF Good
    <3> QED
      BY <1>1, <3>1, <3>2
  <2>2. FlattenSeq(p) \in Seq(Chunk)
    <3> QED
      BY <2>1, <1>5
  <2>3. ASSUME NEW b \in Range(order) PROVE \E i \in 1..n : b = order[i]
    BY <1>1 DEF Range
  <2>4. ASSUME NEW b \in Range(order) PROVE Gapless(g[n], b, Len(logs[b]))
    BY <2>1, <2>3
  <2> QED
    BY <2>2, <2>4
<1> QED
  BY <1>5, <1>7, <1>8 DEF p, n, Good

\* A stream notices nothing of what is not its own.
LEMMA StreamStays ==
  ASSUME LogTypes, NEW t \in Streams, StreamInv(t), logs' = logs, calls' = calls,
         st'[t] = st[t], queue'[t] = queue[t], got'[t] = got[t],
         \A b \in Buffers : t \in Range(ears'[b]) => t \in Range(ears[b])
  PROVE  StreamInv(t)'
PROOF
<1>1. Sent(t)' = Sent(t) /\ Way(t)' = Way(t) /\ Heeds(t)' = Heeds(t)
  BY DEF Sent, Way, Heeds
<1>2. ChunksTell(t)'
  BY <1>1 DEF ChunksTell, StreamInv
<1>3. ReachedTell(t)'
  BY <1>1 DEF ReachedTell, StreamInv, Brought
<1>4. PlaceTells(t)'
  BY <1>1 DEF PlaceTells, StreamInv, Unasked, Silent
<1>5. ReasonTold(t)'
  BY <1>1 DEF ReasonTold, StreamInv, Brought
<1>6. WithoutGap(t)'
  BY <1>1 DEF WithoutGap, StreamInv
<1> QED
  BY <1>2, <1>3, <1>4, <1>5, <1>6 DEF StreamInv

\* A step of one stream.
LEMMA StreamStep ==
  ASSUME LogInv, NEW s \in Streams, LogTypes', UNCHANGED <<server, calls, file>>,
         \A t \in Streams : t # s => st'[t] = st[t] /\ queue'[t] = queue[t] /\ got'[t] = got[t],
         \A b \in Buffers : Once(ears'[b]),
         \A b \in Buffers : \A x : x # s => (x \in Range(ears'[b]) <=> x \in Range(ears[b])),
         \A b \in Buffers : s \in Range(ears'[b]) => st'[s].pc = "listen",
         Heeds(s) => Heeds(s)', StreamInv(s)'
  PROVE  LogInv'
PROOF
<1>0. /\ LogTypes /\ EarsTell /\ CallsTell /\ Entered /\ InFile /\ \A t \in Streams : StreamInv(t)
      /\ logs' = logs /\ phase' = phase /\ enters' = enters /\ handlers' = handlers /\ calls' = calls /\ file' = file
  BY DEF LogInv, server
<1>1. ASSUME NEW t \in Streams PROVE StreamInv(t)'
  <2>1. CASE t # s
    BY <1>0, <2>1, StreamStays
  <2> QED
    BY <2>1
<1>2. EarsTell'
  BY <1>0, FileAssumption DEF EarsTell
<1>3. CallsTell'
  <2>1. ASSUME NEW i \in DOMAIN calls, calls[i].to # File PROVE Heeds(calls[i].to)'
    <3>1. calls[i].to \in Streams
      <4>1. calls[i] \in CallRec
        BY <1>0, <2>1, ElementOfSeq, LenProperties DEF LogTypes
      <4> QED
        BY <2>1, <4>1 DEF CallRec
    <3>2. CASE calls[i].to = s
      BY <1>0, <2>1, <3>2 DEF CallsTell
    <3>3. CASE calls[i].to # s
      BY <1>0, <2>1, <3>1, <3>3 DEF CallsTell, Heeds
    <3> QED
      BY <3>2, <3>3
  <2> QED
    BY <1>0, <2>1 DEF CallsTell
<1>4. Entered'
  BY <1>0 DEF Entered
<1>5. InFile'
  BY <1>0 DEF InFile
<1> QED
  BY <1>1, <1>2, <1>3, <1>4, <1>5 DEF LogInv

\* A stream that does not listen yet has got nothing of a buffer, and has no task.
LEMMA BeforeListening ==
  ASSUME LogInv, NEW s \in Streams, ~Heeds(s)
  PROVE  /\ \A b \in Buffers : s \notin Range(ears[b])
         /\ \A i \in DOMAIN calls : calls[i].to # s
         /\ \A c \in Sent(s) : c.buf = NoBuffer
         /\ st[s].ended = FALSE /\ st[s].gen # "over"
PROOF
<1>1. EarsTell /\ CallsTell /\ StreamInv(s) /\ LogTypes /\ st[s].ended \in BOOLEAN
  BY DEF LogInv, LogTypes, Handler
<1>2. \A b \in Buffers : s \notin Range(ears[b])
  BY <1>1 DEF EarsTell, Heeds
<1>3. \A i \in DOMAIN calls : calls[i].to # s
  BY <1>1, FileAssumption DEF CallsTell
<1>4. \A c \in Sent(s) : c.buf = NoBuffer
  BY <1>1 DEF StreamInv, ChunksTell
<1>5. st[s].ended = FALSE /\ st[s].gen # "over"
  BY <1>1 DEF StreamInv, ReachedTell, ReasonTold, Heeds
<1> QED
  BY <1>2, <1>3, <1>4, <1>5

LEMMA PostKeeps ==
  ASSUME LogInv, NEW s \in Streams, Post(s)
  PROVE  LogInv'
PROOF
<1>0. LogTypes /\ EarsTell /\ StreamInv(s) /\ st[s].pc = "idle" /\ ~Heeds(s) /\ {0, MaxRetries} \subseteq 0..MaxRetries
  BY SizeAssumption DEF LogInv, Post, Heeds
<1>1. PICK names \in SUBSET Names, until \in Untils, stp \in BOOLEAN, tries \in {0, MaxRetries} :
        st' = [st EXCEPT ![s] = [pc |-> "try", names |-> names, until |-> {until, "CLOSED", "FAILED"}, stop |-> stp,
                                 retries |-> tries, reached |-> {}, ended |-> FALSE, gen |-> "open"]]
  BY DEF Post
<1>2. UNCHANGED <<server, ears, calls, file, queue, got>>
  BY DEF Post
<1>3. /\ st'[s].pc = "try" /\ st'[s].retries = tries /\ st'[s].reached = {} /\ st'[s].ended = FALSE
      /\ st'[s].gen = "open" /\ st' \in [Streams -> Handler] /\ \A t \in Streams : t # s => st'[t] = st[t]
  <2>1. {until, "CLOSED", "FAILED"} \in SUBSET States
    BY UntilsAssumption DEF States
  <2> DEFINE new == [pc |-> "try", names |-> names, until |-> {until, "CLOSED", "FAILED"}, stop |-> stp,
                     retries |-> tries, reached |-> {}, ended |-> FALSE, gen |-> "open"]
  <2>2. new \in Handler /\ new.pc = "try" /\ new.retries = tries /\ new.reached = {} /\ new.ended = FALSE /\ new.gen = "open"
    BY <1>0, <2>1 DEF Handler
  <2>3. st' = [st EXCEPT ![s] = new]
    BY <1>1
  <2> HIDE DEF new
  <2> QED
    BY <1>0, <2>2, <2>3 DEF LogTypes
<1>4. LogTypes'
  BY <1>0, <1>2, <1>3 DEF LogTypes, server
<1>5. Sent(s)' = Sent(s) /\ ~Heeds(s)'
  BY <1>2, <1>3 DEF Sent, Heeds
<1>6. StreamInv(s)'
  <2>1. ChunksTell(s)'
    BY <1>0, <1>5, BeforeListening DEF ChunksTell
  <2>2. ReachedTell(s)'
    BY <1>0, <1>3, BeforeListening DEF ReachedTell, PlaceTells, StreamInv
  <2>3. PlaceTells(s)'
    BY <1>0, <1>2, <1>3 DEF PlaceTells, StreamInv, Unasked
  <2>4. ReasonTold(s)'
    BY <1>3 DEF ReasonTold
  <2>5. WithoutGap(s)'
    BY <1>0, <1>2, BeforeListening DEF WithoutGap
  <2> QED
    BY <2>1, <2>2, <2>3, <2>4, <2>5 DEF StreamInv
<1>7. \A b \in Buffers : Once(ears'[b]) /\ s \notin Range(ears'[b])
  BY <1>0, <1>2, BeforeListening DEF EarsTell
<1> QED
  BY <1>0, <1>2, <1>3, <1>4, <1>6, <1>7, StreamStep DEF Heeds

\* The fields of a stream.
LEMMA HandlerFields ==
  ASSUME LogTypes, NEW s \in Streams
  PROVE  /\ st[s].pc \in {"idle", "try", "listen", "sleep", "over"} /\ st[s].names \in SUBSET Names
         /\ st[s].until \in SUBSET States /\ st[s].stop \in BOOLEAN
         /\ st[s].retries \in Nat /\ st[s].retries <= MaxRetries /\ MaxRetries \in Nat
         /\ st[s].reached \in SUBSET Names /\ st[s].ended \in BOOLEAN
         /\ st[s].gen \in {"none", "open", "over", "gone"}
         /\ queue[s] \in Seq(Chunk) /\ got[s] \in Seq(Chunk)
PROOF
  BY SizeAssumption DEF LogTypes, Handler

LEMMA ChunkKinds == Error \in Chunk /\ End \in Chunk /\ Error # End /\ Error.buf = NoBuffer /\ End.buf = NoBuffer
                    /\ Message \subseteq Chunk /\ \A c \in Message : c.buf \in Buffers /\ c.n \in Nat /\ c # End /\ c # Error
PROOF
  BY FileAssumption DEF Error, End, Chunk, Message

\* What the queue holds after its end was put.
LEMMA EndingHolds ==
  ASSUME NEW s \in Streams, queue[s] \in Seq(Chunk), NEW chunks \in Seq(Chunk)
  PROVE  /\ Ending(s, chunks) \in Seq(Chunk) /\ Range(Ending(s, chunks)) = Range(queue[s]) \cup Range(chunks) \cup {End}
PROOF
<1> DEFINE e == <<End>>
           u == queue[s] \o chunks
<1>1. e \in Seq(Chunk) /\ Range(e) = {End}
  <2>1. DOMAIN <<End>> = {1} /\ <<End>>[1] = End
    OBVIOUS
  <2> QED
    BY <2>1, ChunkKinds DEF Range
<1>2. u \in Seq(Chunk) /\ Range(u) = Range(queue[s]) \cup Range(chunks)
  BY RangeOfBoth
<1>3. Ending(s, chunks) = u \o e
  BY DEF Ending
<1> HIDE DEF e, u
<1>4. u \o e \in Seq(Chunk) /\ Range(u \o e) = Range(u) \cup Range(e)
  BY <1>1, <1>2, RangeOfBoth
<1> QED
  BY <1>1, <1>2, <1>3, <1>4

\* A chunk more.
LEMMA AppendedHolds ==
  ASSUME NEW w \in Seq(Chunk), NEW c \in Chunk
  PROVE  Append(w, c) = w \o <<c>> /\ Append(w, c) \in Seq(Chunk) /\ Range(Append(w, c)) = Range(w) \cup {c}
PROOF
<1> DEFINE e == <<c>>
<1>1. e \in Seq(Chunk) /\ Range(e) = {c}
  <2>1. DOMAIN <<c>> = {1} /\ <<c>>[1] = c
    OBVIOUS
  <2> QED
    BY <2>1 DEF Range
<1>2. Append(w, c) = w \o e
  BY AppendIsConcat
<1> HIDE DEF e
<1>3. w \o e \in Seq(Chunk) /\ Range(w \o e) = Range(w) \cup Range(e)
  BY <1>1, RangeOfBoth
<1>4. Append(w, c) \in Seq(Chunk) /\ Range(Append(w, c)) = Range(w) \cup {c}
  BY <1>1, <1>2, <1>3
<1> QED
  BY <1>2, <1>4 DEF e

\* The next place of a stream.
LEMMA PlaceSet ==
  ASSUME LogTypes, NEW s \in Streams, NEW pc \in {"idle", "try", "listen", "sleep", "over"},
         st' = [st EXCEPT ![s].pc = pc]
  PROVE  /\ st'[s].pc = pc /\ st'[s].retries = st[s].retries /\ st'[s].reached = st[s].reached
         /\ st'[s].ended = st[s].ended /\ st'[s].gen = st[s].gen /\ st'[s].until = st[s].until
         /\ st'[s].names = st[s].names /\ \A t \in Streams : t # s => st'[t] = st[t]
         /\ st' \in [Streams -> Handler]
PROOF
<1>1. st \in [Streams -> Handler] /\ st[s] \in Handler
  BY DEF LogTypes
<1> DEFINE h == [st[s] EXCEPT !.pc = pc]
<1>2. /\ h.pc = pc /\ h.retries = st[s].retries /\ h.reached = st[s].reached
      /\ h.ended = st[s].ended /\ h.gen = st[s].gen /\ h.until = st[s].until
      /\ h.names = st[s].names /\ h \in Handler
  BY <1>1 DEF Handler
<1>3. st' = [st EXCEPT ![s] = h]
  BY <1>1
<1> HIDE DEF h
<1> QED
  BY <1>1, <1>2, <1>3

\* A failed try.
LEMMA NotFoundKeeps ==
  ASSUME LogInv, NEW s \in Streams, NotFound(s)
  PROVE  LogInv'
PROOF
<1> DEFINE pc == IF LastTry(s) THEN "over" ELSE "sleep"
<1>0. /\ LogTypes /\ EarsTell /\ StreamInv(s) /\ st[s].pc = "try" /\ ~Heeds(s) /\ st[s].retries > 0
      /\ st[s].retries \in Nat /\ st[s].retries <= MaxRetries /\ MaxRetries \in Nat
      /\ queue[s] \in Seq(Chunk) /\ got[s] \in Seq(Chunk)
  BY HandlerFields DEF LogInv, NotFound, Heeds
<1>1. /\ st' = [st EXCEPT ![s].pc = pc, ![s].retries = @ - 1, ![s].reached = {}]
      /\ queue' = [queue EXCEPT ![s] = IF LastTry(s) THEN Ending(s, <<Error>>) ELSE Append(@, Error)]
      /\ UNCHANGED <<server, ears, calls, file, got>>
  BY DEF NotFound
<1>2. /\ pc \in {"over", "sleep"} /\ (pc = "sleep" => st[s].retries - 1 > 0)
      /\ st[s].retries - 1 \in 0..MaxRetries
  BY <1>0 DEF LastTry
<1> HIDE DEF pc
<1>3. /\ st'[s].pc = pc /\ st'[s].retries = st[s].retries - 1 /\ st'[s].reached = {} /\ st'[s].ended = st[s].ended
      /\ st'[s].gen = st[s].gen /\ \A t \in Streams : t # s => st'[t] = st[t]
      /\ st' \in [Streams -> Handler]
  <2> DEFINE h == [st[s] EXCEPT !.pc = pc, !.retries = @ - 1, !.reached = {}]
  <2>1. st \in [Streams -> Handler] /\ st[s] \in Handler
    BY <1>0 DEF LogTypes
  <2>2. /\ h.pc = pc /\ h.retries = st[s].retries - 1 /\ h.reached = {} /\ h.ended = st[s].ended
        /\ h.gen = st[s].gen /\ h \in Handler
    BY <1>2, <2>1 DEF Handler
  <2>3. st' = [st EXCEPT ![s] = h]
    BY <1>1, <2>1
  <2> HIDE DEF h
  <2> QED
    BY <2>1, <2>2, <2>3
<1>4. /\ queue'[s] \in Seq(Chunk) /\ queue' \in [Streams -> Seq(Chunk)]
      /\ Error \in Range(queue'[s]) /\ Range(queue'[s]) \subseteq Range(queue[s]) \cup {Error, End}
      /\ \A t \in Streams : t # s => queue'[t] = queue[t]
  <2>1. <<Error>> \in Seq(Chunk) /\ Range(<<Error>>) = {Error}
    <3>1. DOMAIN <<Error>> = {1} /\ <<Error>>[1] = Error
      OBVIOUS
    <3> QED
      BY <3>1, ChunkKinds DEF Range
  <2>2. /\ Ending(s, <<Error>>) \in Seq(Chunk) /\ Range(Ending(s, <<Error>>)) = Range(queue[s]) \cup {Error} \cup {End}
    BY <1>0, <2>1, EndingHolds
  <2>3. Append(queue[s], Error) \in Seq(Chunk) /\ Range(Append(queue[s], Error)) = Range(queue[s]) \cup {Error}
    BY <1>0, ChunkKinds, AppendedHolds
  <2>4. queue \in [Streams -> Seq(Chunk)] /\ queue'[s] \in {Ending(s, <<Error>>), Append(queue[s], Error)}
        /\ \A t \in Streams : t # s => queue'[t] = queue[t]
    BY <1>0, <1>1 DEF LogTypes
  <2>5. queue' \in [Streams -> Seq(Chunk)]
    BY <1>1, <2>2, <2>3, <2>4
  <2> QED
    BY <2>2, <2>3, <2>4, <2>5
<1>5. LogTypes'
  BY <1>0, <1>1, <1>3, <1>4 DEF LogTypes, server
<1>6. Sent(s)' \subseteq Sent(s) \cup {Error, End} /\ Error \in Sent(s)'
  BY <1>1, <1>4 DEF Sent
<1>7. StreamInv(s)'
  <2>1. ChunksTell(s)'
    BY <1>0, <1>6, BeforeListening, ChunkKinds DEF ChunksTell
  <2>2. ReachedTell(s)'
    BY <1>0, <1>3, BeforeListening DEF ReachedTell
  <2>3. PlaceTells(s)'
    BY <1>0, <1>2, <1>3, <1>6 DEF PlaceTells
  <2>4. ReasonTold(s)'
    BY <1>0, <1>3, BeforeListening DEF ReasonTold
  <2>5. WithoutGap(s)'
    BY <1>0, <1>1, BeforeListening DEF WithoutGap
  <2> QED
    BY <2>1, <2>2, <2>3, <2>4, <2>5 DEF StreamInv
<1>8. \A b \in Buffers : Once(ears'[b]) /\ s \notin Range(ears'[b])
  BY <1>0, <1>1, BeforeListening DEF EarsTell
<1> QED
  BY <1>0, <1>1, <1>3, <1>4, <1>5, <1>7, <1>8, StreamStep

\* A request without tries.
LEMMA NoTryKeeps ==
  ASSUME LogInv, NEW s \in Streams, NoTry(s)
  PROVE  LogInv'
PROOF
<1>0. /\ LogTypes /\ EarsTell /\ StreamInv(s) /\ st[s].pc = "try" /\ ~Heeds(s) /\ st[s].retries = 0
      /\ queue[s] \in Seq(Chunk) /\ got[s] \in Seq(Chunk)
  BY HandlerFields DEF LogInv, NoTry, Heeds
<1>1. /\ st' = [st EXCEPT ![s].pc = "over"] /\ queue' = [queue EXCEPT ![s] = Ending(s, <<>>)]
      /\ UNCHANGED <<server, ears, calls, file, got>>
  BY DEF NoTry
<1>3. /\ st'[s].pc = "over" /\ st'[s].retries = 0 /\ st'[s].reached = st[s].reached /\ st'[s].ended = st[s].ended
      /\ st'[s].gen = st[s].gen /\ st'[s].until = st[s].until /\ \A t \in Streams : t # s => st'[t] = st[t]
      /\ st' \in [Streams -> Handler]
  BY <1>0, <1>1, PlaceSet
<1>4. /\ queue' \in [Streams -> Seq(Chunk)] /\ Range(queue'[s]) = Range(queue[s]) \cup {End}
      /\ \A t \in Streams : t # s => queue'[t] = queue[t]
  <2>1. /\ Ending(s, <<>>) \in Seq(Chunk) /\ Range(Ending(s, <<>>)) = Range(queue[s]) \cup {End}
    <3>1. Ending(s, <<>>) \in Seq(Chunk) /\ Range(Ending(s, <<>>)) = Range(queue[s]) \cup Range(<<>>) \cup {End}
      BY <1>0, EndingHolds, NothingOwn
    <3> QED
      BY <3>1, NothingOwn
  <2> QED
    BY <1>0, <1>1, <2>1 DEF LogTypes
<1>5. LogTypes'
  BY <1>0, <1>1, <1>3, <1>4 DEF LogTypes, server
<1>6. Sent(s)' = Sent(s) \cup {End}
  BY <1>1, <1>4 DEF Sent
<1>7. StreamInv(s)'
  <2>1. ChunksTell(s)'
    BY <1>0, <1>6, BeforeListening, ChunkKinds DEF ChunksTell
  <2>2. ReachedTell(s)'
    <3>1. \A m \in st[s].reached : Brought(m, s, Sent(s))
      BY <1>0 DEF StreamInv, ReachedTell
    <3> QED
      BY <1>0, <1>1, <1>3, <1>6, <3>1, BeforeListening DEF ReachedTell, Brought, server
  <2>3. PlaceTells(s)'
    <3>1. got[s] = <<>> /\ Range(queue[s]) \subseteq {End}
      BY <1>0 DEF PlaceTells, StreamInv, Unasked
    <3>2. Silent(s)'
      BY <1>0, <1>1, <1>3, <1>4, <3>1, BeforeListening DEF Silent, Unasked
    <3> QED
      BY <1>3, <3>2 DEF PlaceTells
  <2>4. ReasonTold(s)'
    BY <1>0, <1>3, BeforeListening DEF ReasonTold
  <2>5. WithoutGap(s)'
    BY <1>0, <1>1, BeforeListening DEF WithoutGap
  <2> QED
    BY <2>1, <2>2, <2>3, <2>4, <2>5 DEF StreamInv
<1>8. \A b \in Buffers : Once(ears'[b]) /\ s \notin Range(ears'[b])
  BY <1>0, <1>1, BeforeListening DEF EarsTell
<1> QED
  BY <1>0, <1>1, <1>3, <1>4, <1>5, <1>7, <1>8, StreamStep

\* The next try.
LEMMA AgainKeeps ==
  ASSUME LogInv, NEW s \in Streams, Again(s)
  PROVE  LogInv'
PROOF
<1>0. LogTypes /\ EarsTell /\ StreamInv(s) /\ st[s].pc = "sleep" /\ ~Heeds(s)
  BY DEF LogInv, Again, Heeds
<1>1. /\ st' = [st EXCEPT ![s].pc = "try"] /\ UNCHANGED <<server, ears, calls, file, queue, got>>
  BY DEF Again
<1>3. /\ st'[s].pc = "try" /\ st'[s].retries = st[s].retries /\ st'[s].reached = st[s].reached
      /\ st'[s].ended = st[s].ended /\ st'[s].gen = st[s].gen /\ st'[s].until = st[s].until
      /\ \A t \in Streams : t # s => st'[t] = st[t]
      /\ st' \in [Streams -> Handler]
  BY <1>0, <1>1, PlaceSet
<1>5. LogTypes'
  BY <1>0, <1>1, <1>3 DEF LogTypes, server
<1>6. Sent(s)' = Sent(s)
  BY <1>1 DEF Sent
<1>7. StreamInv(s)'
  <2>1. ChunksTell(s)'
    BY <1>0, <1>6, BeforeListening DEF ChunksTell
  <2>2. ReachedTell(s)'
    BY <1>0, <1>1, <1>3, <1>6, BeforeListening DEF StreamInv, ReachedTell, Brought, server
  <2>3. PlaceTells(s)'
    <3>1. st[s].retries \in Nat /\ st[s].retries > 0
      BY <1>0, HandlerFields DEF PlaceTells, StreamInv
    <3> QED
      BY <1>3, <3>1 DEF PlaceTells
  <2>4. ReasonTold(s)'
    BY <1>0, <1>3, BeforeListening DEF ReasonTold
  <2>5. WithoutGap(s)'
    BY <1>0, <1>1, BeforeListening DEF WithoutGap
  <2> QED
    BY <2>1, <2>2, <2>3, <2>4, <2>5 DEF StreamInv
<1>8. \A b \in Buffers : Once(ears'[b]) /\ s \notin Range(ears'[b])
  BY <1>0, <1>1, BeforeListening DEF EarsTell
<1> QED
  BY <1>0, <1>1, <1>3, <1>5, <1>7, <1>8, StreamStep

\* The stream has ended: it listens no more.
LEMMA WakeKeeps ==
  ASSUME LogInv, NEW s \in Streams, Wake(s)
  PROVE  LogInv'
PROOF
<1>0. /\ LogTypes /\ EarsTell /\ StreamInv(s) /\ st[s].pc = "listen" /\ st[s].ended
      /\ queue[s] \in Seq(Chunk) /\ got[s] \in Seq(Chunk)
  BY HandlerFields DEF LogInv, Wake
<1>1. /\ st' = [st EXCEPT ![s].pc = "over"] /\ queue' = [queue EXCEPT ![s] = Ending(s, <<>>)]
      /\ ears' = [b \in Buffers |-> RemoveFirst(ears[b], s)]
      /\ UNCHANGED <<server, calls, file, got>>
  BY DEF Wake
<1>2. ASSUME NEW b \in Buffers
      PROVE  /\ ears'[b] \in Seq(Streams \cup {File}) /\ Once(ears'[b]) /\ Range(ears'[b]) = Range(ears[b]) \ {s}
  <2>1. ears'[b] = RemoveFirst(ears[b], s)
    BY <1>1
  <2>2. ears[b] \in Seq(Streams \cup {File}) /\ Once(ears[b])
    BY <1>0 DEF LogTypes, EarsTell
  <2> QED
    BY <2>1, <2>2, RemovedOnce
<1>3. /\ st'[s].pc = "over" /\ st'[s].retries = st[s].retries /\ st'[s].reached = st[s].reached
      /\ st'[s].ended = st[s].ended /\ st'[s].gen = st[s].gen /\ st'[s].until = st[s].until
      /\ st'[s].names = st[s].names /\ \A t \in Streams : t # s => st'[t] = st[t]
      /\ st' \in [Streams -> Handler]
  BY <1>0, <1>1, PlaceSet
<1>4. /\ queue' \in [Streams -> Seq(Chunk)] /\ Range(queue'[s]) = Range(queue[s]) \cup {End}
      /\ \A t \in Streams : t # s => queue'[t] = queue[t]
  <2>1. /\ Ending(s, <<>>) \in Seq(Chunk) /\ Range(Ending(s, <<>>)) = Range(queue[s]) \cup {End}
    <3>1. Ending(s, <<>>) \in Seq(Chunk) /\ Range(Ending(s, <<>>)) = Range(queue[s]) \cup Range(<<>>) \cup {End}
      BY <1>0, EndingHolds, NothingOwn
    <3> QED
      BY <3>1, NothingOwn
  <2> QED
    BY <1>0, <1>1, <2>1 DEF LogTypes
<1>5. LogTypes'
  <2>1. ears' \in [Buffers -> Seq(Streams \cup {File})]
    BY <1>1, <1>2
  <2> QED
    BY <1>0, <1>1, <1>3, <1>4, <2>1 DEF LogTypes, server
<1>6. Sent(s)' = Sent(s) \cup {End} /\ Heeds(s) /\ Heeds(s)' /\ logs' = logs
  BY <1>0, <1>1, <1>3, <1>4 DEF Sent, Heeds, server
<1>7. StreamInv(s)'
  <2>1. ChunksTell(s)'
    BY <1>0, <1>6, ChunkKinds DEF ChunksTell, StreamInv
  <2>2. ReachedTell(s)'
    <3>1. /\ \A m \in st[s].reached : Brought(m, s, Sent(s))
          /\ st[s].names \subseteq st[s].reached
      BY <1>0 DEF StreamInv, ReachedTell
    <3> QED
      BY <1>3, <1>6, <3>1 DEF ReachedTell, Brought
  <2>3. PlaceTells(s)'
    <3>1. st[s].names \subseteq st[s].reached
      BY <1>0 DEF ReachedTell, StreamInv
    <3> QED
      BY <1>3, <3>1 DEF PlaceTells
  <2>4. ReasonTold(s)'
    <3>1. st[s].gen # "over"
      BY <1>0 DEF StreamInv, ReasonTold
    <3> QED
      BY <1>3, <3>1 DEF ReasonTold
  <2>5. WithoutGap(s)'
    BY <1>2 DEF WithoutGap
  <2> QED
    BY <2>1, <2>2, <2>3, <2>4, <2>5 DEF StreamInv
<1>8. /\ \A b \in Buffers : Once(ears'[b]) /\ s \notin Range(ears'[b])
      /\ \A b \in Buffers : \A x : x # s => (x \in Range(ears'[b]) <=> x \in Range(ears[b]))
  BY <1>2
<1> QED
  BY <1>0, <1>1, <1>3, <1>4, <1>5, <1>6, <1>7, <1>8, StreamStep

\* The place of the response.
LEMMA ResponseSet ==
  ASSUME LogTypes, NEW s \in Streams, NEW gen \in {"none", "open", "over", "gone"},
         st' = [st EXCEPT ![s].gen = gen]
  PROVE  /\ st'[s].gen = gen /\ st'[s].retries = st[s].retries /\ st'[s].reached = st[s].reached
         /\ st'[s].ended = st[s].ended /\ st'[s].pc = st[s].pc /\ st'[s].until = st[s].until
         /\ st'[s].names = st[s].names /\ \A t \in Streams : t # s => st'[t] = st[t]
         /\ st' \in [Streams -> Handler]
PROOF
<1>1. st \in [Streams -> Handler] /\ st[s] \in Handler
  BY DEF LogTypes
<1> DEFINE h == [st[s] EXCEPT !.gen = gen]
<1>2. /\ h.gen = gen /\ h.retries = st[s].retries /\ h.reached = st[s].reached
      /\ h.ended = st[s].ended /\ h.pc = st[s].pc /\ h.until = st[s].until
      /\ h.names = st[s].names /\ h \in Handler
  BY <1>1 DEF Handler
<1>3. st' = [st EXCEPT ![s] = h]
  BY <1>1
<1> HIDE DEF h
<1> QED
  BY <1>1, <1>2, <1>3

\* The client goes away.
LEMMA DisconnectKeeps ==
  ASSUME LogInv, NEW s \in Streams, Disconnect(s)
  PROVE  LogInv'
PROOF
<1>0. LogTypes /\ EarsTell /\ StreamInv(s)
  BY DEF LogInv
<1>1. st' = [st EXCEPT ![s].gen = "gone"] /\ UNCHANGED <<server, ears, calls, file, queue, got>>
  BY DEF Disconnect
<1>2. /\ st'[s].gen = "gone" /\ st'[s].retries = st[s].retries /\ st'[s].reached = st[s].reached
      /\ st'[s].ended = st[s].ended /\ st'[s].pc = st[s].pc /\ st'[s].until = st[s].until
      /\ st'[s].names = st[s].names /\ \A t \in Streams : t # s => st'[t] = st[t]
      /\ st' \in [Streams -> Handler]
  BY <1>0, <1>1, ResponseSet
<1>3. LogTypes'
  BY <1>0, <1>1, <1>2 DEF LogTypes, server
<1>4. Sent(s)' = Sent(s) /\ Heeds(s)' = Heeds(s) /\ Way(s)' = Way(s) /\ logs' = logs
  BY <1>1, <1>2 DEF Sent, Heeds, Way, server
<1>5. StreamInv(s)'
  <2>1. ChunksTell(s)'
    BY <1>0, <1>4 DEF ChunksTell, StreamInv
  <2>2. ReachedTell(s)'
    BY <1>0, <1>2, <1>4 DEF ReachedTell, StreamInv, Brought
  <2>3. PlaceTells(s)'
    BY <1>0, <1>1, <1>2, <1>4 DEF PlaceTells, StreamInv, Unasked, Silent
  <2>4. ReasonTold(s)'
    BY <1>2 DEF ReasonTold
  <2>5. WithoutGap(s)'
    BY <1>0, <1>1, <1>4 DEF WithoutGap, StreamInv
  <2> QED
    BY <2>1, <2>2, <2>3, <2>4, <2>5 DEF StreamInv
<1>6. \A b \in Buffers : Once(ears'[b]) /\ (s \in Range(ears'[b]) => st'[s].pc = "listen")
  BY <1>0, <1>1, <1>2 DEF EarsTell
<1> QED
  BY <1>0, <1>1, <1>2, <1>3, <1>4, <1>5, <1>6, StreamStep

\* The waiting messages of a stream, as a sequence.
Coming(s) == [i \in DOMAIN calls |-> IF calls[i].to = s THEN calls[i].log ELSE End]

LEMMA ComingIs ==
  ASSUME LogTypes, NEW s \in Streams
  PROVE  /\ Coming(s) \in Seq(Chunk) /\ Way(s) = (got[s] \o queue[s]) \o Coming(s)
         /\ DOMAIN Coming(s) = DOMAIN calls /\ DOMAIN calls = 1..Len(calls) /\ Len(Coming(s)) = Len(calls)
         /\ Len(calls) \in Nat /\ \A i \in DOMAIN calls : calls[i] \in CallRec
PROOF
<1>1. Len(calls) \in Nat /\ DOMAIN calls = 1..Len(calls) /\ \A i \in DOMAIN calls : calls[i] \in CallRec
  BY LenProperties, ElementOfSeq DEF LogTypes
<1>2. \A i \in DOMAIN calls : Coming(s)[i] \in Chunk
  BY <1>1, ChunkKinds DEF CallRec, Coming
<1>3. Coming(s) \in [1..Len(calls) -> Chunk]
  BY <1>1, <1>2 DEF Coming
<1>4. Coming(s) \in Seq(Chunk)
  BY <1>1, <1>3
<1>5. DOMAIN Coming(s) = DOMAIN calls /\ Len(Coming(s)) = Len(calls)
  BY <1>1, <1>3, <1>4, LenProperties
<1>6. Way(s) = (got[s] \o queue[s]) \o Coming(s)
  BY DEF Way, Coming
<1> QED
  BY <1>1, <1>4, <1>5, <1>6

\* A sequence that is not empty is its head and its tail.
LEMMA SplitHead ==
  ASSUME NEW T, NEW w \in Seq(T), w # <<>>
  PROVE  /\ Head(w) \in T /\ Tail(w) \in Seq(T) /\ <<Head(w)>> \in Seq(T) /\ w = <<Head(w)>> \o Tail(w)
         /\ Range(<<Head(w)>>) = {Head(w)} /\ Range(w) = {Head(w)} \cup Range(Tail(w))
         /\ Head(w) = w[1] /\ Len(w) \in Nat /\ Len(w) > 0 /\ Len(Tail(w)) = Len(w) - 1
         /\ \A i \in 1..Len(Tail(w)) : Tail(w)[i] = w[i + 1]
PROOF
<1>1. /\ Head(w) \in T /\ Tail(w) \in Seq(T) /\ Len(w) \in Nat /\ Len(w) > 0 /\ Len(Tail(w)) = Len(w) - 1
      /\ Head(w) = w[1] /\ \A i \in 1..Len(Tail(w)) : Tail(w)[i] = w[i + 1]
  <2>1. Len(w) \in Nat \ {0}
    BY EmptySeq
  <2> QED
    BY <2>1, HeadTailProperties
<1> DEFINE e == <<Head(w)>>
<1>2. e \in Seq(T) /\ Range(e) = {Head(w)}
  <2>1. DOMAIN <<Head(w)>> = {1} /\ <<Head(w)>>[1] = Head(w)
    OBVIOUS
  <2> QED
    BY <1>1, <2>1 DEF Range
<1>3. w = e \o Tail(w)
  <2>1. 1 \in 1..Len(w) /\ Len(w) \in 1..Len(w)
    BY <1>1
  <2>2. SubSeq(w, 1, Len(w)) = <<w[1]>> \o SubSeq(w, 1 + 1, Len(w))
    BY <2>1, SubSeqRecursiveFirst
  <2>3. SubSeq(w, 1, Len(w)) = w /\ SubSeq(w, 1 + 1, Len(w)) = Tail(w)
    BY SubSeqFull, TailIsSubSeq
  <2> QED
    BY <1>1, <2>2, <2>3
<1> HIDE DEF e
<1>4. Range(w) = {Head(w)} \cup Range(Tail(w))
  <2> DEFINE z == Tail(w)
  <2>1. z \in Seq(T) /\ w = e \o z
    BY <1>1, <1>3
  <2> HIDE DEF z
  <2>2. Range(e \o z) = Range(e) \cup Range(z)
    BY <1>2, <2>1, RangeConcatenation
  <2>3. Range(w) = {Head(w)} \cup Range(z)
    BY <1>2, <2>1, <2>2
  <2> QED
    BY <2>3 DEF z
<1> QED
  BY <1>1, <1>2, <1>3, <1>4 DEF e

\* The response sends what is next.
LEMMA GenerateKeeps ==
  ASSUME LogInv, NEW s \in Streams, Generate(s)
  PROVE  LogInv'
PROOF
<1> DEFINE x == Head(queue[s])
           q == Tail(queue[s])
           g == got[s]
           e == <<x>>
           gen == IF LastChunk(s) THEN "over" ELSE st[s].gen
<1>0. /\ LogTypes /\ EarsTell /\ StreamInv(s) /\ st[s].gen = "open" /\ queue[s] # <<>>
      /\ queue[s] \in Seq(Chunk) /\ g \in Seq(Chunk)
  BY HandlerFields DEF LogInv, Generate
<1>1. /\ st' = [st EXCEPT ![s].gen = gen] /\ queue' = [queue EXCEPT ![s] = q]
      /\ got' = [got EXCEPT ![s] = IF x = End THEN @ ELSE Append(@, x)]
      /\ UNCHANGED <<server, ears, calls, file>>
  BY DEF Generate
<1>2. gen \in {"none", "open", "over", "gone"} /\ (gen = "over" => st[s].pc = "over" /\ Len(queue[s]) = 1)
  BY <1>0 DEF LastChunk
<1>3. /\ x \in Chunk /\ q \in Seq(Chunk) /\ e \in Seq(Chunk) /\ queue[s] = e \o q /\ Range(e) = {x}
      /\ Range(queue[s]) = {x} \cup Range(q) /\ Len(q) = Len(queue[s]) - 1
  BY <1>0, SplitHead
<1>4. Append(g, x) = g \o e /\ Append(g, x) \in Seq(Chunk) /\ Range(Append(g, x)) = Range(g) \cup {x}
  BY <1>0, <1>3, AppendedHolds
<1>5. /\ queue'[s] = q /\ got'[s] = IF x = End THEN g ELSE g \o e
      /\ queue' \in [Streams -> Seq(Chunk)] /\ got' \in [Streams -> Seq(Chunk)]
      /\ \A t \in Streams : t # s => queue'[t] = queue[t] /\ got'[t] = got[t]
  BY <1>0, <1>1, <1>3, <1>4 DEF LogTypes
<1>6. Range(got'[s]) = IF x = End THEN Range(g) ELSE Range(g) \cup {x}
  BY <1>4, <1>5
<1> HIDE DEF x, q, e, gen
<1>7. /\ st'[s].gen = gen /\ st'[s].retries = st[s].retries /\ st'[s].reached = st[s].reached
      /\ st'[s].ended = st[s].ended /\ st'[s].pc = st[s].pc /\ st'[s].until = st[s].until
      /\ st'[s].names = st[s].names /\ \A t \in Streams : t # s => st'[t] = st[t]
      /\ st' \in [Streams -> Handler]
  BY <1>0, <1>1, <1>2, ResponseSet
<1>8. LogTypes'
  BY <1>0, <1>1, <1>5, <1>7 DEF LogTypes, server
<1>9. /\ Sent(s)' \subseteq Sent(s) /\ Sent(s) \subseteq Sent(s)' \cup {End} /\ Heeds(s)' = Heeds(s) /\ logs' = logs
      /\ Sent(s)' = Range(got'[s]) \cup Range(q)
  BY <1>1, <1>3, <1>5, <1>6, <1>7 DEF Sent, Heeds, server
<1>10. ChunksTell(s)'
  BY <1>0, <1>9 DEF ChunksTell, StreamInv
<1>11. ReachedTell(s)'
  <2>1. ASSUME NEW m \in st[s].reached PROVE Brought(m, s, Sent(s))'
    <3>1. PICK c \in Sent(s) : c.buf \in Buffers /\ NameOf[c.buf] = m /\ logs[c.buf][c.n] \in st[s].until
      BY <1>0, <2>1 DEF StreamInv, ReachedTell, Brought
    <3>2. c \in Sent(s)'
      BY <1>9, <3>1, ChunkKinds, FileAssumption
    <3> QED
      BY <1>7, <1>9, <3>1, <3>2 DEF Brought
  <2> QED
    BY <1>0, <1>7, <1>9, <2>1 DEF StreamInv, ReachedTell
<1>12. Unasked(s) => Unasked(s)'
  BY <1>3, <1>5 DEF Unasked
<1>13. PlaceTells(s)'
  <2>1. Silent(s) => Silent(s)'
    BY <1>1, <1>7, <1>12 DEF Silent
  <2>2. Error \in Sent(s) => Error \in Sent(s)'
    BY <1>9, ChunkKinds
  <2> QED
    BY <1>0, <1>7, <1>12, <2>1, <2>2 DEF StreamInv, PlaceTells
<1>14. ReasonTold(s)'
  <2> SUFFICES ASSUME gen = "over" PROVE ReasonTold(s)'
    BY <1>7 DEF ReasonTold
  <2>1. st'[s].pc = "over" /\ Sent(s)' = Range(got'[s])
    <3>1. Len(q) = 0
      BY <1>2, <1>3
    <3>2. q = <<>>
      BY <1>3, <3>1, EmptySeq
    <3>3. Range(q) = {}
      BY <3>2, NothingOwn
    <3> QED
      BY <1>2, <1>7, <1>9, <3>3
  <2>2. Silent(s)' \/ Error \in Sent(s)' \/ st'[s].names \subseteq st'[s].reached
    BY <1>13, <2>1 DEF PlaceTells
  <2>3. CASE Silent(s)'
    BY <2>1, <2>3 DEF Silent, Unasked, ReasonTold
  <2>4. CASE Error \in Sent(s)'
    BY <2>1, <2>4 DEF ReasonTold
  <2>5. CASE st'[s].names \subseteq st'[s].reached
    <3>1. \A m \in st'[s].names : Brought(m, s, Sent(s))'
      BY <1>11, <2>5 DEF ReachedTell
    <3> QED
      BY <2>1, <3>1 DEF ReasonTold, Brought
  <2> QED
    BY <2>2, <2>3, <2>4, <2>5
<1>15. WithoutGap(s)'
  <2> DEFINE c == Coming(s)
  <2>1. c \in Seq(Chunk) /\ Way(s) = (g \o queue[s]) \o c
    BY <1>0, ComingIs
  <2>2. Way(s)' = (got'[s] \o q) \o c
    BY <1>1, <1>5 DEF Way, Coming
  <2> HIDE DEF c, g
  <2>3. Way(s) = ((g \o e) \o q) \o c
    <3>1. g \o queue[s] = (g \o e) \o q
      BY <1>0, <1>3, ConcatAssociative
    <3> QED
      BY <2>1, <3>1
  <2>4. CASE x # End
    <3>1. Way(s)' = Way(s)
      BY <1>5, <2>2, <2>3, <2>4
    <3> QED
      BY <1>0, <1>1, <1>9, <3>1 DEF WithoutGap, StreamInv
  <2>5. CASE x = End
    <3>0. g \o e \in Seq(Chunk) /\ q \o c \in Seq(Chunk)
      BY <1>0, <1>3, <2>1, ConcatProperties
    <3>1. Way(s) = (g \o e) \o (q \o c)
      BY <1>3, <2>1, <2>3, <3>0, ConcatAssociative
    <3>2. Way(s)' = g \o (q \o c)
      <4>1. Way(s)' = (g \o q) \o c
        BY <1>5, <2>2, <2>5 DEF g
      <4>2. (g \o q) \o c = g \o (q \o c)
        BY <1>0, <1>3, <2>1, ConcatAssociative
      <4> QED
        BY <4>1, <4>2
    <3>3. ASSUME NEW b \in Buffers, s \in Range(ears[b]) PROVE Gapless(Way(s)', b, Len(logs[b]))
      <4>1. Gapless((g \o <<x>>) \o (q \o c), b, Len(logs[b]))
        BY <1>0, <3>1, <3>3 DEF WithoutGap, StreamInv, e
      <4>2. x.buf # b
        BY <2>5, ChunkKinds, FileAssumption
      <4>3. Gapless(g \o (q \o c), b, Len(logs[b]))
        BY <1>0, <1>3, <3>0, <4>1, <4>2, DroppedGapless
      <4> QED
        BY <3>2, <4>3
    <3> QED
      BY <1>1, <1>9, <3>3 DEF WithoutGap
  <2> QED
    BY <2>4, <2>5
<1>16. StreamInv(s)'
  BY <1>10, <1>11, <1>13, <1>14, <1>15 DEF StreamInv
<1>17. \A b \in Buffers : Once(ears'[b]) /\ (s \in Range(ears'[b]) => st'[s].pc = "listen")
  BY <1>0, <1>1, <1>7 DEF EarsTell
<1> QED
  BY <1>1, <1>5, <1>7, <1>8, <1>9, <1>16, <1>17, StreamStep

\* Whoever is not in a sequence is in it once after it was added.
LEMMA AppendedOnce ==
  ASSUME NEW T, NEW w \in Seq(T), NEW e \in T, Once(w), e \notin Range(w)
  PROVE  Append(w, e) \in Seq(T) /\ Once(Append(w, e)) /\ Range(Append(w, e)) = Range(w) \cup {e}
PROOF
<1> DEFINE z == Append(w, e)
<1>1. Len(w) \in Nat /\ DOMAIN w = 1..Len(w)
  BY LenProperties
<1>2. /\ z \in Seq(T) /\ Len(z) = Len(w) + 1 /\ (\A i \in 1..Len(w) : z[i] = w[i]) /\ z[Len(w) + 1] = e
      /\ DOMAIN z = 1..(Len(w) + 1)
  BY AppendProperties, LenProperties
<1> HIDE DEF z
<1>3. \A i \in 1..(Len(w) + 1) : (i \in 1..Len(w) /\ z[i] = w[i] /\ z[i] \in Range(w)) \/ (i = Len(w) + 1 /\ z[i] = e)
  BY <1>1, <1>2 DEF Range
<1>4. Once(z)
  BY <1>1, <1>2, <1>3 DEF Once
<1>5. Range(z) = Range(w) \cup {e}
  <2>1. ASSUME NEW v \in Range(w) \cup {e} PROVE v \in Range(z)
    <3>1. Len(w) + 1 \in 1..(Len(w) + 1) /\ \A i \in 1..Len(w) : i \in 1..(Len(w) + 1)
      BY <1>1
    <3> QED
      BY <1>1, <1>2, <2>1, <3>1 DEF Range
  <2>2. Range(z) \subseteq Range(w) \cup {e}
    BY <1>2, <1>3 DEF Range
  <2> QED
    BY <2>1, <2>2
<1> QED
  BY <1>2, <1>4, <1>5 DEF z

\* An order of the buffers holds each once.
LEMMA OrdersTell ==
  ASSUME NEW names, NEW order \in SetToSeqs(UNION {Registered(m) : m \in names})
  PROVE  order \in Seq(Buffers) /\ Once(order)
PROOF
<1> DEFINE S == UNION {Registered(m) : m \in names}
<1>1. S \subseteq Buffers
  BY DEF Registered
<1>2. IsFiniteSet(S) /\ Cardinality(S) \in Nat
  BY <1>1, NameAssumption, FS_Subset, FS_CardinalityType
<1>3. order \in [1..Cardinality(S) -> S] /\ \A i, j \in 1..Cardinality(S) : i # j => order[i] # order[j]
  BY DEF SetToSeqs
<1> HIDE DEF S
<1>4. order \in [1..Cardinality(S) -> Buffers]
  BY <1>1, <1>3
<1>5. order \in Seq(Buffers)
  BY <1>2, <1>4
<1>6. DOMAIN order = 1..Cardinality(S)
  BY <1>3
<1> QED
  BY <1>3, <1>5, <1>6 DEF Once

\* A stream after its try.
Tried(g, pc, names, ended) == [g EXCEPT !.pc = pc, !.retries = @ - 1, !.reached = names, !.ended = ended]

LEMMA HandlerSet ==
  ASSUME NEW g \in Handler, NEW pc \in {"over", "listen"}, g.retries - 1 \in 0..MaxRetries,
         NEW names \in SUBSET Names, NEW ended \in BOOLEAN
  PROVE  LET h == Tried(g, pc, names, ended)
         IN /\ h.pc = pc /\ h.reached = names /\ h.ended = ended /\ h.gen = g.gen
            /\ h.until = g.until /\ h.names = g.names /\ h \in Handler
PROOF
<1>1. [g EXCEPT !.pc = pc, !.retries = @ - 1, !.reached = names] \in Handler
  BY DEF Handler
<1> DEFINE k == [g EXCEPT !.pc = pc, !.retries = @ - 1, !.reached = names]
<1>2. k.pc = pc /\ k.reached = names /\ k.gen = g.gen /\ k.until = g.until /\ k.names = g.names
  BY DEF Handler
<1>3. Tried(g, pc, names, ended) = [k EXCEPT !.ended = ended]
  BY DEF Tried
<1> HIDE DEF k
<1>4. /\ [k EXCEPT !.ended = ended] \in Handler /\ [k EXCEPT !.ended = ended].pc = k.pc
      /\ [k EXCEPT !.ended = ended].reached = k.reached /\ [k EXCEPT !.ended = ended].gen = k.gen
      /\ [k EXCEPT !.ended = ended].until = k.until /\ [k EXCEPT !.ended = ended].names = k.names
      /\ [k EXCEPT !.ended = ended].ended = ended
  BY <1>1 DEF Handler, k
<1> QED
  BY <1>2, <1>3, <1>4

\* The stream begins to listen, after it got what the buffers hold.
LEMMA ListenKeeps ==
  ASSUME LogInv, NEW s \in Streams, Listen(s)
  PROVE  LogInv'
PROOF
<1> DEFINE Msgs(order) == FlattenSeq([i \in 1..Len(order) |-> Replay(order[i])])
           Ended(order) == AllReached(s, Reached(s, Msgs(order)))
<1>0. /\ LogTypes /\ EarsTell /\ StreamInv(s) /\ st[s].pc = "try" /\ ~Heeds(s) /\ st[s].retries > 0
      /\ queue[s] \in Seq(Chunk) /\ got[s] \in Seq(Chunk) /\ st[s].until \in SUBSET States
      /\ st[s].retries \in Nat /\ st[s].retries <= MaxRetries /\ MaxRetries \in Nat
  BY HandlerFields DEF LogInv, Listen, Heeds
<1>1. PICK order \in SetToSeqs(UNION {Registered(m) : m \in st[s].names}) :
        /\ st' = [st EXCEPT ![s].pc = IF Ended(order) THEN "over" ELSE "listen", ![s].retries = @ - 1,
                            ![s].reached = Reached(s, Msgs(order)), ![s].ended = Ended(order)]
        /\ queue' = [queue EXCEPT ![s] = IF Ended(order) THEN Ending(s, Msgs(order)) ELSE @ \o Msgs(order)]
        /\ ears' = [b \in Buffers |-> IF b \in Range(order) /\ ~Ended(order) THEN Append(ears[b], s) ELSE ears[b]]
  BY DEF Listen
<1>2. UNCHANGED <<server, calls, file, got>>
  BY DEF Listen
<1> DEFINE msgs == Msgs(order)
           names == Reached(s, msgs)
           ended == AllReached(s, names)
           pc == IF ended THEN "over" ELSE "listen"
<1>3. order \in Seq(Buffers) /\ Once(order)
  BY OrdersTell
<1>4. /\ msgs \in Seq(Chunk)
      /\ \A c \in Range(msgs) : c.buf \in Buffers /\ c.n \in 1..Len(logs[c.buf])
      /\ \A b \in Range(order) : Gapless(msgs, b, Len(logs[b]))
  BY <1>0, <1>3, ReplaysTell
<1>5. /\ st' = [st EXCEPT ![s].pc = pc, ![s].retries = @ - 1, ![s].reached = names, ![s].ended = ended]
      /\ queue'[s] = IF ended THEN Ending(s, msgs) ELSE queue[s] \o msgs
      /\ queue' = [queue EXCEPT ![s] = IF ended THEN Ending(s, msgs) ELSE @ \o msgs]
      /\ \A b \in Buffers : ears'[b] = IF b \in Range(order) /\ ~ended THEN Append(ears[b], s) ELSE ears[b]
      /\ DOMAIN ears' = Buffers /\ ears' = [b \in Buffers |-> ears'[b]]
  BY <1>0, <1>1 DEF LogTypes
<1> HIDE DEF msgs, Msgs, Ended
<1>6. /\ names \in SUBSET Names
      /\ \A m \in names : \E c \in Range(msgs) : NameOf[c.buf] = m /\ logs[c.buf][c.n] \in st[s].until
  BY <1>4, NameAssumption DEF Reached
<1>7. ended \in BOOLEAN /\ (ended => st[s].names = names) /\ pc \in {"over", "listen"} /\ (pc = "over" <=> ended)
  BY DEF AllReached
<1> HIDE DEF names, ended, pc
<1>8. /\ st'[s].pc = pc /\ st'[s].reached = names /\ st'[s].ended = ended /\ st'[s].gen = st[s].gen
      /\ st'[s].until = st[s].until /\ st'[s].names = st[s].names
      /\ \A t \in Streams : t # s => st'[t] = st[t]
      /\ st' \in [Streams -> Handler]
  <2> DEFINE h == Tried(st[s], pc, names, ended)
  <2>1. st \in [Streams -> Handler] /\ st[s] \in Handler
    BY <1>0 DEF LogTypes
  <2>2. /\ h.pc = pc /\ h.reached = names /\ h.ended = ended /\ h.gen = st[s].gen
        /\ h.until = st[s].until /\ h.names = st[s].names /\ h \in Handler
    <3>1. st[s].retries - 1 \in 0..MaxRetries /\ pc \in {"over", "listen"}
      BY <1>0, <1>7
    <3> QED
      BY <1>6, <1>7, <2>1, <3>1, HandlerSet
  <2>3. st' = [st EXCEPT ![s] = h]
    BY <1>5, <2>1 DEF Tried
  <2> HIDE DEF h
  <2> QED
    BY <2>1, <2>2, <2>3
<1>9. /\ queue' \in [Streams -> Seq(Chunk)]
      /\ Range(queue'[s]) \subseteq Range(queue[s]) \cup Range(msgs) \cup {End} /\ Range(msgs) \subseteq Range(queue'[s])
      /\ \A t \in Streams : t # s => queue'[t] = queue[t]
  <2>1. Ending(s, msgs) \in Seq(Chunk) /\ Range(Ending(s, msgs)) = Range(queue[s]) \cup Range(msgs) \cup {End}
    BY <1>0, <1>4, EndingHolds
  <2>2. queue[s] \o msgs \in Seq(Chunk) /\ Range(queue[s] \o msgs) = Range(queue[s]) \cup Range(msgs)
    BY <1>0, <1>4, RangeOfBoth
  <2>3. queue'[s] \in {Ending(s, msgs), queue[s] \o msgs}
    BY <1>5
  <2>4. /\ queue' \in [Streams -> Seq(Chunk)] /\ \A t \in Streams : t # s => queue'[t] = queue[t]
    BY <1>0, <1>5, <2>1, <2>2 DEF LogTypes
  <2> QED
    BY <2>1, <2>2, <2>3, <2>4
<1>10. ASSUME NEW b \in Buffers
       PROVE  /\ ears'[b] \in Seq(Streams \cup {File}) /\ Once(ears'[b])
              /\ \A x : x # s => (x \in Range(ears'[b]) <=> x \in Range(ears[b]))
              /\ s \in Range(ears'[b]) => b \in Range(order) /\ ~ended
  <2>1. ears[b] \in Seq(Streams \cup {File}) /\ Once(ears[b]) /\ s \notin Range(ears[b])
    BY <1>0, BeforeListening DEF LogTypes, EarsTell
  <2>2. /\ Append(ears[b], s) \in Seq(Streams \cup {File}) /\ Once(Append(ears[b], s))
        /\ Range(Append(ears[b], s)) = Range(ears[b]) \cup {s}
    BY <2>1, AppendedOnce
  <2> QED
    BY <1>5, <2>1, <2>2
<1>11. LogTypes'
  <2>1. ears' \in [Buffers -> Seq(Streams \cup {File})]
    BY <1>5, <1>10
  <2> QED
    BY <1>0, <1>2, <1>8, <1>9, <2>1 DEF LogTypes, server
<1>12. /\ Sent(s)' \subseteq Sent(s) \cup Range(msgs) \cup {End} /\ Range(msgs) \subseteq Sent(s)'
       /\ Heeds(s)' /\ logs' = logs /\ calls' = calls
  BY <1>2, <1>7, <1>8, <1>9 DEF Sent, Heeds, server
<1>13. StreamInv(s)'
  <2>1. ChunksTell(s)'
    BY <1>0, <1>4, <1>12, BeforeListening, ChunkKinds DEF ChunksTell
  <2>2. ReachedTell(s)'
    <3>1. ASSUME NEW m \in names PROVE Brought(m, s, Sent(s))'
      <4>1. PICK c \in Range(msgs) : NameOf[c.buf] = m /\ logs[c.buf][c.n] \in st[s].until
        BY <1>6, <3>1
      <4> QED
        BY <1>4, <1>8, <1>12, <4>1 DEF Brought
    <3> QED
      BY <1>7, <1>8, <1>12, <3>1 DEF ReachedTell
  <2>3. PlaceTells(s)'
    BY <1>7, <1>8 DEF PlaceTells
  <2>4. ReasonTold(s)'
    BY <1>0, <1>8, BeforeListening DEF ReasonTold
  <2>5. WithoutGap(s)'
    <3> SUFFICES ASSUME NEW b \in Buffers, s \in Range(ears'[b]) PROVE Gapless(Way(s)', b, Len(logs[b]))
      BY <1>12 DEF WithoutGap
    <3> DEFINE c == Coming(s)
               u == got[s] \o queue[s]
    <3>1. b \in Range(order) /\ ~ended
      BY <1>10
    <3>2. c \in Seq(Chunk) /\ DOMAIN c = DOMAIN calls
      BY <1>0, ComingIs
    <3>3. Own(c, b) = {}
      <4>1. \A i \in DOMAIN calls : c[i] = End
        BY <1>0, BeforeListening DEF Coming
      <4> QED
        BY <3>2, <4>1, ChunkKinds, FileAssumption DEF Own
    <3>4. Way(s)' = (got[s] \o (queue[s] \o msgs)) \o c
      BY <1>2, <1>5, <1>12, <3>1 DEF Way, Coming
    <3>5. u \in Seq(Chunk) /\ Range(u) = Sent(s)
      BY <1>0, RangeOfBoth DEF Sent
    <3>6. Own(u, b) = {}
      <4>0. \A x \in Sent(s) : x.buf = NoBuffer
        BY <1>0, BeforeListening
      <4> HIDE DEF u
      <4>1. \A x \in Range(u) : x.buf # b
        BY <3>5, <4>0, FileAssumption
      <4> QED
        BY <4>1, NothingOwn
    <3>7. got[s] \o (queue[s] \o msgs) = u \o msgs
      <4> DEFINE g == got[s]
                 q == queue[s]
      <4>1. g \in Seq(Chunk) /\ q \in Seq(Chunk) /\ msgs \in Seq(Chunk)
        BY <1>0, <1>4
      <4> HIDE DEF g, q
      <4>2. (g \o q) \o msgs = g \o (q \o msgs)
        BY <4>1, ConcatAssociative
      <4> QED
        BY <4>2 DEF g, q
    <3>8. Gapless((u \o msgs) \o c, b, Len(logs[b]))
      <4>1. Gapless(msgs, b, Len(logs[b]))
        BY <1>4, <3>1
      <4> HIDE DEF u, c
      <4> QED
        BY <1>4, <3>2, <3>3, <3>5, <3>6, <4>1, PaddedGapless
    <3> QED
      BY <3>4, <3>7, <3>8
  <2> QED
    BY <2>1, <2>2, <2>3, <2>4, <2>5 DEF StreamInv
<1>14. \A b \in Buffers : s \in Range(ears'[b]) => st'[s].pc = "listen"
  BY <1>7, <1>8, <1>10
<1> QED
  BY <1>2, <1>8, <1>9, <1>10, <1>11, <1>12, <1>13, <1>14, StreamStep

\* The logs of a buffer stay as they are when one is pushed.
LEMMA PushedLogs ==
  ASSUME LogTypes, NEW b \in Buffers, NEW state \in States, Push(b, state)
  PROVE  /\ logs' \in [Buffers -> Seq(States)] /\ Len(logs[b]) \in Nat /\ Len(logs'[b]) = Len(logs[b]) + 1
         /\ logs'[b] # <<>> /\ \A c \in Buffers : c # b => logs'[c] = logs[c]
         /\ \A c \in Buffers : \A n \in 1..Len(logs[c]) : logs'[c][n] = logs[c][n] /\ n \in 1..Len(logs'[c])
PROOF
<1>1. logs \in [Buffers -> Seq(States)] /\ logs' = [logs EXCEPT ![b] = Append(logs[b], state)]
  BY DEF LogTypes, Push
<1>2. logs[b] \in Seq(States) /\ logs'[b] = Append(logs[b], state) /\ \A c \in Buffers : c # b => logs'[c] = logs[c]
  BY <1>1
<1> DEFINE a == Append(logs[b], state)
<1>3. a \in Seq(States) /\ a # <<>> /\ Len(a) = Len(logs[b]) + 1 /\ (\A n \in 1..Len(logs[b]) : a[n] = logs[b][n])
      /\ Len(logs[b]) \in Nat
  BY <1>2, AppendProperties, LenProperties
<1> HIDE DEF a
<1>4. logs'[b] = a /\ logs' \in [Buffers -> Seq(States)]
  BY <1>1, <1>2, <1>3 DEF a
<1>5. \A n \in 1..Len(logs[b]) : n \in 1..(Len(logs[b]) + 1)
  BY <1>3
<1>6. ASSUME NEW c \in Buffers, NEW n \in 1..Len(logs[c]) PROVE logs'[c][n] = logs[c][n] /\ n \in 1..Len(logs'[c])
  <2>1. CASE c = b
    BY <1>3, <1>4, <1>5, <2>1
  <2>2. CASE c # b
    BY <1>2, <2>2
  <2> QED
    BY <2>1, <2>2
<1> QED
  BY <1>2, <1>3, <1>4, <1>6

\* The tasks that a push makes come after those that wait.
LEMMA PushedCalls ==
  ASSUME LogTypes, NEW b \in Buffers, NEW state, Push(b, state)
  PROVE  /\ calls' \in Seq(CallRec) /\ Len(calls) \in Nat /\ Len(ears[b]) \in Nat
         /\ DOMAIN calls = 1..Len(calls) /\ DOMAIN ears[b] = 1..Len(ears[b])
         /\ Len(calls') = Len(calls) + Len(ears[b]) /\ DOMAIN calls' = 1..(Len(calls) + Len(ears[b]))
         /\ \A i \in 1..Len(calls) : i \in DOMAIN calls' /\ calls'[i] = calls[i]
         /\ \A j \in 1..Len(ears[b]) : /\ Len(calls) + j \in DOMAIN calls'
                                       /\ calls'[Len(calls) + j] = [to |-> ears[b][j], log |-> [buf |-> b, n |-> Len(logs[b]) + 1]]
         /\ \A i \in DOMAIN calls' : i \in 1..Len(calls) \/ \E j \in 1..Len(ears[b]) : i = Len(calls) + j
PROOF
<1> DEFINE d == CallsOf(b, Len(logs[b]) + 1)
           l == Len(ears[b])
           m == Len(calls)
           log == [buf |-> b, n |-> Len(logs[b]) + 1]
<1>1. /\ calls \in Seq(CallRec) /\ m \in Nat /\ DOMAIN calls = 1..m /\ ears[b] \in Seq(Streams \cup {File}) /\ l \in Nat
      /\ DOMAIN ears[b] = 1..l /\ Len(logs[b]) \in Nat /\ \A j \in 1..l : ears[b][j] \in Streams \cup {File}
  <2>1. calls \in Seq(CallRec) /\ ears[b] \in Seq(Streams \cup {File}) /\ logs[b] \in Seq(States)
    BY DEF LogTypes
  <2> QED
    BY <2>1, LenProperties, ElementOfSeq
<1>2. d = [j \in 1..l |-> [to |-> ears[b][j], log |-> log]] /\ log \in Message
  BY <1>1 DEF CallsOf, Message
<1>4. calls' = calls \o d
  BY DEF Push
<1> HIDE DEF d, log
<1>3. d \in [1..l -> CallRec] /\ \A j \in 1..l : d[j] = [to |-> ears[b][j], log |-> log]
  BY <1>1, <1>2 DEF CallRec
<1>5. d \in Seq(CallRec) /\ Len(d) = l
  <2>1. d \in Seq(CallRec)
    BY <1>1, <1>3
  <2> QED
    BY <1>1, <1>3, <2>1, LenProperties
<1>6. /\ calls' \in Seq(CallRec) /\ Len(calls') = m + l
      /\ \A i \in 1..(m + l) : calls'[i] = IF i <= m THEN calls[i] ELSE d[i - m]
  <2>1. m = Len(calls) /\ calls \in Seq(CallRec)
    BY <1>1
  <2> HIDE DEF l, m
  <2>2. /\ calls \o d \in Seq(CallRec) /\ Len(calls \o d) = Len(calls) + Len(d)
        /\ \A i \in 1..(Len(calls) + Len(d)) : (calls \o d)[i] = IF i <= Len(calls) THEN calls[i] ELSE d[i - Len(calls)]
    BY <2>1, <1>5, ConcatProperties
  <2> QED
    BY <2>1, <2>2, <1>4, <1>5
<1>7. DOMAIN calls' = 1..(m + l)
  BY <1>6, LenProperties
<1> HIDE DEF l, m
<1>8. ASSUME NEW i \in 1..m PROVE i \in 1..(m + l) /\ calls'[i] = calls[i]
  BY <1>1, <1>6
<1>9. ASSUME NEW j \in 1..l PROVE m + j \in 1..(m + l) /\ calls'[m + j] = d[j]
  <2> DEFINE k == m + j
  <2>1. k \in 1..(m + l) /\ ~(k <= m) /\ k - m = j
    BY <1>1
  <2> HIDE DEF k
  <2>2. calls'[k] = d[k - m]
    BY <1>6, <2>1
  <2> QED
    BY <2>1, <2>2 DEF k
<1>10. ASSUME NEW i \in 1..(m + l), i \notin 1..m PROVE \E j \in 1..l : i = m + j
  <2>1. i - m \in 1..l /\ i = m + (i - m)
    BY <1>1, <1>10
  <2> QED
    BY <2>1
<1> QED
  BY <1>1, <1>3, <1>6, <1>7, <1>8, <1>9, <1>10 DEF l, m, log

\* A push adds its message to the way of the streams that listen, and nothing of the buffer
\* to that of others.
LEMMA PushedWay ==
  ASSUME LogTypes, NEW b \in Buffers, NEW state, Push(b, state), NEW t \in Streams, got' = got, queue' = queue
  PROVE  \E v \in Seq(Chunk) :
           /\ Way(t) \in Seq(Chunk) /\ Way(t)' = Way(t) \o v /\ DOMAIN v = DOMAIN ears[b] /\ DOMAIN v = 1..Len(v)
           /\ \A j \in DOMAIN v : v[j] = IF ears[b][j] = t THEN [buf |-> b, n |-> Len(logs[b]) + 1] ELSE End
PROOF
<1> DEFINE log == [buf |-> b, n |-> Len(logs[b]) + 1]
           l == Len(ears[b])
           m == Len(calls)
           v == [j \in 1..l |-> IF ears[b][j] = t THEN log ELSE End]
           c == Coming(t)
           z == [i \in DOMAIN calls' |-> IF calls'[i].to = t THEN calls'[i].log ELSE End]
           g == got[t] \o queue[t]
<1>1. /\ m \in Nat /\ l \in Nat /\ DOMAIN calls = 1..m /\ DOMAIN ears[b] = 1..l /\ DOMAIN calls' = 1..(m + l)
      /\ calls' \in Seq(CallRec) /\ Len(logs[b]) \in Nat /\ log \in Message
      /\ \A i \in 1..m : calls'[i] = calls[i]
      /\ \A j \in 1..l : calls'[m + j] = [to |-> ears[b][j], log |-> log]
  <2>1. Len(logs[b]) \in Nat
    BY LenProperties DEF LogTypes
  <2>2. log \in Message
    BY <2>1 DEF Message
  <2> QED
    BY <2>1, <2>2, PushedCalls
<1>2. v \in [1..l -> Chunk] /\ v \in Seq(Chunk) /\ Len(v) = l /\ DOMAIN v = 1..l
  <2>1. v \in [1..l -> Chunk]
    BY <1>1, ChunkKinds
  <2>2. v \in Seq(Chunk)
    BY <1>1, <2>1
  <2> QED
    BY <1>1, <2>1, <2>2, LenProperties
<1>3. c \in Seq(Chunk) /\ Len(c) = m /\ Way(t) = g \o c /\ DOMAIN c = 1..m
  BY <1>1, ComingIs
<1>4. Way(t)' = g \o z
  BY DEF Way
<1>5. z = c \o v
  <2>1. /\ c \o v \in Seq(Chunk) /\ Len(c \o v) = m + l
        /\ \A i \in 1..(m + l) : (c \o v)[i] = IF i <= m THEN c[i] ELSE v[i - m]
    <3> HIDE DEF c, v, l, m
    <3> QED
      BY <1>2, <1>3, ConcatProperties
  <2>2. \A i \in 1..m : c[i] = IF calls[i].to = t THEN calls[i].log ELSE End
    BY <1>1 DEF Coming
  <2>3. \A j \in 1..l : v[j] = IF ears[b][j] = t THEN log ELSE End
    OBVIOUS
  <2>4. \A i \in 1..(m + l) : z[i] = IF calls'[i].to = t THEN calls'[i].log ELSE End
    BY <1>1
  <2>5. z = [i \in 1..(m + l) |-> z[i]] /\ c \o v = [i \in 1..(m + l) |-> (c \o v)[i]]
    <3>1. DOMAIN (c \o v) = 1..(m + l) /\ DOMAIN z = 1..(m + l)
      BY <1>1, <2>1, LenProperties
    <3>2. c \o v = [i \in DOMAIN (c \o v) |-> (c \o v)[i]]
      <4>1. c \o v \in [1..Len(c \o v) -> Chunk]
        BY <2>1, LenProperties
      <4> HIDE DEF c, v
      <4> QED
        BY <4>1
    <3> QED
      BY <1>1, <3>1, <3>2
  <2> HIDE DEF c, v, z, l, m, log
  <2>6. ASSUME NEW i \in 1..(m + l) PROVE z[i] = (c \o v)[i]
    <3>1. CASE i <= m
      <4>1. i \in 1..m
        BY <1>1, <3>1
      <4> QED
        BY <1>1, <2>1, <2>2, <2>4, <3>1, <4>1
    <3>2. CASE ~(i <= m)
      <4>1. i - m \in 1..l /\ i = m + (i - m)
        BY <1>1, <3>2
      <4>2. calls'[i] = [to |-> ears[b][i - m], log |-> log]
        BY <1>1, <4>1
      <4> QED
        BY <2>1, <2>3, <2>4, <3>2, <4>1, <4>2
    <3> QED
      BY <3>1, <3>2
  <2> QED
    BY <2>5, <2>6
<1>6. g \in Seq(Chunk)
  BY ConcatProperties DEF LogTypes
<1>7. g \o c \in Seq(Chunk) /\ (g \o c) \o v = g \o (c \o v)
  <2> HIDE DEF g, c, v
  <2> QED
    BY <1>2, <1>3, <1>6, ConcatProperties, ConcatAssociative
<1>8. \A j \in DOMAIN v : v[j] = IF ears[b][j] = t THEN [buf |-> b, n |-> Len(logs[b]) + 1] ELSE End
  BY <1>2
<1> HIDE DEF v, g, c, z, log
<1> QED
  BY <1>1, <1>2, <1>3, <1>4, <1>5, <1>7, <1>8

\* What a stream was sent stays what it was when a log is pushed.
LEMMA StillBrought ==
  ASSUME LogTypes, NEW b \in Buffers, NEW state \in States, Push(b, state), NEW t \in Streams, ChunksTell(t),
         st' = st, NEW chunks \in SUBSET Sent(t), NEW m, Brought(m, t, chunks)
  PROVE  \E c \in chunks : c.buf \in Buffers /\ NameOf[c.buf] = m /\ logs'[c.buf][c.n] \in st'[t].until
PROOF
<1>1. PICK c \in chunks : c.buf \in Buffers /\ NameOf[c.buf] = m /\ logs[c.buf][c.n] \in st[t].until
  BY DEF Brought
<1>2. c.n \in 1..Len(logs[c.buf])
  BY <1>1, FileAssumption DEF ChunksTell
<1>3. logs'[c.buf][c.n] = logs[c.buf][c.n]
  BY <1>1, <1>2, PushedLogs
<1> QED
  BY <1>1, <1>3

\* A log is pushed.
LEMMA PushKeeps ==
  ASSUME LogInv, NEW b \in Buffers, NEW state \in States, Push(b, state), phase[b] # "out",
         UNCHANGED <<ears, enters, handlers, file, st, queue, got>>,
         phase' \in [Buffers -> {"out", "up", "leaving"}],
         \A c \in Buffers : phase'[c] = "out" <=> phase[c] = "out",
         \A c \in Buffers : Len(logs'[c]) + (IF phase'[c] = "up" THEN 1 ELSE 0) <= MaxLogs[c] + enters[c]
  PROVE  LogInv'
PROOF
<1>0. LogTypes /\ EarsTell /\ CallsTell /\ Entered /\ InFile /\ \A t \in Streams : StreamInv(t)
  BY DEF LogInv
<1>1. /\ logs' \in [Buffers -> Seq(States)] /\ Len(logs[b]) \in Nat /\ Len(logs'[b]) = Len(logs[b]) + 1
      /\ logs'[b] # <<>> /\ \A c \in Buffers : c # b => logs'[c] = logs[c]
  BY <1>0, PushedLogs
<1>2. \A c \in Buffers : \A n \in 1..Len(logs[c]) : logs'[c][n] = logs[c][n] /\ n \in 1..Len(logs'[c])
  BY <1>0, PushedLogs
<1> DEFINE NewCall(j) == [to |-> ears[b][j], log |-> [buf |-> b, n |-> Len(logs[b]) + 1]]
<1>3. /\ calls' \in Seq(CallRec)
      /\ \A i \in DOMAIN calls : i \in DOMAIN calls' /\ calls'[i] = calls[i]
      /\ \A j \in DOMAIN ears[b] : \E i \in DOMAIN calls' : calls'[i] = NewCall(j)
      /\ \A i \in DOMAIN calls' : (i \in DOMAIN calls /\ calls'[i] = calls[i]) \/ \E j \in DOMAIN ears[b] : calls'[i] = NewCall(j)
  <2>1. calls' \in Seq(CallRec) /\ DOMAIN calls = 1..Len(calls) /\ DOMAIN ears[b] = 1..Len(ears[b])
    BY <1>0, PushedCalls
  <2>2. \A i \in 1..Len(calls) : i \in DOMAIN calls' /\ calls'[i] = calls[i]
    BY <1>0, PushedCalls
  <2>3. \A j \in 1..Len(ears[b]) : Len(calls) + j \in DOMAIN calls' /\ calls'[Len(calls) + j] = NewCall(j)
    BY <1>0, PushedCalls
  <2>4. \A i \in DOMAIN calls' : i \in 1..Len(calls) \/ \E j \in 1..Len(ears[b]) : i = Len(calls) + j
    BY <1>0, PushedCalls
  <2> HIDE DEF NewCall
  <2> QED
    BY <2>1, <2>2, <2>3, <2>4
<1>t. \A j \in DOMAIN ears[b] : NewCall(j).to = ears[b][j] /\ NewCall(j).log = [buf |-> b, n |-> Len(logs[b]) + 1]
  OBVIOUS
<1> HIDE DEF NewCall
<1>4. LogTypes'
  BY <1>0, <1>1, <1>3 DEF LogTypes
<1>5. EarsTell'
  BY <1>0 DEF EarsTell
<1>6. \A j \in DOMAIN ears[b] : ears[b][j] \in Range(ears[b]) /\ ears[b][j] \in Streams \cup {File}
  <2>1. DOMAIN ears[b] = 1..Len(ears[b]) /\ \A j \in 1..Len(ears[b]) : ears[b][j] \in Streams \cup {File}
    BY <1>0, ElementOfSeq, LenProperties DEF LogTypes
  <2> QED
    BY <2>1 DEF Range
<1>7. CallsTell'
  <2> SUFFICES ASSUME NEW i \in DOMAIN calls'
               PROVE  /\ calls'[i].log.n \in 1..Len(logs'[calls'[i].log.buf])
                      /\ calls'[i].to # File => st[calls'[i].to].pc \in {"listen", "over"}
    BY DEF CallsTell, Heeds
  <2>1. CASE i \in DOMAIN calls /\ calls'[i] = calls[i]
    <3>1. calls[i].log.n \in 1..Len(logs[calls[i].log.buf]) /\ (calls[i].to # File => st[calls[i].to].pc \in {"listen", "over"})
      BY <1>0, <2>1 DEF CallsTell, Heeds
    <3>2. calls[i].log.buf \in Buffers
      <4>1. calls[i] \in CallRec
        BY <1>0, <2>1, ElementOfSeq, LenProperties DEF LogTypes
      <4> QED
        BY <4>1 DEF CallRec, Message
    <3> QED
      BY <1>2, <2>1, <3>1, <3>2
  <2>2. ASSUME NEW j \in DOMAIN ears[b], calls'[i] = NewCall(j)
        PROVE  /\ calls'[i].log.n \in 1..Len(logs'[calls'[i].log.buf])
               /\ calls'[i].to # File => st[calls'[i].to].pc \in {"listen", "over"}
    <3>1. calls'[i].log.n = Len(logs[b]) + 1 /\ calls'[i].log.buf = b /\ calls'[i].to = ears[b][j]
      BY <1>t, <2>2
    <3>2. ears[b][j] # File => st[ears[b][j]].pc = "listen"
      BY <1>0, <1>6 DEF EarsTell
    <3> QED
      BY <1>1, <3>1, <3>2
  <2> QED
    BY <1>3, <2>1, <2>2
<1>8. Entered'
  <2> SUFFICES ASSUME NEW c \in Buffers
               PROVE  /\ phase'[c] # "out" \/ logs'[c] # <<>> => enters[c] > 0
                      /\ enters[c] > 0 => handlers[NameOf[c]] > 0
                      /\ enters[c] <= MaxEnters[c]
    BY DEF Entered
  <2> QED
    BY <1>0, <1>1 DEF Entered
<1>9. InFile'
  <2> SUFFICES ASSUME NEW c \in Buffers, NEW n \in 1..Len(logs'[c])
               PROVE  \/ file[c][n] > 0
                      \/ \E i \in DOMAIN calls' : calls'[i].to = File /\ calls'[i].log = [buf |-> c, n |-> n]
    BY DEF InFile
  <2>1. CASE n \in 1..Len(logs[c])
    BY <1>0, <1>3, <2>1 DEF InFile
  <2>2. CASE n \notin 1..Len(logs[c])
    <3>1. c = b /\ n = Len(logs[b]) + 1
      BY <1>1, <2>2
    <3>2. PICK j \in DOMAIN ears[b] : ears[b][j] = File
      BY <1>0 DEF EarsTell, Range
    <3> QED
      BY <1>3, <1>t, <3>1, <3>2
  <2> QED
    BY <2>1, <2>2
<1>10. ASSUME NEW t \in Streams PROVE StreamInv(t)'
  <2>0. ChunksTell(t) /\ ReachedTell(t) /\ PlaceTells(t) /\ ReasonTold(t) /\ WithoutGap(t)
    BY <1>0 DEF StreamInv
  <2>1. Sent(t)' = Sent(t) /\ Heeds(t)' = Heeds(t)
    BY DEF Sent, Heeds
  <2>2. ChunksTell(t)'
    <3>1. \A c \in Sent(t) : c.buf # NoBuffer => c.buf \in Buffers
      <4>1. Range(got[t]) \subseteq Chunk /\ Range(queue[t]) \subseteq Chunk
        BY <1>0, RangeOfSeq DEF LogTypes
      <4> QED
        BY <4>1 DEF Sent, Chunk
    <3> QED
      BY <1>2, <2>0, <2>1, <3>1 DEF ChunksTell
  <2>3. ReachedTell(t)'
    <3>1. \A m \in st[t].reached : Brought(m, t, Sent(t))
      BY <2>0 DEF ReachedTell
    <3>2. \A m \in st[t].reached : Brought(m, t, Sent(t))'
      BY <1>0, <2>0, <2>1, <3>1, StillBrought DEF Brought
    <3> QED
      BY <2>0, <2>1, <3>2 DEF ReachedTell
  <2>4. PlaceTells(t)'
    <3>1. ASSUME Silent(t), st[t].pc = "over" PROVE Silent(t)'
      <4>1. \A j \in DOMAIN ears[b] : ears[b][j] # t
        BY <1>0, <1>6, <3>1 DEF EarsTell
      <4>2. \A i \in DOMAIN calls : calls[i].to # t
        BY <3>1 DEF Silent
      <4>3. \A i \in DOMAIN calls' : calls'[i].to # t
        BY <1>3, <1>t, <4>1, <4>2
      <4> QED
        BY <3>1, <4>3 DEF Silent, Unasked
    <3> QED
      BY <2>0, <2>1, <3>1 DEF PlaceTells, Unasked
  <2>5. ReasonTold(t)'
    <3>1. Range(got[t]) \in SUBSET Sent(t)
      BY DEF Sent
    <3>2. ASSUME NEW m \in st[t].names, Brought(m, t, Range(got[t])) PROVE Brought(m, t, Range(got[t]))'
      <4>1. \E c \in Range(got[t]) : c.buf \in Buffers /\ NameOf[c.buf] = m /\ logs'[c.buf][c.n] \in st'[t].until
        BY <1>0, <2>0, <3>1, <3>2, StillBrought
      <4> QED
        BY <4>1 DEF Brought
    <3> QED
      BY <2>0, <3>2 DEF ReasonTold
  <2>6. WithoutGap(t)'
    <3> SUFFICES ASSUME NEW c \in Buffers, t \in Range(ears[c]) PROVE Gapless(Way(t)', c, Len(logs'[c]))
      BY DEF WithoutGap
    <3>1. PICK v \in Seq(Chunk) :
            /\ Way(t) \in Seq(Chunk) /\ Way(t)' = Way(t) \o v /\ DOMAIN v = DOMAIN ears[b] /\ DOMAIN v = 1..Len(v)
            /\ \A j \in DOMAIN v : v[j] = IF ears[b][j] = t THEN [buf |-> b, n |-> Len(logs[b]) + 1] ELSE End
      BY <1>0, PushedWay
    <3>2. Gapless(Way(t), c, Len(logs[c]))
      BY <2>0 DEF WithoutGap
    <3>3. CASE c = b
      <4>1. PICK j \in DOMAIN ears[b] : ears[b][j] = t
        BY <3>3 DEF Range
      <4>2. Once(ears[b])
        BY <1>0 DEF EarsTell
      <4>3. j \in 1..Len(v) /\ v[j].n = Len(logs[b]) + 1 /\ v[j].buf = b
        BY <3>1, <4>1
      <4>4. ASSUME NEW i \in DOMAIN v, v[i].buf = b PROVE i = j
        <5>1. ears[b][i] = t
          BY <3>1, <4>4, ChunkKinds, FileAssumption
        <5> QED
          BY <3>1, <4>1, <4>2, <5>1 DEF Once
      <4>5. Own(v, b) = {j}
        BY <3>1, <4>3, <4>4 DEF Own
      <4> HIDE DEF Way
      <4>6. Gapless(Way(t) \o v, b, Len(logs[b]) + 1)
        BY <1>1, <3>1, <3>2, <3>3, <4>3, <4>5, AddedGapless
      <4> QED
        BY <1>1, <3>1, <3>3, <4>6
    <3>4. CASE c # b
      <4>1. Own(v, c) = {}
        BY <3>1, <3>4, ChunkKinds, FileAssumption DEF Own
      <4>2. <<>> \in Seq(Chunk) /\ Own(<<>>, c) = {} /\ <<>> \o Way(t) = Way(t)
        BY <3>1, NothingOwn, ConcatEmptySeq
      <4>3. Gapless((<<>> \o Way(t)) \o v, c, Len(logs[c]))
        BY <3>1, <3>2, <4>1, <4>2, PaddedGapless
      <4> QED
        BY <1>1, <3>1, <3>4, <4>2, <4>3
    <3> QED
      BY <3>3, <3>4
  <2> QED
    BY <2>2, <2>3, <2>4, <2>5, <2>6 DEF StreamInv
<1> QED
  BY <1>4, <1>5, <1>7, <1>8, <1>9, <1>10 DEF LogInv

LEMMA StateTyped ==
  ASSUME LogTypes, NEW b \in Buffers
  PROVE  State(b) \in States
PROOF
<1>1. logs[b] \in Seq(States)
  BY DEF LogTypes
<1>2. CASE logs[b] = <<>>
  BY <1>2 DEF State, States
<1>3. CASE logs[b] # <<>>
  <2>1. Len(logs[b]) \in 1..Len(logs[b])
    <3>1. Len(logs[b]) \in Nat \ {0}
      BY <1>1, <1>3, EmptySeq
    <3> QED
      BY <3>1
  <2>2. logs[b][Len(logs[b])] \in States
    BY <1>1, <2>1, ElementOfSeq
  <2> QED
    BY <1>3, <2>2 DEF State, Last
<1> QED
  BY <1>2, <1>3

\* While a server runs it has room for one log more than is pushed before it leaves.
LEMMA RoomStays ==
  ASSUME LogInv, NEW b \in Buffers, NEW state \in States, Push(b, state), phase[b] # "out",
         Len(logs[b]) < MaxLogs[b], phase' = phase
  PROVE  \A c \in Buffers : Len(logs'[c]) + (IF phase'[c] = "up" THEN 1 ELSE 0) <= MaxLogs[c] + enters[c]
PROOF
<1>1. /\ \A c \in Buffers : Len(logs[c]) + (IF phase[c] = "up" THEN 1 ELSE 0) <= MaxLogs[c] + enters[c]
      /\ enters[b] > 0 /\ enters[b] \in Nat /\ MaxLogs[b] \in Nat
  BY BoundsAssumption DEF LogInv, Entered, LogTypes
<1>2. /\ Len(logs[b]) \in Nat /\ Len(logs'[b]) = Len(logs[b]) + 1 /\ \A c \in Buffers : c # b => logs'[c] = logs[c]
  BY PushedLogs DEF LogInv
<1>3. Len(logs'[b]) + 1 <= MaxLogs[b] + enters[b] /\ Len(logs'[b]) + 0 <= MaxLogs[b] + enters[b]
  BY <1>1, <1>2
<1> QED
  BY <1>1, <1>2, <1>3

\* The server changes its state, writes, and leaves.
LEMMA ChangeKeeps ==
  ASSUME LogInv, NEW b \in Buffers, Change(b)
  PROVE  LogInv'
PROOF
<1>1. PICK new \in Reports :
        /\ phase[b] # "out" /\ Len(logs[b]) < MaxLogs[b]
        /\ \/ new \in {"RUNNING", "UNAUTHORIZED"}
           \/ new = "RESTARTING" /\ State(b) = "RUNNING"
           \/ new = "FAILED" /\ State(b) # "CLOSED"
        /\ Push(b, new)
        /\ UNCHANGED <<ears, phase, enters, handlers, file, st, queue, got>>
  BY DEF Change
<1>2. new \in States
  BY <1>1 DEF States
<1>3. phase \in [Buffers -> {"out", "up", "leaving"}] /\ phase' = phase
  BY <1>1 DEF LogInv, LogTypes
<1>4. \A c \in Buffers : Len(logs'[c]) + (IF phase'[c] = "up" THEN 1 ELSE 0) <= MaxLogs[c] + enters[c]
  BY <1>1, <1>2, <1>3, RoomStays
<1> QED
  BY <1>1, <1>2, <1>3, <1>4, PushKeeps

LEMMA WriteKeeps ==
  ASSUME LogInv, NEW b \in Buffers, Write(b)
  PROVE  LogInv'
PROOF
<1>1. /\ phase[b] # "out" /\ Len(logs[b]) < MaxLogs[b] /\ Push(b, State(b))
      /\ UNCHANGED <<ears, phase, enters, handlers, file, st, queue, got>>
  BY DEF Write
<1>2. State(b) \in States
  BY StateTyped DEF LogInv
<1>3. phase \in [Buffers -> {"out", "up", "leaving"}] /\ phase' = phase
  BY <1>1 DEF LogInv, LogTypes
<1>4. \A c \in Buffers : Len(logs'[c]) + (IF phase'[c] = "up" THEN 1 ELSE 0) <= MaxLogs[c] + enters[c]
  BY <1>1, <1>2, <1>3, RoomStays
<1> QED
  BY <1>1, <1>2, <1>3, <1>4, PushKeeps

\* No stream notices that a server comes and goes.
LEMMA ServerStep ==
  ASSUME LogInv, UNCHANGED <<logs, calls, st, queue, got>>,
         \A b \in Buffers : \A t \in Streams : t \in Range(ears'[b]) => t \in Range(ears[b])
  PROVE  CallsTell' /\ \A t \in Streams : StreamInv(t)'
PROOF
<1>1. LogTypes /\ CallsTell /\ \A t \in Streams : StreamInv(t)
  BY DEF LogInv
<1>2. CallsTell'
  BY <1>1 DEF CallsTell, Heeds
<1>3. ASSUME NEW t \in Streams PROVE StreamInv(t)'
  BY <1>1, StreamStays
<1> QED
  BY <1>2, <1>3

LEMMA LeaveKeeps ==
  ASSUME LogInv, NEW b \in Buffers, Leave(b)
  PROVE  LogInv'
PROOF
<1>0. LogTypes /\ EarsTell /\ CallsTell /\ Entered /\ InFile
  BY DEF LogInv
<1>1. /\ phase[b] = "up" /\ phase' = [phase EXCEPT ![b] = "leaving"]
      /\ UNCHANGED <<ears, enters, handlers, file, st, queue, got>>
      /\ Push(b, "CLOSED") \/ UNCHANGED <<logs, calls>>
  BY DEF Leave
<1>2. /\ phase' \in [Buffers -> {"out", "up", "leaving"}] /\ (\A c \in Buffers : phase'[c] = "out" <=> phase[c] = "out")
      /\ phase'[b] = "leaving" /\ \A c \in Buffers : c # b => phase'[c] = phase[c]
  BY <1>0, <1>1 DEF LogTypes
<1>3. /\ \A c \in Buffers : Len(logs[c]) + (IF phase[c] = "up" THEN 1 ELSE 0) <= MaxLogs[c] + enters[c]
      /\ Len(logs[b]) \in Nat /\ MaxLogs[b] \in Nat /\ enters[b] \in Nat
  BY <1>0, BoundsAssumption, LenProperties DEF Entered, LogTypes
<1>4. Len(logs[b]) + 1 <= MaxLogs[b] + enters[b]
  BY <1>1, <1>3
<1>5. CASE Push(b, "CLOSED")
  <2>1. "CLOSED" \in States
    BY DEF States
  <2>2. Len(logs'[b]) = Len(logs[b]) + 1 /\ \A c \in Buffers : c # b => logs'[c] = logs[c]
    BY <1>0, <1>5, <2>1, PushedLogs
  <2>3. Len(logs'[b]) + 0 <= MaxLogs[b] + enters[b]
    BY <1>3, <1>4, <2>2
  <2>4. \A c \in Buffers : Len(logs'[c]) + (IF phase'[c] = "up" THEN 1 ELSE 0) <= MaxLogs[c] + enters[c]
    BY <1>2, <1>3, <2>2, <2>3
  <2> QED
    BY <1>1, <1>2, <1>5, <2>1, <2>4, PushKeeps
<1>6. CASE UNCHANGED <<logs, calls>>
  <2>1. LogTypes'
    BY <1>0, <1>1, <1>2, <1>6 DEF LogTypes
  <2>2. EarsTell'
    BY <1>0, <1>1, <1>2 DEF EarsTell
  <2>3. Entered'
    <3>1. Len(logs[b]) + 0 <= MaxLogs[b] + enters[b]
      BY <1>3, <1>4
    <3>2. \A c \in Buffers : Len(logs[c]) + (IF phase'[c] = "up" THEN 1 ELSE 0) <= MaxLogs[c] + enters[c]
      BY <1>2, <1>3, <3>1
    <3>3. \A c \in Buffers : /\ phase'[c] # "out" \/ logs[c] # <<>> => enters[c] > 0
                             /\ enters[c] > 0 => handlers[NameOf[c]] > 0
                             /\ enters[c] <= MaxEnters[c]
      BY <1>0, <1>2 DEF Entered
    <3> QED
      BY <1>1, <1>6, <3>2, <3>3 DEF Entered
  <2>4. InFile'
    BY <1>0, <1>1, <1>6 DEF InFile
  <2>5. CallsTell' /\ \A t \in Streams : StreamInv(t)'
    BY <1>1, <1>6, ServerStep
  <2> QED
    BY <2>1, <2>2, <2>3, <2>4, <2>5 DEF LogInv
<1> QED
  BY <1>1, <1>5, <1>6

\* A buffer is registered.
LEMMA RegisterKeeps ==
  ASSUME LogInv, NEW b \in Buffers, Register(b)
  PROVE  LogInv'
PROOF
<1>0. LogTypes /\ EarsTell /\ CallsTell /\ Entered /\ InFile
  BY DEF LogInv
<1>1. /\ phase[b] = "out" /\ enters[b] < MaxEnters[b]
      /\ phase' = [phase EXCEPT ![b] = "up"] /\ enters' = [enters EXCEPT ![b] = @ + 1]
      /\ handlers' = [handlers EXCEPT ![NameOf[b]] = @ + 1]
      /\ file' = [file EXCEPT ![b] = [n \in AllLogs(b) |-> IF n \in Held(b) THEN @[n] + handlers'[NameOf[b]] ELSE @[n]]]
      /\ ears' = [ears EXCEPT ![b] = Append(@, File)]
      /\ UNCHANGED <<logs, calls, st, queue, got>>
  BY DEF Register
<1>2. NameOf[b] \in Names /\ handlers \in [Names -> Nat] /\ enters[b] \in Nat /\ MaxEnters[b] \in Nat /\ MaxLogs[b] \in Nat
      /\ Len(logs[b]) \in Nat
  BY <1>0, NameAssumption, BoundsAssumption, LenProperties DEF LogTypes
<1>3. /\ handlers' \in [Names -> Nat] /\ handlers'[NameOf[b]] > 0 /\ \A m \in Names : handlers[m] > 0 => handlers'[m] > 0
  BY <1>1, <1>2
<1>4. /\ phase' \in [Buffers -> {"out", "up", "leaving"}] /\ phase'[b] = "up" /\ \A c \in Buffers : c # b => phase'[c] = phase[c]
      /\ enters' \in [Buffers -> Nat] /\ enters'[b] = enters[b] + 1 /\ \A c \in Buffers : c # b => enters'[c] = enters[c]
  BY <1>0, <1>1, <1>2 DEF LogTypes
<1>5. /\ DOMAIN file' = Buffers /\ \A c \in Buffers : c # b => file'[c] = file[c]
      /\ file'[b] = [n \in AllLogs(b) |-> IF n \in Held(b) THEN file[b][n] + handlers'[NameOf[b]] ELSE file[b][n]]
      /\ \A c \in Buffers : file[c] \in [AllLogs(c) -> Nat]
  BY <1>0, <1>1 DEF LogTypes
<1>6. file'[b] \in [AllLogs(b) -> Nat] /\ \A n \in AllLogs(b) : file[b][n] > 0 => file'[b][n] > 0
  <2>1. handlers'[NameOf[b]] \in Nat
    BY <1>2, <1>3
  <2>2. \A n \in AllLogs(b) : file[b][n] \in Nat /\ file[b][n] + handlers'[NameOf[b]] \in Nat
    BY <1>5, <2>1
  <2>3. \A n \in AllLogs(b) : file'[b][n] \in Nat /\ (file[b][n] > 0 => file'[b][n] > 0)
    BY <1>5, <2>1, <2>2
  <2> QED
    BY <1>5, <2>2, <2>3
<1>7. ASSUME NEW c \in Buffers
      PROVE  /\ ears'[c] \in Seq(Streams \cup {File}) /\ Once(ears'[c])
             /\ Range(ears'[c]) = IF c = b THEN Range(ears[c]) \cup {File} ELSE Range(ears[c])
  <2>1. ears[c] \in Seq(Streams \cup {File}) /\ Once(ears[c])
    BY <1>0 DEF LogTypes, EarsTell
  <2>2. CASE c = b
    <3>1. File \notin Range(ears[b])
      BY <1>0, <1>1 DEF EarsTell
    <3>2. ears'[b] = Append(ears[b], File)
      BY <1>0, <1>1 DEF LogTypes
    <3> QED
      BY <2>1, <2>2, <3>1, <3>2, AppendedOnce
  <2>3. CASE c # b
    BY <1>0, <1>1, <2>1, <2>3 DEF LogTypes
  <2> QED
    BY <2>2, <2>3
<1>8. LogTypes'
  <2>1. ears' \in [Buffers -> Seq(Streams \cup {File})]
    BY <1>0, <1>1, <1>7 DEF LogTypes
  <2>2. \A c \in Buffers : file'[c] \in [AllLogs(c) -> Nat]
    BY <1>5, <1>6
  <2> QED
    BY <1>0, <1>1, <1>3, <1>4, <1>5, <2>1, <2>2 DEF LogTypes
<1>9. EarsTell'
  <2> SUFFICES ASSUME NEW c \in Buffers
               PROVE  /\ File \in Range(ears'[c]) <=> phase'[c] # "out"
                      /\ \A s \in Streams : s \in Range(ears'[c]) => st[s].pc = "listen"
    BY <1>1, <1>7 DEF EarsTell
  <2> QED
    BY <1>0, <1>4, <1>7, FileAssumption DEF EarsTell
<1>10. Entered'
  <2> SUFFICES ASSUME NEW c \in Buffers
               PROVE  /\ phase'[c] # "out" \/ logs[c] # <<>> => enters'[c] > 0
                      /\ enters'[c] > 0 => handlers'[NameOf[c]] > 0
                      /\ Len(logs[c]) + (IF phase'[c] = "up" THEN 1 ELSE 0) <= MaxLogs[c] + enters'[c]
                      /\ enters'[c] <= MaxEnters[c]
    BY <1>1 DEF Entered
  <2>1. CASE c = b
    <3>1. Len(logs[b]) + 0 <= MaxLogs[b] + enters[b]
      BY <1>0, <1>1 DEF Entered
    <3> QED
      BY <1>1, <1>2, <1>3, <1>4, <2>1, <3>1
  <2>2. CASE c # b
    <3>1. NameOf[c] \in Names
      BY NameAssumption
    <3> QED
      BY <1>0, <1>3, <1>4, <2>2, <3>1 DEF Entered
  <2> QED
    BY <2>1, <2>2
<1>11. InFile'
  <2> SUFFICES ASSUME NEW c \in Buffers, NEW n \in 1..Len(logs[c])
               PROVE  \/ file'[c][n] > 0
                      \/ \E i \in DOMAIN calls : calls[i].to = File /\ calls[i].log = [buf |-> c, n |-> n]
    BY <1>1 DEF InFile
  <2>1. CASE c = b
    <3>1. n \in AllLogs(b)
      <4>1. Len(logs[b]) + 0 <= MaxLogs[b] + enters[b]
        BY <1>0, <1>1 DEF Entered
      <4> QED
        BY <1>1, <1>2, <2>1, <4>1 DEF AllLogs
    <3> QED
      BY <1>0, <1>6, <2>1, <3>1 DEF InFile
  <2>2. CASE c # b
    BY <1>0, <1>5, <2>2 DEF InFile
  <2> QED
    BY <2>1, <2>2
<1>12. CallsTell' /\ \A t \in Streams : StreamInv(t)'
  <2>1. \A c \in Buffers : \A t \in Streams : t \in Range(ears'[c]) => t \in Range(ears[c])
    BY <1>7, FileAssumption
  <2> QED
    BY <1>1, <2>1, ServerStep
<1> QED
  BY <1>8, <1>9, <1>10, <1>11, <1>12 DEF LogInv

\* A buffer is registered no more.
LEMMA UnregisterKeeps ==
  ASSUME LogInv, NEW b \in Buffers, Unregister(b)
  PROVE  LogInv'
PROOF
<1>0. LogTypes /\ EarsTell /\ CallsTell /\ Entered /\ InFile
  BY DEF LogInv
<1>1. /\ phase[b] = "leaving" /\ phase' = [phase EXCEPT ![b] = "out"] /\ ears' = [ears EXCEPT ![b] = RemoveFirst(@, File)]
      /\ UNCHANGED <<logs, enters, calls, handlers, file, st, queue, got>>
  BY DEF Unregister
<1>2. /\ phase' \in [Buffers -> {"out", "up", "leaving"}] /\ phase'[b] = "out" /\ \A c \in Buffers : c # b => phase'[c] = phase[c]
  BY <1>0, <1>1 DEF LogTypes
<1>3. ASSUME NEW c \in Buffers
      PROVE  /\ ears'[c] \in Seq(Streams \cup {File}) /\ Once(ears'[c])
             /\ Range(ears'[c]) = IF c = b THEN Range(ears[c]) \ {File} ELSE Range(ears[c])
  <2>1. ears[c] \in Seq(Streams \cup {File}) /\ Once(ears[c])
    BY <1>0 DEF LogTypes, EarsTell
  <2>2. CASE c = b
    <3>1. ears'[b] = RemoveFirst(ears[b], File)
      BY <1>0, <1>1 DEF LogTypes
    <3> QED
      BY <2>1, <2>2, <3>1, RemovedOnce
  <2>3. CASE c # b
    BY <1>0, <1>1, <2>1, <2>3 DEF LogTypes
  <2> QED
    BY <2>2, <2>3
<1>4. LogTypes'
  <2>1. ears' \in [Buffers -> Seq(Streams \cup {File})]
    BY <1>0, <1>1, <1>3 DEF LogTypes
  <2> QED
    BY <1>0, <1>1, <1>2, <2>1 DEF LogTypes
<1>5. EarsTell'
  <2> SUFFICES ASSUME NEW c \in Buffers
               PROVE  /\ File \in Range(ears'[c]) <=> phase'[c] # "out"
                      /\ \A s \in Streams : s \in Range(ears'[c]) => st[s].pc = "listen"
    BY <1>1, <1>3 DEF EarsTell
  <2> QED
    BY <1>0, <1>2, <1>3 DEF EarsTell
<1>6. Entered'
  <2> SUFFICES ASSUME NEW c \in Buffers
               PROVE  /\ phase'[c] # "out" \/ logs[c] # <<>> => enters[c] > 0
                      /\ enters[c] > 0 => handlers[NameOf[c]] > 0
                      /\ Len(logs[c]) + (IF phase'[c] = "up" THEN 1 ELSE 0) <= MaxLogs[c] + enters[c]
                      /\ enters[c] <= MaxEnters[c]
    BY <1>1 DEF Entered
  <2> QED
    BY <1>0, <1>1, <1>2 DEF Entered
<1>7. InFile'
  BY <1>0, <1>1 DEF InFile
<1>8. CallsTell' /\ \A t \in Streams : StreamInv(t)'
  <2>1. \A c \in Buffers : \A t \in Streams : t \in Range(ears'[c]) => t \in Range(ears[c])
    BY <1>3
  <2> QED
    BY <1>1, <2>1, ServerStep
<1> QED
  BY <1>4, <1>5, <1>6, <1>7, <1>8 DEF LogInv

\* The first task is no longer among the waiting, all others are.
LEMMA FirstCall ==
  ASSUME LogTypes, calls # <<>>, calls' = Tail(calls)
  PROVE  /\ calls[1] = Head(calls) /\ 1 \in DOMAIN calls /\ Head(calls) \in CallRec /\ calls' \in Seq(CallRec)
         /\ \A i \in DOMAIN calls' : i + 1 \in DOMAIN calls /\ calls'[i] = calls[i + 1]
         /\ \A i \in DOMAIN calls : i # 1 => \E j \in DOMAIN calls' : calls'[j] = calls[i]
PROOF
<1> DEFINE m == Len(calls)
<1>1. /\ Head(calls) \in CallRec /\ calls' \in Seq(CallRec) /\ Head(calls) = calls[1] /\ m \in Nat /\ m > 0
      /\ Len(calls') = m - 1 /\ \A i \in 1..Len(calls') : calls'[i] = calls[i + 1]
  <2>1. calls \in Seq(CallRec)
    BY DEF LogTypes
  <2> QED
    BY <2>1, SplitHead
<1>2. DOMAIN calls = 1..m /\ DOMAIN calls' = 1..(m - 1)
  BY <1>1, LenProperties DEF LogTypes
<1> HIDE DEF m
<1>3. ASSUME NEW i \in 1..(m - 1) PROVE i + 1 \in 1..m /\ calls'[i] = calls[i + 1]
  BY <1>1, <1>3
<1>4. ASSUME NEW i \in 1..m, i # 1 PROVE \E j \in 1..(m - 1) : calls'[j] = calls[i]
  <2>1. i - 1 \in 1..(m - 1) /\ i - 1 + 1 = i
    BY <1>1, <1>4
  <2>2. calls'[i - 1] = calls[i - 1 + 1]
    BY <1>1, <2>1
  <2> QED
    BY <2>1, <2>2
<1>5. 1 \in 1..m
  BY <1>1
<1> QED
  BY <1>1, <1>2, <1>3, <1>4, <1>5

\* What comes to a stream, its first message apart.
LEMMA FirstComing ==
  ASSUME LogTypes, calls # <<>>, calls' = Tail(calls), NEW s \in Streams
  PROVE  /\ Coming(s)' \in Seq(Chunk)
         /\ Coming(s) = <<IF Head(calls).to = s THEN Head(calls).log ELSE End>> \o Coming(s)'
PROOF
<1> DEFINE x == IF Head(calls).to = s THEN Head(calls).log ELSE End
           c == Coming(s)
<1>1. /\ c \in Seq(Chunk) /\ DOMAIN c = 1..Len(calls) /\ Len(c) = Len(calls) /\ Len(calls) \in Nat
      /\ DOMAIN calls = 1..Len(calls)
  BY ComingIs
<1>2. /\ calls[1] = Head(calls) /\ 1 \in DOMAIN calls /\ calls' \in Seq(CallRec)
      /\ \A i \in DOMAIN calls' : i + 1 \in DOMAIN calls /\ calls'[i] = calls[i + 1]
  BY FirstCall
<1>3. Len(calls') = Len(calls) - 1 /\ DOMAIN calls' = 1..(Len(calls) - 1)
  <2>1. calls \in Seq(CallRec)
    BY DEF LogTypes
  <2>2. Len(calls') = Len(calls) - 1
    BY <2>1, SplitHead
  <2> QED
    BY <1>2, <2>2, LenProperties
<1>4. \A i \in DOMAIN calls : c[i] = IF calls[i].to = s THEN calls[i].log ELSE End
  BY DEF Coming
<1>5. c # <<>> /\ c[1] = x
  <2>1. c[1] = x
    BY <1>2, <1>4
  <2>2. c # <<>>
    BY <1>1, <1>2
  <2> QED
    BY <2>1, <2>2
<1> DEFINE z == [i \in DOMAIN calls' |-> IF calls'[i].to = s THEN calls'[i].log ELSE End]
<1>6. Coming(s)' = z
  BY DEF Coming
<1> HIDE DEF c, x
<1>7. /\ Tail(c) \in Seq(Chunk) /\ c = <<Head(c)>> \o Tail(c) /\ Head(c) = c[1] /\ Len(Tail(c)) = Len(c) - 1
      /\ \A i \in 1..Len(Tail(c)) : Tail(c)[i] = c[i + 1]
  BY <1>1, <1>5, SplitHead
<1> DEFINE y == Tail(c)
<1>8. y \in Seq(Chunk) /\ Len(y) = Len(calls) - 1 /\ \A i \in 1..(Len(calls) - 1) : y[i] = c[i + 1]
  BY <1>1, <1>7
<1> HIDE DEF y
<1>9. y = z
  <2>1. DOMAIN y = 1..(Len(calls) - 1) /\ y = [i \in DOMAIN y |-> y[i]]
    <3>1. y \in [1..Len(y) -> Chunk]
      BY <1>8, LenProperties
    <3> QED
      BY <1>8, <3>1
  <2>2. ASSUME NEW i \in DOMAIN calls' PROVE y[i] = IF calls'[i].to = s THEN calls'[i].log ELSE End
    <3>1. y[i] = c[i + 1]
      BY <1>3, <1>8
    <3> QED
      BY <1>2, <1>4, <3>1
  <2> QED
    BY <1>3, <2>1, <2>2
<1> HIDE DEF z
<1> QED
  BY <1>5, <1>6, <1>7, <1>8, <1>9 DEF x, c, y

\* A stream that has heard a log.
Filled(g, names, ended) == [g EXCEPT !.reached = names, !.ended = ended]

LEMMA FilledIs ==
  ASSUME NEW g \in Handler, NEW names \in SUBSET Names, NEW ended \in BOOLEAN
  PROVE  LET h == Filled(g, names, ended)
         IN /\ h.pc = g.pc /\ h.reached = names /\ h.ended = ended /\ h.gen = g.gen /\ h.retries = g.retries
            /\ h.until = g.until /\ h.names = g.names /\ h \in Handler
PROOF
  BY DEF Filled, Handler

\* The history of the file has room for all logs.
LEMMA LogsFit ==
  ASSUME LogInv, NEW b \in Buffers, NEW n \in 1..Len(logs[b])
  PROVE  n \in AllLogs(b)
PROOF
<1>1. /\ Len(logs[b]) + (IF phase[b] = "up" THEN 1 ELSE 0) <= MaxLogs[b] + enters[b] /\ enters[b] <= MaxEnters[b]
      /\ enters[b] \in Nat /\ MaxLogs[b] \in Nat /\ MaxEnters[b] \in Nat /\ Len(logs[b]) \in Nat
  BY BoundsAssumption, LenProperties DEF LogInv, LogTypes, Entered
<1>2. \A l, x, y, z \in Nat : \A d \in {0, 1} : l + d <= x + y /\ y <= z => l <= x + z
  OBVIOUS
<1>3. Len(logs[b]) <= MaxLogs[b] + MaxEnters[b]
  BY <1>1, <1>2
<1> QED
  BY <1>1, <1>3 DEF AllLogs

\* The first task of a listener runs: a log for the file, or for a stream.
LEMMA CallKeeps ==
  ASSUME LogInv, Call
  PROVE  LogInv'
PROOF
<1> DEFINE to == Head(calls).to
           m == Head(calls).log
<1>0. LogTypes /\ EarsTell /\ CallsTell /\ Entered /\ InFile /\ \A t \in Streams : StreamInv(t)
  BY DEF LogInv
<1>1. /\ calls # <<>> /\ calls' = Tail(calls)
      /\ logs' = logs /\ phase' = phase /\ enters' = enters /\ handlers' = handlers /\ ears' = ears /\ got' = got
      /\ to = File => /\ file' = [file EXCEPT ![m.buf][m.n] = @ + handlers[NameOf[m.buf]]]
                      /\ st' = st /\ queue' = queue
      /\ to # File => Heard(to, m)
  BY DEF Call, server
<1>2. /\ calls[1].to = to /\ calls[1].log = m /\ 1 \in DOMAIN calls /\ to \in Streams \cup {File} /\ m \in Message
      /\ calls' \in Seq(CallRec)
  BY <1>0, <1>1, FirstCall DEF CallRec
<1>3. /\ \A i \in DOMAIN calls' : i + 1 \in DOMAIN calls /\ calls'[i] = calls[i + 1]
      /\ \A i \in DOMAIN calls : i # 1 => \E j \in DOMAIN calls' : calls'[j] = calls[i]
  BY <1>0, <1>1, FirstCall
<1>4. m.n \in 1..Len(logs[m.buf]) /\ m.buf \in Buffers /\ (to # File => Heeds(to))
  BY <1>0, <1>2 DEF CallsTell, Message
<1> HIDE DEF to, m
\* A stream whose task this is not.
<1>5. ASSUME NEW t \in Streams, t # to, st'[t] = st[t], queue'[t] = queue[t] PROVE StreamInv(t)'
  <2>0. ChunksTell(t) /\ ReachedTell(t) /\ PlaceTells(t) /\ ReasonTold(t) /\ WithoutGap(t)
    BY <1>0 DEF StreamInv
  <2>1. Sent(t)' = Sent(t) /\ Heeds(t)' = Heeds(t) /\ got'[t] = got[t]
    BY <1>1, <1>5 DEF Sent, Heeds
  <2>2. ChunksTell(t)'
    BY <1>1, <2>0, <2>1 DEF ChunksTell
  <2>3. ReachedTell(t)'
    BY <1>1, <1>5, <2>0, <2>1 DEF ReachedTell, Brought
  <2>4. PlaceTells(t)'
    BY <1>1, <1>3, <1>5, <2>0, <2>1 DEF PlaceTells, Unasked, Silent
  <2>5. ReasonTold(t)'
    BY <1>1, <1>5, <2>0, <2>1 DEF ReasonTold, Brought
  <2>6. WithoutGap(t)'
    <3> SUFFICES ASSUME NEW b \in Buffers, t \in Range(ears[b]) PROVE Gapless(Way(t)', b, Len(logs[b]))
      BY <1>1 DEF WithoutGap
    <3> DEFINE u == got[t] \o queue[t]
               c == Coming(t)
               d == Coming(t)'
    <3>1. c = <<End>> \o d /\ d \in Seq(Chunk)
      BY <1>0, <1>1, <1>5, FirstComing DEF to
    <3>2. Way(t) = u \o c /\ u \in Seq(Chunk)
      BY <1>0, ComingIs, HandlerFields, ConcatProperties
    <3>3. Way(t)' = u \o d
      BY <1>5, <2>1 DEF Way, Coming
    <3> DEFINE e == <<End>>
    <3>4. e \in Seq(Chunk)
      BY ChunkKinds
    <3>5. Way(t) = u \o (e \o d)
      BY <3>1, <3>2
    <3> HIDE DEF u, d, e
    <3>6. u \o (e \o d) = (u \o e) \o d
      BY <3>1, <3>2, <3>4, ConcatAssociative
    <3>7. Gapless((u \o e) \o d, b, Len(logs[b]))
      BY <2>0, <3>5, <3>6 DEF WithoutGap
    <3>8. Gapless((u \o <<End>>) \o d, b, Len(logs[b])) /\ End.buf # b
      BY <3>7, ChunkKinds, FileAssumption DEF e
    <3>9. Gapless(u \o d, b, Len(logs[b]))
      BY <3>1, <3>2, <3>8, ChunkKinds, DroppedGapless
    <3> QED
      BY <3>3, <3>9
  <2> QED
    BY <2>2, <2>3, <2>4, <2>5, <2>6 DEF StreamInv
<1>6. EarsTell' <=> \A b \in Buffers : \A s \in Streams : s \in Range(ears[b]) => st'[s].pc = "listen"
  BY <1>0, <1>1 DEF EarsTell
<1>7. Entered'
  BY <1>0, <1>1 DEF Entered
<1>8. ASSUME \A t \in Streams : st'[t].pc = st[t].pc PROVE EarsTell' /\ CallsTell'
  <2>1. EarsTell'
    BY <1>0, <1>6, <1>8 DEF EarsTell
  <2>2. CallsTell'
    <3> SUFFICES ASSUME NEW i \in DOMAIN calls'
                 PROVE  /\ calls'[i].log.n \in 1..Len(logs[calls'[i].log.buf])
                        /\ calls'[i].to # File => st'[calls'[i].to].pc \in {"listen", "over"}
      BY <1>1 DEF CallsTell, Heeds
    <3>1. PICK k \in DOMAIN calls : calls'[i] = calls[k]
      BY <1>3
    <3>2. calls[k].to \in Streams \cup {File}
      <4>1. calls[k] \in CallRec
        BY <1>0, <3>1, ElementOfSeq, LenProperties DEF LogTypes
      <4> QED
        BY <4>1 DEF CallRec
    <3> QED
      BY <1>0, <1>8, <3>1, <3>2 DEF CallsTell, Heeds
  <2> QED
    BY <2>1, <2>2
<1>9. CASE to = File
  <2>1. /\ st' = st /\ queue' = queue /\ file' = [file EXCEPT ![m.buf][m.n] = @ + handlers[NameOf[m.buf]]]
    BY <1>1, <1>9
  <2>2. /\ DOMAIN file = Buffers /\ (\A b \in Buffers : file[b] \in [AllLogs(b) -> Nat])
        /\ handlers[NameOf[m.buf]] \in Nat /\ handlers[NameOf[m.buf]] > 0 /\ m.n \in AllLogs(m.buf)
    <3>1. logs[m.buf] # <<>>
      BY <1>4, EmptySeq
    <3>2. handlers[NameOf[m.buf]] > 0
      BY <1>0, <1>4, <3>1 DEF Entered
    <3>3. m.n \in AllLogs(m.buf)
      BY <1>4, LogsFit
    <3>4. handlers[NameOf[m.buf]] \in Nat
      BY <1>0, <1>4, NameAssumption DEF LogTypes
    <3> QED
      BY <1>0, <3>2, <3>3, <3>4 DEF LogTypes
  <2>3. /\ DOMAIN file' = Buffers /\ (\A b \in Buffers : b # m.buf => file'[b] = file[b])
        /\ file'[m.buf] = [file[m.buf] EXCEPT ![m.n] = @ + handlers[NameOf[m.buf]]]
    BY <1>4, <2>1, <2>2
  <2>4. /\ file'[m.buf] \in [AllLogs(m.buf) -> Nat] /\ file'[m.buf][m.n] > 0
        /\ \A n \in AllLogs(m.buf) : file[m.buf][n] > 0 => file'[m.buf][n] > 0
    <3>1. file[m.buf] \in [AllLogs(m.buf) -> Nat] /\ m.n \in AllLogs(m.buf)
      BY <1>4, <2>2
    <3>2. file[m.buf][m.n] + handlers[NameOf[m.buf]] \in Nat /\ file[m.buf][m.n] + handlers[NameOf[m.buf]] > 0
      BY <2>2, <3>1
    <3> QED
      BY <2>3, <3>1, <3>2
  <2>5. LogTypes'
    <3>1. \A b \in Buffers : file'[b] \in [AllLogs(b) -> Nat]
      BY <2>2, <2>3, <2>4
    <3> QED
      BY <1>0, <1>1, <1>2, <2>1, <2>3, <3>1 DEF LogTypes
  <2>6. EarsTell' /\ CallsTell'
    BY <1>8, <2>1
  <2>7. InFile'
    <3> SUFFICES ASSUME NEW b \in Buffers, NEW n \in 1..Len(logs[b])
                 PROVE  \/ file'[b][n] > 0
                        \/ \E i \in DOMAIN calls' : calls'[i].to = File /\ calls'[i].log = [buf |-> b, n |-> n]
      BY <1>1 DEF InFile
    <3>1. CASE file[b][n] > 0
      <4>1. n \in AllLogs(b)
        BY LogsFit
      <4> QED
        BY <2>3, <2>4, <3>1, <4>1
    <3>2. ASSUME NEW i \in DOMAIN calls, calls[i].to = File, calls[i].log = [buf |-> b, n |-> n]
          PROVE  \/ file'[b][n] > 0
                 \/ \E j \in DOMAIN calls' : calls'[j].to = File /\ calls'[j].log = [buf |-> b, n |-> n]
      <4>1. CASE i = 1
        <5>1. m.buf = b /\ m.n = n
          BY <1>2, <3>2, <4>1
        <5> QED
          BY <2>4, <5>1
      <4>2. CASE i # 1
        BY <1>3, <3>2, <4>2
      <4> QED
        BY <4>1, <4>2
    <3> QED
      BY <1>0, <3>1, <3>2 DEF InFile
  <2>8. \A t \in Streams : StreamInv(t)'
    BY <1>5, <1>9, <2>1, FileAssumption
  <2> QED
    BY <1>7, <2>5, <2>6, <2>7, <2>8 DEF LogInv
<1>10. ASSUME NEW s \in Streams, s = to PROVE LogInv'
  <2>a. s # File /\ s = calls[1].to
    BY <1>2, <1>10, FileAssumption
  <2> DEFINE names == st[s].reached \cup Reached(s, <<m>>)
             ended == st[s].ended \/ AllReached(s, names)
  <2>0. /\ s \in Streams /\ Heeds(s) /\ ChunksTell(s) /\ ReachedTell(s) /\ PlaceTells(s) /\ ReasonTold(s)
        /\ WithoutGap(s) /\ queue[s] \in Seq(Chunk) /\ got[s] \in Seq(Chunk) /\ m \in Chunk
    BY <1>0, <1>2, <1>4, <1>10, <2>a, HandlerFields, ChunkKinds DEF StreamInv
  <2>1. /\ queue' = [queue EXCEPT ![s] = Append(@, m)]
        /\ st' = [st EXCEPT ![s].reached = names, ![s].ended = @ \/ AllReached(s, names)]
        /\ file' = file
    BY <1>1, <1>10, <2>a DEF Heard
  <2>2. Reached(s, <<m>>) \subseteq {NameOf[m.buf]}
        /\ (Reached(s, <<m>>) # {} => logs[m.buf][m.n] \in st[s].until)
        /\ NameOf[m.buf] \in Names
    <3>1. Range(<<m>>) = {m}
      <4>1. DOMAIN <<m>> = {1} /\ <<m>>[1] = m
        OBVIOUS
      <4> QED
        BY <4>1 DEF Range
    <3> QED
      BY <1>4, <3>1, NameAssumption DEF Reached
  <2>3. /\ st'[s].pc = st[s].pc /\ st'[s].reached = names /\ st'[s].ended = ended /\ st'[s].gen = st[s].gen
        /\ st'[s].until = st[s].until /\ st'[s].names = st[s].names /\ st'[s].retries = st[s].retries
        /\ (\A t \in Streams : t # s => st'[t] = st[t])
        /\ st' \in [Streams -> Handler]
    <3>1. st \in [Streams -> Handler] /\ st[s] \in Handler
      BY <1>0, <2>0 DEF LogTypes
    <3>2. names \in SUBSET Names /\ ended \in BOOLEAN
      BY <1>0, <2>0, <2>2, HandlerFields
    <3>3. st' = [st EXCEPT ![s] = Filled(st[s], names, ended)]
      BY <2>1, <3>1 DEF Filled
    <3> HIDE DEF names, ended
    <3> QED
      BY <2>0, <3>1, <3>2, <3>3, FilledIs
  <2>4. /\ queue' \in [Streams -> Seq(Chunk)] /\ queue'[s] = queue[s] \o <<m>> /\ Range(queue'[s]) = Range(queue[s]) \cup {m}
        /\ \A t \in Streams : t # s => queue'[t] = queue[t]
    <3>1. Append(queue[s], m) = queue[s] \o <<m>> /\ Append(queue[s], m) \in Seq(Chunk)
          /\ Range(Append(queue[s], m)) = Range(queue[s]) \cup {m}
      BY <2>0, AppendedHolds
    <3>2. queue'[s] = Append(queue[s], m) /\ \A t \in Streams : t # s => queue'[t] = queue[t]
      BY <1>0, <2>0, <2>1 DEF LogTypes
    <3>3. queue' \in [Streams -> Seq(Chunk)]
      BY <1>0, <2>0, <2>1, <3>1 DEF LogTypes
    <3> QED
      BY <3>1, <3>2, <3>3
  <2>5. LogTypes'
    BY <1>0, <1>1, <1>2, <2>1, <2>3, <2>4 DEF LogTypes
  <2>6. EarsTell' /\ CallsTell'
    <3>1. \A t \in Streams : st'[t].pc = st[t].pc
      BY <2>3
    <3> QED
      BY <1>8, <3>1
  <2>7. InFile'
    <3>1. \A i \in DOMAIN calls : calls[i].to = File => \E j \in DOMAIN calls' : calls'[j] = calls[i]
      BY <1>3, <2>a
    <3> QED
      <4> SUFFICES ASSUME NEW b \in Buffers, NEW n \in 1..Len(logs[b])
                   PROVE  \/ file[b][n] > 0
                          \/ \E i \in DOMAIN calls' : calls'[i].to = File /\ calls'[i].log = [buf |-> b, n |-> n]
        BY <1>1, <2>1 DEF InFile
      <4>1. CASE file[b][n] > 0
        BY <4>1
      <4>2. ASSUME NEW i \in DOMAIN calls, calls[i].to = File, calls[i].log = [buf |-> b, n |-> n]
            PROVE  \E j \in DOMAIN calls' : calls'[j].to = File /\ calls'[j].log = [buf |-> b, n |-> n]
        BY <3>1, <4>2
      <4> QED
        BY <1>0, <4>1, <4>2 DEF InFile
  <2>8. ASSUME NEW t \in Streams, t # s PROVE StreamInv(t)'
    BY <1>5, <1>10, <2>3, <2>4, <2>8
  <2>9. StreamInv(s)'
    <3>0. Sent(s)' = Sent(s) \cup {m} /\ Heeds(s)'
      BY <1>1, <2>0, <2>3, <2>4 DEF Sent, Heeds
    <3>1. ChunksTell(s)'
      BY <1>1, <1>4, <2>0, <3>0 DEF ChunksTell
    <3>2. ReachedTell(s)'
      <4>1. ASSUME NEW n \in names PROVE Brought(n, s, Sent(s))'
        <5>1. CASE n \in st[s].reached
          BY <1>1, <2>0, <2>3, <3>0, <5>1 DEF ReachedTell, Brought
        <5>2. CASE n \in Reached(s, <<m>>)
          BY <1>1, <1>4, <2>2, <2>3, <3>0, <5>2 DEF Brought
        <5> QED
          BY <4>1, <5>1, <5>2
      <4>2. ended => st[s].names \subseteq names
        BY <2>0 DEF ReachedTell, AllReached
      <4> HIDE DEF names, ended
      <4> QED
        BY <2>3, <3>0, <4>1, <4>2 DEF ReachedTell
    <3>3. PlaceTells(s)'
      <4>1. ~Silent(s) /\ st[s].pc \in {"listen", "over"}
        BY <1>2, <2>0, <2>a DEF Silent, Heeds
      <4>2. st[s].reached \subseteq names
        OBVIOUS
      <4> HIDE DEF names
      <4> QED
        BY <2>0, <2>3, <3>0, <4>1, <4>2 DEF PlaceTells
    <3>4. ReasonTold(s)'
      BY <1>1, <2>0, <2>3 DEF ReasonTold, Brought
    <3>5. WithoutGap(s)'
      <4> DEFINE g == got[s]
                 q == queue[s]
                 e == <<m>>
                 d == Coming(s)'
      <4>1. Coming(s) = e \o d /\ d \in Seq(Chunk)
        BY <1>0, <1>1, <1>10, <2>0, <2>a, FirstComing DEF to, m
      <4>2. Way(s) = (g \o q) \o (e \o d)
        BY <1>0, <2>0, <4>1, ComingIs
      <4>3. Way(s)' = (g \o (q \o e)) \o d
        BY <1>1, <2>4 DEF Way, Coming
      <4>4. g \in Seq(Chunk) /\ q \in Seq(Chunk) /\ e \in Seq(Chunk)
        BY <2>0
      <4> HIDE DEF g, q, e, d
      <4> DEFINE h == g \o q
      <4>5. h \in Seq(Chunk) /\ h \o e = g \o (q \o e)
        <5>1. h \in Seq(Chunk)
          BY <4>4, ConcatProperties
        <5>2. h \o e = g \o (q \o e)
          BY <4>4, ConcatAssociative
        <5> QED
          BY <5>1, <5>2
      <4>6. Way(s) = h \o (e \o d) /\ Way(s)' = (h \o e) \o d
        BY <4>2, <4>3, <4>5
      <4> HIDE DEF h
      <4>7. h \o (e \o d) = (h \o e) \o d
        <5>1. h \in Seq(Chunk) /\ e \in Seq(Chunk) /\ d \in Seq(Chunk)
          BY <4>1, <4>4, <4>5
        <5> QED
          BY <5>1, ConcatAssociative
      <4>8. Way(s)' = Way(s)
        BY <4>6, <4>7
      <4> QED
        BY <1>1, <2>0, <4>8 DEF WithoutGap
    <3> QED
      BY <3>1, <3>2, <3>3, <3>4, <3>5 DEF StreamInv
  <2> QED
    BY <1>7, <2>5, <2>6, <2>7, <2>8, <2>9 DEF LogInv
<1> QED
  BY <1>2, <1>9, <1>10

\* At the start nothing was pushed and nothing sent.
LEMMA LogsStart ==
  ASSUME Init
  PROVE  LogInv
PROOF
<1>1. /\ logs = [b \in Buffers |-> <<>>] /\ ears = [b \in Buffers |-> <<>>]
      /\ phase = [b \in Buffers |-> "out"] /\ enters = [b \in Buffers |-> 0] /\ calls = <<>>
      /\ handlers = [m \in Names |-> 0] /\ file = [b \in Buffers |-> [n \in AllLogs(b) |-> 0]]
      /\ st = [s \in Streams |-> Idle]
      /\ queue = [s \in Streams |-> <<>>] /\ got = [s \in Streams |-> <<>>]
  BY DEF Init
<1>2. Idle \in Handler /\ Idle.pc = "idle" /\ Idle.reached = {} /\ Idle.ended = FALSE /\ Idle.gen = "none"
  BY SizeAssumption DEF Idle, Handler
<1>3. /\ \A T : <<>> \in Seq(T)
      /\ Len(<<>>) = 0 /\ DOMAIN <<>> = {} /\ Range(<<>>) = {} /\ Once(<<>>)
  <2>1. DOMAIN <<>> = {}
    OBVIOUS
  <2> QED
    BY <2>1, EmptySeq DEF Range, Once
<1>4. LogTypes
  BY <1>1, <1>2, <1>3 DEF LogTypes
<1>5. EarsTell /\ CallsTell
  BY <1>1, <1>3 DEF EarsTell, CallsTell
<1>6. Entered /\ InFile
  <2>1. ASSUME NEW b \in Buffers PROVE MaxLogs[b] \in Nat /\ MaxEnters[b] \in Nat /\ logs[b] = <<>> /\ enters[b] = 0 /\ phase[b] = "out"
    BY <1>1, BoundsAssumption
  <2>2. Entered
    <3> SUFFICES ASSUME NEW b \in Buffers
                 PROVE  /\ phase[b] # "out" \/ logs[b] # <<>> => enters[b] > 0
                        /\ enters[b] > 0 => handlers[NameOf[b]] > 0
                        /\ Len(logs[b]) + (IF phase[b] = "up" THEN 1 ELSE 0) <= MaxLogs[b] + enters[b]
                        /\ enters[b] <= MaxEnters[b]
      BY DEF Entered
    <3>1. Len(logs[b]) = 0 /\ (IF phase[b] = "up" THEN 1 ELSE 0) = 0
      BY <1>3, <2>1
    <3> QED
      BY <2>1, <3>1
  <2>3. InFile
    BY <1>3, <2>1 DEF InFile
  <2> QED
    BY <2>2, <2>3
<1>7. ASSUME NEW s \in Streams PROVE StreamInv(s)
  <2>1. st[s] = Idle /\ queue[s] = <<>> /\ got[s] = <<>> /\ Sent(s) = {} /\ \A b \in Buffers : s \notin Range(ears[b])
    BY <1>1, <1>3 DEF Sent
  <2> QED
    BY <1>2, <1>3, <2>1
    DEF StreamInv, ChunksTell, ReachedTell, PlaceTells, ReasonTold, WithoutGap, Unasked
<1> QED
  BY <1>4, <1>5, <1>6, <1>7 DEF LogInv

\* Every step of the servers and the streams keeps the invariant.
LEMMA LogsKeep ==
  ASSUME LogInv, Next
  PROVE  LogInv'
PROOF
<1>1. ASSUME NEW b \in Buffers, Server(b) PROVE LogInv'
  BY <1>1, RegisterKeeps, ChangeKeeps, WriteKeeps, LeaveKeeps, UnregisterKeeps DEF Server
<1>2. ASSUME NEW s \in Streams, Post(s) \/ Task(s) \/ Generate(s) \/ Disconnect(s) PROVE LogInv'
  BY <1>2, PostKeeps, ListenKeeps, NotFoundKeeps, NoTryKeeps, AgainKeeps, WakeKeeps, GenerateKeeps, DisconnectKeeps
  DEF Task
<1> QED
  BY <1>1, <1>2, CallKeeps DEF Next

\* What the invariant says of the streams and the file.
LEMMA LogsTell ==
  ASSUME LogInv
  PROVE  LogsReach
PROOF
<1>0. LogTypes /\ InFile /\ \A s \in Streams : StreamInv(s)
  BY DEF LogInv
<1>1. NoGaps
  <2> SUFFICES ASSUME NEW s \in Streams, NEW b \in Buffers, s \in Range(ears[b]) PROVE Gapless(Way(s), b, Len(logs[b]))
    BY DEF NoGaps, Gapless, Own
  <2> QED
    BY <1>0 DEF StreamInv, WithoutGap
<1>2. FileComplete
  <2>1. DOMAIN calls = 1..Len(calls)
    BY <1>0, LenProperties DEF LogTypes
  <2> QED
    BY <1>0, <2>1 DEF FileComplete, InFile
<1>3. EndsWithReason
  <2> SUFFICES ASSUME NEW s \in Streams, st[s].gen = "over"
               PROVE  \/ st[s].retries = 0 /\ got[s] = <<>>
                      \/ Error \in Range(got[s])
                      \/ \A m \in st[s].names : \E c \in Range(got[s]) \ {Error} :
                           NameOf[c.buf] = m /\ logs[c.buf][c.n] \in st[s].until
    BY DEF EndsWithReason
  <2>1. \/ st[s].retries = 0 /\ got[s] = <<>>
        \/ Error \in Range(got[s])
        \/ \A m \in st[s].names : Brought(m, s, Range(got[s]))
    BY <1>0 DEF StreamInv, ReasonTold
  <2>2. ASSUME NEW m, Brought(m, s, Range(got[s]))
        PROVE  \E c \in Range(got[s]) \ {Error} : NameOf[c.buf] = m /\ logs[c.buf][c.n] \in st[s].until
    BY <2>2, ChunkKinds, FileAssumption DEF Brought
  <2> QED
    BY <2>1, <2>2
<1> QED
  BY <1>1, <1>2, <1>3 DEF LogsReach

\* A stream gets the logs of each buffer to which it listens in their order and without a
\* gap, the file of a server gets them all, and a response that ends has brought what it
\* was asked for or an error, for any servers, streams, sizes of the buffers and numbers
\* of tries (LogBuffer, LogManager.register_buffer, LogStreamHandler).
THEOREM LogsAreReached == AllSpec => []LogsReach
PROOF
<1>1. AllInit => LogInv
  BY LogsStart DEF AllInit
<1>2. LogInv /\ [AllNext]_<<served, logVars, questionVars, verifyVars>> => LogInv'
  <2> SUFFICES ASSUME LogInv, [AllNext]_<<served, logVars, questionVars, verifyVars>> PROVE LogInv'
    OBVIOUS
  <2>1. Next \/ UNCHANGED logVars
    BY DEF AllNext, logVars
  <2>2. CASE Next
    BY <2>2, LogsKeep
  <2>3. CASE UNCHANGED logVars
    <3>1. /\ logs' = logs /\ ears' = ears /\ phase' = phase /\ enters' = enters /\ calls' = calls
          /\ handlers' = handlers /\ file' = file /\ st' = st /\ queue' = queue /\ got' = got
      BY <2>3 DEF logVars
    <3>2. CallsTell' /\ \A t \in Streams : StreamInv(t)'
      BY <3>1, ServerStep
    <3>3. LogTypes' /\ EarsTell' /\ Entered' /\ InFile'
      BY <3>1 DEF LogInv, LogTypes, EarsTell, Entered, InFile
    <3> QED
      BY <3>2, <3>3 DEF LogInv
  <2> QED
    BY <2>1, <2>2, <2>3
<1>3. LogInv => LogsReach
  BY LogsTell
<1> QED
  BY <1>1, <1>2, <1>3, PTL DEF AllSpec
=============================================================================
