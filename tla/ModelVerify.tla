---------------------------- MODULE ModelVerify ----------------------------
(***************************************************************************)
(* The verification of models: ModelVerifyService and the route            *)
(* /model_verify/streaming (httpd/routers/model_verify.py).                *)
(*                                                                         *)
(* One task verifies the models of a request, one after the other, each in *)
(* a host of its own; what it finds goes through the queue of the response *)
(* (LogStream has the details).  Another task asks every second whether    *)
(* the client is still there, and aborts the verification when not.        *)
(***************************************************************************)
EXTENDS Naturals, Sequences, FiniteSets, SequencesExt

CONSTANTS
  Configs,    \* settings of models
  ModelOf,    \* the name of the model of a setting
  Ollama,     \* the settings of the provider whose tools are not checked
  MaxConfigs  \* bound: settings in a request

VARIABLES
  asked,    \* the settings of the request
  vat,      \* where the verification is
  found,    \* what was found about the current model
  results,  \* what was found about each model
  said,     \* what the response got so far
  there,    \* the client is there
  stop      \* the abort signal is set

vars == <<asked, vat, found, results, said, there, stop>>

Subjects == <<"connection", "tools", "tools_in_prompt">>

\* get_verify_subjects
ToVerify(c) == IF c \in Ollama THEN {"connection", "tools_in_prompt"} ELSE Range(Subjects)

Skipped == [s \in Range(Subjects) |-> [ok |-> FALSE, state |-> "SKIPPED"]]

\* What _check_connection, _check_tools and _check_tools_in_prompt return.  A call of the
\* tool that failed or was aborted counts as a tool that is not used.
Outcome(s) ==
  IF s = "connection"
  THEN {[ok |-> TRUE, state |-> "CONNECTED"], [ok |-> FALSE, state |-> "ERROR"]}
  ELSE {[ok |-> FALSE, state |-> "ERROR"], [ok |-> FALSE, state |-> "TOOL_NOT_USED"],
        [ok |-> TRUE, state |-> "TOOL_RESPONDED"]}

Over == [model |-> 0, step |-> 0, pc |-> "over"]

Init ==
  /\ asked = <<>> /\ vat = [model |-> 0, step |-> 0, pc |-> "idle"]
  /\ found = Skipped /\ results = {} /\ said = <<>>
  /\ there = TRUE /\ stop = FALSE

---------------------------------------------------------------------------
\* verify_model; without settings the host's own model is verified.
Ask == \E cs \in UNION {[1..n -> Configs] : n \in 1..MaxConfigs} :
  /\ vat.pc = "idle"
  /\ asked' = cs
  /\ vat' = [model |-> 1, step |-> 0, pc |-> "next"]
  /\ UNCHANGED <<found, results, said, there, stop>>

\* Mutant: what was found about the last model is kept.
MutFresh == found
\* test_model starts with nothing found.
Fresh == Skipped

\* test_models: the next model and its host.
OpenHost ==
  /\ vat.pc = "next" /\ ~stop /\ vat.model <= Len(asked)
  /\ \/ /\ vat' = [vat EXCEPT !.pc = "check", !.step = 1]
        /\ found' = Fresh
        /\ UNCHANGED said
     \/ /\ vat' = Over                    \* the model cannot be made
        /\ said' = Append(said, [kind |-> "error"])
        /\ UNCHANGED found
  /\ UNCHANGED <<asked, results, there, stop>>

Wanted(s) == s \in ToVerify(asked[vat.model]) /\ (s = "tools_in_prompt" => ~found["tools"].ok)

\* A subject is checked or left out, and its progress written.
Check ==
  LET s == Subjects[vat.step] IN
  /\ vat.pc = "check"
  /\ \E o \in IF Wanted(s) THEN Outcome(s) ELSE {found[s]} :
       /\ found' = [found EXCEPT ![s] = o]
       /\ said' = Append(said, [kind |-> "progress", name |-> ModelOf[asked[vat.model]], subject |-> s, result |-> o])
  /\ vat' = IF vat.step = 3 THEN [vat EXCEPT !.pc = "close"] ELSE [vat EXCEPT !.step = @ + 1]
  /\ UNCHANGED <<asked, results, there, stop>>

\* results[llm_config.model] = ...
Saved(name) == {r \in results : r.name # name} \cup {[name |-> name, found |-> found]}

\* The host is left; its errors end the verification.
CloseHost ==
  /\ vat.pc = "close"
  /\ \/ /\ vat' = [model |-> vat.model + 1, step |-> 0, pc |-> "next"]
        /\ results' = Saved(ModelOf[asked[vat.model]])
        /\ UNCHANGED said
     \/ /\ vat' = Over
        /\ said' = Append(said, [kind |-> "error"])
        /\ UNCHANGED results
  /\ UNCHANGED <<asked, found, there, stop>>

\* All models are verified or the rest is left out; the results go to the response.
Finish ==
  /\ vat.pc = "next" /\ (stop \/ vat.model > Len(asked))
  /\ vat' = Over
  /\ said' = Append(said, [kind |-> "final"])
  /\ UNCHANGED <<asked, found, results, there, stop>>

\* The client closes the connection.
GoAway ==
  /\ there /\ vat.pc # "idle"
  /\ there' = FALSE
  /\ UNCHANGED <<asked, vat, found, results, said, stop>>

\* handle_connection notices it, while the verification runs.
Notice ==
  /\ ~there /\ ~stop /\ vat.pc \notin {"idle", "over"}
  /\ stop' = TRUE
  /\ UNCHANGED <<asked, vat, found, results, said, there>>

Verify == OpenHost \/ Check \/ CloseHost \/ Finish

Next == Ask \/ Verify \/ GoAway \/ Notice

Spec == Init /\ [][Next]_vars

\* A model that never answers is ended by the timeouts of its client.
Fairness == WF_vars(Verify)

---------------------------------------------------------------------------
\* The final results agree with the last progress of each model and are complete unless
\* the client went away; no model is said to have what only another one was checked for
\* (test_models, test_model).
VerifiedAsTold ==
  /\ \A r \in results, s \in Range(Subjects) :
       LET ps == {i \in DOMAIN said : /\ said[i].kind = "progress"
                                      /\ said[i].name = r.name /\ said[i].subject = s}
           own == {i \in 1..(vat.model - 1) : ModelOf[asked[i]] = r.name}
       IN vat.pc = "next" =>
            /\ r.found[s] = said[Max(ps)].result
            /\ s \notin ToVerify(asked[Max(own)]) => r.found[s].state = "SKIPPED"
  /\ there /\ (\E i \in DOMAIN said : said[i].kind = "final") => \A i \in DOMAIN asked : \E r \in results : r.name = ModelOf[asked[i]]

\* A verification ends, and starts no other model once the client is missed.
VerifyEnds ==
  /\ <>[](vat.pc \in {"idle", "over"})
  /\ [][stop /\ vat.pc = "next" => vat'.pc = "over"]_vat
=============================================================================
