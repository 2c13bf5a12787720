----------------------------- MODULE MCStreams -----------------------------
(***************************************************************************)
(* What the frontend hears, for TLC: the streams of logs of two servers of *)
(* which one restarts (LogStream), the questions of two tool calls on one  *)
(* session (Elicitation), and the verification of models (ModelVerify).    *)
(* They share no state, so every behaviour of each is seen with the others *)
(* left at their start; `served` says which one a behaviour is of.         *)
(***************************************************************************)
EXTENDS LogStream, TLC

CONSTANTS n1, n2, b1, b2, s1, c1, c2, None, Calls, MaxReqs, m1, m2, m3, Configs, Ollama, MaxConfigs

FirstTwice == b1 :> 2 @@ b2 :> 1
SecondSilent == b1 :> 2 @@ b2 :> 0
NameOfPair == b1 :> n1 @@ b2 :> n2

\* Two settings name the same model.
ModelOf == m1 :> n1 @@ m2 :> n2 @@ m3 :> n1

ASSUME CallsAssumption  == None \notin Calls
ASSUME MaxReqsAssumption == MaxReqs \in Nat
ASSUME ConfigsAssumption == Ollama \subseteq Configs /\ Configs = DOMAIN ModelOf /\ MaxConfigs \in Nat

VARIABLES served,
  callback, call, abort, counter, owner, asked, pending, future, at, result, shown, acked,
  configs, vat, found, results, said, there, stop

logVars == <<logs, ears, phase, enters, calls, handlers, file, st, queue, got>>
questionVars == <<callback, call, abort, counter, owner, asked, pending, future, at, result,
                  shown, acked>>
verifyVars == <<configs, vat, found, results, said, there, stop>>

Questions == INSTANCE Elicitation
Models    == INSTANCE ModelVerify WITH asked <- configs

AllInit == served \in {"logs", "questions", "models"} /\ Init /\ Questions!Init /\ Models!Init

AllNext ==
  \/ served = "logs" /\ Next /\ UNCHANGED <<served, questionVars, verifyVars>>
  \/ served = "questions" /\ Questions!Next /\ UNCHANGED <<served, logVars, verifyVars>>
  \/ served = "models" /\ Models!Next /\ UNCHANGED <<served, logVars, questionVars>>

\* The fairness of a part that is left at its start asks for nothing.
AllSpec == /\ AllInit /\ [][AllNext]_<<served, logVars, questionVars, verifyVars>>
           /\ Fairness /\ Questions!Fairness /\ Models!Fairness

---------------------------------------------------------------------------
\* A listener gets the logs of a buffer in their order and without a gap, the log file
\* gets them all, and a response that ends has brought what it was asked for, or an
\* error (LogBuffer.add_listener, LogManager.register_buffer, LogStreamHandler).
LogsReach == NoGaps /\ FileComplete /\ EndsWithReason

\* What request() returns is what the user said to this very request, and its table
\* holds exactly the requests somebody waits for (ElicitationManager).
AnswerKept == Questions!AnswerKept /\ Questions!NoOrphans

\* The results of a verification are those of its progress, for each model its own
\* (ModelVerifyService.test_models).
VerifiedAsTold == Models!VerifiedAsTold

\* Streams end, and questions, and verifications, which start no other model once the
\* client is missed (stream_logs, request(), verify_model).
AllEnd == StreamsEnd /\ Questions!RequestEnds /\ Models!VerifyEnds
=============================================================================
