------------------------------- MODULE SttServer -------------------------------
(***************************************************************************)
(* The speech-to-text server (parakeet-stt/server.py).  A thread loads the *)
(* model while /health answers 503, decodes a throwaway clip, and only     *)
(* then lets requests in.  Decodes run one at a time under a lock, each in *)
(* a worker thread.  What optional arguments this build of the model takes *)
(* is read off its signature, or found out by the first call it rejects.   *)
(***************************************************************************)
EXTENDS Integers, FiniteSets

CONSTANTS
  SttRequests,    \* requests for a transcription
  Pinned,         \* those whose language the caller pinned
  MaxSttRestarts  \* bound: restarts of the server

ASSUME SttBounds == /\ Pinned \subseteq SttRequests /\ MaxSttRestarts \in Nat
                   /\ {"none", "warmup"} \cap SttRequests = {}

Optional == {"timestamps", "source_lang"}   \* _OPTIONAL_KWARGS

VARIABLES
  sttServer,   \* off, loading, loaded (the model is resident), warming, ready; or stuck: its load failed
  takes,       \* the arguments this build's model takes
  naming,      \* its signature names them; otherwise it seems to take any
  supported,   \* _supported
  modelLock,   \* who holds _model_lock: none, warmup or a request
  sttRequest,  \* request -> new, admitted, decoded, refused (503) or failed
  ran,         \* request -> the arguments its decode ran with
  rejections,  \* calls this process' model rejected
  restarts

sttVars == <<sttServer, takes, naming, supported, modelLock, sttRequest, ran, rejections, restarts>>

\* One build for the whole run; it is what a restart finds again.
SttInit ==
  /\ takes \in SUBSET Optional /\ naming \in BOOLEAN
  /\ sttServer = "off" /\ supported = Optional
  /\ modelLock = "none" /\ rejections = 0 /\ restarts = 0
  /\ sttRequest = [r \in SttRequests |-> "new"] /\ ran = [r \in SttRequests |-> {}]

\* _startup
SttStarts ==
  /\ sttServer = "off" /\ sttServer' = "loading"
  /\ UNCHANGED <<takes, naming, supported, modelLock, sttRequest, ran, rejections, restarts>>

\* _load_model, up to the warmup.
Load ==
  /\ sttServer = "loading" /\ sttServer' = "loaded"
  /\ supported' = IF naming THEN takes ELSE Optional
  /\ UNCHANGED <<takes, naming, modelLock, sttRequest, ran, rejections, restarts>>

\* No weights, or a claim on the card that leaves no room: the thread ends, /health stays 503.
LoadFails ==
  /\ sttServer = "loading" /\ sttServer' = "stuck"
  /\ UNCHANGED <<takes, naming, supported, modelLock, sttRequest, ran, rejections, restarts>>

\* The arguments who's decode would like to pass.
Wanted(who) == {"timestamps"} \cup IF who \in Pinned THEN {"source_lang"} ELSE {}

\* Mutant: what a rejected call taught is forgotten.
WantedAgain(who) == Wanted(who)
CallArgs(who) == Wanted(who) \cap supported

\* A rejected call is made again bare, and no argument is tried any more.
Rejects(who) == ~(CallArgs(who) \subseteq takes)
ModelCalled(who) ==
  /\ supported' = IF Rejects(who) THEN {} ELSE supported
  /\ rejections' = IF Rejects(who) THEN rejections + 1 ELSE rejections

\* The warmup: it takes the lock, and a decode that fails there is let pass.
StartWarmup ==
  /\ sttServer = "loaded" /\ modelLock = "none"
  /\ sttServer' = "warming" /\ modelLock' = "warmup"
  /\ UNCHANGED <<takes, naming, supported, sttRequest, ran, rejections, restarts>>

Warmed ==
  /\ modelLock = "warmup" /\ modelLock' = "none" /\ sttServer' = "ready"
  /\ ModelCalled("warmup")
  /\ UNCHANGED <<takes, naming, sttRequest, ran, restarts>>

\* transcribe(): refused until ready, else its decode is handed to a thread.
AskStt(r) ==
  /\ sttRequest[r] = "new" /\ sttServer # "off"
  /\ sttRequest' = [sttRequest EXCEPT ![r] = IF sttServer = "ready" THEN "admitted" ELSE "refused"]
  /\ UNCHANGED <<sttServer, takes, naming, supported, modelLock, ran, rejections, restarts>>

LockModel(r) ==
  /\ sttRequest[r] = "admitted" /\ modelLock = "none" /\ modelLock' = r
  /\ UNCHANGED <<sttServer, takes, naming, supported, sttRequest, ran, rejections, restarts>>

DecodeRequest(r) ==
  /\ modelLock = r /\ modelLock' = "none"
  /\ ModelCalled(r)
  /\ sttRequest' = [sttRequest EXCEPT ![r] = "decoded"]
  /\ ran' = [ran EXCEPT ![r] = IF Rejects(r) THEN {} ELSE CallArgs(r)]
  /\ UNCHANGED <<sttServer, takes, naming, restarts>>

\* Anything else the model raises (the card is full) fails its own request.
DecodeFails(r) ==
  /\ modelLock = r /\ modelLock' = "none"
  /\ sttRequest' = [sttRequest EXCEPT ![r] = "failed"]
  /\ UNCHANGED <<sttServer, takes, naming, supported, ran, rejections, restarts>>

\* The process dies: its requests fail, and the next one loads again.
SttRestarts ==
  /\ sttServer # "off" /\ restarts < MaxSttRestarts /\ restarts' = restarts + 1
  /\ sttServer' = "loading" /\ supported' = Optional /\ modelLock' = "none" /\ rejections' = 0
  /\ sttRequest' = [r \in SttRequests |-> IF sttRequest[r] = "admitted" THEN "failed" ELSE sttRequest[r]]
  /\ UNCHANGED <<takes, naming, ran>>

SttStep == Load \/ StartWarmup \/ Warmed
SttServes(r) == LockModel(r) \/ DecodeRequest(r)
SttNext == \/ SttStarts \/ SttStep \/ LoadFails \/ SttRestarts
           \/ \E r \in SttRequests : AskStt(r) \/ SttServes(r) \/ DecodeFails(r)

SttFairness == WF_sttVars(SttStep) /\ \A r \in SttRequests : WF_sttVars(SttServes(r))

-----------------------------------------------------------------------------

\* One process has one call rejected at most.
RejectedOnce == rejections <= 1

\* Nothing is let in before the clip was decoded, and a build that names its arguments has none of
\* them dropped: a pinned language stays pinned.
ServedAsAsked ==
  \A r \in SttRequests :
    /\ sttRequest[r] = "admitted" => sttServer = "ready"
    /\ sttRequest[r] = "decoded" /\ naming => ran[r] = Wanted(r) \cap takes

\* The server comes to answer unless its load failed, and what it let in is answered: one decode
\* that fails neither blocks the lock nor the requests behind it.
SttAnswers ==
  <>[](/\ sttServer \in {"off", "ready", "stuck"}
       /\ \A r \in SttRequests : sttRequest[r] # "admitted")

\* What a warm model is asked, it answers.
SttServed == [](RejectedOnce /\ ServedAsAsked) /\ SttAnswers
=============================================================================
