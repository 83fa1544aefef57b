--------------------------- MODULE TranslationRun ---------------------------
(***************************************************************************)
(* The live translation run of a session (session.py, _consider_translation *)
(* to _translate_final), fed by the finals of the transcriber of which      *)
(* Transcriber is the promise.  A foreign turn opens a run, English or     *)
(* silence ends it, and one worker delivers translations and done markers. *)
(*                                                                         *)
(* A final's language is chosen when the pump handles it; an engine tag    *)
(* alone is weighed against the text, of which only the verdict counts.    *)
(* Runs are numbered, so that each marker and translation has its run.     *)
(***************************************************************************)
EXTENDS Transcriber

CONSTANTS Foreign,     \* the languages besides English
          MaxResends   \* bound: warm resumes that repeat the last done marker

ASSUME TranslationBounds == MaxTurns \in Nat /\ MaxResends \in Nat

VARIABLES
  run,        \* [id, lang, open]: the latest run; lang is _translation_run_lang
  opener,     \* _translation_pending: the language of an engine-only turn, or "none"
  hold,       \* the silence hold is running
  queue,      \* _translation_queue
  job,        \* the queue entry in the worker
  translator, \* the worker task: "on" or "stopped"
  sent,       \* history: <<kind, run>> of what reached the socket
  resends,    \* warm resumes so far
  joined,     \* the teardown is past the pump
  begun,      \* history: turns closed while a run was open, and not ended by English since
  dropped     \* history: turns of an open run that were not queued for translation

runVars         == <<run, opener, hold, queue, job, translator, sent, resends, joined, begun, dropped>>
translationVars == <<transcriberVars, runVars>>

NoRun == [id |-> 0, lang |-> "none", open |-> FALSE]
NoJob == [kind |-> "none", run |-> 0, lang |-> "none"]
Langs == Foreign \cup {"en", "none"}

TranslationInit ==
  /\ TranscriberInit
  /\ run = NoRun /\ opener = "none" /\ hold = FALSE /\ queue = <<>> /\ job = NoJob
  /\ translator = "on" /\ sent = <<>> /\ resends = 0
  /\ joined = FALSE /\ begun = {} /\ dropped = {}

-----------------------------------------------------------------------------
(* _consider_translation, on each final.                                    *)

TranslateJob(lang, r) == [kind |-> "translate", run |-> r, lang |-> lang]
DoneJob(r)            == [kind |-> "done", run |-> r, lang |-> "none"]

\* Mutant: a run is opened without starting its silence hold.
OpenRunUnheld(lang, turns) ==
  LET r == IF run.open THEN run.id ELSE run.id + 1 IN
  /\ run' = [id |-> r, lang |-> lang, open |-> TRUE]
  /\ opener' = "none" /\ hold' = hold
  /\ queue' = queue \o [i \in 1..turns |-> TranslateJob(lang, r)]
\* _open_translation_run, for the turns that the final queues (itself, and a confirmed opener).
OpenRun(lang, turns) ==
  LET r == IF run.open THEN run.id ELSE run.id + 1 IN
  /\ run' = [id |-> r, lang |-> lang, open |-> TRUE]
  /\ opener' = "none" /\ hold' = TRUE
  /\ queue' = queue \o [i \in 1..turns |-> TranslateJob(lang, r)]

\* _end_translation_run: the marker goes behind the run's pending translations.
EndedRun == [run EXCEPT !.lang = "none", !.open = FALSE]
EndRun == run' = EndedRun /\ hold' = FALSE /\ queue' = Append(queue, DoneJob(run.id))

\* A tag of the engine alone, outside a run and with no pinned language: a text that reads
\* English or leans nowhere decides nothing, an undecidable one waits to be confirmed.  With a pinned
\* language the turn opens the run at once, which the last disjunct allows too.
Weigh(lang, confirms) ==
  \/ UNCHANGED <<run, opener, hold, queue>>
  \/ ~confirms /\ opener' = lang /\ UNCHANGED <<run, hold, queue>>
  \/ OpenRun(lang, IF confirms THEN 2 ELSE 1)

Consider(lang) ==
  \/ /\ lang \in Foreign
     /\ IF run.open THEN OpenRun(lang, 1)
        ELSE \E near \in BOOLEAN :   \* the opener ended within _PENDING_OPENER_MS
               Weigh(lang, near /\ opener = lang)
  \/ /\ lang = "en" /\ opener' = "none"
     /\ IF run.open THEN EndRun ELSE UNCHANGED <<run, hold, queue>>
  \/ /\ lang = "none" /\ UNCHANGED <<run, opener>>
     /\ IF run.open THEN hold' = TRUE /\ queue' = Append(queue, TranslateJob(run.lang, run.id))
                    ELSE UNCHANGED <<hold, queue>>

-----------------------------------------------------------------------------
(* The steps of the session around the transcriber's.                       *)

\* Turns of speech closed under an open run are its to translate, until English ends it.
CutTurn ==
  /\ turn < MaxTurns
  /\ \E speech \in BOOLEAN :
       /\ Cut(speech)
       /\ begun' = IF run.open /\ speech THEN begun \cup {turn'} ELSE begun
  /\ UNCHANGED <<run, opener, hold, queue, job, translator, sent, resends, joined, dropped>>
Decode == (Decide \/ Take \/ PumpEnds \/ PumpDies \/ Close) /\ UNCHANGED runVars

\* A final that is too old is stored and no more.
HandleStale == /\ Handled /\ begun' = begun \ hand
               /\ UNCHANGED <<run, opener, hold, queue, job, translator, sent, resends, joined, dropped>>

HandleFinal ==
  /\ Handled
  /\ \E lang \in Langs :
       /\ Consider(lang)
       /\ begun' = IF lang = "en" THEN {} ELSE begun \ hand
       /\ dropped' = IF lang = "none" /\ ~run.open THEN dropped \cup (hand \cap begun) ELSE dropped
  /\ UNCHANGED <<job, translator, sent, resends, joined>>

\* Mutant: the hold ends the run under a turn that is still being decoded.
HoldNeverWaits == FALSE
\* A partial and a final restart the hold, which untimed may lapse at any later moment; it ends
\* the run once no turn of speech is still being decoded for a pump that lives.
HoldWaits == Finalizing /\ pump = "on"
HoldExpires ==
  /\ hold /\ ~HoldWaits
  /\ EndRun
  /\ UNCHANGED <<transcriberVars, opener, job, translator, sent, resends, joined, begun, dropped>>

\* _translation_worker_loop: a translation may fail, be empty or echo its source; a done marker
\* that cannot be sent is buffered or lost with its socket, like every message.
TakeJob ==
  /\ translator = "on" /\ job = NoJob /\ queue # <<>>
  /\ job' = Head(queue) /\ queue' = Tail(queue)
  /\ UNCHANGED <<transcriberVars, run, opener, hold, translator, sent, resends, joined, begun, dropped>>

FinishJob ==
  /\ job # NoJob /\ job' = NoJob
  /\ translator' = IF job.kind = "stop" THEN "stopped" ELSE translator
  /\ \/ job.kind # "stop" /\ sent' = Append(sent, <<job.kind, job.run>>)
     \/ job.kind # "done" /\ UNCHANGED sent
  /\ UNCHANGED <<transcriberVars, run, opener, hold, queue, resends, joined, begun, dropped>>

\* resend_ended_asides: a warm resume repeats the done marker of a run that has ended.
Resend ==
  /\ resends < MaxResends /\ ~closed /\ ~run.open
  /\ resends' = resends + 1 /\ queue' = Append(queue, DoneJob(run.id))
  /\ UNCHANGED <<transcriberVars, run, opener, hold, job, translator, sent, joined, begun, dropped>>

\* _close_teardown after the pump: the run ends, and the worker drains up to a stop entry ...
StopJob == [kind |-> "stop", run |-> 0, lang |-> "none"]
PumpJoined ==
  /\ closed /\ pump # "on" /\ ~joined /\ joined' = TRUE
  /\ queue' = queue \o (IF run.open THEN <<DoneJob(run.id), StopJob>> ELSE <<StopJob>>)
  /\ run' = (IF run.open THEN EndedRun ELSE run) /\ hold' = (hold /\ ~run.open)
  /\ UNCHANGED <<transcriberVars, opener, job, translator, sent, resends, begun, dropped>>

\* ... or up to the drain's timeout, which cancels it.
DrainTimesOut ==
  /\ joined /\ translator = "on"
  /\ translator' = "stopped" /\ job' = NoJob
  /\ UNCHANGED <<transcriberVars, run, opener, hold, queue, sent, resends, joined, begun, dropped>>

Drained == translator = "stopped" /\ UNCHANGED translationVars

TranslationNext == \/ CutTurn \/ Decode \/ HandleStale \/ HandleFinal \/ HoldExpires
                   \/ TakeJob \/ FinishJob \/ Resend \/ PumpJoined \/ DrainTimesOut \/ Drained

\* Calls end (they have timeouts), timers fire, and a teardown that has begun goes on.
TranslationFairness ==
  /\ WF_translationVars(Decide /\ UNCHANGED runVars)
  /\ WF_translationVars(Take /\ UNCHANGED runVars)
  /\ WF_translationVars(PumpEnds /\ UNCHANGED runVars)
  /\ WF_translationVars(HandleStale \/ HandleFinal) /\ WF_translationVars(HoldExpires)
  /\ WF_translationVars(TakeJob) /\ WF_translationVars(FinishJob) /\ WF_translationVars(PumpJoined)

TranslationSpec     == TranslationInit /\ [][TranslationNext]_translationVars
TranslationFairSpec == TranslationSpec /\ TranslationFairness

-----------------------------------------------------------------------------
(* Properties.                                                              *)

TranslationTypeOK ==
  /\ turn \in 0..MaxTurns /\ ready \in Seq(SUBSET (1..MaxTurns)) /\ hand \subseteq 1..MaxTurns
  /\ run \in [id : Nat, lang : Langs, open : BOOLEAN] /\ opener \in Foreign \cup {"none"}
  /\ hold \in BOOLEAN /\ translator \in {"on", "stopped"} /\ resends \in 0..MaxResends
  /\ \A e \in {job} \cup {queue[i] : i \in DOMAIN queue} :
       e \in [kind : {"none", "translate", "done", "stop"}, run : 0..run.id, lang : Langs]
  /\ begun \cup dropped \subseteq 1..MaxTurns

\* What the client shows: a done marker names no run, so it must reach the socket after every
\* translation of the run it ends and before any of the next, or it would start the dismissal of
\* a box that is still being filled (XERK-160, XERK-1736).
DoneFollowsRun ==
  \A i, j \in DOMAIN sent : i < j =>
    /\ sent[i][2] <= sent[j][2]
    /\ sent[i][1] = "done" /\ sent[j][1] = "translate" => sent[i][2] < sent[j][2]

\* A turn spoken during a run, of which the text does not tell the language, is translated with
\* the run however long its decode takes (XERK-1377): silence does not end a run under it.
InheritedTurnKept == dropped = {}

\* What the client may rely on in the stream of translations and markers.
TranslationSafe == TranslationTypeOK /\ DoneFollowsRun /\ InheritedTurnKept

\* Every run is announced as over to the client, unless the session ends with its worker
\* stopped: a run that nothing ends would suppress cues for the rest of the recording.
RunsEnd == \A r \in 1..MaxTurns :
  (run.id = r) ~> (translator = "stopped" \/ \E i \in DOMAIN sent : sent[i] = <<"done", r>>)
=============================================================================
