---------------------------- MODULE SessionParts ----------------------------
(***************************************************************************)
(* The parts of a session that share no state, explored one after another  *)
(* in one model: `part` says which one moves, the others stay in their     *)
(* initial states.  What a part needs to know of another (that a song or a *)
(* run has the box) is chosen inside it.                                   *)
(***************************************************************************)
EXTENDS DecodeWorker, TranslationRun, CueScheduler, MusicRun, FactCheck, EvidenceLookup

VARIABLE part

speechVars == <<decodeVars, translationVars, musicVars>>
shownVars == <<cueVars, factVars, evidenceVars>>
sessionPartVars == <<part, speechVars, shownVars>>

SessionInit ==
  /\ part \in {"decode", "translation", "music", "cues", "checks", "evidence"}
  /\ DecodeInit /\ TranslationInit /\ CueInit /\ MusicInit /\ FactInit /\ EvidenceInit
  /\ part # "cues" => ~checker   \* one initial state of the other parts

SpeechNext ==
  \/ part = "decode" /\ DecodeNext /\ UNCHANGED <<translationVars, musicVars>>
  \/ part = "translation" /\ TranslationNext /\ UNCHANGED <<decodeVars, musicVars>>
  \/ part = "music" /\ MusicNext /\ UNCHANGED <<decodeVars, translationVars>>
ShownNext ==
  \/ part = "cues" /\ CueNext /\ UNCHANGED <<factVars, evidenceVars>>
  \/ part = "checks" /\ FactNext /\ UNCHANGED <<cueVars, evidenceVars>>
  \/ part = "evidence" /\ EvidenceNext /\ UNCHANGED <<cueVars, factVars>>

SessionNext ==
  /\ UNCHANGED part
  /\ \/ SpeechNext /\ UNCHANGED shownVars
     \/ ShownNext /\ UNCHANGED speechVars

\* Nothing that must happen is enabled in a part's initial state, so the fairness of one part
\* asks nothing of the others.
SessionSpec == /\ SessionInit /\ [][SessionNext]_sessionPartVars
               /\ DecodeFairness /\ TranslationFairness /\ CueFairness
               /\ FactFair /\ EvidenceFair

---------------------------------------------------------------------------
\* Cues are attempted and shown in their time, and what checks one and what grounds it share
\* their slots as they should, and end, whatever else goes on.
CuesAreMade == CueTiming /\ ChecksSettle /\ LookupsSettle
=============================================================================
