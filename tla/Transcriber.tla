----------------------------- MODULE Transcriber -----------------------------
(***************************************************************************)
(* What a session relies on from its streaming transcriber (stt/base.py,   *)
(* stt/streaming.py): turns are decided strictly in the order they were    *)
(* spoken, several at once if need be, each becomes part of one final or   *)
(* of none, and `finalizing` stays set until the consumer has handled it.  *)
(* DecodeWorker implements this; TranslationRun builds on it.              *)
(***************************************************************************)
EXTENDS Integers, Sequences

CONSTANT MaxTurns      \* bound: turns closed by speech, silence or the cap

VARIABLES
  turn,      \* turns closed so far
  pending,   \* turns queued for or in their final decode, oldest first
  ready,     \* finals in the queue behind results(): the turns of each
  hand,      \* the turns of the final that the consumer is handling, or {}
  closed,    \* close() was called
  pump       \* the consumer: "on", "done", "dead"

transcriberVars == <<turn, pending, ready, hand, closed, pump>>

TranscriberInit == turn = 0 /\ pending = <<>> /\ ready = <<>> /\ hand = {} /\ closed = FALSE /\ pump = "on"

Finalizing == (\E i \in DOMAIN pending : pending[i].speech) \/ ready # <<>> \/ hand # {}

\* A turn closes, with speech in it or without.
Cut(speech) == /\ ~closed /\ turn' = turn + 1
               /\ pending' = Append(pending, [turn |-> turn + 1, speech |-> speech])
               /\ UNCHANGED <<ready, hand, closed, pump>>

\* The oldest turns are decided as one: as a final, or as nothing to caption.
Decide ==
  /\ ~closed
  /\ \E k \in 1..Len(pending) :
       /\ pending' = SubSeq(pending, k + 1, Len(pending))
       /\ ready' \in {ready, Append(ready, {pending[i].turn : i \in 1..k})}
  /\ UNCHANGED <<turn, hand, closed, pump>>

Take == /\ pump = "on" /\ hand = {} /\ ready # <<>>
        /\ hand' = Head(ready) /\ ready' = Tail(ready)
        /\ UNCHANGED <<turn, pending, closed, pump>>

\* After close() the consumer still handles everything that is queued.
Handled == /\ pump = "on" /\ hand # {} /\ hand' = {}
           /\ pump' \in {pump} \cup (IF closed /\ ready = <<>> THEN {"done"} ELSE {})
           /\ UNCHANGED <<turn, pending, ready, closed>>
PumpEnds == /\ closed /\ pump = "on" /\ ready = <<>> /\ hand = {} /\ pump' = "done"
            /\ UNCHANGED <<turn, pending, ready, hand, closed>>
PumpDies == /\ pump = "on" /\ ~closed /\ hand = {} /\ pump' = "dead"
            /\ UNCHANGED <<turn, pending, ready, hand, closed>>

\* close() gives up the decode in progress.
Close == /\ ~closed /\ closed' = TRUE
         /\ \E k \in 0..Len(pending) : pending' = SubSeq(pending, k + 1, Len(pending))
         /\ UNCHANGED <<turn, ready, hand, pump>>

Transcribes == (turn < MaxTurns /\ \E speech \in BOOLEAN : Cut(speech))
               \/ Decide \/ Take \/ PumpEnds \/ PumpDies \/ Close

\* The promise without its fairness: what every step of the transcriber keeps to.
TranscriberSteps == TranscriberInit /\ [][Transcribes \/ Handled]_transcriberVars

TranscriberSpec ==
  /\ TranscriberSteps
  /\ WF_transcriberVars(Decide) /\ WF_transcriberVars(Take)
  /\ WF_transcriberVars(Handled) /\ WF_transcriberVars(PumpEnds)
=============================================================================
