---------------------------- MODULE DecodeWorker ----------------------------
(***************************************************************************)
(* The streaming transcriber of one session (stt/streaming.py): push()     *)
(* cuts the audio into turns and queues decode jobs, one worker decodes    *)
(* them in order against an engine that may be slow, down, or unable to    *)
(* decode one input, and the session's pump consumes the results.          *)
(*                                                                         *)
(* Audio is reduced to what decides control: whether the in-flight buffer  *)
(* holds speech, and the number of the turn it will become.  A decoded     *)
(* text is "text" or "blank"; a partial is "short" or "long" by the        *)
(* _RECOVERY_MIN_WORDS gate.  The 60 s retry budget is counted in failed   *)
(* attempts (OutageBudget); whether a job has waited too long is chosen.   *)
(***************************************************************************)
EXTENDS Integers, Sequences, FiniteSets

CONSTANTS MaxCuts,       \* bound: turns closed in one session
          MaxWaiting,    \* bound: results waiting for the pump when a partial is cut
          OutageBudget,  \* failed final decodes that fit _FINAL_RETRY_BUDGET_S
          MinDecodes     \* _BEHIND_MIN_DECODES

ASSUME DecodeAssumption == /\ MaxCuts \in Nat /\ MaxWaiting \in Nat /\ OutageBudget \in Nat \ {0}
                           /\ MinDecodes \in Nat \ {0}

VARIABLES
  cuts,          \* turns closed so far
  heard,         \* _has_speech of the in-flight turn
  energy,        \* _energy_heard of the in-flight turn
  jobs,          \* the queue of decode jobs
  partialPending,
  work,          \* what the worker decodes (its turns, those with speech) and how far it is
  turnPartial,   \* _turn_partial: the last partial shown, and the turn it was decoded from
  outage,        \* failed final decodes since _outage_since; 0: the upstream answers
  decodes,       \* length of _final_decodes
  results,       \* the queue behind results()
  inHand,        \* the result the pump is handling
  speechPending, \* _speech_finals_pending
  undelivered,   \* _finals_undelivered
  teardown,      \* how far Session._close_teardown is
  drain          \* the pump task: "on", "done", "dead"

intakeVars == <<cuts, heard, energy>>
workerVars == <<work, turnPartial, outage, decodes, speechPending>>
pumpVars   == <<inHand, drain>>
decodeVars == <<intakeVars, jobs, partialPending, workerVars, results, pumpVars, undelivered,
                teardown>>

Idle    == [at |-> "idle", turns |-> {}, speech |-> {}, first |-> TRUE]
NoPartial == [turn |-> 0, long |-> FALSE]
Nothing == [kind |-> "none", turns |-> {}]
Jobs    == [kind : {"partial", "final"}, turn : 1..(MaxCuts + 1), speech : BOOLEAN]
Results == [kind : {"none", "partial", "final", "end"}, turns : SUBSET (1..(MaxCuts + 1))]

DecodeInit ==
  /\ cuts = 0 /\ heard = FALSE /\ energy = FALSE
  /\ jobs = <<>> /\ partialPending = FALSE /\ work = Idle
  /\ turnPartial = NoPartial /\ outage = 0 /\ decodes = 0
  /\ results = <<>> /\ inHand = Nothing /\ speechPending = 0 /\ undelivered = 0
  /\ teardown = "live" /\ drain = "on"

-----------------------------------------------------------------------------
(* Intake: push().  A shutdown's teardown still pushes the audio that arrives.                   *)

Listening == teardown \in {"live", "flush"}

\* A frame judged speech, or one only the energy gate hears (the model VAD overrules it).
FrameHeard(speech) ==
  /\ Listening /\ cuts < MaxCuts
  /\ energy' = TRUE /\ heard' = (heard \/ speech)
  /\ <<heard, energy>>' # <<heard, energy>>
  /\ UNCHANGED <<cuts, jobs, partialPending, workerVars, results, pumpVars, undelivered,
                 teardown>>

\* A partial cadence falls due; one that is pending makes push() skip it.
PartialDue ==
  /\ Listening /\ heard /\ ~partialPending /\ Len(results) < MaxWaiting
  /\ partialPending' = TRUE
  /\ jobs' = Append(jobs, [kind |-> "partial", turn |-> cuts + 1, speech |-> TRUE])
  /\ UNCHANGED <<intakeVars, workerVars, results, pumpVars, undelivered, teardown>>

\* Mutant: a closed turn of speech is not counted as pending.
CloseTurnUncounted(head, tail) ==
  /\ cuts' = cuts + 1
  /\ jobs' = Append(jobs, [kind |-> "final", turn |-> cuts + 1, speech |-> head])
  /\ heard' = tail /\ energy' = tail
  /\ UNCHANGED <<partialPending, work, turnPartial, outage, decodes, speechPending, results,
                 pumpVars, undelivered>>
\* _close_turn: the head goes to the worker, the audio past the cut opens the next turn.
CloseTurn(head, tail) ==
  /\ cuts' = cuts + 1
  /\ jobs' = Append(jobs, [kind |-> "final", turn |-> cuts + 1, speech |-> head])
  /\ speechPending' = speechPending + (IF head THEN 1 ELSE 0)
  /\ heard' = tail /\ energy' = tail
  /\ UNCHANGED <<partialPending, work, turnPartial, outage, decodes, results, pumpVars,
                 undelivered>>

\* Trailing silence closes a turn whole; the cap cuts it at its quietest point.
TurnPauses == Listening /\ cuts < MaxCuts /\ heard /\ CloseTurn(TRUE, FALSE)
              /\ UNCHANGED teardown
TurnCapped ==
  /\ Listening /\ cuts < MaxCuts
  /\ \E head, tail \in BOOLEAN : (heard <=> head \/ tail) /\ CloseTurn(head, tail)
  /\ UNCHANGED teardown

-----------------------------------------------------------------------------
(* The worker.                                                              *)

\* _coalesce_backlog takes queued jobs until a final no longer fits its size limit.
Fits(rest, k) == k = Len(rest) \/ rest[k + 1].kind = "final"
FinalsIn(js)  == {i \in DOMAIN js : js[i].kind = "final"}
TurnsOf(js)   == {js[i].turn : i \in FinalsIn(js)}
SpeechOf(js)  == {js[i].turn : i \in {k \in FinalsIn(js) : js[k].speech}}
Merged(rest)  == IF decodes >= MinDecodes THEN {k \in 0..Len(rest) : Fits(rest, k)} ELSE {}

TakeFinal ==
  /\ Listening /\ work.at = "idle" /\ jobs # <<>> /\ Head(jobs).kind = "final"
  /\ \E k \in {0} \cup Merged(Tail(jobs)) :
       LET taken == SubSeq(jobs, 1, k + 1) IN
       /\ work' = [at |-> "decode", turns |-> TurnsOf(taken), speech |-> SpeechOf(taken), first |-> TRUE]
       /\ jobs' = SubSeq(jobs, k + 2, Len(jobs))
       /\ partialPending' = (partialPending /\ FinalsIn(taken) = DOMAIN taken)
  /\ UNCHANGED <<intakeVars, turnPartial, outage, decodes, speechPending, results, pumpVars,
                 undelivered, teardown>>

\* A partial that waited behind a slow final is dropped, not decoded.
TakePartial ==
  /\ Listening /\ work.at = "idle" /\ jobs # <<>> /\ Head(jobs).kind = "partial"
  /\ jobs' = Tail(jobs)
  /\ \/ partialPending' = FALSE /\ UNCHANGED work
     \/ work' = [Idle EXCEPT !.at = "partial", !.turns = {Head(jobs).turn}] /\ UNCHANGED partialPending
  /\ UNCHANGED <<intakeVars, turnPartial, outage, decodes, speechPending, results, pumpVars,
                 undelivered, teardown>>

\* _emit_partial: nothing, a caption, or an engine error the worker survives.
PartialDecoded ==
  /\ work.at = "partial"
  /\ work' = Idle /\ partialPending' = FALSE
  /\ \/ UNCHANGED <<turnPartial, results>> /\ outage' \in {outage, 0}
     \/ /\ \E t \in work.turns, long \in BOOLEAN : turnPartial' = [turn |-> t, long |-> long]
        /\ outage' = 0
        /\ results' = Append(results, [kind |-> "partial", turns |-> work.turns])
  /\ UNCHANGED <<intakeVars, jobs, decodes, speechPending, pumpVars, undelivered, teardown>>

\* Only decodes of a single turn judge the engine's speed.
Timed == IF Cardinality(work.turns) = 1 /\ decodes < MinDecodes THEN decodes + 1 ELSE decodes

\* The rest of _finalize once the decode is over: the text, else the partial the user watched.
Surfaces(text) == text = "text" \/ (text = "blank" /\ turnPartial.long)
\* Mutant: the partial shown outlives the turn it was decoded from.
SettleKeepsPartial(text) ==
  /\ work' = Idle /\ speechPending' = speechPending - Cardinality(work.speech)
  /\ IF Surfaces(text)
     THEN /\ results' = Append(results, [kind |-> "final", turns |-> work.turns])
          /\ undelivered' = undelivered + 1
     ELSE UNCHANGED <<results, undelivered>>
  /\ UNCHANGED turnPartial
Settle(text) ==
  /\ work' = Idle /\ turnPartial' = NoPartial /\ speechPending' = speechPending - Cardinality(work.speech)
  /\ IF Surfaces(text)
     THEN /\ results' = Append(results, [kind |-> "final", turns |-> work.turns])
          /\ undelivered' = undelivered + 1
     ELSE UNCHANGED <<results, undelivered>>
Decoding == UNCHANGED <<turnPartial, speechPending, results, undelivered>>

\* The engine answers.  A blank decode of speech is decoded once more with padding.
FinalAnswers ==
  /\ work.at \in {"decode", "again"}
  /\ outage' = 0 /\ decodes' = Timed
  /\ \E text \in {"text", "blank", "nonspeech"} :
       IF text = "blank" /\ work.speech # {}
       THEN work' = [work EXCEPT !.at = "padded"] /\ Decoding
       ELSE Settle(text)
  /\ UNCHANGED <<intakeVars, jobs, partialPending, pumpVars, teardown>>

PaddedAnswers ==
  /\ work.at = "padded"
  /\ \E text \in {"text", "blank"} : Settle(text)
  /\ outage' \in {outage, 0}
  /\ UNCHANGED <<intakeVars, jobs, partialPending, decodes, pumpVars, teardown>>

\* Mutant: a turn is retried for as long as the outage lasts.
OutageNeverGivesUp ==
  /\ outage' = IF outage > OutageBudget THEN outage ELSE outage + 1
  /\ decodes' = IF outage = 0 THEN 0 ELSE decodes
  /\ work' = [work EXCEPT !.at = "backoff", !.first = FALSE] /\ Decoding
\* A failed attempt during an outage: back off while the budget lasts, else give the turn up.
OutageGoesOn ==
  /\ outage' = IF outage > OutageBudget THEN outage ELSE outage + 1
  /\ decodes' = IF outage = 0 THEN 0 ELSE decodes
  /\ IF outage < OutageBudget THEN work' = [work EXCEPT !.at = "backoff", !.first = FALSE] /\ Decoding
                              ELSE Settle("blank")

\* The first failure of a turn outside an outage is probed; another goes on with the outage.
FinalRaises ==
  /\ work.at = "decode"
  /\ IF work.first /\ outage = 0
     THEN work' = [work EXCEPT !.at = "probe"] /\ Decoding /\ UNCHANGED <<outage, decodes>>
     ELSE OutageGoesOn
  /\ UNCHANGED <<intakeVars, jobs, partialPending, pumpVars, teardown>>

\* The upstream answers a probe: the input is tried once more and then given up.
Probed ==
  /\ work.at = "probe"
  /\ \/ work' = [work EXCEPT !.at = "again"] /\ Decoding /\ UNCHANGED <<outage, decodes>>
     \/ OutageGoesOn
  /\ UNCHANGED <<intakeVars, jobs, partialPending, pumpVars, teardown>>

AgainRaises ==
  /\ work.at = "again" /\ Settle("blank")
  /\ UNCHANGED <<intakeVars, jobs, partialPending, outage, decodes, pumpVars, teardown>>

BackoffEnds ==
  /\ work.at = "backoff"
  /\ work' = [work EXCEPT !.at = "decode"]
  /\ UNCHANGED <<intakeVars, jobs, partialPending, outage, decodes, pumpVars, teardown>> /\ Decoding

-----------------------------------------------------------------------------
(* The consumer, and the end of the session.                                *)

\* _drain_results takes a result.  It awaits its delivery before it handles it.
TakeResult ==
  /\ drain = "on" /\ inHand = Nothing /\ results # <<>>
  /\ inHand' = Head(results) /\ results' = Tail(results)
  /\ UNCHANGED <<intakeVars, jobs, partialPending, workerVars, drain, undelivered, teardown>>

\* results() resumes: a final counts as delivered, and the drain ends once closed and empty.
ResultHandled ==
  /\ inHand # Nothing /\ drain = "on"
  /\ inHand' = Nothing
  /\ undelivered' = IF inHand.kind = "final" THEN undelivered - 1 ELSE undelivered
  /\ drain' = IF teardown = "closed" /\ results = <<>> THEN "done" ELSE drain
  /\ UNCHANGED <<intakeVars, jobs, partialPending, workerVars, results, teardown>>

\* _pump_results: an STT seam that raises ends the pump, not the session.
DrainDies ==
  /\ drain = "on" /\ teardown = "live" /\ inHand = Nothing
  /\ drain' = "dead"
  /\ UNCHANGED <<intakeVars, jobs, partialPending, workerVars, inHand, results, undelivered,
                 teardown>>

\* Teardown: flush() closes a tail with speech and waits for the jobs, within a timeout ...
Flush ==
  /\ teardown = "live" /\ teardown' = "flush"
  /\ IF heard \/ energy THEN CloseTurn(heard, FALSE)
     ELSE UNCHANGED <<intakeVars, jobs, partialPending, workerVars, results, pumpVars,
                      undelivered>>

\* ... then close() cancels the worker and wakes the consumer with an empty partial.
CloseTranscriber ==
  /\ teardown = "flush" /\ teardown' = "closed"
  /\ work' = Idle
  /\ speechPending' = speechPending - Cardinality(work.speech)
  /\ results' = Append(results, [kind |-> "end", turns |-> {}])
  /\ UNCHANGED <<intakeVars, jobs, partialPending, turnPartial, outage, decodes, pumpVars,
                 undelivered>>

Intake == \/ \E speech \in BOOLEAN : FrameHeard(speech)
          \/ PartialDue \/ TurnPauses \/ TurnCapped
Worker == \/ TakeFinal \/ TakePartial \/ PartialDecoded \/ FinalAnswers \/ FinalRaises
          \/ Probed \/ AgainRaises \/ PaddedAnswers \/ BackoffEnds

Closed == teardown = "closed" /\ UNCHANGED decodeVars /\ drain # "on"

DecodeNext == \/ Intake \/ Worker \/ TakeResult \/ ResultHandled
              \/ DrainDies \/ Flush \/ CloseTranscriber \/ Closed

\* Engine calls end (they have timeouts), and the pump handles what it is given.
DecodeFairness ==
  WF_decodeVars(Worker) /\ WF_decodeVars(TakeResult) /\ WF_decodeVars(ResultHandled)

DecodeSpec == DecodeInit /\ [][DecodeNext]_decodeVars /\ DecodeFairness

-----------------------------------------------------------------------------
(* Properties.                                                              *)

DecodeTypeOK ==
  /\ cuts \in 0..(MaxCuts + 1) /\ heard \in BOOLEAN /\ energy \in BOOLEAN
  /\ jobs \in Seq(Jobs) /\ partialPending \in BOOLEAN
  /\ work \in [at : {"idle", "partial", "decode", "probe", "again", "padded", "backoff"},
               turns : SUBSET (1..(MaxCuts + 1)), speech : SUBSET (1..(MaxCuts + 1)), first : BOOLEAN]
  /\ turnPartial \in [turn : 0..(MaxCuts + 1), long : BOOLEAN]
  /\ outage \in 0..(OutageBudget + 1) /\ decodes \in 0..MinDecodes
  /\ results \in Seq(Results) /\ inHand \in Results
  /\ speechPending \in Nat /\ undelivered \in Nat
  /\ teardown \in {"live", "flush", "closed"}
  /\ drain \in {"on", "done", "dead"}

\* However slow or broken the engine is, no turn is captioned twice or out of order, and a
\* partial never reaches the client after the final of its turn (the ordering that the worker's
\* merging, its retries and its dropped partials must keep).
Item(job) == [kind |-> job.kind, turns |-> {job.turn}]
Batch     == [kind |-> IF work.at = "partial" THEN "partial" ELSE "final", turns |-> work.turns]
Before(a, b) == \A t \in a.turns, u \in b.turns : IF a.kind = "final" THEN t < u ELSE t <= u
CaptionsInOrder ==
  /\ Before(inHand, Batch)
  /\ \A i \in DOMAIN results : Before(inHand, results[i]) /\ Before(results[i], Batch)
  /\ \A i, j \in DOMAIN results : i < j => Before(results[i], results[j])
  /\ \A k \in DOMAIN jobs : Before(inHand, Item(jobs[k])) /\ Before(Batch, Item(jobs[k]))
  /\ \A i \in DOMAIN results, k \in DOMAIN jobs : Before(results[i], Item(jobs[k]))
  /\ \A i, j \in DOMAIN jobs : i < j => Before(Item(jobs[i]), Item(jobs[j]))

\* The partial that stands in for a blank final was decoded from that turn, not from one
\* before or after it (XERK-174).
FallbackIsOwn ==
  work.at \notin {"idle", "partial"} /\ turnPartial # NoPartial => turnPartial.turn \in work.turns

\* `finalizing` counts exactly the speech still to be decided and the finals still to be
\* handled, through merges, failures and retries.  A count that leaks upwards would hold a
\* translation run open forever; one that leaks downwards ends it under a turn being decoded.
PendingIsExact ==
  /\ Listening => speechPending = Cardinality(SpeechOf(jobs) \cup work.speech)
  /\ undelivered = Cardinality(FinalsIn(results)) + (IF inHand.kind = "final" THEN 1 ELSE 0)

\* What the worker promises of each result it emits.
DecodeSafe == DecodeTypeOK /\ CaptionsInOrder /\ FallbackIsOwn /\ PendingIsExact

\* What is still to be decided: turns are taken in order, so these are the last ones.
Decoded   == IF work.at = "partial" THEN {} ELSE work.turns
Undecided == TurnsOf(jobs) \cup Decoded

OpenTurns == [i \in 1..Cardinality(Undecided) |->
                LET t == cuts - Cardinality(Undecided) + i
                IN [turn |-> t, speech |-> t \in SpeechOf(jobs) \cup work.speech]]

\* The finals among some results, oldest first: the turns of each.
Upto(q, i)    == {j \in FinalsIn(q) : j <= i}
FinalTurns(q) == [k \in 1..Cardinality(FinalsIn(q)) |->
                    UNION {q[i].turns : i \in {j \in FinalsIn(q) : Cardinality(Upto(q, j)) = k}}]

\* The transcriber keeps what the session relies on (Transcriber): decode order, one final per
\* turn, no final lost at close, and every turn decided whatever the engine does.
T == INSTANCE Transcriber WITH
       MaxTurns <- MaxCuts + 1, turn <- cuts, pump <- drain,
       pending <- OpenTurns, ready <- FinalTurns(results),
       hand    <- IF inHand.kind = "final" THEN inHand.turns ELSE {},
       closed  <- teardown = "closed"
ImplementsTranscriber == T!TranscriberSpec
=============================================================================
