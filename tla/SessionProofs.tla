---------------------------- MODULE SessionProofs ----------------------------
(***************************************************************************)
(* Theorems about the parts of a session, for every value of their bounds. *)
(*                                                                         *)
(* The decode worker: DecodesAreSafe.  DecodeSafe is not inductive.        *)
(* DecodeInv adds that nothing captions a turn that has not been spoken    *)
(* yet (TurnsSpoken), what the worker can have in its hands (WorkShape),   *)
(* and to which turn a partial belongs on its whole way through the queue  *)
(* and onto the screen (PartialsOwned).  The last is why a blank final may *)
(* fall back on the partial shown: the turns queued are in order, so when  *)
(* a final is taken, a partial that is shown can only be of its turn.      *)
(*                                                                         *)
(* DecidesInOrder: the worker takes only steps of Transcriber.  What is    *)
(* undecided is a row of turns up to the last one closed, its lower part   *)
(* in the worker's hands and the rest queued (TurnsInRow); what waits for  *)
(* the consumer is the finals among the results, in their order.           *)
(*                                                                         *)
(* The song run: RunOwnsBox.  MusicInv adds what the scan loop knows       *)
(* across its awaits: a lookup in progress has a run number left to give,  *)
(* and a retry was started for a run that was active.                      *)
(*                                                                         *)
(* The translation run: TranslationsAreSafe.  What the client gets is one  *)
(* stream, and what is sent, in the worker's hands and queued is one       *)
(* sequence already (StreamInOrder): an entry that may precede the run     *)
(* which is open may precede whatever that run still queues (GoesOn).  No  *)
(* turn is left out because a run ends only when nothing spoken under it   *)
(* is on its way to the pump any more (BegunAreDecided), which the hold's  *)
(* guard on `finalizing` is there for.                                     *)
(*                                                                         *)
(* Cues: CuesAreSafe, CuesKeepApart.  Every subject shown is remembered    *)
(* and none is shown while a call is in flight but its own                 *)
(* (SubjectsKnown), so the test made before a fact check still holds after *)
(* it; and a turn is missed only once the floor has lapsed (MissedLate),   *)
(* so the call that catches up on it needs no second look at the floor.    *)
(*                                                                         *)
(* What all sessions share: ChecksAreFair, SearchesAreShared.  Slots are   *)
(* asked for and held only by reads of checks at their reads (ReadsInTime);*)
(* a session waits for one check, and those that go on without it have no  *)
(* time left (WaitedAlone), so the limit remembered is that of the check   *)
(* waited for (LimitIsOwn).  The one search slot is the one search under   *)
(* way (SlotIsSearch), and a retired session has none (RetiredRests).      *)
(***************************************************************************)
EXTENDS DecodeWorker, MusicRun, TranslationRun, CueScheduler, FactCheck, EvidenceLookup,
        SequenceTheorems, FiniteSetTheorems, WellFoundedInduction, TLAPS

-----------------------------------------------------------------------------
(* The decode worker: its inductive invariant.                             *)

Busy == work.at \notin {"idle", "partial"}

\* No caption is of a turn that is not there yet: a final's is closed, a partial's at least open.
Spoken(item) == \A t \in item.turns : IF item.kind = "final" THEN t <= cuts ELSE t <= cuts + 1
TurnsSpoken ==
  /\ heard \/ teardown = "live" => cuts <= MaxCuts
  /\ Spoken(inHand) /\ Spoken(Batch) /\ turnPartial.turn <= cuts + 1
  /\ \A i \in DOMAIN results : Spoken(results[i])
  /\ \A k \in DOMAIN jobs : Spoken(Item(jobs[k]))

\* The worker's hands are empty, or it has one partial, or turns to decode.
WorkShape ==
  /\ work.at = "idle" => work.turns = {}
  /\ ~Busy => work.speech = {}
  /\ work.speech \subseteq work.turns
  /\ ~Listening => work.at = "idle"

\* A partial that is queued, decoded or shown belongs to the open turn or to one whose final is
\* queued behind it; the one that is shown is of no later turn than anything queued, and of a
\* turn in the worker's hands while that decodes a final.
Owned(t) == t = cuts + 1 \/ t \in TurnsOf(jobs)
PartialsOwned ==
  Listening =>
    /\ \A k \in DOMAIN jobs : jobs[k].kind = "partial" => Owned(jobs[k].turn)
    /\ work.at = "partial" => \A t \in work.turns : Owned(t)
    /\ turnPartial # NoPartial =>
         /\ IF Busy THEN turnPartial.turn \in work.turns ELSE Owned(turnPartial.turn)
         /\ \A k \in DOMAIN jobs : turnPartial.turn <= jobs[k].turn
         /\ work.at = "partial" => \A t \in work.turns : turnPartial.turn <= t

DecodeInv == DecodeSafe /\ TurnsSpoken /\ WorkShape /\ PartialsOwned

-----------------------------------------------------------------------------
(* The decode worker: queues.                                              *)

Works == [at : {"idle", "partial", "decode", "probe", "again", "padded", "backoff"},
          turns : SUBSET (1..(MaxCuts + 1)), speech : SUBSET (1..(MaxCuts + 1)), first : BOOLEAN]

\* What a queue is after one more, and without its head.
LEMMA Appended ==
  ASSUME NEW S, NEW q \in Seq(S), NEW e \in S
  PROVE  /\ Len(q) \in Nat /\ DOMAIN q = 1..Len(q)
         /\ Append(q, e) \in Seq(S) /\ DOMAIN Append(q, e) = 1..(Len(q) + 1)
         /\ \A i \in 1..Len(q) : Append(q, e)[i] = q[i]
         /\ Append(q, e)[Len(q) + 1] = e
<1>1. /\ Append(q, e) \in Seq(S) /\ Len(Append(q, e)) = Len(q) + 1
      /\ \A i \in 1..Len(q) : Append(q, e)[i] = q[i]
      /\ Append(q, e)[Len(q) + 1] = e
  BY AppendProperties
<1>. QED  BY <1>1, LenProperties

\* What a queue is without its head.
LEMMA Taken ==
  ASSUME NEW S, NEW q \in Seq(S), q # <<>>
  PROVE  /\ Len(q) \in Nat \ {0} /\ DOMAIN q = 1..Len(q) /\ Head(q) = q[1] /\ Head(q) \in S
         /\ Tail(q) \in Seq(S) /\ DOMAIN Tail(q) = 1..(Len(q) - 1)
         /\ \A i \in 1..(Len(q) - 1) : Tail(q)[i] = q[i + 1]
<1>1. Len(q) \in Nat \ {0}
  BY EmptySeq
<1>2. /\ Head(q) \in S /\ Tail(q) \in Seq(S) /\ Len(Tail(q)) = Len(q) - 1
      /\ \A i \in 1..Len(Tail(q)) : Tail(q)[i] = q[i + 1]
  BY HeadTailProperties
<1>3. DOMAIN Tail(q) = 1..(Len(q) - 1)
  BY <1>2, LenProperties
<1>. QED  BY <1>1, <1>2, <1>3, LenProperties

\* How many finals a queue of results holds.
LEMMA FinalsFinite ==
  ASSUME NEW q \in Seq(Results) PROVE IsFiniteSet(FinalsIn(q)) /\ Cardinality(FinalsIn(q)) \in Nat
<1>1. Len(q) \in Nat /\ DOMAIN q = 1..Len(q)
  BY LenProperties
<1>2. FinalsIn(q) \subseteq 1..Len(q) /\ IsFiniteSet(1..Len(q))
  BY <1>1, FS_Interval DEF FinalsIn
<1>3. IsFiniteSet(FinalsIn(q))
  BY <1>2, FS_Subset
<1>. QED  BY <1>3, FS_CardinalityType

\* One more result is one more final, or none.
LEMMA FinalsAppended ==
  ASSUME NEW q \in Seq(Results), NEW r \in Results
  PROVE  Cardinality(FinalsIn(Append(q, r))) =
           Cardinality(FinalsIn(q)) + (IF r.kind = "final" THEN 1 ELSE 0)
<1>. DEFINE n == Len(q) + 1
<1>1. /\ Len(q) \in Nat /\ DOMAIN q = 1..Len(q) /\ DOMAIN Append(q, r) = 1..n
      /\ \A i \in 1..Len(q) : Append(q, r)[i] = q[i]
      /\ Append(q, r)[n] = r
  BY Appended
<1>2. \A i : i \in 1..n <=> i \in 1..Len(q) \/ i = n
  BY <1>1
<1>3. n \notin 1..Len(q)
  BY <1>1
<1>. HIDE DEF n
<1>4. FinalsIn(Append(q, r)) = IF r.kind = "final" THEN FinalsIn(q) \cup {n} ELSE FinalsIn(q)
  BY <1>1, <1>2 DEF FinalsIn
<1>5. n \notin FinalsIn(q)
  BY <1>1, <1>3 DEF FinalsIn
<1>6. IsFiniteSet(FinalsIn(q)) /\ Cardinality(FinalsIn(q)) \in Nat
  BY FinalsFinite
<1>7. Cardinality(FinalsIn(q) \cup {n}) = Cardinality(FinalsIn(q)) + 1
  BY <1>5, <1>6, FS_AddElement
<1>. QED  BY <1>4, <1>6, <1>7

\* A set of numbers and the same one shifted by one have as many members.
LEMMA Shifted ==
  ASSUME NEW A, A \subseteq Nat, IsFiniteSet(A), NEW B, B \subseteq Nat \ {0},
         \A i \in Nat : i \in A <=> i + 1 \in B
  PROVE  IsFiniteSet(B) /\ Cardinality(B) = Cardinality(A)
<1>. DEFINE next == [i \in A |-> i + 1]
<1>1. next \in [A -> B]
  OBVIOUS
<1>2. \A a, b \in A : next[a] = next[b] => a = b
  OBVIOUS
<1>3. \A j \in B : \E i \in A : next[i] = j
  <2>. SUFFICES ASSUME NEW j \in B PROVE j - 1 \in A /\ next[j - 1] = j
    BY Zenon
  <2>1. j - 1 \in Nat /\ (j - 1) + 1 = j
    OBVIOUS
  <2>. QED  BY <2>1
<1>4. next \in Bijection(A, B)
  BY <1>1, <1>2, <1>3, Zenon DEF Bijection, Injection, Surjection, IsInjective
<1>. QED  BY <1>4, FS_Bijection, Zenon DEF ExistsBijection

\* Without its head a queue has one final less, or as many.
LEMMA FinalsTaken ==
  ASSUME NEW q \in Seq(Results), q # <<>>
  PROVE  Cardinality(FinalsIn(q)) =
           Cardinality(FinalsIn(Tail(q))) + (IF Head(q).kind = "final" THEN 1 ELSE 0)
<1>1. /\ Len(q) \in Nat \ {0} /\ DOMAIN q = 1..Len(q) /\ Head(q) = q[1] /\ Tail(q) \in Seq(Results)
      /\ DOMAIN Tail(q) = 1..(Len(q) - 1) /\ \A i \in 1..(Len(q) - 1) : Tail(q)[i] = q[i + 1]
  BY Taken
<1>. DEFINE rest == FinalsIn(q) \ {1}
<1>2. \A i \in Nat : i \in FinalsIn(Tail(q)) <=> i + 1 \in rest
  <2>1. \A i \in Nat : i \in 1..(Len(q) - 1) <=> i + 1 \in 1..Len(q) /\ i + 1 # 1
    BY <1>1
  <2>. QED  BY <1>1, <2>1 DEF FinalsIn
<1>3. FinalsIn(Tail(q)) \subseteq Nat /\ rest \subseteq Nat \ {0}
  BY <1>1 DEF FinalsIn
<1>4. IsFiniteSet(FinalsIn(q)) /\ Cardinality(FinalsIn(q)) \in Nat /\ IsFiniteSet(FinalsIn(Tail(q)))
  BY <1>1, FinalsFinite
<1>5. Cardinality(rest) = Cardinality(FinalsIn(Tail(q)))
  BY <1>2, <1>3, <1>4, Shifted
<1>6. 1 \in FinalsIn(q) <=> Head(q).kind = "final"
  BY <1>1 DEF FinalsIn
<1>7. Cardinality(rest) = IF 1 \in FinalsIn(q) THEN Cardinality(FinalsIn(q)) - 1 ELSE Cardinality(FinalsIn(q))
  BY <1>4, FS_RemoveElement
<1>. QED  BY <1>4, <1>5, <1>6, <1>7
-----------------------------------------------------------------------------
(* The decode worker: its steps.                                           *)

\* What is typed, one record at a time.
LEMMA WorkFacts ==
  ASSUME NEW w \in Works
  PROVE  /\ w.at \in {"idle", "partial", "decode", "probe", "again", "padded", "backoff"}
         /\ w.turns \subseteq 1..(MaxCuts + 1) /\ w.speech \subseteq 1..(MaxCuts + 1)
         /\ w.first \in BOOLEAN
BY DEF Works

\* The idle worker holds no turn.
LEMMA IdleWorks == Idle \in Works /\ Idle.at = "idle" /\ Idle.turns = {} /\ Idle.speech = {}
BY DEF Idle, Works

\* Nothing is before nothing.
LEMMA BeforeNothing ==
  ASSUME NEW a, NEW b, a.turns = {} \/ b.turns = {} PROVE Before(a, b)
BY DEF Before

\* The numbers of the turns of a queue's finals.
LEMMA TurnsAppended ==
  ASSUME NEW q \in Seq(Jobs), NEW j \in Jobs
  PROVE  /\ TurnsOf(Append(q, j)) = TurnsOf(q) \cup (IF j.kind = "final" THEN {j.turn} ELSE {})
         /\ SpeechOf(Append(q, j)) =
              SpeechOf(q) \cup (IF j.kind = "final" /\ j.speech THEN {j.turn} ELSE {})
<1>1. /\ Len(q) \in Nat /\ DOMAIN q = 1..Len(q) /\ DOMAIN Append(q, j) = 1..(Len(q) + 1)
      /\ \A i \in 1..Len(q) : Append(q, j)[i] = q[i]
      /\ Append(q, j)[Len(q) + 1] = j
  BY Appended
<1>. DEFINE n == Len(q) + 1
            p == Append(q, j)
<1>2. \A i : i \in 1..n <=> i \in 1..Len(q) \/ i = n
  BY <1>1
<1>3. DOMAIN p = 1..n /\ (\A i \in 1..Len(q) : p[i] = q[i]) /\ p[n] = j
  BY <1>1
<1>. HIDE DEF n, p
<1>4. \A t : t \in TurnsOf(p) <=> t \in TurnsOf(q) \/ (j.kind = "final" /\ t = j.turn)
  BY <1>1, <1>2, <1>3 DEF TurnsOf, FinalsIn
<1>5. \A t : t \in SpeechOf(p) <=> t \in SpeechOf(q) \/ (j.kind = "final" /\ j.speech /\ t = j.turn)
  BY <1>1, <1>2, <1>3 DEF SpeechOf, FinalsIn
<1>. QED  BY <1>4, <1>5 DEF p

\* The turns of a queue of jobs, and its jobs, are typed.
LEMMA TurnsTyped ==
  ASSUME NEW q \in Seq(Jobs)
  PROVE  /\ TurnsOf(q) \subseteq 1..(MaxCuts + 1) /\ SpeechOf(q) \subseteq TurnsOf(q)
         /\ \A i \in DOMAIN q : q[i] \in Jobs
<1>1. \A i \in DOMAIN q : q[i] \in Jobs
  BY LenProperties, ElementOfSeq
<1>2. \A i \in DOMAIN q : q[i].turn \in 1..(MaxCuts + 1)
  BY <1>1 DEF Jobs
<1>. QED  BY <1>1, <1>2 DEF TurnsOf, SpeechOf, FinalsIn

\* A turn is a number, wherever it is.
TurnsCounted ==
  /\ inHand.turns \subseteq Nat /\ Batch.turns \subseteq Nat
  /\ \A i \in DOMAIN results : results[i].turns \subseteq Nat
  /\ \A k \in DOMAIN jobs : Item(jobs[k]).turns \subseteq Nat

\* Typed turns are numbers.
LEMMA TurnsAreNumbers == DecodeTypeOK => TurnsCounted
<1>. SUFFICES ASSUME DecodeTypeOK PROVE TurnsCounted
  OBVIOUS
<1>1. 1..(MaxCuts + 1) \subseteq Nat
  BY DecodeAssumption
<1>2. \A i \in DOMAIN results : results[i] \in Results
  BY LenProperties, ElementOfSeq DEF DecodeTypeOK
<1>3. \A k \in DOMAIN jobs : jobs[k] \in Jobs
  BY LenProperties, ElementOfSeq DEF DecodeTypeOK
<1>4. inHand.turns \subseteq 1..(MaxCuts + 1) /\ Batch.turns \subseteq 1..(MaxCuts + 1)
  BY DEF DecodeTypeOK, Results, Batch
<1>5. \A i \in DOMAIN results : results[i].turns \subseteq 1..(MaxCuts + 1)
  BY <1>2 DEF Results
<1>6. \A k \in DOMAIN jobs : Item(jobs[k]).turns \subseteq 1..(MaxCuts + 1)
  BY <1>3 DEF Jobs, Item
<1>. QED  BY <1>1, <1>4, <1>5, <1>6 DEF TurnsCounted

\* Turns with speech can be counted.
LEMMA SpeechCounts ==
  ASSUME NEW A, A \subseteq 1..(MaxCuts + 1) PROVE IsFiniteSet(A) /\ Cardinality(A) \in Nat
<1>1. IsFiniteSet(1..(MaxCuts + 1))
  BY DecodeAssumption, FS_Interval
<1>2. IsFiniteSet(A)
  BY <1>1, FS_Subset
<1>. QED  BY <1>2, FS_CardinalityType

\* Turns of speech that are apart add up.
LEMMA SpeechAdds ==
  ASSUME NEW A, A \subseteq 1..(MaxCuts + 1), NEW B, B \subseteq 1..(MaxCuts + 1), A \cap B = {}
  PROVE  Cardinality(A \cup B) = Cardinality(A) + Cardinality(B)
<1>1. IsFiniteSet(A) /\ IsFiniteSet(B) /\ Cardinality(A) \in Nat /\ Cardinality(B) \in Nat
  BY SpeechCounts
<1>2. Cardinality(A \cup B) = Cardinality(A) + Cardinality(B) - Cardinality(A \cap B)
  BY <1>1, FS_Union
<1>3. Cardinality(A \cap B) = 0
  BY FS_EmptySet
<1>. QED  BY <1>1, <1>2, <1>3

\* The worker's hands change, the queues do not.
LEMMA WorkerKeeps ==
  ASSUME DecodeInv, Busy, work' \in Works, work'.turns = work.turns, work'.speech = work.speech,
         work'.at \notin {"idle", "partial"}, outage' \in 0..(OutageBudget + 1), decodes' \in 0..MinDecodes,
         UNCHANGED <<intakeVars, jobs, partialPending, turnPartial, speechPending, results, pumpVars,
                     undelivered, teardown>>
  PROVE  DecodeInv'
<1>1. Batch' = Batch
  BY DEF Batch, Busy
<1>2. DecodeTypeOK'
  BY DEF DecodeInv, DecodeSafe, DecodeTypeOK, Works, intakeVars, pumpVars
<1>3. CaptionsInOrder'
  BY <1>1 DEF DecodeInv, DecodeSafe, CaptionsInOrder, pumpVars, Before, Item
<1>4. FallbackIsOwn' /\ PendingIsExact'
  BY DEF DecodeInv, DecodeSafe, FallbackIsOwn, PendingIsExact, Busy, pumpVars, Listening, SpeechOf, FinalsIn
<1>5. TurnsSpoken'
  BY <1>1 DEF DecodeInv, TurnsSpoken, Spoken, intakeVars, pumpVars, Item
<1>6. WorkShape'
  BY DEF DecodeInv, WorkShape, Busy, Listening
<1>7. PartialsOwned'
  BY DEF DecodeInv, PartialsOwned, Busy, Listening, Owned, TurnsOf, FinalsIn, intakeVars
<1>. QED  BY <1>2, <1>3, <1>4, <1>5, <1>6, <1>7 DEF DecodeInv, DecodeSafe

\* The decode of a final is over: its turns are a result, or nothing.
LEMMA SettleKeeps ==
  ASSUME DecodeInv, Busy, NEW text, Settle(text),
         outage' \in 0..(OutageBudget + 1), decodes' \in 0..MinDecodes,
         UNCHANGED <<intakeVars, jobs, partialPending, pumpVars, teardown>>
  PROVE  DecodeInv'
<1>. DEFINE new == [kind |-> "final", turns |-> work.turns]
<1>0. /\ work \in Works /\ results \in Seq(Results) /\ jobs \in Seq(Jobs) /\ undelivered \in Nat
      /\ speechPending \in Nat /\ MaxCuts \in Nat
  BY DecodeAssumption DEF DecodeInv, DecodeSafe, DecodeTypeOK, Works
<1>1. /\ work' = Idle /\ turnPartial' = NoPartial
      /\ speechPending' = speechPending - Cardinality(work.speech)
      /\ \/ UNCHANGED <<results, undelivered>>
         \/ results' = Append(results, new) /\ undelivered' = undelivered + 1
  BY DEF Settle
<1>2. new \in Results /\ new = Batch /\ new.kind = "final" /\ work.speech \subseteq work.turns
      /\ work.turns \subseteq 1..(MaxCuts + 1)
  BY <1>0, WorkFacts DEF Results, Batch, Busy, DecodeInv, WorkShape
<1>3. /\ Len(results) \in Nat /\ DOMAIN results = 1..Len(results)
      /\ Append(results, new) \in Seq(Results) /\ DOMAIN Append(results, new) = 1..(Len(results) + 1)
      /\ \A i \in 1..Len(results) : Append(results, new)[i] = results[i]
      /\ Append(results, new)[Len(results) + 1] = new
  BY <1>0, <1>2, Appended
<1>. HIDE DEF new
<1>4. \A i \in DOMAIN results' : \/ i \in DOMAIN results /\ results'[i] = results[i]
                                 \/ i = Len(results) + 1 /\ results'[i] = Batch
  BY <1>1, <1>2, <1>3
<1>5. Batch'.turns = {} /\ work'.turns = {} /\ work'.at = "idle" /\ work'.speech = {} /\ work' \in Works
  BY <1>1, IdleWorks DEF Batch
<1>6. /\ \A k \in DOMAIN jobs : Item(jobs[k])' = Item(jobs[k])
      /\ inHand' = inHand /\ jobs' = jobs /\ cuts' = cuts /\ heard' = heard /\ teardown' = teardown
  BY DEF Item, pumpVars, intakeVars
<1>7. CaptionsInOrder'
  <2>0. CaptionsInOrder
    BY DEF DecodeInv, DecodeSafe
  <2>1. \A x : Before(x, Batch') /\ Before(Batch', x)
    BY <1>5, BeforeNothing
  <2>2. \A i \in DOMAIN results' : /\ Before(inHand, results'[i])
                                   /\ \A k \in DOMAIN jobs : Before(results'[i], Item(jobs[k]))
    BY <2>0, <1>4 DEF CaptionsInOrder
  <2>3. \A i, j \in DOMAIN results' : i < j => Before(results'[i], results'[j])
    <3>. SUFFICES ASSUME NEW i \in DOMAIN results', NEW j \in DOMAIN results', i < j
                  PROVE  Before(results'[i], results'[j])
      OBVIOUS
    <3>1. i \in DOMAIN results /\ results'[i] = results[i]
      BY <1>1, <1>3, <1>4
    <3>. QED  BY <2>0, <3>1, <1>4 DEF CaptionsInOrder
  <2>4. \A x, y : Before(x, y)' = Before(x, y)
    BY DEF Before
  <2>. QED  BY <2>0, <2>1, <2>2, <2>3, <1>6, Zenon DEF CaptionsInOrder
<1>8. PendingIsExact'
  <2>0. PendingIsExact /\ CaptionsInOrder
    BY DEF DecodeInv, DecodeSafe
  <2>1. ASSUME Listening PROVE speechPending' = Cardinality(SpeechOf(jobs) \cup {})
    <3>1. SpeechOf(jobs) \cap work.speech = {}
      <4>. SUFFICES ASSUME NEW k \in DOMAIN jobs, jobs[k].turn \in work.turns PROVE FALSE
        BY <1>2 DEF SpeechOf, FinalsIn
      <4>1. Before(Batch, Item(jobs[k]))
        BY <2>0 DEF CaptionsInOrder
      <4>2. jobs[k].turn < jobs[k].turn
        BY <4>1 DEF Before, Batch, Item, Busy
      <4>3. jobs[k].turn \in Nat
        BY <1>0, <1>2
      <4>. QED  BY <4>2, <4>3
    <3>2. SpeechOf(jobs) \subseteq 1..(MaxCuts + 1) /\ work.speech \subseteq 1..(MaxCuts + 1)
      BY <1>0, <1>2, TurnsTyped
    <3>3. Cardinality(SpeechOf(jobs) \cup work.speech) = Cardinality(SpeechOf(jobs)) + Cardinality(work.speech)
      BY <3>1, <3>2, SpeechAdds
    <3>4. Cardinality(SpeechOf(jobs)) \in Nat /\ Cardinality(work.speech) \in Nat
      BY <3>2, SpeechCounts
    <3>5. speechPending = Cardinality(SpeechOf(jobs) \cup work.speech)
      BY <2>0, <2>1 DEF PendingIsExact
    <3>. QED  BY <1>1, <3>3, <3>4, <3>5
  <2>2. undelivered' = Cardinality(FinalsIn(results')) + (IF inHand.kind = "final" THEN 1 ELSE 0)
    <3>1. CASE UNCHANGED <<results, undelivered>>
      BY <2>0, <3>1 DEF PendingIsExact, FinalsIn
    <3>2. CASE results' = Append(results, new) /\ undelivered' = undelivered + 1
      <4>1. Cardinality(FinalsIn(results')) = Cardinality(FinalsIn(results)) + 1
        BY <1>0, <1>2, <3>2, FinalsAppended
      <4>2. Cardinality(FinalsIn(results)) \in Nat
        BY <1>0, FinalsFinite
      <4>. QED  BY <2>0, <3>2, <4>1, <4>2 DEF PendingIsExact
    <3>. QED  BY <1>1, <3>1, <3>2
  <2>. QED  BY <1>5, <1>6, <2>1, <2>2 DEF PendingIsExact, Listening, SpeechOf, FinalsIn
<1>9. speechPending' \in Nat
  <2>1. Listening
    BY DEF DecodeInv, WorkShape, Busy
  <2>2. SpeechOf(jobs') \cup work'.speech \subseteq 1..(MaxCuts + 1)
    BY <1>0, <1>5, <1>6, TurnsTyped
  <2>. QED  BY <1>6, <1>8, <2>1, <2>2, SpeechCounts DEF PendingIsExact, Listening
<1>10. DecodeTypeOK'
  <2>1. turnPartial' \in [turn : 0..(MaxCuts + 1), long : BOOLEAN]
    BY <1>0, <1>1 DEF NoPartial
  <2>2. results' \in Seq(Results) /\ undelivered' \in Nat
    <3>1. CASE UNCHANGED <<results, undelivered>>
      BY <1>0, <3>1
    <3>2. CASE results' = Append(results, new) /\ undelivered' = undelivered + 1
      BY <1>0, <1>3, <3>2
    <3>. QED  BY <1>1, <3>1, <3>2
  <2>. QED  BY <1>5, <1>9, <2>1, <2>2 DEF DecodeInv, DecodeSafe, DecodeTypeOK, Works, intakeVars, pumpVars
<1>11. FallbackIsOwn' /\ WorkShape'
  BY <1>1, <1>5 DEF FallbackIsOwn, WorkShape, Busy
<1>12. TurnsSpoken'
  <2>1. Spoken(Batch) /\ \A i \in DOMAIN results : Spoken(results[i])
    BY DEF DecodeInv, TurnsSpoken
  <2>2. \A i \in DOMAIN results' : Spoken(results'[i])
    BY <1>4, <2>1
  <2>3. NoPartial.turn <= cuts + 1
    BY DEF NoPartial, DecodeInv, DecodeSafe, DecodeTypeOK
  <2>4. \A x : Spoken(x)' = Spoken(x)
    BY <1>6 DEF Spoken
  <2>5. Spoken(Batch')
    BY <1>5 DEF Spoken
  <2>. QED  BY <1>1, <1>6, <2>2, <2>3, <2>4, <2>5 DEF DecodeInv, TurnsSpoken
<1>13. PartialsOwned'
  <2>1. Listening' = Listening /\ \A t : Owned(t)' <=> Owned(t)
    BY <1>6 DEF Listening, Owned, TurnsOf, FinalsIn
  <2>. QED  BY <1>1, <1>5, <1>6, <2>1 DEF DecodeInv, PartialsOwned
<1>. QED  BY <1>7, <1>8, <1>10, <1>11, <1>12, <1>13 DEF DecodeInv, DecodeSafe

\* An answer settles the turns in the worker's hands, or leaves it decoding them.
LEMMA Answered ==
  ASSUME FinalAnswers \/ PaddedAnswers \/ FinalRaises \/ Probed \/ AgainRaises \/ BackoffEnds
  PROVE  /\ Busy /\ UNCHANGED <<intakeVars, jobs, partialPending, pumpVars, teardown>>
         /\ \/ \E text \in {"text", "blank", "nonspeech"} : Settle(text)
            \/ /\ Decoding
               /\ \E at \in {"padded", "backoff", "probe", "again", "decode"} :
                    work' \in {[work EXCEPT !.at = at], [work EXCEPT !.at = at, !.first = FALSE]}
<1>0. /\ Busy
      /\ UNCHANGED <<intakeVars, jobs, partialPending, pumpVars, teardown>>
  BY DEF FinalAnswers, PaddedAnswers, FinalRaises, Probed, AgainRaises, BackoffEnds, Busy
<1>. SUFFICES \/ \E text \in {"text", "blank", "nonspeech"} : Settle(text)
              \/ /\ Decoding
                 /\ \E at \in {"padded", "backoff", "probe", "again", "decode"} :
                      work' \in {[work EXCEPT !.at = at], [work EXCEPT !.at = at, !.first = FALSE]}
  BY <1>0
<1>1. CASE FinalAnswers
  BY <1>1 DEF FinalAnswers
<1>2. CASE PaddedAnswers
  BY <1>2 DEF PaddedAnswers
<1>3. CASE FinalRaises
  BY <1>3 DEF FinalRaises, OutageGoesOn
<1>4. CASE Probed
  BY <1>4 DEF Probed, OutageGoesOn
<1>5. CASE AgainRaises
  BY <1>5 DEF AgainRaises
<1>6. CASE BackoffEnds
  BY <1>6 DEF BackoffEnds
<1>. QED  BY <1>0, <1>1, <1>2, <1>3, <1>4, <1>5, <1>6

\* The worker's answers: each leaves it decoding the same turns, or settles them.
LEMMA AnswersKeep ==
  ASSUME DecodeInv, FinalAnswers \/ PaddedAnswers \/ FinalRaises \/ Probed \/ AgainRaises \/ BackoffEnds
  PROVE  DecodeInv'
<1>0. /\ work \in Works /\ outage \in 0..(OutageBudget + 1) /\ decodes \in 0..MinDecodes
      /\ OutageBudget \in Nat /\ MinDecodes \in Nat
      /\ Timed \in 0..MinDecodes
      /\ 0 \in 0..(OutageBudget + 1) /\ 0 \in 0..MinDecodes
      /\ (IF outage > OutageBudget THEN outage ELSE outage + 1) \in 0..(OutageBudget + 1)
  BY DecodeAssumption DEF DecodeInv, DecodeSafe, DecodeTypeOK, Works, Timed
<1>1. Busy
  BY Answered
<1>2. UNCHANGED <<intakeVars, jobs, partialPending, pumpVars, teardown>>
  BY Answered
<1>3. outage' \in 0..(OutageBudget + 1) /\ decodes' \in 0..MinDecodes
  <2>1. CASE FinalAnswers
    BY <1>0, <2>1 DEF FinalAnswers
  <2>2. CASE PaddedAnswers
    BY <1>0, <2>2 DEF PaddedAnswers
  <2>3. CASE FinalRaises
    BY <1>0, <2>3 DEF FinalRaises, OutageGoesOn
  <2>4. CASE Probed
    BY <1>0, <2>4 DEF Probed, OutageGoesOn
  <2>5. CASE AgainRaises
    BY <1>0, <2>5 DEF AgainRaises
  <2>6. CASE BackoffEnds
    BY <1>0, <2>6 DEF BackoffEnds
  <2>. QED  BY <2>1, <2>2, <2>3, <2>4, <2>5, <2>6
<1>4. \/ \E text \in {"text", "blank", "nonspeech"} : Settle(text)
      \/ /\ Decoding
         /\ \E at \in {"padded", "backoff", "probe", "again", "decode"} :
              work' \in {[work EXCEPT !.at = at], [work EXCEPT !.at = at, !.first = FALSE]}
  BY Answered
<1>5. CASE \E text \in {"text", "blank", "nonspeech"} : Settle(text)
  BY <1>1, <1>2, <1>3, <1>5, SettleKeeps
<1>6. ASSUME Decoding, NEW at \in {"padded", "backoff", "probe", "again", "decode"},
             work' \in {[work EXCEPT !.at = at], [work EXCEPT !.at = at, !.first = FALSE]}
      PROVE  DecodeInv'
  <2>1. /\ work' \in Works /\ work'.turns = work.turns /\ work'.speech = work.speech /\ work'.at = at
    BY <1>0, <1>6 DEF Works
  <2>2. work'.at \notin {"idle", "partial"}
    BY <2>1
  <2>3. UNCHANGED <<turnPartial, speechPending, results, undelivered>>
    BY <1>6 DEF Decoding
  <2>. QED  BY <1>1, <1>2, <1>3, <2>1, <2>2, <2>3, WorkerKeeps
<1>. QED  BY <1>4, <1>5, <1>6

\* A job is queued: of the open turn, a partial or, as that closes, its final.
LEMMA QueuedKeeps ==
  ASSUME DecodeInv, Listening, cuts <= MaxCuts, NEW j \in Jobs, j.turn = cuts + 1,
         jobs' = Append(jobs, j),
         cuts' = IF j.kind = "final" THEN cuts + 1 ELSE cuts,
         speechPending' = speechPending + (IF j.kind = "final" /\ j.speech THEN 1 ELSE 0),
         heard' \in BOOLEAN, energy' \in BOOLEAN, partialPending' \in BOOLEAN,
         teardown' \in {teardown, "flush"}, heard' \/ teardown' = "live" => cuts' <= MaxCuts,
         UNCHANGED <<work, turnPartial, outage, decodes, results, pumpVars, undelivered>>
  PROVE  DecodeInv'
<1>0. /\ work \in Works /\ results \in Seq(Results) /\ jobs \in Seq(Jobs) /\ undelivered \in Nat
      /\ speechPending \in Nat /\ MaxCuts \in Nat /\ cuts \in Nat /\ cuts' \in 0..(MaxCuts + 1)
      /\ cuts <= cuts' /\ cuts' <= cuts + 1
  BY DecodeAssumption DEF DecodeInv, DecodeSafe, DecodeTypeOK, Works
<1>1. /\ Len(jobs) \in Nat /\ DOMAIN jobs = 1..Len(jobs)
      /\ jobs' \in Seq(Jobs) /\ DOMAIN jobs' = 1..(Len(jobs) + 1)
      /\ \A i \in 1..Len(jobs) : jobs'[i] = jobs[i]
      /\ jobs'[Len(jobs) + 1] = j
  BY <1>0, Appended
<1>2. /\ TurnsOf(jobs') = TurnsOf(jobs) \cup (IF j.kind = "final" THEN {j.turn} ELSE {})
      /\ SpeechOf(jobs') = SpeechOf(jobs) \cup (IF j.kind = "final" /\ j.speech THEN {j.turn} ELSE {})
  BY <1>0, TurnsAppended
<1>3. \A k \in DOMAIN jobs' : \/ k \in DOMAIN jobs /\ jobs'[k] = jobs[k]
                              \/ k = Len(jobs) + 1 /\ jobs'[k] = j
  BY <1>1
<1>4. /\ Batch' = Batch /\ inHand' = inHand /\ results' = results /\ Busy' = Busy /\ Listening'
  BY DEF Batch, pumpVars, Busy, Listening
<1>5. \A x : x.turns \subseteq Nat /\ Spoken(x) => Before(x, Item(j))
  BY <1>0 DEF Spoken, Before, Item
<1>6. TurnsSpoken /\ CaptionsInOrder /\ PendingIsExact /\ TurnsCounted
  BY TurnsAreNumbers DEF DecodeInv, DecodeSafe
<1>7. CaptionsInOrder'
  <2>1. Before(inHand, Item(j)) /\ Before(Batch, Item(j))
        /\ (\A i \in DOMAIN results : Before(results[i], Item(j)))
        /\ (\A k \in DOMAIN jobs : Before(Item(jobs[k]), Item(j)))
    BY <1>5, <1>6 DEF TurnsSpoken, TurnsCounted
  <2>2. \A k \in DOMAIN jobs' : /\ Before(inHand, Item(jobs'[k])) /\ Before(Batch, Item(jobs'[k]))
                                /\ \A i \in DOMAIN results : Before(results[i], Item(jobs'[k]))
    BY <1>3, <1>6, <2>1 DEF CaptionsInOrder
  <2>3. \A i, k \in DOMAIN jobs' : i < k => Before(Item(jobs'[i]), Item(jobs'[k]))
    <3>. SUFFICES ASSUME NEW i \in DOMAIN jobs', NEW k \in DOMAIN jobs', i < k
                  PROVE  Before(Item(jobs'[i]), Item(jobs'[k]))
      OBVIOUS
    <3>1. i \in DOMAIN jobs /\ jobs'[i] = jobs[i]
      BY <1>1
    <3>. QED  BY <1>3, <1>6, <2>1, <3>1 DEF CaptionsInOrder
  <2>4. \A x, y : Before(x, y)' = Before(x, y)
    BY DEF Before
  <2>5. \A k \in DOMAIN jobs' : Item(jobs[k])' = Item(jobs'[k])
    BY DEF Item
  <2>. QED  BY <1>4, <1>6, <2>2, <2>3, <2>4, <2>5, Zenon DEF CaptionsInOrder
<1>8. PendingIsExact' /\ speechPending' \in Nat
  <2>1. SpeechOf(jobs) \cup work.speech \subseteq 1..(MaxCuts + 1)
    BY <1>0, TurnsTyped, WorkFacts
  <2>2. j.turn \notin SpeechOf(jobs) \cup work.speech
    <3>1. \A k \in DOMAIN jobs : jobs[k].kind = "final" => jobs[k].turn <= cuts
      BY <1>6 DEF TurnsSpoken, Spoken, Item
    <3>2. \A t \in work.speech : t <= cuts
      <4>1. \A t \in work.speech : t \in work.turns /\ work.at # "partial"
        BY DEF DecodeInv, WorkShape, Busy
      <4>. QED  BY <1>6, <4>1 DEF TurnsSpoken, Spoken, Batch
    <3>3. \A t \in SpeechOf(jobs) : t <= cuts
      BY <3>1 DEF SpeechOf, FinalsIn
    <3>. QED  BY <1>0, <3>2, <3>3
  <2>3. Cardinality(SpeechOf(jobs) \cup work.speech \cup {j.turn}) =
          Cardinality(SpeechOf(jobs) \cup work.speech) + 1
    <3>1. IsFiniteSet(SpeechOf(jobs) \cup work.speech)
      BY <2>1, SpeechCounts
    <3>. QED  BY <2>2, <3>1, FS_AddElement
  <2>4. speechPending = Cardinality(SpeechOf(jobs) \cup work.speech)
    BY <1>6 DEF PendingIsExact
  <2>5. speechPending' = Cardinality(SpeechOf(jobs') \cup work.speech)
    <3>1. CASE j.kind = "final" /\ j.speech
      <4>1. SpeechOf(jobs') \cup work.speech = SpeechOf(jobs) \cup work.speech \cup {j.turn}
        BY <1>2, <3>1
      <4>. QED  BY <2>3, <2>4, <3>1, <4>1
    <3>2. CASE ~(j.kind = "final" /\ j.speech)
      <4>1. SpeechOf(jobs') \cup work.speech = SpeechOf(jobs) \cup work.speech
        BY <1>2, <3>2
      <4>2. speechPending' = speechPending + 0
        BY <3>2, Zenon
      <4>3. speechPending' = speechPending
        BY <1>0, <4>2
      <4>. QED  BY <2>4, <4>1, <4>3, Zenon
    <3>. QED  BY <3>1, <3>2
  <2>6. SpeechOf(jobs)' = SpeechOf(jobs') /\ work' = work /\ undelivered' = undelivered
    BY DEF SpeechOf, FinalsIn
  <2>7. undelivered = Cardinality(FinalsIn(results)) + (IF inHand.kind = "final" THEN 1 ELSE 0)
    BY <1>6 DEF PendingIsExact
  <2>8. PendingIsExact'
    BY <1>4, <2>5, <2>6, <2>7 DEF PendingIsExact
  <2>. QED  BY <1>0, <2>8
<1>9. DecodeTypeOK'
  BY <1>0, <1>1, <1>8 DEF DecodeInv, DecodeSafe, DecodeTypeOK, pumpVars, Listening
<1>10. FallbackIsOwn' /\ WorkShape'
  BY <1>4 DEF DecodeInv, DecodeSafe, FallbackIsOwn, WorkShape, Busy
<1>11. TurnsSpoken'
  <2>1. \A x : x.turns \subseteq Nat /\ Spoken(x) => Spoken(x)'
    <3>. SUFFICES ASSUME NEW x, x.turns \subseteq Nat, Spoken(x), NEW t \in x.turns
                  PROVE  IF x.kind = "final" THEN t <= cuts' ELSE t <= cuts' + 1
      BY DEF Spoken
    <3>. QED  BY <1>0 DEF Spoken
  <2>2. Spoken(Item(j))'
    BY <1>0 DEF Spoken, Item
  <2>3. \A k \in DOMAIN jobs' : Spoken(Item(jobs[k]))'
    BY <1>3, <1>6, <2>1, <2>2 DEF TurnsSpoken, TurnsCounted, Item
  <2>4. turnPartial'.turn <= cuts' + 1
    BY <1>0, <1>6 DEF TurnsSpoken, DecodeInv, DecodeSafe, DecodeTypeOK
  <2>5. Spoken(inHand)' /\ Spoken(Batch)' /\ \A i \in DOMAIN results' : Spoken(results[i])'
    BY <1>4, <1>6, <2>1 DEF TurnsSpoken, TurnsCounted
  <2>. QED  BY <1>4, <2>3, <2>4, <2>5 DEF TurnsSpoken
<1>12. PartialsOwned'
  <2>1. \A t : Owned(t) => Owned(t)'
    BY <1>2 DEF Owned, TurnsOf, FinalsIn
  <2>. QED  BY <1>3, <1>4, <1>6, <2>1 DEF DecodeInv, PartialsOwned, TurnsSpoken, Owned
<1>. QED  BY <1>7, <1>8, <1>9, <1>10, <1>11, <1>12 DEF DecodeInv, DecodeSafe

\* push() and flush().
LEMMA IntakeKeeps ==
  ASSUME DecodeInv, Intake \/ Flush PROVE DecodeInv'
<1>0. /\ MaxCuts \in Nat /\ cuts \in Nat /\ cuts <= MaxCuts + 1 /\ heard \in BOOLEAN /\ energy \in BOOLEAN
      /\ partialPending \in BOOLEAN /\ speechPending \in Nat
      /\ (heard \/ teardown = "live" => cuts <= MaxCuts)
  BY DecodeAssumption DEF DecodeInv, DecodeSafe, DecodeTypeOK, TurnsSpoken
<1>1. ASSUME NEW speech \in BOOLEAN, FrameHeard(speech) PROVE DecodeInv'
  <2>1. /\ UNCHANGED <<cuts, jobs, partialPending, workerVars, results, pumpVars, undelivered, teardown>>
        /\ heard' \in BOOLEAN /\ energy' \in BOOLEAN /\ cuts < MaxCuts
    BY <1>0, <1>1 DEF FrameHeard
  <2>2. Batch' = Batch
    BY <2>1 DEF Batch, workerVars
  <2>3. DecodeSafe'
    BY <1>0, <2>1, <2>2 DEF DecodeInv, DecodeSafe, DecodeTypeOK, CaptionsInOrder, FallbackIsOwn, PendingIsExact,
       workerVars, pumpVars, Listening, SpeechOf, FinalsIn, Before, Item
  <2>4. TurnsSpoken'
    BY <1>0, <2>1, <2>2 DEF DecodeInv, TurnsSpoken, Spoken, Item, workerVars, pumpVars
  <2>5. WorkShape' /\ PartialsOwned'
    BY <2>1 DEF DecodeInv, WorkShape, PartialsOwned, Busy, Listening, Owned, TurnsOf, FinalsIn, workerVars
  <2>. QED  BY <2>3, <2>4, <2>5 DEF DecodeInv
<1>2. CASE PartialDue
  <2>. DEFINE j == [kind |-> "partial", turn |-> cuts + 1, speech |-> TRUE]
  <2>1. /\ Listening /\ cuts <= MaxCuts /\ j \in Jobs /\ j.turn = cuts + 1 /\ j.kind = "partial"
        /\ jobs' = Append(jobs, j) /\ partialPending' = TRUE
        /\ UNCHANGED <<intakeVars, workerVars, results, pumpVars, undelivered, teardown>>
    BY <1>0, <1>2 DEF PartialDue, Jobs
  <2>. HIDE DEF j
  <2>2. speechPending' = speechPending + (IF j.kind = "final" /\ j.speech THEN 1 ELSE 0)
    <3>1. speechPending' = speechPending
      BY <2>1 DEF workerVars
    <3>. QED  BY <1>0, <2>1, <3>1
  <2>3. /\ cuts' = (IF j.kind = "final" THEN cuts + 1 ELSE cuts)
        /\ heard' \in BOOLEAN /\ energy' \in BOOLEAN /\ partialPending' \in BOOLEAN
        /\ teardown' \in {teardown, "flush"} /\ (heard' \/ teardown' = "live" => cuts' <= MaxCuts)
        /\ UNCHANGED <<work, turnPartial, outage, decodes, results, pumpVars, undelivered>>
    BY <1>0, <2>1 DEF intakeVars, workerVars
  <2>. QED  BY <2>1, <2>2, <2>3, QueuedKeeps
<1>3. ASSUME Listening, cuts <= MaxCuts, NEW head \in BOOLEAN, NEW tail \in BOOLEAN, CloseTurn(head, tail),
             teardown' \in {teardown, "flush"},
             teardown' = "live" \/ tail => cuts < MaxCuts
      PROVE  DecodeInv'
  <2>. DEFINE j == [kind |-> "final", turn |-> cuts + 1, speech |-> head]
  <2>1. /\ j \in Jobs /\ j.turn = cuts + 1 /\ j.kind = "final" /\ j.speech = head
        /\ cuts' = cuts + 1 /\ jobs' = Append(jobs, j) /\ heard' = tail /\ energy' = tail
        /\ speechPending' = speechPending + (IF head THEN 1 ELSE 0)
        /\ UNCHANGED <<partialPending, work, turnPartial, outage, decodes, results, pumpVars, undelivered>>
    BY <1>0, <1>3 DEF CloseTurn, Jobs
  <2>. HIDE DEF j
  <2>2. speechPending' = speechPending + (IF j.kind = "final" /\ j.speech THEN 1 ELSE 0)
    BY <2>1
  <2>3. /\ cuts' = (IF j.kind = "final" THEN cuts + 1 ELSE cuts)
        /\ heard' \in BOOLEAN /\ energy' \in BOOLEAN /\ partialPending' \in BOOLEAN
        /\ (heard' \/ teardown' = "live" => cuts' <= MaxCuts)
    BY <1>0, <1>3, <2>1
  <2>. QED  BY <1>3, <2>1, <2>2, <2>3, QueuedKeeps
<1>4. CASE TurnPauses
  <2>1. Listening /\ cuts <= MaxCuts /\ CloseTurn(TRUE, FALSE) /\ teardown' = teardown /\ cuts < MaxCuts
    BY <1>0, <1>4 DEF TurnPauses
  <2>. QED  BY <1>3, <2>1
<1>5. CASE TurnCapped
  <2>. PICK head \in BOOLEAN, tail \in BOOLEAN : CloseTurn(head, tail)
    BY <1>5 DEF TurnCapped
  <2>1. Listening /\ cuts <= MaxCuts /\ teardown' = teardown /\ cuts < MaxCuts
    BY <1>0, <1>5 DEF TurnCapped
  <2>. QED  BY <1>3, <2>1
<1>6. CASE Flush
  <2>1. teardown = "live" /\ teardown' = "flush" /\ cuts <= MaxCuts /\ Listening
    BY <1>0, <1>6 DEF Flush, Listening
  <2>2. CASE heard \/ energy
    <3>1. CloseTurn(heard, FALSE)
      BY <1>6, <2>2 DEF Flush
    <3>. QED  BY <1>0, <1>3, <2>1, <3>1
  <2>3. CASE ~(heard \/ energy)
    <3>1. UNCHANGED <<intakeVars, jobs, partialPending, workerVars, results, pumpVars, undelivered>>
      BY <1>6, <2>3 DEF Flush
    <3>2. Batch' = Batch /\ Listening'
      BY <2>1, <3>1 DEF Batch, workerVars, Listening
    <3>3. DecodeSafe'
      BY <2>1, <3>1, <3>2 DEF DecodeInv, DecodeSafe, DecodeTypeOK, CaptionsInOrder, FallbackIsOwn, PendingIsExact,
         intakeVars, workerVars, pumpVars, SpeechOf, FinalsIn, Before, Item
    <3>4. TurnsSpoken'
      BY <2>1, <3>1, <3>2 DEF DecodeInv, TurnsSpoken, Spoken, Item, intakeVars, workerVars, pumpVars
    <3>5. WorkShape' /\ PartialsOwned'
      BY <2>1, <3>1, <3>2 DEF DecodeInv, WorkShape, PartialsOwned, Busy, Owned, TurnsOf, FinalsIn,
         intakeVars, workerVars
    <3>. QED  BY <3>3, <3>4, <3>5 DEF DecodeInv
  <2>. QED  BY <2>2, <2>3
<1>. QED  BY <1>1, <1>2, <1>4, <1>5, <1>6 DEF Intake

\* The consumer.
LEMMA ConsumerKeeps ==
  ASSUME DecodeInv, TakeResult \/ ResultHandled \/ DrainDies \/ Closed \/ UNCHANGED decodeVars
  PROVE  DecodeInv'
<1>0. /\ results \in Seq(Results) /\ inHand \in Results /\ undelivered \in Nat /\ Nothing \in Results
      /\ Nothing.turns = {} /\ Nothing.kind = "none"
  BY DEF DecodeInv, DecodeSafe, DecodeTypeOK, Nothing, Results
<1>1. UNCHANGED <<intakeVars, jobs, partialPending, workerVars, teardown>>
  BY DEF TakeResult, ResultHandled, DrainDies, Closed, decodeVars, workerVars, intakeVars
<1>2. drain' \in {"on", "done", "dead"}
  BY DEF TakeResult, ResultHandled, DrainDies, Closed, decodeVars, pumpVars, DecodeInv, DecodeSafe, DecodeTypeOK
<1>3. Batch' = Batch /\ cuts' = cuts
  BY <1>1 DEF Batch, workerVars, intakeVars
<1>4. CASE TakeResult
  <2>1. /\ inHand = Nothing /\ inHand' = results[1] /\ inHand' = Head(results) /\ inHand' \in Results
        /\ results # <<>> /\ results' = Tail(results) /\ results' \in Seq(Results)
        /\ Len(results) \in Nat \ {0} /\ DOMAIN results = 1..Len(results)
        /\ DOMAIN results' = 1..(Len(results) - 1)
        /\ \A i \in 1..(Len(results) - 1) : results'[i] = results[i + 1]
        /\ undelivered' = undelivered
    BY <1>0, <1>4, Taken DEF TakeResult
  <2>2. 1 \in DOMAIN results /\ \A i \in DOMAIN results' : i + 1 \in DOMAIN results /\ 1 < i + 1
                                                          /\ results'[i] = results[i + 1]
    BY <2>1
  <2>3. \A i, j \in DOMAIN results' : i < j => i + 1 < j + 1
    BY <2>1
  <2>4. CaptionsInOrder'
    <3>1. CaptionsInOrder
      BY DEF DecodeInv, DecodeSafe
    <3>2. Before(inHand', Batch) /\ (\A k \in DOMAIN jobs : Before(inHand', Item(jobs[k])))
      BY <2>1, <2>2, <3>1 DEF CaptionsInOrder
    <3>3. \A i \in DOMAIN results' : /\ Before(inHand', results'[i]) /\ Before(results'[i], Batch)
                                     /\ \A k \in DOMAIN jobs : Before(results'[i], Item(jobs[k]))
      BY <2>1, <2>2, <3>1 DEF CaptionsInOrder
    <3>4. \A i, j \in DOMAIN results' : i < j => Before(results'[i], results'[j])
      BY <2>2, <2>3, <3>1 DEF CaptionsInOrder
    <3>5. \A x, y : Before(x, y)' = Before(x, y)
      BY DEF Before
    <3>6. jobs' = jobs /\ \A k \in DOMAIN jobs : Item(jobs[k])' = Item(jobs[k])
      BY <1>1 DEF Item
    <3>. QED  BY <1>3, <3>1, <3>2, <3>3, <3>4, <3>5, <3>6, Zenon DEF CaptionsInOrder
  <2>5. PendingIsExact'
    <3>1. Cardinality(FinalsIn(results)) =
            Cardinality(FinalsIn(results')) + (IF inHand'.kind = "final" THEN 1 ELSE 0)
      BY <1>0, <2>1, FinalsTaken
    <3>2. undelivered = Cardinality(FinalsIn(results)) + 0
      BY <1>0, <2>1 DEF DecodeInv, DecodeSafe, PendingIsExact
    <3>3. Cardinality(FinalsIn(results)) \in Nat
      BY <1>0, FinalsFinite
    <3>4. undelivered' = Cardinality(FinalsIn(results')) + (IF inHand'.kind = "final" THEN 1 ELSE 0)
      BY <2>1, <3>1, <3>2, <3>3
    <3>5. FinalsIn(results)' = FinalsIn(results')
      BY DEF FinalsIn
    <3>6. Listening' => speechPending' = Cardinality(SpeechOf(jobs)' \cup work'.speech)
      BY <1>1 DEF DecodeInv, DecodeSafe, PendingIsExact, Listening, SpeechOf, FinalsIn, workerVars
    <3>. QED  BY <3>4, <3>5, <3>6 DEF PendingIsExact
  <2>6. DecodeTypeOK' /\ FallbackIsOwn'
    BY <1>1, <1>2, <2>1 DEF DecodeInv, DecodeSafe, DecodeTypeOK, FallbackIsOwn, workerVars, intakeVars
  <2>7. TurnsSpoken'
    <3>1. Spoken(inHand') /\ \A i \in DOMAIN results' : Spoken(results'[i])
      BY <2>1, <2>2 DEF DecodeInv, TurnsSpoken
    <3>2. \A x : Spoken(x)' = Spoken(x)
      BY <1>3 DEF Spoken
    <3>. QED  BY <1>1, <1>3, <3>1, <3>2 DEF DecodeInv, TurnsSpoken, Item, workerVars, intakeVars
  <2>8. WorkShape' /\ PartialsOwned'
    BY <1>1 DEF DecodeInv, WorkShape, PartialsOwned, Busy, Listening, Owned, TurnsOf, FinalsIn, workerVars, intakeVars
  <2>. QED  BY <2>4, <2>5, <2>6, <2>7, <2>8 DEF DecodeInv, DecodeSafe
<1>5. CASE ResultHandled \/ DrainDies \/ Closed \/ UNCHANGED decodeVars
  <2>1. /\ results' = results
        /\ \/ inHand' = inHand /\ undelivered' = undelivered
           \/ /\ inHand' = Nothing
              /\ undelivered' = IF inHand.kind = "final" THEN undelivered - 1 ELSE undelivered
    BY <1>5 DEF ResultHandled, DrainDies, Closed, decodeVars, pumpVars
  <2>2. CaptionsInOrder'
    <3>1. CaptionsInOrder
      BY DEF DecodeInv, DecodeSafe
    <3>2. \A x : Before(Nothing, x)
      BY <1>0, BeforeNothing
    <3>5. \A x, y : Before(x, y)' = Before(x, y)
      BY DEF Before
    <3>6. jobs' = jobs /\ \A k \in DOMAIN jobs : Item(jobs[k])' = Item(jobs[k])
      BY <1>1 DEF Item
    <3>. QED  BY <1>3, <2>1, <3>1, <3>2, <3>5, <3>6, Zenon DEF CaptionsInOrder
  <2>3. PendingIsExact' /\ undelivered' \in Nat
    <3>1. undelivered = Cardinality(FinalsIn(results)) + (IF inHand.kind = "final" THEN 1 ELSE 0)
      BY DEF DecodeInv, DecodeSafe, PendingIsExact
    <3>3. Cardinality(FinalsIn(results)) \in Nat
      BY <1>0, FinalsFinite
    <3>4. undelivered' = Cardinality(FinalsIn(results)) + (IF inHand'.kind = "final" THEN 1 ELSE 0)
      BY <1>0, <2>1, <3>1, <3>3
    <3>5. FinalsIn(results)' = FinalsIn(results)
      BY <2>1 DEF FinalsIn
    <3>6. Listening' => speechPending' = Cardinality(SpeechOf(jobs)' \cup work'.speech)
      BY <1>1 DEF DecodeInv, DecodeSafe, PendingIsExact, Listening, SpeechOf, FinalsIn, workerVars
    <3>. QED  BY <3>3, <3>4, <3>5, <3>6 DEF PendingIsExact
  <2>4. DecodeTypeOK' /\ FallbackIsOwn'
    BY <1>0, <1>1, <1>2, <2>1, <2>3 DEF DecodeInv, DecodeSafe, DecodeTypeOK, FallbackIsOwn, workerVars, intakeVars
  <2>5. TurnsSpoken'
    <3>1. Spoken(inHand') /\ \A i \in DOMAIN results' : Spoken(results'[i])
      BY <1>0, <2>1 DEF DecodeInv, TurnsSpoken, Spoken
    <3>2. \A x : Spoken(x)' = Spoken(x)
      BY <1>3 DEF Spoken
    <3>. QED  BY <1>1, <1>3, <3>1, <3>2 DEF DecodeInv, TurnsSpoken, Item, workerVars, intakeVars
  <2>6. WorkShape' /\ PartialsOwned'
    BY <1>1 DEF DecodeInv, WorkShape, PartialsOwned, Busy, Listening, Owned, TurnsOf, FinalsIn, workerVars, intakeVars
  <2>. QED  BY <2>2, <2>3, <2>4, <2>5, <2>6 DEF DecodeInv, DecodeSafe
<1>. QED  BY <1>4, <1>5

\* What taking k + 1 jobs leaves.
LEMMA Split ==
  ASSUME NEW q \in Seq(Jobs), NEW n \in 1..Len(q)
  PROVE  LET taken == SubSeq(q, 1, n)
             rest  == SubSeq(q, n + 1, Len(q))
         IN /\ taken \in Seq(Jobs) /\ DOMAIN taken = 1..n /\ \A i \in 1..n : taken[i] = q[i]
            /\ rest \in Seq(Jobs) /\ DOMAIN rest = 1..(Len(q) - n)
            /\ \A i \in 1..(Len(q) - n) : rest[i] = q[n + i]
            /\ Len(q) \in Nat /\ DOMAIN q = 1..Len(q)
<1>1. Len(q) \in Nat /\ DOMAIN q = 1..Len(q) /\ n \in Nat /\ n <= Len(q) /\ n + 1 \in Int
      /\ \A i \in 1..Len(q) : q[i] \in Jobs
  BY LenProperties, ElementOfSeq
<1>2. SubSeq(q, 1, n) = [i \in 1..n |-> q[i]]
  BY <1>1
<1>3. SubSeq(q, n + 1, Len(q)) = [i \in 1..(Len(q) - n) |-> q[n + i]]
  BY <1>1
<1>4. SubSeq(q, 1, n) \in Seq(Jobs)
  BY <1>1, <1>2
<1>5. SubSeq(q, n + 1, Len(q)) \in Seq(Jobs)
  <2>1. \A i \in 1..(Len(q) - n) : n + i \in 1..Len(q)
    BY <1>1
  <2>. QED  BY <1>1, <1>3, <2>1
<1>. QED  BY <1>1, <1>2, <1>3, <1>4, <1>5

\* What the worker takes from the queue: jobs with a final in front, or one partial.
LEMMA WorkTaken ==
  ASSUME TakeFinal \/ TakePartial, jobs \in Seq(Jobs), jobs # <<>>, partialPending \in BOOLEAN
  PROVE  \E n \in 1..Len(jobs) :
        /\ jobs' = SubSeq(jobs, n + 1, Len(jobs)) /\ partialPending' \in BOOLEAN
        /\ \/ /\ Head(jobs).kind = "final"
              /\ work' = [at |-> "decode", turns |-> TurnsOf(SubSeq(jobs, 1, n)),
                          speech |-> SpeechOf(SubSeq(jobs, 1, n)), first |-> TRUE]
           \/ n = 1 /\ Head(jobs).kind = "partial" /\ work' = work
           \/ /\ n = 1 /\ Head(jobs).kind = "partial"
              /\ work' = [Idle EXCEPT !.at = "partial", !.turns = {Head(jobs).turn}]
<1>0. Len(jobs) \in Nat \ {0} /\ Len(Tail(jobs)) = Len(jobs) - 1 /\ Tail(jobs) = SubSeq(jobs, 2, Len(jobs))
  BY EmptySeq
<1>1. CASE TakeFinal
  <2>1. PICK k \in {0} \cup Merged(Tail(jobs)) :
          /\ jobs' = SubSeq(jobs, k + 2, Len(jobs))
          /\ work' = [at |-> "decode", turns |-> TurnsOf(SubSeq(jobs, 1, k + 1)),
                      speech |-> SpeechOf(SubSeq(jobs, 1, k + 1)), first |-> TRUE]
          /\ partialPending' \in BOOLEAN
    BY <1>1 DEF TakeFinal
  <2>2. k \in 0..Len(Tail(jobs))
    BY <1>0, <2>1 DEF Merged
  <2>3. k + 1 \in 1..Len(jobs) /\ k + 2 = (k + 1) + 1
    BY <1>0, <2>2
  <2>4. Head(jobs).kind = "final"
    BY <1>1 DEF TakeFinal
  <2>. QED  BY <2>1, <2>3, <2>4
<1>2. CASE TakePartial
  <2>1. 1 \in 1..Len(jobs) /\ jobs' = SubSeq(jobs, 1 + 1, Len(jobs)) /\ Head(jobs).kind = "partial"
        /\ partialPending' \in BOOLEAN
    <3>1. jobs' = Tail(jobs) /\ Head(jobs).kind = "partial"
          /\ (partialPending' = FALSE \/ partialPending' = partialPending)
      BY <1>2, Zenon DEF TakePartial
    <3>2. 1 \in 1..Len(jobs) /\ 1 + 1 = 2
      BY <1>0
    <3>. QED  BY <1>0, <3>1, <3>2
  <2>2. work' = work \/ work' = [Idle EXCEPT !.at = "partial", !.turns = {Head(jobs).turn}]
    BY <1>2 DEF TakePartial
  <2>. QED  BY <2>1, <2>2
<1>. QED  BY <1>1, <1>2

\* The turns of the jobs taken and of those left.
LEMMA TurnsSplit ==
  ASSUME NEW q \in Seq(Jobs), NEW n \in 1..Len(q)
  PROVE  LET taken == SubSeq(q, 1, n)
             rest  == SubSeq(q, n + 1, Len(q))
         IN /\ \A t : t \in TurnsOf(taken) <=> \E i \in 1..n : q[i].kind = "final" /\ t = q[i].turn
            /\ \A t : t \in TurnsOf(q) <=> t \in TurnsOf(taken) \/ t \in TurnsOf(rest)
            /\ SpeechOf(q) = SpeechOf(taken) \cup SpeechOf(rest)
<1>. DEFINE taken == SubSeq(q, 1, n)
            rest  == SubSeq(q, n + 1, Len(q))
<1>1. /\ DOMAIN taken = 1..n /\ \A i \in 1..n : taken[i] = q[i]
      /\ DOMAIN rest = 1..(Len(q) - n) /\ \A i \in 1..(Len(q) - n) : rest[i] = q[n + i]
      /\ Len(q) \in Nat /\ DOMAIN q = 1..Len(q)
  BY Split
<1>. HIDE DEF taken, rest
<1>2. n \in Nat /\ n >= 1 /\ n <= Len(q)
  BY <1>1
<1>3. \A i \in DOMAIN rest : n + i \in DOMAIN q /\ rest[i] = q[n + i] /\ i \in Nat
  BY <1>1, <1>2
<1>4. /\ \A t : t \in TurnsOf(taken) <=> \E i \in 1..n : q[i].kind = "final" /\ t = q[i].turn
      /\ \A t : t \in SpeechOf(taken) <=>
                  \E i \in 1..n : q[i].kind = "final" /\ q[i].speech /\ t = q[i].turn
  <2>1. FinalsIn(taken) = {i \in 1..n : q[i].kind = "final"}
    BY <1>1 DEF FinalsIn
  <2>2. TurnsOf(taken) = {q[i].turn : i \in FinalsIn(taken)}
    BY <1>1, <2>1 DEF TurnsOf
  <2>3. SpeechOf(taken) = {q[i].turn : i \in {j \in FinalsIn(taken) : q[j].speech}}
    BY <1>1, <2>1 DEF SpeechOf
  <2>. QED  BY <2>1, <2>2, <2>3
<1>5. \A i \in DOMAIN q : i \in 1..n \/ (i - n \in DOMAIN rest /\ n + (i - n) = i)
  <2>1. \A i \in 1..Len(q) : i \in 1..n \/ (i - n \in 1..(Len(q) - n) /\ n + (i - n) = i)
    BY <1>1, <1>2
  <2>. QED  BY <1>1, <2>1
<1>6. /\ \A t : t \in TurnsOf(q) <=> t \in TurnsOf(taken) \/ t \in TurnsOf(rest)
      /\ SpeechOf(q) = SpeechOf(taken) \cup SpeechOf(rest)
  <2>1. \A i \in 1..n : i \in DOMAIN q
    BY <1>1, <1>2
  <2>a. /\ \A t : t \in TurnsOf(q) <=> \E i \in DOMAIN q : q[i].kind = "final" /\ t = q[i].turn
        /\ \A t : t \in TurnsOf(rest) <=> \E i \in DOMAIN rest : rest[i].kind = "final" /\ t = rest[i].turn
    BY DEF TurnsOf, FinalsIn
  <2>b. \A t : t \in SpeechOf(q) <=>
                \E i \in DOMAIN q : q[i].kind = "final" /\ q[i].speech /\ t = q[i].turn
    BY DEF SpeechOf, FinalsIn
  <2>c. \A t : t \in SpeechOf(rest) <=>
                \E i \in DOMAIN rest : rest[i].kind = "final" /\ rest[i].speech /\ t = rest[i].turn
    BY DEF SpeechOf, FinalsIn
  <2>2. ASSUME NEW t PROVE t \in TurnsOf(q) <=> t \in TurnsOf(taken) \/ t \in TurnsOf(rest)
    <3>1. ASSUME t \in TurnsOf(q) PROVE t \in TurnsOf(taken) \/ t \in TurnsOf(rest)
      <4>. PICK i \in DOMAIN q : q[i].kind = "final" /\ t = q[i].turn
        BY <3>1, <2>a
      <4>1. CASE i \in 1..n
        BY <1>4, <4>1
      <4>2. CASE i - n \in DOMAIN rest /\ n + (i - n) = i
        <5>1. rest[i - n] = q[i]
          BY <1>3, <4>2
        <5>. QED  BY <2>a, <4>2, <5>1
      <4>. QED  BY <1>5, <4>1, <4>2
    <3>2. ASSUME t \in TurnsOf(taken) PROVE t \in TurnsOf(q)
      BY <1>4, <2>1, <2>a, <3>2
    <3>3. ASSUME t \in TurnsOf(rest) PROVE t \in TurnsOf(q)
      <4>. PICK k \in DOMAIN rest : rest[k].kind = "final" /\ t = rest[k].turn
        BY <3>3, <2>a
      <4>. QED  BY <1>3, <2>a
    <3>. QED  BY <3>1, <3>2, <3>3
  <2>3. ASSUME NEW t PROVE t \in SpeechOf(q) <=> t \in SpeechOf(taken) \/ t \in SpeechOf(rest)
    <3>1. ASSUME t \in SpeechOf(q) PROVE t \in SpeechOf(taken) \/ t \in SpeechOf(rest)
      <4>. PICK i \in DOMAIN q : q[i].kind = "final" /\ q[i].speech /\ t = q[i].turn
        BY <3>1, <2>b
      <4>1. CASE i \in 1..n
        BY <1>4, <4>1
      <4>2. CASE i - n \in DOMAIN rest /\ n + (i - n) = i
        <5>1. rest[i - n] = q[i]
          BY <1>3, <4>2
        <5>. QED  BY <2>c, <4>2, <5>1
      <4>. QED  BY <1>5, <4>1, <4>2
    <3>2. ASSUME t \in SpeechOf(taken) PROVE t \in SpeechOf(q)
      BY <1>4, <2>1, <2>b, <3>2
    <3>3. ASSUME t \in SpeechOf(rest) PROVE t \in SpeechOf(q)
      <4>. PICK k \in DOMAIN rest : rest[k].kind = "final" /\ rest[k].speech /\ t = rest[k].turn
        BY <3>3, <2>c
      <4>. QED  BY <1>3, <2>b
    <3>. QED  BY <3>1, <3>2, <3>3
  <2>. QED  BY <2>2, <2>3
<1>. QED  BY <1>4, <1>6 DEF taken, rest

\* The worker takes jobs: a final, with those it may merge, or a partial to decode or drop.
LEMMA TakesKeep ==
  ASSUME DecodeInv, TakeFinal \/ TakePartial PROVE DecodeInv'
<1>0. /\ work \in Works /\ jobs \in Seq(Jobs) /\ results \in Seq(Results) /\ cuts \in Nat /\ MaxCuts \in Nat
      /\ partialPending \in BOOLEAN
  BY DecodeAssumption DEF DecodeInv, DecodeSafe, DecodeTypeOK, Works
<1>1. /\ UNCHANGED <<intakeVars, turnPartial, outage, decodes, speechPending, results, pumpVars, undelivered,
                     teardown>>
      /\ Listening /\ work.at = "idle" /\ jobs # <<>>
  BY DEF TakeFinal, TakePartial
<1>2. work.turns = {} /\ work.speech = {} /\ CaptionsInOrder /\ PendingIsExact /\ TurnsSpoken /\ DecodeTypeOK
  BY <1>1 DEF DecodeInv, DecodeSafe, WorkShape, Busy
<1>3. PICK n \in 1..Len(jobs) :
        /\ jobs' = SubSeq(jobs, n + 1, Len(jobs)) /\ partialPending' \in BOOLEAN
        /\ \/ /\ Head(jobs).kind = "final"
              /\ work' = [at |-> "decode", turns |-> TurnsOf(SubSeq(jobs, 1, n)),
                          speech |-> SpeechOf(SubSeq(jobs, 1, n)), first |-> TRUE]
           \/ n = 1 /\ Head(jobs).kind = "partial" /\ work' = work
           \/ /\ n = 1 /\ Head(jobs).kind = "partial"
              /\ work' = [Idle EXCEPT !.at = "partial", !.turns = {Head(jobs).turn}]
  BY <1>0, <1>1, WorkTaken
<1>. DEFINE taken == SubSeq(jobs, 1, n)
            rest  == SubSeq(jobs, n + 1, Len(jobs))
<1>4. /\ taken \in Seq(Jobs) /\ DOMAIN taken = 1..n /\ \A i \in 1..n : taken[i] = jobs[i]
      /\ rest \in Seq(Jobs) /\ DOMAIN rest = 1..(Len(jobs) - n)
      /\ \A i \in 1..(Len(jobs) - n) : rest[i] = jobs[n + i]
      /\ Len(jobs) \in Nat /\ DOMAIN jobs = 1..Len(jobs) /\ jobs' = rest
  BY <1>0, <1>3, Split
<1>5. n \in Nat /\ n >= 1 /\ n <= Len(jobs)
  BY <1>4
<1>. HIDE DEF taken, rest
<1>6. \A i \in DOMAIN jobs' : n + i \in DOMAIN jobs /\ jobs'[i] = jobs[n + i] /\ i \in Nat
  BY <1>4, <1>5
<1>7. /\ \A t : t \in TurnsOf(taken) <=> \E i \in 1..n : jobs[i].kind = "final" /\ t = jobs[i].turn
      /\ \A t : t \in SpeechOf(taken) <=>
                  \E i \in 1..n : jobs[i].kind = "final" /\ jobs[i].speech /\ t = jobs[i].turn
  <2>1. FinalsIn(taken) = {i \in 1..n : jobs[i].kind = "final"}
    BY <1>4 DEF FinalsIn
  <2>2. TurnsOf(taken) = {jobs[i].turn : i \in FinalsIn(taken)}
    BY <1>4, <2>1 DEF TurnsOf
  <2>3. SpeechOf(taken) = {jobs[i].turn : i \in {j \in FinalsIn(taken) : jobs[j].speech}}
    BY <1>4, <2>1 DEF SpeechOf
  <2>. QED  BY <2>1, <2>2, <2>3
<1>8. \A i \in DOMAIN jobs : i \in 1..n \/ (i - n \in DOMAIN jobs' /\ n + (i - n) = i)
  BY <1>4, <1>5
<1>9. /\ \A t : t \in TurnsOf(jobs) <=> t \in TurnsOf(taken) \/ t \in TurnsOf(jobs')
      /\ SpeechOf(jobs) = SpeechOf(taken) \cup SpeechOf(jobs')
  <2>1. jobs \in Seq(Jobs) /\ n \in 1..Len(jobs)
    BY <1>0, <1>3
  <2>2. /\ \A t : t \in TurnsOf(jobs) <=> t \in TurnsOf(taken) \/ t \in TurnsOf(rest)
        /\ SpeechOf(jobs) = SpeechOf(taken) \cup SpeechOf(rest)
    BY <2>1, TurnsSplit DEF taken, rest
  <2>. QED  BY <1>4, <2>2
<1>10. Head(jobs) = jobs[1] /\ 1 \in DOMAIN jobs /\ 1 \in 1..n /\ jobs[1] \in Jobs
  BY <1>0, <1>1, <1>4, <1>5, Taken
<1>11. TurnsOf(taken) \subseteq 1..(MaxCuts + 1) /\ SpeechOf(taken) \subseteq TurnsOf(taken)
  BY <1>4, TurnsTyped
<1>f. CASE Head(jobs).kind = "final"
  <2>1. /\ work' \in Works /\ work'.at = "decode" /\ work'.turns = TurnsOf(taken)
        /\ work'.speech = SpeechOf(taken)
    <3>1. work' = [at |-> "decode", turns |-> TurnsOf(taken), speech |-> SpeechOf(taken), first |-> TRUE]
      BY <1>3, <1>f DEF taken
    <3>. QED  BY <1>11, <3>1 DEF Works
  <2>2. /\ \A t \in Batch'.turns : \E i \in 1..n : jobs[i].kind = "final" /\ t = jobs[i].turn
        /\ Batch'.kind = "final"
    BY <1>7, <2>1 DEF Batch
  <2>3. \A x : (\A i \in 1..n : Before(x, Item(jobs[i]))) => Before(x, Batch')
    BY <2>2 DEF Before, Item
  <2>4. \A x : (\A i \in 1..n : Before(Item(jobs[i]), x)) => Before(Batch', x)
    BY <2>2 DEF Before, Item
  <2>5. SpeechOf(jobs') \cup work'.speech = SpeechOf(jobs) \cup work.speech
    BY <1>2, <1>9, <2>1
  <2>6. FallbackIsOwn'
    <3>. SUFFICES ASSUME turnPartial # NoPartial PROVE turnPartial.turn \in TurnsOf(taken)
      BY <1>1, <2>1 DEF FallbackIsOwn
    <3>1. Owned(turnPartial.turn) /\ turnPartial.turn <= jobs[1].turn
      BY <1>1, <1>10 DEF DecodeInv, PartialsOwned, Busy
    <3>2. jobs[1].turn \in Nat /\ jobs[1].turn <= cuts /\ turnPartial.turn \in Nat
      <4>1. Spoken(Item(jobs[1])) /\ jobs[1].kind = "final"
        BY <1>2, <1>10, <1>f DEF TurnsSpoken
      <4>. QED  BY <1>0, <1>2, <1>10, <4>1 DEF Spoken, Item, Jobs, DecodeTypeOK
    <3>3. turnPartial.turn \in TurnsOf(jobs)
      BY <1>0, <3>1, <3>2 DEF Owned
    <3>4. PICK i \in DOMAIN jobs : jobs[i].kind = "final" /\ turnPartial.turn = jobs[i].turn
      BY <3>3 DEF TurnsOf, FinalsIn
    <3>5. i = 1
      <4>1. SUFFICES ASSUME 1 < i PROVE FALSE
        BY <1>4
      <4>2. Before(Item(jobs[1]), Item(jobs[i]))
        BY <1>2, <1>10, <4>1 DEF CaptionsInOrder
      <4>3. jobs[1].turn < jobs[i].turn
        BY <1>10, <1>f, <4>2 DEF Before, Item
      <4>. QED  BY <3>1, <3>2, <3>4, <4>3
    <3>. QED  BY <1>7, <1>10, <3>4, <3>5
  <2>7. CaptionsInOrder'
    <3>1. Before(inHand, Batch') /\ \A i \in DOMAIN results : Before(results[i], Batch')
      <4>1. \A i \in 1..n : i \in DOMAIN jobs
        BY <1>4, <1>5
      <4>. QED  BY <1>2, <2>3, <4>1 DEF CaptionsInOrder
    <3>2. \A k \in DOMAIN jobs' : Before(Batch', Item(jobs'[k]))
      <4>. SUFFICES ASSUME NEW k \in DOMAIN jobs', NEW i \in 1..n PROVE Before(Item(jobs[i]), Item(jobs[n + k]))
        BY <1>6, <2>4
      <4>1. i \in DOMAIN jobs /\ n + k \in DOMAIN jobs /\ i < n + k
        BY <1>4, <1>5, <1>6
      <4>. QED  BY <1>2, <4>1 DEF CaptionsInOrder
    <3>3. \A k \in DOMAIN jobs' : /\ Before(inHand, Item(jobs'[k]))
                                  /\ \A i \in DOMAIN results : Before(results[i], Item(jobs'[k]))
      BY <1>2, <1>6 DEF CaptionsInOrder
    <3>4. \A i, j \in DOMAIN jobs' : i < j => Before(Item(jobs'[i]), Item(jobs'[j]))
      <4>1. \A i, j \in DOMAIN jobs' : i < j => n + i < n + j
        BY <1>5, <1>6
      <4>. QED  BY <1>2, <1>6, <4>1 DEF CaptionsInOrder
    <3>5. \A x, y : Before(x, y)' = Before(x, y)
      BY DEF Before
    <3>6. (\A k \in DOMAIN jobs' : Item(jobs[k])' = Item(jobs'[k])) /\ inHand' = inHand /\ results' = results
      BY <1>1 DEF Item, pumpVars
    <3>. QED  BY <1>2, <3>1, <3>2, <3>3, <3>4, <3>5, <3>6, Zenon DEF CaptionsInOrder
  <2>8. PendingIsExact'
    <3>1. Listening' = Listening /\ inHand' = inHand /\ results' = results /\ undelivered' = undelivered
          /\ speechPending' = speechPending
      BY <1>1 DEF Listening, pumpVars
    <3>2. SpeechOf(jobs)' = SpeechOf(jobs') /\ FinalsIn(results)' = FinalsIn(results)
      BY <3>1 DEF SpeechOf, FinalsIn
    <3>. QED  BY <1>2, <2>5, <3>1, <3>2, Zenon DEF PendingIsExact
  <2>9. DecodeTypeOK'
    BY <1>1, <1>2, <1>3, <1>4, <2>1 DEF DecodeTypeOK, Works, intakeVars, pumpVars
  <2>10. TurnsSpoken'
    <3>1. Spoken(Batch')
      <4>1. \A i \in 1..n : i \in DOMAIN jobs
        BY <1>4, <1>5
      <4>. QED  BY <1>2, <2>2, <4>1 DEF Spoken, TurnsSpoken, Item
    <3>2. \A k \in DOMAIN jobs' : Spoken(Item(jobs'[k]))
      BY <1>2, <1>6 DEF TurnsSpoken
    <3>3. \A x : Spoken(x)' = Spoken(x)
      BY <1>1 DEF Spoken, intakeVars
    <3>4. \A k \in DOMAIN jobs' : Item(jobs[k])' = Item(jobs'[k])
      BY DEF Item
    <3>. QED  BY <1>1, <1>2, <3>1, <3>2, <3>3, <3>4 DEF TurnsSpoken, intakeVars, pumpVars
  <2>11. WorkShape'
    BY <1>1, <1>11, <2>1 DEF WorkShape, Busy, Listening
  <2>12. PartialsOwned'
    <3>. SUFFICES ASSUME Listening'
                  PROVE  /\ \A k \in DOMAIN jobs' : jobs'[k].kind = "partial" => Owned(jobs[k].turn)'
                         /\ turnPartial # NoPartial =>
                              /\ turnPartial.turn \in work'.turns
                              /\ \A k \in DOMAIN jobs' : turnPartial.turn <= jobs'[k].turn
      <4>1. Busy' /\ work'.at # "partial" /\ turnPartial' = turnPartial
        BY <1>1, <2>1 DEF Busy
      <4>. QED  BY <4>1 DEF PartialsOwned
    <3>1. ASSUME turnPartial # NoPartial
          PROVE  turnPartial.turn \in work'.turns /\ \A k \in DOMAIN jobs' : turnPartial.turn <= jobs'[k].turn
      <4>1. turnPartial.turn \in work'.turns
        BY <1>1, <2>1, <2>6, <3>1 DEF FallbackIsOwn
      <4>. QED  BY <1>1, <1>6, <3>1, <4>1 DEF DecodeInv, PartialsOwned
    <3>2. ASSUME NEW k \in DOMAIN jobs', jobs'[k].kind = "partial" PROVE Owned(jobs[k].turn)'
      <4>1. jobs'[k].turn = cuts + 1 \/ jobs'[k].turn \in TurnsOf(jobs)
        BY <1>1, <1>6, <3>2 DEF DecodeInv, PartialsOwned, Owned
      <4>2. jobs'[k].turn \notin TurnsOf(taken)
        <5>. SUFFICES ASSUME NEW i \in 1..n, jobs[i].kind = "final", jobs[n + k].turn = jobs[i].turn PROVE FALSE
          BY <1>6, <1>7
        <5>1. i \in DOMAIN jobs /\ n + k \in DOMAIN jobs /\ i < n + k
          BY <1>4, <1>5, <1>6
        <5>2. Before(Item(jobs[i]), Item(jobs[n + k]))
          BY <1>2, <5>1 DEF CaptionsInOrder
        <5>3. jobs[i].turn < jobs[n + k].turn
          BY <5>2 DEF Before, Item
        <5>4. jobs[i] \in Jobs
          BY <1>0, <5>1, TurnsTyped
        <5>5. jobs[i].turn \in Nat
          BY <1>0, <5>4 DEF Jobs
        <5>. QED  BY <5>3, <5>5
      <4>3. TurnsOf(jobs)' = TurnsOf(jobs') /\ cuts' = cuts
        BY <1>1 DEF TurnsOf, FinalsIn, intakeVars
      <4>. QED  BY <1>9, <4>1, <4>2, <4>3 DEF Owned
    <3>. QED  BY <3>1, <3>2
  <2>. QED  BY <2>6, <2>7, <2>8, <2>9, <2>10, <2>11, <2>12 DEF DecodeInv, DecodeSafe
<1>p. CASE Head(jobs).kind = "partial"
  <2>0. n = 1 /\ jobs[1].kind = "partial"
    BY <1>3, <1>10, <1>p
  <2>1. /\ work' \in Works /\ work'.speech = {} /\ work'.at \in {"idle", "partial"}
        /\ work'.turns = IF work'.at = "partial" THEN {jobs[1].turn} ELSE {}
    <3>1. CASE work' = work
      BY <1>0, <1>1, <1>2, <3>1
    <3>2. CASE work' = [Idle EXCEPT !.at = "partial", !.turns = {jobs[1].turn}]
      BY <1>10, <3>2 DEF Idle, Works, Jobs
    <3>. QED  BY <1>3, <1>10, <1>p, <3>1, <3>2
  <2>2. \/ Batch'.turns = {}
        \/ Batch' = Item(jobs[1]) /\ work'.at = "partial"
    BY <2>0, <2>1 DEF Batch, Item
  <2>3. TurnsOf(taken) = {} /\ SpeechOf(taken) = {}
    BY <1>7, <1>11, <2>0
  <2>4. (\A t : t \in TurnsOf(jobs) <=> t \in TurnsOf(jobs')) /\ SpeechOf(jobs) = SpeechOf(jobs')
    BY <1>9, <2>3
  <2>5. \A k \in DOMAIN jobs' : 1 < n + k
    BY <1>5, <1>6, <2>0
  <2>6. CaptionsInOrder'
    <3>1. Before(inHand, Batch') /\ \A i \in DOMAIN results : Before(results[i], Batch')
      BY <1>2, <1>10, <2>2, BeforeNothing DEF CaptionsInOrder
    <3>2. \A k \in DOMAIN jobs' : Before(Batch', Item(jobs'[k]))
      <4>1. \A k \in DOMAIN jobs' : Before(Item(jobs[1]), Item(jobs'[k]))
        BY <1>2, <1>6, <1>10, <2>5 DEF CaptionsInOrder
      <4>. QED  BY <2>2, <4>1, BeforeNothing
    <3>3. \A k \in DOMAIN jobs' : /\ Before(inHand, Item(jobs'[k]))
                                  /\ \A i \in DOMAIN results : Before(results[i], Item(jobs'[k]))
      BY <1>2, <1>6 DEF CaptionsInOrder
    <3>4. \A i, j \in DOMAIN jobs' : i < j => Before(Item(jobs'[i]), Item(jobs'[j]))
      <4>1. \A i, j \in DOMAIN jobs' : i < j => n + i < n + j
        BY <1>5, <1>6
      <4>. QED  BY <1>2, <1>6, <4>1 DEF CaptionsInOrder
    <3>5. \A x, y : Before(x, y)' = Before(x, y)
      BY DEF Before
    <3>6. (\A k \in DOMAIN jobs' : Item(jobs[k])' = Item(jobs'[k])) /\ inHand' = inHand /\ results' = results
      BY <1>1 DEF Item, pumpVars
    <3>. QED  BY <1>2, <3>1, <3>2, <3>3, <3>4, <3>5, <3>6, Zenon DEF CaptionsInOrder
  <2>7. PendingIsExact'
    <3>1. Listening' = Listening /\ inHand' = inHand /\ results' = results /\ undelivered' = undelivered
          /\ speechPending' = speechPending
      BY <1>1 DEF Listening, pumpVars
    <3>2. SpeechOf(jobs)' = SpeechOf(jobs') /\ FinalsIn(results)' = FinalsIn(results)
      BY <3>1 DEF SpeechOf, FinalsIn
    <3>3. SpeechOf(jobs)' \cup work'.speech = SpeechOf(jobs) \cup work.speech
      BY <1>2, <2>1, <2>4, <3>2
    <3>. QED  BY <1>2, <3>1, <3>2, <3>3, Zenon DEF PendingIsExact
  <2>8. DecodeTypeOK'
    BY <1>1, <1>2, <1>3, <1>4, <2>1 DEF DecodeTypeOK, Works, intakeVars, pumpVars
  <2>9. FallbackIsOwn' /\ WorkShape'
    BY <1>1, <2>1 DEF FallbackIsOwn, WorkShape, Busy, Listening
  <2>10. TurnsSpoken'
    <3>1. Spoken(Batch')
      BY <1>2, <1>10, <2>2 DEF Spoken, TurnsSpoken
    <3>2. \A k \in DOMAIN jobs' : Spoken(Item(jobs'[k]))
      BY <1>2, <1>6 DEF TurnsSpoken
    <3>3. \A x : Spoken(x)' = Spoken(x)
      BY <1>1 DEF Spoken, intakeVars
    <3>4. \A k \in DOMAIN jobs' : Item(jobs[k])' = Item(jobs'[k])
      BY DEF Item
    <3>. QED  BY <1>1, <1>2, <3>1, <3>2, <3>3, <3>4 DEF TurnsSpoken, intakeVars, pumpVars
  <2>11. PartialsOwned'
    <3>1. Listening' = Listening /\ \A t : Owned(t)' <=> Owned(t)
      BY <1>1, <2>4 DEF Listening, Owned, TurnsOf, FinalsIn, intakeVars
    <3>2. PartialsOwned
      BY DEF DecodeInv
    <3>3. \A k \in DOMAIN jobs' : jobs'[k].kind = "partial" => Owned(jobs'[k].turn)
      BY <1>1, <1>6, <3>2 DEF PartialsOwned
    <3>4. \A t \in work'.turns : t = jobs[1].turn /\ Owned(t)
      BY <1>1, <1>10, <2>0, <2>1, <3>2 DEF PartialsOwned
    <3>5. turnPartial # NoPartial =>
            /\ Owned(turnPartial.turn) /\ turnPartial.turn <= jobs[1].turn
            /\ \A k \in DOMAIN jobs' : turnPartial.turn <= jobs'[k].turn
      BY <1>1, <1>6, <1>10, <3>2 DEF PartialsOwned, Busy
    <3>6. ~Busy' /\ turnPartial' = turnPartial
      BY <1>1, <2>1 DEF Busy
    <3>. QED  BY <3>1, <3>3, <3>4, <3>5, <3>6 DEF PartialsOwned
  <2>. QED  BY <2>6, <2>7, <2>8, <2>9, <2>10, <2>11 DEF DecodeInv, DecodeSafe
<1>. QED  BY <1>3, <1>f, <1>p

\* The worker's partial is decoded: it is shown, or not.
LEMMA PartialKeeps == ASSUME DecodeInv, PartialDecoded PROVE DecodeInv'
<1>. DEFINE new == [kind |-> "partial", turns |-> work.turns]
<1>0. /\ work \in Works /\ jobs \in Seq(Jobs) /\ results \in Seq(Results) /\ cuts \in Nat /\ MaxCuts \in Nat
      /\ OutageBudget \in Nat /\ outage \in 0..(OutageBudget + 1)
      /\ turnPartial \in [turn : 0..(MaxCuts + 1), long : BOOLEAN]
      /\ work.turns \subseteq 1..(MaxCuts + 1)
  BY DecodeAssumption DEF DecodeInv, DecodeSafe, DecodeTypeOK, Works
<1>1. /\ UNCHANGED <<intakeVars, jobs, decodes, speechPending, pumpVars, undelivered, teardown>>
      /\ work.at = "partial" /\ work' = Idle /\ partialPending' = FALSE
  BY DEF PartialDecoded
<1>2. /\ CaptionsInOrder /\ PendingIsExact /\ TurnsSpoken /\ PartialsOwned /\ Listening /\ work.speech = {}
      /\ DecodeTypeOK
  BY <1>1 DEF DecodeInv, DecodeSafe, WorkShape, Busy
<1>3. /\ outage' \in 0..(OutageBudget + 1)
      /\ \/ UNCHANGED <<turnPartial, results>>
         \/ /\ \E t \in work.turns, long \in BOOLEAN : turnPartial' = [turn |-> t, long |-> long]
            /\ results' = Append(results, new)
  BY <1>0 DEF PartialDecoded
<1>4. new \in Results /\ new = Batch /\ new.kind = "partial"
  BY <1>0, <1>1 DEF Results, Batch
<1>5. /\ Len(results) \in Nat /\ DOMAIN results = 1..Len(results)
      /\ Append(results, new) \in Seq(Results) /\ DOMAIN Append(results, new) = 1..(Len(results) + 1)
      /\ \A i \in 1..Len(results) : Append(results, new)[i] = results[i]
      /\ Append(results, new)[Len(results) + 1] = new
  BY <1>0, <1>4, Appended
<1>6. Cardinality(FinalsIn(Append(results, new))) = Cardinality(FinalsIn(results)) + 0
  BY <1>0, <1>4, FinalsAppended
<1>7. Cardinality(FinalsIn(results)) \in Nat
  BY <1>0, FinalsFinite
<1>. HIDE DEF new
<1>8. /\ results' \in Seq(Results) /\ turnPartial' \in [turn : 0..(MaxCuts + 1), long : BOOLEAN]
      /\ Cardinality(FinalsIn(results')) = Cardinality(FinalsIn(results))
  <2>1. CASE UNCHANGED <<turnPartial, results>>
    BY <1>0, <2>1
  <2>2. CASE /\ \E t \in work.turns, long \in BOOLEAN : turnPartial' = [turn |-> t, long |-> long]
             /\ results' = Append(results, new)
    BY <1>0, <1>5, <1>6, <1>7, <2>2
  <2>. QED  BY <1>3, <2>1, <2>2
<1>9. \A i \in DOMAIN results' : \/ i \in DOMAIN results /\ results'[i] = results[i]
                                 \/ i = Len(results) + 1 /\ results'[i] = Batch
  BY <1>3, <1>4, <1>5
<1>10. turnPartial' = turnPartial \/ turnPartial'.turn \in work.turns
  BY <1>3
<1>11. Batch'.turns = {} /\ work'.turns = {} /\ work'.at = "idle" /\ work'.speech = {} /\ work' \in Works
  BY <1>1, IdleWorks DEF Batch
<1>12. /\ \A k \in DOMAIN jobs : Item(jobs[k])' = Item(jobs[k])
       /\ inHand' = inHand /\ jobs' = jobs /\ cuts' = cuts /\ heard' = heard /\ teardown' = teardown
  BY <1>1 DEF Item, pumpVars, intakeVars
<1>13. CaptionsInOrder'
  <2>1. \A x : Before(x, Batch') /\ Before(Batch', x)
    BY <1>11, BeforeNothing
  <2>2. \A i \in DOMAIN results' : /\ Before(inHand, results'[i])
                                   /\ \A k \in DOMAIN jobs : Before(results'[i], Item(jobs[k]))
    BY <1>2, <1>9 DEF CaptionsInOrder
  <2>3. \A i, j \in DOMAIN results' : i < j => Before(results'[i], results'[j])
    <3>. SUFFICES ASSUME NEW i \in DOMAIN results', NEW j \in DOMAIN results', i < j
                  PROVE  Before(results'[i], results'[j])
      OBVIOUS
    <3>1. i \in DOMAIN results /\ results'[i] = results[i]
      BY <1>3, <1>5, <1>9
    <3>. QED  BY <1>2, <3>1, <1>9 DEF CaptionsInOrder
  <2>4. \A x, y : Before(x, y)' = Before(x, y)
    BY DEF Before
  <2>. QED  BY <1>2, <2>1, <2>2, <2>3, <2>4, <1>12, Zenon DEF CaptionsInOrder
<1>14. PendingIsExact'
  <2>1. Listening' = Listening /\ undelivered' = undelivered /\ speechPending' = speechPending
    BY <1>1 DEF Listening
  <2>2. SpeechOf(jobs)' = SpeechOf(jobs) /\ FinalsIn(results)' = FinalsIn(results')
    BY <1>12 DEF SpeechOf, FinalsIn
  <2>. QED  BY <1>2, <1>8, <1>11, <1>12, <2>1, <2>2, Zenon DEF PendingIsExact
<1>15. DecodeTypeOK' /\ FallbackIsOwn' /\ WorkShape'
  BY <1>1, <1>2, <1>3, <1>8, <1>11 DEF DecodeTypeOK, Works, FallbackIsOwn, WorkShape, Busy, intakeVars, pumpVars
<1>16. TurnsSpoken'
  <2>1. \A i \in DOMAIN results' : Spoken(results'[i])
    BY <1>2, <1>9 DEF TurnsSpoken
  <2>2. turnPartial'.turn <= cuts + 1
    BY <1>1, <1>2, <1>10 DEF TurnsSpoken, Spoken, Batch
  <2>3. \A x : Spoken(x)' = Spoken(x)
    BY <1>12 DEF Spoken
  <2>4. Spoken(Batch')
    BY <1>11 DEF Spoken
  <2>. QED  BY <1>2, <1>12, <2>1, <2>2, <2>3, <2>4 DEF TurnsSpoken
<1>17. PartialsOwned'
  <2>1. Listening' = Listening /\ (\A t : Owned(t)' <=> Owned(t)) /\ ~Busy' /\ ~Busy
    BY <1>1, <1>11, <1>12 DEF Listening, Owned, TurnsOf, FinalsIn, Busy
  <2>2. \A t \in work.turns : Owned(t) /\ \A k \in DOMAIN jobs : t <= jobs[k].turn
    <3>1. \A k \in DOMAIN jobs : Before(Batch, Item(jobs[k]))
      BY <1>2 DEF CaptionsInOrder
    <3>2. \A t \in work.turns, k \in DOMAIN jobs : t <= jobs[k].turn
      BY <1>1, <3>1 DEF Before, Batch, Item
    <3>. QED  BY <1>1, <1>2, <3>2 DEF PartialsOwned
  <2>3. turnPartial' # NoPartial =>
          Owned(turnPartial'.turn) /\ \A k \in DOMAIN jobs : turnPartial'.turn <= jobs[k].turn
    BY <1>2, <1>10, <2>1, <2>2 DEF PartialsOwned
  <2>4. \A k \in DOMAIN jobs : jobs[k].kind = "partial" => Owned(jobs[k].turn)
    BY <1>2 DEF PartialsOwned
  <2>5. turnPartial' # NoPartial => Owned(turnPartial.turn)'
    BY <2>3, <1>12 DEF Owned, TurnsOf, FinalsIn
  <2>. QED  BY <1>11, <1>12, <2>1, <2>3, <2>4, <2>5 DEF PartialsOwned
<1>. QED  BY <1>13, <1>14, <1>15, <1>16, <1>17 DEF DecodeInv, DecodeSafe

\* close(): what the worker held is given up, and the consumer is woken.
LEMMA CloseKeeps == ASSUME DecodeInv, CloseTranscriber PROVE DecodeInv'
<1>. DEFINE new == [kind |-> "end", turns |-> {}]
<1>0. /\ work \in Works /\ jobs \in Seq(Jobs) /\ results \in Seq(Results) /\ cuts \in Nat /\ MaxCuts \in Nat
      /\ speechPending \in Nat
  BY DecodeAssumption DEF DecodeInv, DecodeSafe, DecodeTypeOK, Works
<1>1. /\ UNCHANGED <<intakeVars, jobs, partialPending, turnPartial, outage, decodes, pumpVars, undelivered>>
      /\ teardown = "flush" /\ teardown' = "closed" /\ work' = Idle
      /\ speechPending' = speechPending - Cardinality(work.speech) /\ results' = Append(results, new)
  BY DEF CloseTranscriber
<1>2. CaptionsInOrder /\ PendingIsExact /\ TurnsSpoken /\ DecodeTypeOK /\ Listening
  BY <1>1 DEF DecodeInv, DecodeSafe, Listening
<1>3. new \in Results /\ new.turns = {} /\ new.kind = "end"
  BY DEF Results
<1>4. /\ Len(results) \in Nat /\ DOMAIN results = 1..Len(results)
      /\ Append(results, new) \in Seq(Results) /\ DOMAIN Append(results, new) = 1..(Len(results) + 1)
      /\ \A i \in 1..Len(results) : Append(results, new)[i] = results[i]
      /\ Append(results, new)[Len(results) + 1] = new
  BY <1>0, <1>3, Appended
<1>5. Cardinality(FinalsIn(results')) = Cardinality(FinalsIn(results)) + 0
  BY <1>0, <1>1, <1>3, FinalsAppended
<1>6. Cardinality(FinalsIn(results)) \in Nat
  BY <1>0, FinalsFinite
<1>. HIDE DEF new
<1>9. \A i \in DOMAIN results' : \/ i \in DOMAIN results /\ results'[i] = results[i]
                                 \/ i = Len(results) + 1 /\ results'[i] = new
  BY <1>1, <1>4
<1>11. Batch'.turns = {} /\ work'.turns = {} /\ work'.at = "idle" /\ work'.speech = {} /\ work' \in Works
  BY <1>1, IdleWorks DEF Batch
<1>12. /\ \A k \in DOMAIN jobs : Item(jobs[k])' = Item(jobs[k])
       /\ inHand' = inHand /\ jobs' = jobs /\ cuts' = cuts /\ heard' = heard
  BY <1>1 DEF Item, pumpVars, intakeVars
<1>13. CaptionsInOrder'
  <2>0. \A x : Before(new, x) /\ Before(x, new)
    BY <1>3, BeforeNothing
  <2>1. \A x : Before(x, Batch') /\ Before(Batch', x)
    BY <1>11, BeforeNothing
  <2>2. \A i \in DOMAIN results' : /\ Before(inHand, results'[i])
                                   /\ \A k \in DOMAIN jobs : Before(results'[i], Item(jobs[k]))
    BY <1>2, <1>9, <2>0 DEF CaptionsInOrder
  <2>3. \A i, j \in DOMAIN results' : i < j => Before(results'[i], results'[j])
    BY <1>2, <1>9, <2>0 DEF CaptionsInOrder
  <2>4. \A x, y : Before(x, y)' = Before(x, y)
    BY DEF Before
  <2>. QED  BY <1>2, <2>1, <2>2, <2>3, <2>4, <1>12, Zenon DEF CaptionsInOrder
<1>14. ~Listening'
  BY <1>1 DEF Listening
<1>15. PendingIsExact'
  <2>1. FinalsIn(results)' = FinalsIn(results') /\ undelivered' = undelivered
    BY <1>1 DEF FinalsIn
  <2>2. Cardinality(FinalsIn(results')) = Cardinality(FinalsIn(results))
    BY <1>5, <1>6
  <2>. QED  BY <1>2, <1>12, <1>14, <2>1, <2>2, Zenon DEF PendingIsExact
<1>16. speechPending' \in Nat
  <2>1. SpeechOf(jobs) \cup work.speech \subseteq 1..(MaxCuts + 1) /\ work.speech \subseteq 1..(MaxCuts + 1)
    BY <1>0, TurnsTyped, WorkFacts
  <2>2. Cardinality(work.speech) <= Cardinality(SpeechOf(jobs) \cup work.speech)
    <3>1. IsFiniteSet(SpeechOf(jobs) \cup work.speech)
      BY <2>1, SpeechCounts
    <3>. QED  BY <3>1, FS_Subset
  <2>3. Cardinality(work.speech) \in Nat /\ speechPending = Cardinality(SpeechOf(jobs) \cup work.speech)
    BY <1>2, <2>1, SpeechCounts DEF PendingIsExact
  <2>. QED  BY <1>0, <1>1, <2>2, <2>3
<1>17. DecodeTypeOK' /\ FallbackIsOwn' /\ WorkShape' /\ PartialsOwned'
  BY <1>1, <1>2, <1>4, <1>11, <1>14, <1>16
  DEF DecodeTypeOK, Works, FallbackIsOwn, WorkShape, PartialsOwned, Busy, intakeVars, pumpVars
<1>18. TurnsSpoken'
  <2>1. \A i \in DOMAIN results' : Spoken(results'[i])
    BY <1>2, <1>3, <1>9 DEF TurnsSpoken, Spoken
  <2>2. \A x : Spoken(x)' = Spoken(x)
    BY <1>12 DEF Spoken
  <2>3. Spoken(Batch')
    BY <1>11 DEF Spoken
  <2>. QED  BY <1>1, <1>2, <1>12, <2>1, <2>2, <2>3 DEF TurnsSpoken
<1>. QED  BY <1>13, <1>15, <1>17, <1>18 DEF DecodeInv, DecodeSafe

\* The steps of push(), the worker, the consumer and the teardown keep the invariant.
LEMMA DecodeStep == DecodeInv /\ [DecodeNext]_decodeVars => DecodeInv'
BY IntakeKeeps, TakesKeep, PartialKeeps, AnswersKeep, ConsumerKeeps, CloseKeeps DEF DecodeNext, Worker

\* The strengthened invariant holds.
LEMMA DecodeInvHolds == DecodeSpec => []DecodeInv
<1>1. DecodeInit => DecodeInv
  <2>. SUFFICES ASSUME DecodeInit PROVE DecodeInv
    OBVIOUS
  <2>1. /\ results = <<>> /\ jobs = <<>> /\ inHand = Nothing /\ work = Idle /\ turnPartial = NoPartial
        /\ cuts = 0 /\ heard = FALSE /\ teardown = "live" /\ speechPending = 0 /\ undelivered = 0
    BY DEF DecodeInit
  <2>2. inHand \in Results /\ inHand.turns = {} /\ inHand.kind = "none"
    BY <2>1 DEF Nothing, Results
  <2>3. work \in Works /\ work.at = "idle" /\ work.turns = {} /\ work.speech = {} /\ Batch.turns = {}
    BY <2>1, IdleWorks DEF Batch
  <2>4. turnPartial \in [turn : 0..(MaxCuts + 1), long : BOOLEAN] /\ turnPartial.turn = 0
    BY <2>1, DecodeAssumption DEF NoPartial
  <2>5. SpeechOf(jobs) \cup work.speech = {} /\ FinalsIn(results) = {}
    BY <2>1, <2>3 DEF SpeechOf, FinalsIn
  <2>6. Cardinality({}) = 0
    BY FS_EmptySet
  <2>7. DecodeTypeOK
    <3>1. results \in Seq(Results) /\ jobs \in Seq(Jobs)
      BY <2>1
    <3>2. /\ energy \in BOOLEAN /\ partialPending \in BOOLEAN /\ drain \in {"on", "done", "dead"}
          /\ outage = 0 /\ decodes = 0
      BY DEF DecodeInit
    <3>3. 0 \in 0..(MaxCuts + 1) /\ 0 \in 0..(OutageBudget + 1) /\ 0 \in 0..MinDecodes
      BY DecodeAssumption
    <3>. QED  BY <2>1, <2>2, <2>3, <2>4, <3>1, <3>2, <3>3 DEF DecodeTypeOK, Works
  <2>8. CaptionsInOrder /\ FallbackIsOwn
    BY <2>1, <2>2, <2>3, BeforeNothing DEF CaptionsInOrder, FallbackIsOwn
  <2>9. PendingIsExact
    <3>1. IF inHand.kind = "final" THEN FALSE ELSE TRUE
      BY <2>2
    <3>2. speechPending = Cardinality(SpeechOf(jobs) \cup work.speech)
      BY <2>1, <2>5, <2>6, Zenon
    <3>3. Cardinality(FinalsIn(results)) = 0
      BY <2>5, <2>6, Zenon
    <3>. QED  BY <2>1, <3>1, <3>2, <3>3 DEF PendingIsExact
  <2>10. TurnsSpoken
    BY <2>1, <2>2, <2>3, <2>4, DecodeAssumption DEF TurnsSpoken, Spoken
  <2>11. WorkShape /\ PartialsOwned
    BY <2>1, <2>3 DEF WorkShape, PartialsOwned, Listening
  <2>. QED  BY <2>7, <2>8, <2>9, <2>10, <2>11 DEF DecodeInv, DecodeSafe
<1>. QED  BY <1>1, DecodeStep, PTL DEF DecodeSpec

\* However slow or broken the engine is: no turn is captioned twice or out of order, the partial
\* that stands in for a blank final is of the turn decided, and `finalizing` counts exactly what is
\* undecided or unhandled (_close_turn, _work, _coalesce_backlog, _finalize, results).
THEOREM DecodesAreSafe == DecodeSpec => []DecodeSafe
<1>1. DecodeInv => DecodeSafe
  BY DEF DecodeInv
<1>. QED  BY <1>1, DecodeInvHolds, PTL

-----------------------------------------------------------------------------
(* The decode worker: what the session sees of its queues.                 *)

\* A set of numbers that is not empty has a least one.
LEMMA Least ==
  ASSUME NEW X, X \subseteq Nat, X # {}
  PROVE  \E x \in X : \A y \in X : x <= y
<1> DEFINE R == OpToRel(<, Nat)
<1>1. IsWellFoundedOn(R, Nat)
  BY NatLessThanWellFounded
<1>2. \A x, y \in Nat : y < x => <<y, x>> \in R
  BY DEF OpToRel
<1> HIDE DEF R
<1>3. PICK x \in X : \A y \in X : <<y, x>> \notin R
  BY <1>1, WFMin
<1>4. \A y \in X : ~(y < x)
  BY <1>2, <1>3, Zenon
<1> QED BY <1>4

\* The turns of the k-th final of a queue.
TurnsAt(q, k) == UNION {q[i].turns : i \in {j \in FinalsIn(q) : Cardinality(Upto(q, j)) = k}}

\* How far down a queue a final is.
LEMMA FinalsRanked ==
  ASSUME NEW q \in Seq(Results), NEW i \in FinalsIn(q)
  PROVE  /\ IsFiniteSet(FinalsIn(q)) /\ IsFiniteSet(Upto(q, i)) /\ i \in Nat
         /\ Cardinality(Upto(q, i)) \in 1..Cardinality(FinalsIn(q)) /\ Cardinality(FinalsIn(q)) \in Nat
<1>1. i \in Nat
  BY LenProperties DEF FinalsIn
<1>2. IsFiniteSet(FinalsIn(q)) /\ Cardinality(FinalsIn(q)) \in Nat
  BY FinalsFinite
<1>3. Upto(q, i) \in SUBSET FinalsIn(q) /\ i \in Upto(q, i)
  BY <1>1 DEF Upto
<1>4. IsFiniteSet(Upto(q, i)) /\ Cardinality(Upto(q, i)) <= Cardinality(FinalsIn(q))
  BY <1>2, <1>3, FS_Subset
<1>5. Cardinality(Upto(q, i)) \in Nat /\ Cardinality(Upto(q, i)) # 0
  BY <1>3, <1>4, FS_CardinalityType, FS_EmptySet
<1>. QED  BY <1>1, <1>2, <1>4, <1>5

\* The finals of a queue, as a sequence.
LEMMA FinalsListed ==
  ASSUME NEW q \in Seq(Results)
  PROVE  /\ FinalTurns(q) \in Seq(SUBSET (1..(MaxCuts + 1)))
         /\ Len(FinalTurns(q)) = Cardinality(FinalsIn(q)) /\ Cardinality(FinalsIn(q)) \in Nat
         /\ \A k \in 1..Cardinality(FinalsIn(q)) : FinalTurns(q)[k] = TurnsAt(q, k)
<1>. DEFINE c == Cardinality(FinalsIn(q))
            f == FinalTurns(q)
<1>1. c \in Nat
  BY FinalsFinite
<1>2. f = [k \in 1..c |-> TurnsAt(q, k)]
  BY DEF FinalTurns, TurnsAt
<1>3. \A k : TurnsAt(q, k) \in SUBSET (1..(MaxCuts + 1))
  <2>1. \A i \in DOMAIN q : q[i] \in Results
    BY LenProperties, ElementOfSeq
  <2>2. \A i \in FinalsIn(q) : q[i].turns \subseteq 1..(MaxCuts + 1)
    BY <2>1 DEF FinalsIn, Results
  <2>. QED  BY <2>2 DEF TurnsAt
<1>. HIDE DEF c, f
<1>. QED  BY <1>1, <1>2, <1>3 DEF c, f

\* One more final is one more at the end, any other result changes nothing.
LEMMA FinalTurnsAppended ==
  ASSUME NEW q \in Seq(Results), NEW r \in Results
  PROVE  FinalTurns(Append(q, r)) =
           IF r.kind = "final" THEN Append(FinalTurns(q), r.turns) ELSE FinalTurns(q)
<1>. DEFINE n == Len(q) + 1
            p == Append(q, r)
            S == SUBSET (1..(MaxCuts + 1))
            c == Cardinality(FinalsIn(q))
<1>1. /\ Len(q) \in Nat /\ DOMAIN q = 1..Len(q) /\ p \in Seq(Results) /\ DOMAIN p = 1..n
      /\ \A i \in 1..Len(q) : p[i] = q[i]
      /\ p[n] = r
  BY Appended
<1>2. \A i : i \in 1..n <=> i \in 1..Len(q) \/ i = n
  BY <1>1
<1>3. n \notin 1..Len(q) /\ n \in Nat /\ \A i \in 1..Len(q) : i \in Nat /\ i <= n /\ ~(n <= i)
  BY <1>1
<1>4. r.turns \in S
  BY DEF Results
<1>5. Cardinality(FinalsIn(p)) = c + (IF r.kind = "final" THEN 1 ELSE 0) /\ c \in Nat
  BY FinalsAppended, FinalsFinite
<1>6. /\ FinalTurns(q) \in Seq(S) /\ Len(FinalTurns(q)) = c
      /\ \A k \in 1..c : FinalTurns(q)[k] = TurnsAt(q, k)
  BY FinalsListed
<1>7. /\ FinalTurns(p) \in Seq(S) /\ Len(FinalTurns(p)) = Cardinality(FinalsIn(p))
      /\ \A k \in 1..Cardinality(FinalsIn(p)) : FinalTurns(p)[k] = TurnsAt(p, k)
  BY <1>1, FinalsListed
<1>. HIDE DEF n, p, c, S
<1>8. FinalsIn(p) = IF r.kind = "final" THEN FinalsIn(q) \cup {n} ELSE FinalsIn(q)
  BY <1>1, <1>2 DEF FinalsIn
<1>9. \A j \in FinalsIn(q) : j \in 1..Len(q) /\ p[j] = q[j]
  BY <1>1 DEF FinalsIn
<1>10. \A j \in FinalsIn(q) : Upto(p, j) = Upto(q, j)
  BY <1>3, <1>8, <1>9 DEF Upto
<1>11. \A j \in FinalsIn(q) : Cardinality(Upto(q, j)) \in 1..c
  BY FinalsRanked DEF c
<1>12. CASE r.kind # "final"
  <2>1. \A k : TurnsAt(p, k) = TurnsAt(q, k)
    <3>. SUFFICES ASSUME NEW k PROVE TurnsAt(p, k) = TurnsAt(q, k)
      OBVIOUS
    <3>1. {j \in FinalsIn(p) : Cardinality(Upto(p, j)) = k} = {j \in FinalsIn(q) : Cardinality(Upto(q, j)) = k}
      BY <1>8, <1>10, <1>12
    <3>. QED  BY <1>9, <3>1 DEF TurnsAt
  <2>2. Cardinality(FinalsIn(p)) = c
    BY <1>5, <1>12
  <2>3. FinalTurns(p) = FinalTurns(q)
    BY <1>6, <1>7, <2>1, <2>2, SeqEqual
  <2>. QED  BY <1>12, <2>3 DEF p
<1>13. CASE r.kind = "final"
  <2>1. Upto(p, n) = FinalsIn(p)
    BY <1>3, <1>8, <1>9, <1>13 DEF Upto
  <2>2. Cardinality(Upto(p, n)) = c + 1 /\ Cardinality(FinalsIn(p)) = c + 1
    BY <1>5, <1>13, <2>1
  <2>3. ASSUME NEW k \in 1..c PROVE TurnsAt(p, k) = TurnsAt(q, k)
    <3>0. k # c + 1
      BY <1>5
    <3>1. {j \in FinalsIn(p) : Cardinality(Upto(p, j)) = k} = {j \in FinalsIn(q) : Cardinality(Upto(q, j)) = k}
      BY <1>8, <1>10, <1>13, <2>2, <3>0
    <3>. QED  BY <1>9, <3>1 DEF TurnsAt
  <2>4. TurnsAt(p, c + 1) = r.turns
    <3>1. \A j \in FinalsIn(q) : Cardinality(Upto(q, j)) # c + 1
      BY <1>5, <1>11
    <3>2. {j \in FinalsIn(p) : Cardinality(Upto(p, j)) = c + 1} = {n}
      BY <1>8, <1>10, <1>13, <2>2, <3>1
    <3>. QED  BY <1>1, <3>2 DEF TurnsAt
  <2>5. /\ Append(FinalTurns(q), r.turns) \in Seq(S) /\ Len(Append(FinalTurns(q), r.turns)) = c + 1
        /\ \A k \in 1..c : Append(FinalTurns(q), r.turns)[k] = FinalTurns(q)[k]
        /\ Append(FinalTurns(q), r.turns)[c + 1] = r.turns
    BY <1>4, <1>6, AppendProperties
  <2>6. \A k \in 1..(c + 1) : k \in 1..c \/ k = c + 1
    BY <1>5
  <2>7. \A k \in 1..(c + 1) : FinalTurns(p)[k] = Append(FinalTurns(q), r.turns)[k]
    BY <1>6, <1>7, <2>2, <2>3, <2>4, <2>5, <2>6
  <2>8. FinalTurns(p) = Append(FinalTurns(q), r.turns)
    BY <1>7, <2>2, <2>5, <2>7, SeqEqual
  <2>. QED  BY <1>13, <2>8 DEF p
<1>. QED  BY <1>12, <1>13

\* Taking a final takes the first of them, taking any other result changes nothing.
LEMMA FinalTurnsTaken ==
  ASSUME NEW q \in Seq(Results), q # <<>>
  PROVE  IF Head(q).kind = "final"
         THEN /\ FinalTurns(q) # <<>> /\ Head(FinalTurns(q)) = Head(q).turns
              /\ FinalTurns(Tail(q)) = Tail(FinalTurns(q))
         ELSE FinalTurns(Tail(q)) = FinalTurns(q)
<1>. DEFINE p == Tail(q)
            S == SUBSET (1..(MaxCuts + 1))
            c == Cardinality(FinalsIn(p))
            d == IF Head(q).kind = "final" THEN 1 ELSE 0
<1>1. /\ Len(q) \in Nat \ {0} /\ DOMAIN q = 1..Len(q) /\ Head(q) = q[1] /\ p \in Seq(Results)
      /\ DOMAIN p = 1..(Len(q) - 1) /\ \A i \in 1..(Len(q) - 1) : p[i] = q[i + 1]
  BY Taken
<1>2. Cardinality(FinalsIn(q)) = c + d /\ c \in Nat /\ d \in {0, 1}
  BY <1>1, FinalsTaken, FinalsFinite
<1>3. /\ FinalTurns(q) \in Seq(S) /\ Len(FinalTurns(q)) = c + d
      /\ \A k \in 1..(c + d) : FinalTurns(q)[k] = TurnsAt(q, k)
  BY <1>2, FinalsListed
<1>4. /\ FinalTurns(p) \in Seq(S) /\ Len(FinalTurns(p)) = c
      /\ \A k \in 1..c : FinalTurns(p)[k] = TurnsAt(p, k)
  BY <1>1, FinalsListed
<1>. HIDE DEF p, S, c
<1>5. 1 \in FinalsIn(q) <=> d = 1
  BY <1>1 DEF FinalsIn
<1>. HIDE DEF d
<1>6. \A i \in Nat : i \in FinalsIn(p) <=> i # 0 /\ i + 1 \in FinalsIn(q)
  <2>1. \A i \in Nat : i \in 1..(Len(q) - 1) <=> i # 0 /\ i + 1 \in 1..Len(q)
    BY <1>1
  <2>. QED  BY <1>1, <2>1 DEF FinalsIn
<1>7. \A j \in FinalsIn(q) : j \in Nat \ {0} /\ (j = 1 \/ (j - 1 \in FinalsIn(p) /\ (j - 1) + 1 = j))
  <2>1. \A j \in FinalsIn(q) : j \in Nat \ {0}
    BY <1>1 DEF FinalsIn
  <2>2. \A j \in Nat \ {0} : j = 1 \/ (j - 1 \in Nat /\ j - 1 # 0 /\ (j - 1) + 1 = j)
    OBVIOUS
  <2>. QED  BY <1>6, <2>1, <2>2
<1>8. FinalsIn(p) \subseteq Nat \ {0} /\ \A i \in FinalsIn(p) : i + 1 \in FinalsIn(q) /\ p[i] = q[i + 1] /\ i + 1 # 1
  <2>1. FinalsIn(p) \subseteq Nat \ {0} /\ \A i \in FinalsIn(p) : p[i] = q[i + 1]
    BY <1>1 DEF FinalsIn
  <2>. QED  BY <1>6, <2>1
<1>9. ASSUME NEW i \in FinalsIn(p) PROVE Cardinality(Upto(q, i + 1)) = Cardinality(Upto(p, i)) + d
  <2>. DEFINE B == Upto(q, i + 1) \ {1}
  <2>1. IsFiniteSet(Upto(p, i)) /\ Cardinality(Upto(p, i)) \in Nat /\ Upto(p, i) \subseteq Nat /\ i \in Nat \ {0}
    <3>1. Cardinality(Upto(p, i)) \in 1..c /\ IsFiniteSet(Upto(p, i))
      BY <1>1, FinalsRanked DEF c
    <3>. QED  BY <1>2, <1>8, <3>1 DEF Upto
  <2>2. \A j \in Nat : j \in Upto(p, i) <=> j + 1 \in B
    <3>. SUFFICES ASSUME NEW j \in Nat PROVE j \in Upto(p, i) <=> j + 1 \in B
      OBVIOUS
    <3>1. (j <= i <=> j + 1 <= i + 1) /\ (j + 1 # 1 <=> j # 0)
      BY <2>1
    <3>. QED  BY <1>6, <3>1 DEF Upto
  <2>3. B \subseteq Nat \ {0}
    BY <1>7 DEF Upto
  <2>4. IsFiniteSet(B) /\ Cardinality(B) = Cardinality(Upto(p, i))
    BY <2>1, <2>2, <2>3, Shifted
  <2>5. 1 \in Upto(q, i + 1) <=> d = 1
    BY <1>5, <2>1 DEF Upto
  <2>6. 1 \notin B
    OBVIOUS
  <2>. HIDE DEF B
  <2>7. CASE d = 1
    <3>1. Upto(q, i + 1) = B \cup {1}
      BY <2>5, <2>7 DEF B
    <3>2. Cardinality(B \cup {1}) = Cardinality(B) + 1
      BY <2>4, <2>6, FS_AddElement
    <3>. QED  BY <2>4, <2>7, <3>1, <3>2
  <2>8. CASE d = 0
    <3>1. Upto(q, i + 1) = B
      BY <2>5, <2>8 DEF B
    <3>. QED  BY <2>1, <2>4, <2>8, <3>1
  <2>. QED  BY <1>2, <2>7, <2>8
<1>10. \A i \in FinalsIn(p) : Cardinality(Upto(p, i)) \in 1..c
  BY <1>1, FinalsRanked DEF c
<1>11. ASSUME d = 1 PROVE Cardinality(Upto(q, 1)) = 1
  <2>1. Upto(q, 1) = {1}
    <3>1. \A j \in FinalsIn(q) : j <= 1 => j = 1
      BY <1>7
    <3>. QED  BY <1>5, <1>11, <3>1 DEF Upto
  <2>. QED  BY <2>1, FS_Singleton
<1>12. ASSUME NEW k \in 1..c PROVE TurnsAt(q, k + d) = TurnsAt(p, k)
  <2>. DEFINE Q == {j \in FinalsIn(q) : Cardinality(Upto(q, j)) = k + d}
              P == {j \in FinalsIn(p) : Cardinality(Upto(p, j)) = k}
  <2>1. \A i \in P : i + 1 \in Q /\ p[i] = q[i + 1]
    BY <1>8, <1>9
  <2>2. ASSUME NEW j \in Q PROVE \E i \in P : p[i] = q[j]
    <3>1. j # 1
      <4>. SUFFICES ASSUME j = 1 PROVE FALSE
        OBVIOUS
      <4>1. d = 1
        BY <1>5
      <4>2. 1 = k + 1
        BY <1>11, <4>1
      <4>. QED  BY <1>2, <4>2
    <3>2. j - 1 \in FinalsIn(p) /\ (j - 1) + 1 = j
      BY <1>7, <3>1
    <3>3. Cardinality(Upto(p, j - 1)) + d = k + d
      BY <1>9, <3>2
    <3>4. Cardinality(Upto(p, j - 1)) \in 1..c
      BY <1>10, <3>2
    <3>5. Cardinality(Upto(p, j - 1)) = k
      BY <1>2, <3>3, <3>4
    <3>. QED  BY <1>8, <3>2, <3>5
  <2>3. TurnsAt(q, k + d) = UNION {q[i].turns : i \in Q} /\ TurnsAt(p, k) = UNION {p[i].turns : i \in P}
    BY DEF TurnsAt
  <2>. HIDE DEF P, Q
  <2>. QED  BY <2>1, <2>2, <2>3
<1>13. CASE d = 0
  <2>1. FinalTurns(p) = FinalTurns(q)
    BY <1>2, <1>3, <1>4, <1>12, <1>13, SeqEqual
  <2>. QED  BY <1>13, <2>1 DEF p, d
<1>14. CASE d = 1
  <2>1. TurnsAt(q, 1) = q[1].turns
    <3>1. ASSUME NEW j \in FinalsIn(q), Cardinality(Upto(q, j)) = 1 PROVE j = 1
      <4>. SUFFICES ASSUME j # 1 PROVE FALSE
        OBVIOUS
      <4>1. j - 1 \in FinalsIn(p) /\ (j - 1) + 1 = j
        BY <1>7
      <4>2. Cardinality(Upto(p, j - 1)) + 1 = 1 /\ Cardinality(Upto(p, j - 1)) \in 1..c
        BY <1>9, <1>10, <1>14, <3>1, <4>1
      <4>. QED  BY <1>2, <4>2
    <3>2. {j \in FinalsIn(q) : Cardinality(Upto(q, j)) = 1} = {1}
      BY <1>5, <1>11, <1>14, <3>1
    <3>. QED  BY <3>2 DEF TurnsAt
  <2>2. FinalTurns(q) # <<>> /\ Len(FinalTurns(q)) # 0
    BY <1>2, <1>3, <1>14
  <2>3. /\ Head(FinalTurns(q)) = FinalTurns(q)[1] /\ Tail(FinalTurns(q)) \in Seq(S)
        /\ Len(Tail(FinalTurns(q))) = c
        /\ \A k \in 1..c : Tail(FinalTurns(q))[k] = FinalTurns(q)[k + 1]
    <3>1. Head(FinalTurns(q)) = FinalTurns(q)[1] /\ Tail(FinalTurns(q)) \in Seq(S)
          /\ Len(Tail(FinalTurns(q))) = Len(FinalTurns(q)) - 1
          /\ \A k \in 1..Len(Tail(FinalTurns(q))) : Tail(FinalTurns(q))[k] = FinalTurns(q)[k + 1]
      BY <1>3, <2>2, HeadTailProperties
    <3>. QED  BY <1>2, <1>3, <1>14, <3>1
  <2>4. 1 \in 1..(c + d) /\ \A k \in 1..c : k + 1 \in 1..(c + d)
    BY <1>2, <1>14
  <2>5. Head(FinalTurns(q)) = Head(q).turns
    BY <1>1, <1>3, <2>1, <2>3, <2>4
  <2>6. \A k \in 1..c : FinalTurns(p)[k] = Tail(FinalTurns(q))[k]
    BY <1>3, <1>4, <1>12, <1>14, <2>3, <2>4
  <2>7. FinalTurns(p) = Tail(FinalTurns(q))
    BY <1>4, <2>3, <2>6, SeqEqual
  <2>. QED  BY <1>14, <2>2, <2>5, <2>7 DEF p, d
<1>. QED  BY <1>2, <1>13, <1>14

\* No result, no final.
LEMMA NoFinals == FinalTurns(<<>>) = <<>>
<1>1. <<>> \in Seq(Results) /\ FinalsIn(<<>>) = {}
  BY DEF FinalsIn
<1>2. FinalTurns(<<>>) \in Seq(SUBSET (1..(MaxCuts + 1))) /\ Len(FinalTurns(<<>>)) = 0
  BY <1>1, FinalsListed, FS_EmptySet
<1>. QED  BY <1>2, EmptySeq

\* Turns d + 1 to c, and which of them have speech.
Row(d, c, sp) == [i \in 1..(c - d) |-> [turn |-> d + i, speech |-> d + i \in sp]]

\* Such a row is a sequence.
LEMMA RowListed ==
  ASSUME NEW c \in Nat, NEW d \in 0..c, NEW sp
  PROVE  /\ Row(d, c, sp) \in Seq([turn : Nat, speech : BOOLEAN]) /\ Len(Row(d, c, sp)) = c - d
         /\ DOMAIN Row(d, c, sp) = 1..(c - d)
         /\ \A i \in 1..(c - d) : Row(d, c, sp)[i] = [turn |-> d + i, speech |-> d + i \in sp]
         /\ c - d \in Nat /\ d \in Nat
<1>1. c - d \in Nat /\ d \in Nat /\ \A i \in 1..(c - d) : d + i \in Nat
  OBVIOUS
<1>. DEFINE n == c - d
            Entry(i) == [turn |-> d + i, speech |-> d + i \in sp]
<1>2. \A i \in 1..n : Entry(i) \in [turn : Nat, speech : BOOLEAN]
  BY <1>1
<1>3. Row(d, c, sp) = [i \in 1..n |-> Entry(i)]
  BY DEF Row
<1>. HIDE DEF n, Entry
<1>4. n \in Nat
  BY <1>1 DEF n
<1>5. /\ [i \in 1..n |-> Entry(i)] \in Seq([turn : Nat, speech : BOOLEAN])
      /\ Len([i \in 1..n |-> Entry(i)]) = n
  BY <1>2, <1>4
<1>. QED  BY <1>1, <1>3, <1>5 DEF n, Entry

\* What is undecided is such a row.
LEMMA RowOf ==
  ASSUME NEW c \in Nat, NEW d \in 0..c, NEW U, U = (d + 1)..c, NEW sp
  PROVE  [i \in 1..Cardinality(U) |-> LET t == c - Cardinality(U) + i
                                      IN [turn |-> t, speech |-> t \in sp]] = Row(d, c, sp)
<1>1. Cardinality(U) = c - d
  <2>1. Cardinality((d + 1)..c) = IF d + 1 > c THEN 0 ELSE c - (d + 1) + 1
    BY FS_Interval
  <2>. QED  BY <2>1
<1>2. \A i \in 1..(c - d) : c - (c - d) + i = d + i
  OBVIOUS
<1>. QED  BY <1>1, <1>2 DEF Row

\* A turn more.
RowGrew(d, c, sp, new) ==
  Row(d, c + 1, new) = Append(Row(d, c, sp), [turn |-> c + 1, speech |-> c + 1 \in new])
LEMMA RowGrows ==
  ASSUME NEW c \in Nat, NEW d \in 0..c, NEW sp, NEW new,
         \A t \in (d + 1)..c : t \in new <=> t \in sp
  PROVE  RowGrew(d, c, sp, new)
<1>. DEFINE R == [turn : Nat, speech : BOOLEAN]
            e == [turn |-> c + 1, speech |-> c + 1 \in new]
            n == c - d
<1>1. c + 1 \in Nat /\ d \in 0..(c + 1) /\ n \in Nat /\ d + (n + 1) = c + 1 /\ c + 1 - d = n + 1
      /\ \A i \in 1..n : d + i \in (d + 1)..c
  OBVIOUS
<1>2. /\ Row(d, c, sp) \in Seq(R) /\ Len(Row(d, c, sp)) = n
      /\ \A i \in 1..n : Row(d, c, sp)[i] = [turn |-> d + i, speech |-> d + i \in sp]
  BY RowListed
<1>3. /\ Row(d, c + 1, new) \in Seq(R) /\ Len(Row(d, c + 1, new)) = n + 1
      /\ \A i \in 1..(n + 1) : Row(d, c + 1, new)[i] = [turn |-> d + i, speech |-> d + i \in new]
  BY <1>1, RowListed
<1>4. e \in R
  BY <1>1
<1>. HIDE DEF R, e, n
<1>5. /\ Append(Row(d, c, sp), e) \in Seq(R) /\ Len(Append(Row(d, c, sp), e)) = n + 1
      /\ \A i \in 1..n : Append(Row(d, c, sp), e)[i] = Row(d, c, sp)[i]
      /\ Append(Row(d, c, sp), e)[n + 1] = e
  BY <1>2, <1>4, AppendProperties
<1>6. \A i \in 1..(n + 1) : i \in 1..n \/ i = n + 1
  BY <1>1
<1>7. \A i \in 1..n : d + i \in new <=> d + i \in sp
  BY <1>1
<1>8. \A i \in 1..(n + 1) : Row(d, c + 1, new)[i] = Append(Row(d, c, sp), e)[i]
  <2>1. \A i \in 1..n : [turn |-> d + i, speech |-> d + i \in new] = [turn |-> d + i, speech |-> d + i \in sp]
    BY <1>7
  <2>2. [turn |-> d + (n + 1), speech |-> d + (n + 1) \in new] = e
    BY <1>1 DEF e
  <2>3. \A i \in 1..n : i \in 1..(n + 1)
    BY <1>1
  <2>4. n + 1 \in 1..(n + 1)
    BY <1>1
  <2>5. \A i \in 1..n : Row(d, c + 1, new)[i] = Append(Row(d, c, sp), e)[i]
    BY <1>2, <1>3, <1>5, <2>1, <2>3
  <2>6. Row(d, c + 1, new)[n + 1] = Append(Row(d, c, sp), e)[n + 1]
    BY <1>3, <1>5, <2>2, <2>4
  <2>. QED  BY <1>6, <2>5, <2>6
<1>9. Row(d, c + 1, new) = Append(Row(d, c, sp), e)
  BY <1>3, <1>5, <1>8, SeqEqual
<1>. QED  BY <1>9 DEF e, RowGrew

\* Turns d + 1 to e less.
RowLost(d, e, c, sp, new) ==
  /\ SubSeq(Row(d, c, sp), (e - d) + 1, Len(Row(d, c, sp))) = Row(e, c, new)
  /\ {Row(d, c, sp)[i].turn : i \in 1..(e - d)} = (d + 1)..e
  /\ e - d \in 0..Len(Row(d, c, sp))
LEMMA RowLoses ==
  ASSUME NEW c \in Nat, NEW d \in 0..c, NEW e \in d..c, NEW sp, NEW new,
         \A t \in (e + 1)..c : t \in new <=> t \in sp
  PROVE  RowLost(d, e, c, sp, new)
<1>. DEFINE k == e - d
            n == c - e
<1>1. /\ k \in Nat /\ n \in Nat /\ c - d = k + n /\ d \in Nat /\ e \in 0..c /\ d + k = e
      /\ \A i \in 1..n : k + i \in 1..(k + n) /\ e + i \in (e + 1)..c /\ d + (k + i) = e + i
      /\ \A i \in 1..k : i \in 1..(k + n)
  OBVIOUS
<1>2. /\ Len(Row(d, c, sp)) = k + n
      /\ \A i \in 1..(k + n) : Row(d, c, sp)[i] = [turn |-> d + i, speech |-> d + i \in sp]
      /\ Row(d, c, sp) \in Seq([turn : Nat, speech : BOOLEAN])
  BY <1>1, RowListed
<1>3. Row(e, c, new) = [i \in 1..n |-> [turn |-> e + i, speech |-> e + i \in new]]
  BY DEF Row
<1>. HIDE DEF k, n
<1>4. SubSeq(Row(d, c, sp), k + 1, k + n) = [i \in 1..n |-> Row(d, c, sp)[k + i]]
  <2>1. (k + n) - (k + 1) + 1 = n /\ \A i \in 1..n : (k + 1) + i - 1 = k + i
    BY <1>1
  <2>. QED  BY <1>1, <1>2, <2>1
<1>5. \A i \in 1..n : Row(d, c, sp)[k + i] = [turn |-> e + i, speech |-> e + i \in new]
  <2>. SUFFICES ASSUME NEW i \in 1..n
                PROVE  Row(d, c, sp)[k + i] = [turn |-> e + i, speech |-> e + i \in new]
    OBVIOUS
  <2>1. Row(d, c, sp)[k + i] = [turn |-> d + (k + i), speech |-> d + (k + i) \in sp]
    BY <1>1, <1>2
  <2>2. e + i \in new <=> e + i \in sp
    BY <1>1
  <2>. QED  BY <1>1, <2>1, <2>2
<1>6. [i \in 1..n |-> Row(d, c, sp)[k + i]] = Row(e, c, new)
  BY <1>3, <1>5
<1>7. {Row(d, c, sp)[i].turn : i \in 1..k} = (d + 1)..e
  <2>1. \A i \in 1..k : Row(d, c, sp)[i].turn = d + i
    <3>. SUFFICES ASSUME NEW i \in 1..k PROVE Row(d, c, sp)[i].turn = d + i
      OBVIOUS
    <3>1. Row(d, c, sp)[i] = [turn |-> d + i, speech |-> d + i \in sp]
      BY <1>1, <1>2
    <3>2. \A x, y : [turn |-> x, speech |-> y].turn = x
      OBVIOUS
    <3>. QED  BY <3>1, <3>2, Zenon
  <2>2. \A t \in (d + 1)..e : t - d \in 1..k /\ d + (t - d) = t
    BY <1>1
  <2>3. \A i \in 1..k : d + i \in (d + 1)..e
    BY <1>1
  <2>. QED  BY <2>1, <2>2, <2>3
<1>8. k \in 0..(k + n)
  BY <1>1
<1>. QED  BY <1>2, <1>4, <1>6, <1>7, <1>8 DEF k, RowLost

-----------------------------------------------------------------------------
(* The decode worker implements the transcriber.                           *)

\* The turns that are not decided yet are those after d: up to e they are in the worker's hands, the
\* others are queued, one final each and in order.
InRow(d, e) == /\ d <= e /\ e <= cuts
               /\ Decoded = (d + 1)..e /\ TurnsOf(jobs) = (e + 1)..cuts
               /\ Busy => d < e
TurnsInRow == \E d, e \in Nat : InRow(d, e)

\* A step of the transcriber that its promise allows, or one that the session cannot see.
Promised == [T!Transcribes \/ T!Handled]_T!transcriberVars

\* What is undecided, as the session sees it.
LEMMA OpenIsRow ==
  ASSUME NEW d \in Nat, NEW e \in Nat, cuts \in Nat, InRow(d, e)
  PROVE  OpenTurns = Row(d, cuts, SpeechOf(jobs) \cup work.speech) /\ d \in 0..cuts
<1>1. d \in 0..cuts
  BY DEF InRow
<1>2. Undecided = (d + 1)..cuts
  <2>1. (d + 1)..cuts = ((e + 1)..cuts) \cup ((d + 1)..e)
    BY DEF InRow
  <2>. QED  BY <2>1 DEF InRow, Undecided
<1>. DEFINE U  == Undecided
            c  == cuts
            sp == (SpeechOf(jobs) \cup work.speech)
<1>3. c \in Nat /\ d \in 0..c /\ U = (d + 1)..c
  BY <1>1, <1>2
<1>4. OpenTurns = [i \in 1..Cardinality(U) |-> LET t == c - Cardinality(U) + i
                                              IN [turn |-> t, speech |-> t \in sp]]
  BY DEF OpenTurns
<1>. HIDE DEF U, c, sp
<1>5. OpenTurns = Row(d, c, sp)
  BY <1>3, <1>4, RowOf
<1>. QED  BY <1>1, <1>5 DEF c, sp

\* The same after a step.
LEMMA OpenIsRowNext ==
  ASSUME NEW d \in Nat, NEW e \in Nat, cuts' \in Nat, InRow(d, e)'
  PROVE  OpenTurns' = Row(d, cuts', (SpeechOf(jobs) \cup work.speech)')
<1>1. d \in 0..cuts'
  BY DEF InRow
<1>2. Undecided' = (d + 1)..cuts'
  <2>1. (d + 1)..cuts' = ((e + 1)..cuts') \cup ((d + 1)..e)
    BY DEF InRow
  <2>. QED  BY <2>1 DEF InRow, Undecided
<1>. DEFINE U  == Undecided'
            c  == cuts'
            sp == (SpeechOf(jobs) \cup work.speech)'
<1>3. c \in Nat /\ d \in 0..c /\ U = (d + 1)..c
  BY <1>1, <1>2
<1>4. OpenTurns' = [i \in 1..Cardinality(U) |-> LET t == c - Cardinality(U) + i
                                              IN [turn |-> t, speech |-> t \in sp]]
  BY DEF OpenTurns
<1>. HIDE DEF U, c, sp
<1>5. OpenTurns' = Row(d, c, sp)
  BY <1>3, <1>4, RowOf
<1>. QED  BY <1>1, <1>5 DEF c, sp

\* A step the session cannot see.
LEMMA Unseen ==
  ASSUME Undecided' = Undecided, (SpeechOf(jobs) \cup work.speech)' = SpeechOf(jobs) \cup work.speech,
         FinalTurns(results)' = FinalTurns(results), UNCHANGED <<cuts, inHand, drain>>,
         (teardown = "closed")' = (teardown = "closed")
  PROVE  Promised
<1>1. OpenTurns' = OpenTurns
  BY DEF OpenTurns
<1>. QED  BY <1>1 DEF Promised, T!transcriberVars

\* A step that leaves the turns where they are.
LEMMA RowKept ==
  ASSUME TurnsInRow, Decoded' = Decoded, TurnsOf(jobs)' = TurnsOf(jobs), cuts' = cuts, Busy' => Busy
  PROVE  TurnsInRow'
BY DEF TurnsInRow, InRow

\* The decode of a final is over: its turns are decided.
LEMMA SettleDecides ==
  ASSUME DecodeInv, TurnsInRow, Busy, NEW text, Settle(text),
         UNCHANGED <<intakeVars, jobs, pumpVars, teardown>>
  PROVE  TurnsInRow' /\ Promised
<1>0. /\ results \in Seq(Results) /\ cuts \in Nat /\ work \in Works /\ Listening
      /\ work.speech \subseteq work.turns /\ Decoded = work.turns /\ jobs \in Seq(Jobs)
  BY DecodeAssumption DEF DecodeInv, DecodeSafe, DecodeTypeOK, Works, WorkShape, Busy, Decoded
<1>1. PICK d, e \in Nat : InRow(d, e)
  BY DEF TurnsInRow
<1>2. /\ cuts' = cuts /\ jobs' = jobs /\ inHand' = inHand /\ drain' = drain /\ teardown' = teardown
      /\ work'.at = "idle" /\ work'.turns = {} /\ work'.speech = {}
  BY IdleWorks DEF Settle, intakeVars, pumpVars
<1>3. TurnsOf(jobs)' = TurnsOf(jobs) /\ SpeechOf(jobs)' = SpeechOf(jobs)
  BY <1>2 DEF TurnsOf, SpeechOf, FinalsIn
<1>4. InRow(e, e)'
  <2>1. (e + 1)..e = {}
    OBVIOUS
  <2>2. Decoded' = {} /\ ~Busy'
    BY <1>2 DEF Decoded, Busy
  <2>. QED  BY <1>1, <1>2, <1>3, <2>1, <2>2 DEF InRow
<1>. DEFINE sp == SpeechOf(jobs) \cup work.speech
            k  == e - d
<1>5. /\ d \in 0..cuts /\ e \in d..cuts /\ d < e /\ work.turns = (d + 1)..e
      /\ TurnsOf(jobs) = (e + 1)..cuts
  BY <1>0, <1>1 DEF InRow
<1>6. OpenTurns = Row(d, cuts, sp) /\ OpenTurns' = Row(e, cuts, SpeechOf(jobs))
  <2>1. OpenTurns' = Row(e, cuts', (SpeechOf(jobs) \cup work.speech)')
    BY <1>0, <1>2, <1>4, OpenIsRowNext
  <2>2. (SpeechOf(jobs) \cup work.speech)' = SpeechOf(jobs)
    BY <1>2, <1>3
  <2>. QED  BY <1>0, <1>1, <1>2, <2>1, <2>2, OpenIsRow
<1>7. \A t \in (e + 1)..cuts : t \in SpeechOf(jobs) <=> t \in sp
  <2>1. \A t \in (e + 1)..cuts : t \notin (d + 1)..e
    BY <1>5
  <2>. QED  BY <1>0, <1>5, <2>1
<1>. HIDE DEF sp
<1>8. /\ SubSeq(OpenTurns, k + 1, Len(OpenTurns)) = OpenTurns'
      /\ {OpenTurns[i].turn : i \in 1..k} = work.turns
      /\ k \in 1..Len(OpenTurns)
  <2>1. RowLost(d, e, cuts, sp, SpeechOf(jobs))
    BY <1>0, <1>5, <1>7, RowLoses
  <2>2. e - d \in 1..Len(Row(d, cuts, sp))
    <3>1. Len(Row(d, cuts, sp)) \in Nat
      BY <1>0, <1>5, RowListed
    <3>. QED  BY <1>5, <2>1, <3>1 DEF RowLost
  <2>. QED  BY <1>5, <1>6, <2>1, <2>2 DEF RowLost
<1>9. FinalTurns(results)' \in {FinalTurns(results), Append(FinalTurns(results), work.turns)}
  <2>. DEFINE new == [kind |-> "final", turns |-> work.turns]
  <2>1. results' \in {results, Append(results, new)}
    BY DEF Settle
  <2>2. new \in Results /\ new.kind = "final" /\ new.turns = work.turns
    BY <1>0, WorkFacts DEF Results
  <2>3. FinalTurns(results)' = FinalTurns(results')
    BY DEF FinalTurns, Upto, FinalsIn
  <2>. HIDE DEF new
  <2>4. FinalTurns(Append(results, new)) = Append(FinalTurns(results), work.turns)
    BY <1>0, <2>2, FinalTurnsAppended
  <2>. QED  BY <2>1, <2>3, <2>4
<1>. HIDE DEF k
<1>10. T!Decide
  <2>1. ~(teardown = "closed") /\ (teardown' = "closed") = (teardown = "closed")
    BY <1>0, <1>2 DEF Listening
  <2>2. /\ OpenTurns' = SubSeq(OpenTurns, k + 1, Len(OpenTurns))
        /\ FinalTurns(results)' \in
             {FinalTurns(results), Append(FinalTurns(results), {OpenTurns[i].turn : i \in 1..k})}
    BY <1>8, <1>9
  <2>3. UNCHANGED <<cuts, IF inHand.kind = "final" THEN inHand.turns ELSE {}, teardown = "closed", drain>>
    BY <1>2, <2>1
  <2>. QED  BY <1>8, <2>1, <2>2, <2>3 DEF T!Decide
<1>. QED  BY <1>4, <1>10 DEF TurnsInRow, Promised, T!Transcribes

\* A turn closes.
LEMMA ClosesCut ==
  ASSUME DecodeInv, TurnsInRow, Listening, cuts <= MaxCuts,
         NEW head \in BOOLEAN, NEW tail \in BOOLEAN, CloseTurn(head, tail), teardown' \in {"live", "flush"}
  PROVE  TurnsInRow' /\ Promised
<1>. DEFINE turnEnd == [kind |-> "final", turn |-> cuts + 1, speech |-> head]
            sp  == SpeechOf(jobs) \cup work.speech
            new == SpeechOf(jobs') \cup work.speech
<1>0. /\ cuts \in Nat /\ jobs \in Seq(Jobs) /\ MaxCuts \in Nat /\ work.speech \subseteq work.turns
      /\ (Busy => Decoded = work.turns) /\ (~Busy => work.speech = {})
  BY DecodeAssumption DEF DecodeInv, DecodeSafe, DecodeTypeOK, WorkShape, Decoded, Busy
<1>1. PICK d, e \in Nat : InRow(d, e)
  BY DEF TurnsInRow
<1>2. /\ cuts' = cuts + 1 /\ jobs' = Append(jobs, turnEnd) /\ work' = work /\ results' = results
      /\ inHand' = inHand /\ drain' = drain
  BY DEF CloseTurn, pumpVars
<1>3. turnEnd \in Jobs /\ turnEnd.kind = "final" /\ turnEnd.turn = cuts + 1 /\ turnEnd.speech = head
  BY <1>0 DEF Jobs
<1>. HIDE DEF turnEnd
<1>4. /\ TurnsOf(jobs') = TurnsOf(jobs) \cup {cuts + 1}
      /\ SpeechOf(jobs') = SpeechOf(jobs) \cup (IF head THEN {cuts + 1} ELSE {})
  BY <1>0, <1>2, <1>3, TurnsAppended
<1>5. TurnsOf(jobs)' = TurnsOf(jobs') /\ SpeechOf(jobs)' = SpeechOf(jobs') /\ Decoded' = Decoded /\ Busy' = Busy
      /\ FinalTurns(results)' = FinalTurns(results)
  BY <1>2 DEF TurnsOf, SpeechOf, FinalsIn, Decoded, Busy, FinalTurns, Upto
<1>6. InRow(d, e)'
  <2>1. e <= cuts + 1 /\ (e + 1)..(cuts + 1) = ((e + 1)..cuts) \cup {cuts + 1}
    BY <1>0, <1>1 DEF InRow
  <2>. QED  BY <1>1, <1>2, <1>4, <1>5, <2>1 DEF InRow
<1>7. OpenTurns = Row(d, cuts, sp) /\ OpenTurns' = Row(d, cuts + 1, new) /\ d \in 0..cuts
  <2>1. cuts' \in Nat
    BY <1>0, <1>2
  <2>2. OpenTurns' = Row(d, cuts', (SpeechOf(jobs) \cup work.speech)')
    BY <1>6, <2>1, OpenIsRowNext
  <2>. QED  BY <1>0, <1>1, <1>2, <1>5, <2>2, OpenIsRow
<1>8. \A t \in (d + 1)..cuts : t \in new <=> t \in sp
  <2>1. \A t \in (d + 1)..cuts : t # cuts + 1
    BY <1>0
  <2>. QED  BY <1>4, <2>1
<1>9. cuts + 1 \in new <=> head
  <2>1. cuts + 1 \notin (e + 1)..cuts /\ cuts + 1 \notin (d + 1)..e
    BY <1>0, <1>1 DEF InRow
  <2>2. cuts + 1 \notin SpeechOf(jobs)
    BY <1>0, <1>1, <2>1, TurnsTyped DEF InRow
  <2>3. cuts + 1 \notin work.speech
    BY <1>0, <1>1, <2>1 DEF InRow
  <2>. QED  BY <1>4, <2>2, <2>3
<1>. HIDE DEF sp, new
<1>10. OpenTurns' = Append(OpenTurns, [turn |-> cuts + 1, speech |-> head])
  <2>1. RowGrew(d, cuts, sp, new)
    <3>1. cuts \in Nat /\ d \in 0..cuts
      BY <1>0, <1>7
    <3>. QED  BY <1>8, <3>1, RowGrows
  <2>2. (cuts + 1 \in new) = head
    BY <1>9
  <2>. QED  BY <1>7, <2>1, <2>2 DEF RowGrew
<1>11. cuts < MaxCuts + 1 /\ T!Cut(head)
  <2>1. ~(teardown = "closed") /\ (teardown' = "closed") = (teardown = "closed")
    BY DEF Listening
  <2>2. UNCHANGED <<FinalTurns(results), IF inHand.kind = "final" THEN inHand.turns ELSE {}, teardown = "closed", drain>>
    BY <1>2, <1>5, <2>1
  <2>. QED  BY <1>0, <1>2, <1>10, <2>1, <2>2 DEF T!Cut
<1>12. T!Transcribes
  BY <1>11 DEF T!Transcribes
<1>. QED  BY <1>6, <1>12 DEF TurnsInRow, Promised

\* A row of turns is cut in two: the lower part is a row, and so is the upper one.
SplitAt(d, e, c, A, B) == d < e /\ e <= c /\ A = (d + 1)..e /\ B = (e + 1)..c
LEMMA RowSplit ==
  ASSUME NEW d \in Nat, NEW c \in Nat, d <= c, NEW A, A # {}, NEW B,
         (d + 1)..c = A \cup B, \A t \in A : \A u \in B : t < u
  PROVE  \E e \in Nat : SplitAt(d, e, c, A, B)
<1>. USE DEF SplitAt
<1>0. A \subseteq Nat /\ B \subseteq Nat /\ (\A t \in A : d < t /\ t <= c) /\ \A t \in B : d < t /\ t <= c
  <2>1. \A t \in (d + 1)..c : t \in Nat /\ d < t /\ t <= c
    OBVIOUS
  <2>. QED  BY <2>1
<1>1. PICK a : a \in A
  OBVIOUS
<1>2. CASE B = {}
  <2>1. A = (d + 1)..c
    BY <1>2
  <2>2. (c + 1)..c = {} /\ d < c
    <3>1. a \in Nat /\ d < a /\ a <= c
      BY <1>0, <1>1
    <3>. QED  BY <3>1
  <2>. QED  BY <1>2, <2>1, <2>2
<1>3. CASE B # {}
  <2>1. PICK m \in B : \A y \in B : m <= y
    BY <1>0, <1>3, Least
  <2>. DEFINE e == m - 1
  <2>2. e \in Nat /\ m = e + 1 /\ d < a /\ a < m /\ m <= c /\ d < e /\ e <= c /\ a \in Nat /\ m \in Nat
    BY <1>0, <1>1, <2>1
  <2>. HIDE DEF e
  <2>3. \A t : t \in (d + 1)..e <=> t \in (d + 1)..c /\ t < m
    BY <2>2
  <2>4. \A t : t \in m..c <=> t \in (d + 1)..c /\ m <= t
    BY <2>2
  <2>5. \A t : t \in A <=> t \in (d + 1)..c /\ t < m
    <3>1. \A t \in B : ~(t < m)
      BY <1>0, <2>1, <2>2
    <3>. QED  BY <2>1, <3>1
  <2>6. \A t : t \in B <=> t \in (d + 1)..c /\ m <= t
    <3>1. \A t \in A : ~(m <= t)
      <4>1. \A t \in A : t \in Nat /\ t < m
        BY <1>0, <2>1
      <4>. QED  BY <2>2, <4>1
    <3>. QED  BY <2>1, <3>1
  <2>7. A = (d + 1)..e /\ B = m..c
    BY <2>3, <2>4, <2>5, <2>6
  <2>. QED  BY <2>2, <2>7
<1>. QED  BY <1>2, <1>3

\* The worker takes jobs: what is undecided stays undecided.
LEMMA TakesUnseen ==
  ASSUME DecodeInv, TurnsInRow, TakeFinal \/ TakePartial PROVE TurnsInRow' /\ Promised
<1>0. /\ work \in Works /\ jobs \in Seq(Jobs) /\ cuts \in Nat /\ partialPending \in BOOLEAN /\ CaptionsInOrder
      /\ MaxCuts \in Nat
  BY DecodeAssumption DEF DecodeInv, DecodeSafe, DecodeTypeOK, Works
<1>1. /\ UNCHANGED <<cuts, results, inHand, drain, teardown>>
      /\ work.at = "idle" /\ work.turns = {} /\ work.speech = {} /\ jobs # <<>> /\ Decoded = {} /\ ~Busy
  BY DEF TakeFinal, TakePartial, intakeVars, pumpVars, DecodeInv, WorkShape, Busy, Decoded
<1>2. PICK n \in 1..Len(jobs) :
        /\ jobs' = SubSeq(jobs, n + 1, Len(jobs)) /\ partialPending' \in BOOLEAN
        /\ \/ /\ Head(jobs).kind = "final"
              /\ work' = [at |-> "decode", turns |-> TurnsOf(SubSeq(jobs, 1, n)),
                          speech |-> SpeechOf(SubSeq(jobs, 1, n)), first |-> TRUE]
           \/ n = 1 /\ Head(jobs).kind = "partial" /\ work' = work
           \/ /\ n = 1 /\ Head(jobs).kind = "partial"
              /\ work' = [Idle EXCEPT !.at = "partial", !.turns = {Head(jobs).turn}]
  BY <1>0, <1>1, WorkTaken
<1>. DEFINE A  == TurnsOf(SubSeq(jobs, 1, n))
            SA == SpeechOf(SubSeq(jobs, 1, n))
            B  == TurnsOf(jobs')
            SB == SpeechOf(jobs')
<1>3. /\ DOMAIN jobs' = 1..(Len(jobs) - n) /\ \A i \in 1..(Len(jobs) - n) : jobs'[i] = jobs[n + i]
      /\ Len(jobs) \in Nat /\ DOMAIN jobs = 1..Len(jobs) /\ n \in Nat
      /\ SubSeq(jobs, 1, n) \in Seq(Jobs)
  <2>. DEFINE taken == SubSeq(jobs, 1, n)
              rest  == SubSeq(jobs, n + 1, Len(jobs))
  <2>1. /\ taken \in Seq(Jobs) /\ DOMAIN rest = 1..(Len(jobs) - n)
        /\ \A i \in 1..(Len(jobs) - n) : rest[i] = jobs[n + i]
        /\ Len(jobs) \in Nat /\ DOMAIN jobs = 1..Len(jobs) /\ jobs' = rest
    BY <1>0, <1>2, Split
  <2>2. n \in Nat
    BY <2>1
  <2>. HIDE DEF rest
  <2>. QED  BY <2>1, <2>2 DEF taken
<1>4. /\ \A t : t \in A <=> \E i \in 1..n : jobs[i].kind = "final" /\ t = jobs[i].turn
      /\ \A t : t \in TurnsOf(jobs) <=> t \in A \/ t \in B
      /\ SpeechOf(jobs) = SA \cup SB /\ SA \subseteq A
  BY <1>0, <1>2, <1>3, TurnsSplit, TurnsTyped
<1>5. Head(jobs) = jobs[1] /\ 1 \in 1..n
  BY <1>0, <1>1, <1>3, Taken
<1>6. FinalTurns(results)' = FinalTurns(results) /\ TurnsOf(jobs)' = B /\ SpeechOf(jobs)' = SB
  BY <1>1 DEF FinalTurns, Upto, FinalsIn, TurnsOf, SpeechOf
<1>7. \A t : t \in B => \E i \in 1..(Len(jobs) - n) : jobs[n + i].kind = "final" /\ t = jobs[n + i].turn
  BY <1>3 DEF TurnsOf, FinalsIn
<1>. HIDE DEF A, SA, B, SB
<1>8. CASE Head(jobs).kind = "final"
  <2>1. work'.at = "decode" /\ work'.turns = A /\ work'.speech = SA
    BY <1>2, <1>8 DEF A, SA
  <2>2. Decoded' = A /\ Busy'
    BY <2>1 DEF Decoded, Busy
  <2>3. A # {}
    BY <1>4, <1>5, <1>8
  <2>4. \A t \in A : \A u \in B : t < u
    <3>. SUFFICES ASSUME NEW t \in A, NEW u \in B PROVE t < u
      OBVIOUS
    <3>a. PICK i \in 1..n : jobs[i].kind = "final" /\ t = jobs[i].turn
      BY <1>4
    <3>b. PICK k \in 1..(Len(jobs) - n) : jobs[n + k].kind = "final" /\ u = jobs[n + k].turn
      BY <1>7
    <3>1. i \in DOMAIN jobs /\ n + k \in DOMAIN jobs /\ i < n + k
      BY <1>3
    <3>2. Before(Item(jobs[i]), Item(jobs[n + k]))
      BY <1>0, <3>1 DEF CaptionsInOrder
    <3>. QED  BY <3>a, <3>b, <3>2 DEF Before, Item
  <2>5. PICK d, e \in Nat : InRow(d, e)
    BY DEF TurnsInRow
  <2>6. d = e
    <3>1. d + 1 \notin (d + 1)..e
      BY <1>1, <2>5 DEF InRow
    <3>. QED  BY <2>5, <3>1 DEF InRow
  <2>7. PICK f \in Nat : d < f /\ f <= cuts /\ A = (d + 1)..f /\ B = (f + 1)..cuts
    <3>1. d <= cuts /\ \A t : t \in (d + 1)..cuts <=> t \in A \/ t \in B
      BY <1>4, <2>5, <2>6 DEF InRow
    <3>2. \E f \in Nat : SplitAt(d, f, cuts, A, B)
      <4>1. cuts \in Nat /\ d \in Nat /\ d <= cuts
        BY <1>0, <3>1
      <4>2. (d + 1)..cuts = A \cup B
        BY <3>1
      <4>. QED  BY ONLY <2>3, <2>4, <4>1, <4>2, RowSplit
    <3>. QED  BY <3>2 DEF SplitAt
  <2>8. InRow(d, f)'
    BY <1>1, <1>6, <2>2, <2>7 DEF InRow
  <2>9. Undecided' = Undecided /\ (SpeechOf(jobs) \cup work.speech)' = SpeechOf(jobs) \cup work.speech
    BY <1>1, <1>4, <1>6, <2>1, <2>2 DEF Undecided
  <2>. QED  BY <1>1, <1>6, <2>8, <2>9, Unseen DEF TurnsInRow
<1>9. CASE Head(jobs).kind # "final"
  <2>1. work'.at \in {"idle", "partial"} /\ work'.speech = {} /\ n = 1 /\ (work'.at = "idle" => work'.turns = {})
    BY <1>1, <1>2, <1>9, IdleWorks DEF Idle
  <2>2. Decoded' = {} /\ ~Busy'
    BY <2>1 DEF Decoded, Busy
  <2>3. A = {} /\ SA = {}
    BY <1>4, <1>5, <1>9, <2>1
  <2>4. TurnsOf(jobs)' = TurnsOf(jobs) /\ SpeechOf(jobs)' = SpeechOf(jobs)
    BY <1>4, <1>6, <2>3
  <2>5. Undecided' = Undecided /\ (SpeechOf(jobs) \cup work.speech)' = SpeechOf(jobs) \cup work.speech
    BY <1>1, <2>1, <2>2, <2>4 DEF Undecided
  <2>. QED  BY <1>1, <1>6, <2>2, <2>4, <2>5, Unseen, RowKept
<1>. QED  BY <1>8, <1>9

\* The worker's partial is decoded, and its answers that settle nothing.
LEMMA WorkerPromises == ASSUME DecodeInv, TurnsInRow, Worker PROVE TurnsInRow' /\ Promised
<1>1. CASE TakeFinal \/ TakePartial
  BY <1>1, TakesUnseen
<1>2. CASE PartialDecoded
  <2>. DEFINE new == [kind |-> "partial", turns |-> work.turns]
  <2>0. /\ results \in Seq(Results) /\ work \in Works /\ work.speech = {} /\ Decoded = {}
    BY <1>2 DEF DecodeInv, DecodeSafe, DecodeTypeOK, WorkShape, Busy, Decoded, Works, PartialDecoded
  <2>1. /\ UNCHANGED <<cuts, jobs, inHand, drain, teardown>> /\ work' = Idle
        /\ results' \in {results, Append(results, new)}
    BY <1>2 DEF PartialDecoded, intakeVars, pumpVars
  <2>2. Decoded' = {} /\ ~Busy' /\ work'.speech = {}
    BY <2>1, IdleWorks DEF Decoded, Busy
  <2>3. new \in Results /\ new.kind # "final"
    BY <2>0, WorkFacts DEF Results
  <2>. HIDE DEF new
  <2>4. FinalTurns(results') = FinalTurns(results)
    BY <2>0, <2>1, <2>3, FinalTurnsAppended
  <2>5. FinalTurns(results)' = FinalTurns(results')
    BY DEF FinalTurns, Upto, FinalsIn
  <2>6. TurnsOf(jobs)' = TurnsOf(jobs) /\ SpeechOf(jobs)' = SpeechOf(jobs)
    BY <2>1 DEF TurnsOf, SpeechOf, FinalsIn
  <2>7. Undecided' = Undecided /\ (SpeechOf(jobs) \cup work.speech)' = SpeechOf(jobs) \cup work.speech
    BY <2>0, <2>2, <2>6 DEF Undecided
  <2>. QED  BY <2>0, <2>1, <2>2, <2>4, <2>5, <2>6, <2>7, Unseen, RowKept
<1>3. CASE FinalAnswers \/ PaddedAnswers \/ FinalRaises \/ Probed \/ AgainRaises \/ BackoffEnds
  <2>1. Busy /\ UNCHANGED <<intakeVars, jobs, partialPending, pumpVars, teardown>>
    BY <1>3, Answered
  <2>2. CASE \E text \in {"text", "blank", "nonspeech"} : Settle(text)
    BY <2>1, <2>2, SettleDecides
  <2>3. ASSUME Decoding, NEW at \in {"padded", "backoff", "probe", "again", "decode"},
               work' \in {[work EXCEPT !.at = at], [work EXCEPT !.at = at, !.first = FALSE]}
        PROVE  TurnsInRow' /\ Promised
    <3>0. work \in Works
      BY DEF DecodeInv, DecodeSafe, DecodeTypeOK, Works
    <3>1. work'.turns = work.turns /\ work'.speech = work.speech /\ work'.at = at
      BY <2>3, <3>0 DEF Works
    <3>2. UNCHANGED <<cuts, jobs, results, inHand, drain, teardown>>
      BY <2>1, <2>3 DEF Decoding, intakeVars, pumpVars
    <3>3. Decoded' = Decoded
      BY <2>1, <3>1 DEF Decoded, Busy
    <3>4. TurnsOf(jobs)' = TurnsOf(jobs) /\ SpeechOf(jobs)' = SpeechOf(jobs)
          /\ FinalTurns(results)' = FinalTurns(results)
      BY <3>2 DEF TurnsOf, SpeechOf, FinalsIn, FinalTurns, Upto
    <3>5. Undecided' = Undecided /\ (SpeechOf(jobs) \cup work.speech)' = SpeechOf(jobs) \cup work.speech
      BY <3>1, <3>3, <3>4 DEF Undecided
    <3>. QED  BY <2>1, <3>2, <3>3, <3>4, <3>5, Unseen, RowKept
  <2>. QED  BY <1>3, <2>2, <2>3, Answered
<1>. QED  BY <1>1, <1>2, <1>3 DEF Worker

\* push() and flush(): a turn more, or nothing the session can see.
LEMMA IntakePromises == ASSUME DecodeInv, TurnsInRow, Intake \/ Flush PROVE TurnsInRow' /\ Promised
<1>0. /\ cuts \in Nat /\ MaxCuts \in Nat /\ jobs \in Seq(Jobs) /\ cuts <= MaxCuts + 1
      /\ (heard \/ teardown = "live" => cuts <= MaxCuts)
  BY DecodeAssumption DEF DecodeInv, DecodeSafe, DecodeTypeOK, TurnsSpoken
<1>1. ASSUME jobs' = jobs \/ \E j \in Jobs : j.kind = "partial" /\ jobs' = Append(jobs, j),
             UNCHANGED <<cuts, work, results, inHand, drain>>, teardown # "closed", teardown' # "closed"
      PROVE  TurnsInRow' /\ Promised
  <2>1. TurnsOf(jobs') = TurnsOf(jobs) /\ SpeechOf(jobs') = SpeechOf(jobs)
    BY <1>0, <1>1, TurnsAppended
  <2>2. TurnsOf(jobs)' = TurnsOf(jobs) /\ SpeechOf(jobs)' = SpeechOf(jobs)
    BY <2>1 DEF TurnsOf, SpeechOf, FinalsIn
  <2>3. Decoded' = Decoded /\ Busy' = Busy /\ FinalTurns(results)' = FinalTurns(results)
    BY <1>1 DEF Decoded, Busy, FinalTurns, Upto, FinalsIn
  <2>4. Undecided' = Undecided /\ (SpeechOf(jobs) \cup work.speech)' = SpeechOf(jobs) \cup work.speech
    BY <1>1, <2>2, <2>3 DEF Undecided
  <2>. QED  BY <1>1, <2>2, <2>3, <2>4, Unseen, RowKept
<1>2. CASE \E speech \in BOOLEAN : FrameHeard(speech)
  BY <1>1, <1>2 DEF FrameHeard, workerVars, pumpVars, Listening
<1>3. CASE PartialDue
  <2>1. [kind |-> "partial", turn |-> cuts + 1, speech |-> TRUE] \in Jobs
    BY <1>0, <1>3 DEF Jobs, PartialDue
  <2>. QED  BY <1>1, <1>3, <2>1 DEF PartialDue, workerVars, pumpVars, intakeVars, Listening
<1>4. CASE TurnPauses
  <2>1. Listening /\ cuts <= MaxCuts /\ CloseTurn(TRUE, FALSE) /\ teardown' \in {"live", "flush"}
    BY <1>0, <1>4 DEF TurnPauses, Listening
  <2>. QED  BY <2>1, ClosesCut
<1>5. CASE TurnCapped
  <2>1. PICK head, tail \in BOOLEAN : CloseTurn(head, tail)
    BY <1>5 DEF TurnCapped
  <2>2. Listening /\ cuts <= MaxCuts /\ teardown' \in {"live", "flush"}
    BY <1>0, <1>5 DEF TurnCapped, Listening
  <2>. QED  BY <2>1, <2>2, ClosesCut
<1>6. CASE Flush
  <2>1. Listening /\ teardown' = "flush" /\ cuts <= MaxCuts /\ teardown # "closed"
    BY <1>0, <1>6 DEF Flush, Listening
  <2>2. CASE CloseTurn(heard, FALSE)
    <3>1. heard \in BOOLEAN /\ FALSE \in BOOLEAN
      BY DEF DecodeInv, DecodeSafe, DecodeTypeOK
    <3>. QED  BY <2>1, <2>2, <3>1, ClosesCut
  <2>4. CASE heard \/ energy
    BY <1>6, <2>2, <2>4 DEF Flush
  <2>5. CASE ~(heard \/ energy)
    <3>1. cuts' = cuts /\ jobs' = jobs /\ work' = work /\ results' = results /\ inHand' = inHand /\ drain' = drain
      BY <1>6, <2>5 DEF Flush, intakeVars, workerVars, pumpVars
    <3>. QED  BY <1>1, <2>1, <3>1
  <2>. QED  BY <2>4, <2>5
<1>. QED  BY <1>2, <1>3, <1>4, <1>5, <1>6 DEF Intake

\* The consumer takes a final and handles it, and stops when it may.
LEMMA ConsumerPromises ==
  ASSUME DecodeInv, TurnsInRow, TakeResult \/ ResultHandled \/ DrainDies \/ Closed \/ UNCHANGED decodeVars
  PROVE  TurnsInRow' /\ Promised
<1>0. /\ results \in Seq(Results) /\ Nothing.kind = "none"
  BY DEF DecodeInv, DecodeSafe, DecodeTypeOK, Nothing
<1>1. UNCHANGED <<cuts, jobs, work, teardown>>
  BY DEF TakeResult, ResultHandled, DrainDies, Closed, decodeVars, workerVars, intakeVars
<1>2. /\ Decoded' = Decoded /\ Busy' = Busy /\ TurnsOf(jobs)' = TurnsOf(jobs) /\ SpeechOf(jobs)' = SpeechOf(jobs)
  BY <1>1 DEF Decoded, Busy, TurnsOf, SpeechOf, FinalsIn
<1>3. Undecided' = Undecided /\ (SpeechOf(jobs) \cup work.speech)' = SpeechOf(jobs) \cup work.speech
  BY <1>1, <1>2 DEF Undecided
<1>4. OpenTurns' = OpenTurns /\ TurnsInRow'
  BY <1>1, <1>2, <1>3, RowKept DEF OpenTurns
<1>5. FinalTurns(results)' = FinalTurns(results')
  BY DEF FinalTurns, Upto, FinalsIn
<1>6. CASE TakeResult
  <2>1. /\ drain = "on" /\ drain' = "on" /\ inHand.kind # "final" /\ inHand' = Head(results)
        /\ results # <<>> /\ results' = Tail(results)
    BY <1>0, <1>6 DEF TakeResult
  <2>2. CASE Head(results).kind = "final"
    <3>1. /\ FinalTurns(results) # <<>> /\ inHand'.turns = Head(FinalTurns(results)) /\ inHand'.kind = "final"
          /\ FinalTurns(results)' = Tail(FinalTurns(results))
      BY <1>0, <1>5, <2>1, <2>2, FinalTurnsTaken
    <3>2. T!Take
      BY <1>1, <1>4, <2>1, <3>1 DEF T!Take
    <3>. QED  BY <1>4, <3>2 DEF Promised, T!Transcribes
  <2>3. CASE Head(results).kind # "final"
    <3>1. FinalTurns(results)' = FinalTurns(results) /\ inHand'.kind # "final"
      BY <1>0, <1>5, <2>1, <2>3, FinalTurnsTaken
    <3>2. UNCHANGED T!transcriberVars
      BY <1>1, <1>4, <2>1, <3>1 DEF T!transcriberVars
    <3>. QED  BY <1>4, <3>2 DEF Promised
  <2>. QED  BY <2>2, <2>3
<1>7. CASE ResultHandled
  <2>1. /\ drain = "on" /\ inHand' = Nothing /\ inHand'.kind # "final" /\ results' = results
        /\ \/ drain' = drain
           \/ drain' = "done" /\ teardown = "closed" /\ results = <<>>
    BY <1>0, <1>7 DEF ResultHandled
  <2>2. FinalTurns(results)' = FinalTurns(results) /\ (results = <<>> => FinalTurns(results) = <<>>)
    BY <1>5, <2>1, NoFinals
  <2>3. CASE inHand.kind = "final" /\ inHand.turns # {}
    <3>1. T!Handled
      BY <1>1, <1>4, <2>1, <2>2, <2>3 DEF T!Handled
    <3>. QED  BY <1>4, <3>1 DEF Promised
  <2>4. CASE ~(inHand.kind = "final" /\ inHand.turns # {})
    <3>1. (IF inHand.kind = "final" THEN inHand.turns ELSE {}) = {}
      BY <2>4
    <3>2. CASE drain' = drain
      <4>1. UNCHANGED T!transcriberVars
        BY <1>1, <1>4, <2>1, <2>2, <3>1, <3>2 DEF T!transcriberVars
      <4>. QED  BY <1>4, <4>1 DEF Promised
    <3>3. CASE drain' = "done" /\ teardown = "closed" /\ results = <<>>
      <4>1. T!PumpEnds
        BY <1>1, <1>4, <2>1, <2>2, <3>1, <3>3 DEF T!PumpEnds
      <4>. QED  BY <1>4, <4>1 DEF Promised, T!Transcribes
    <3>. QED  BY <2>1, <3>2, <3>3
  <2>. QED  BY <2>3, <2>4
<1>8. CASE DrainDies
  <2>1. /\ drain = "on" /\ drain' = "dead" /\ teardown = "live" /\ inHand.kind # "final" /\ inHand' = inHand
        /\ results' = results
    BY <1>0, <1>8 DEF DrainDies
  <2>2. T!PumpDies
    BY <1>1, <1>4, <1>5, <2>1 DEF T!PumpDies
  <2>. QED  BY <1>4, <2>2 DEF Promised, T!Transcribes
<1>9. CASE Closed \/ UNCHANGED decodeVars
  <2>1. results' = results /\ inHand' = inHand /\ drain' = drain
    BY <1>9 DEF Closed, decodeVars, pumpVars
  <2>. QED  BY <1>1, <1>3, <1>4, <1>5, <2>1, Unseen
<1>. QED  BY <1>6, <1>7, <1>8, <1>9

\* close() gives up what the worker decodes.
LEMMA ClosePromises == ASSUME DecodeInv, TurnsInRow, CloseTranscriber PROVE TurnsInRow' /\ Promised
<1>. DEFINE sp  == SpeechOf(jobs) \cup work.speech
            end == [kind |-> "end", turns |-> {}]
<1>0. /\ results \in Seq(Results) /\ cuts \in Nat /\ jobs \in Seq(Jobs) /\ work.speech \subseteq Decoded
      /\ end \in Results /\ end.kind # "final"
  BY DecodeAssumption DEF DecodeInv, DecodeSafe, DecodeTypeOK, WorkShape, Busy, Decoded, Results
<1>. HIDE DEF end
<1>1. PICK d, e \in Nat : InRow(d, e)
  BY DEF TurnsInRow
<1>2. /\ UNCHANGED <<cuts, jobs, inHand, drain>> /\ work' = Idle /\ results' = Append(results, end)
      /\ teardown = "flush" /\ teardown' = "closed"
  BY DEF CloseTranscriber, intakeVars, pumpVars, end
<1>3. Decoded' = {} /\ ~Busy' /\ work'.speech = {}
  BY <1>2, IdleWorks DEF Decoded, Busy
<1>4. /\ TurnsOf(jobs)' = TurnsOf(jobs) /\ SpeechOf(jobs)' = SpeechOf(jobs)
      /\ FinalTurns(results)' = FinalTurns(results')
  BY <1>2 DEF TurnsOf, SpeechOf, FinalTurns, Upto, FinalsIn
<1>5. FinalTurns(results)' = FinalTurns(results)
  BY <1>0, <1>2, <1>4, FinalTurnsAppended
<1>6. InRow(e, e)'
  <2>1. (e + 1)..e = {}
    OBVIOUS
  <2>. QED  BY <1>1, <1>2, <1>3, <1>4, <2>1 DEF InRow
<1>7. OpenTurns = Row(d, cuts, sp) /\ OpenTurns' = Row(e, cuts, SpeechOf(jobs)) /\ d \in 0..cuts /\ e \in d..cuts
  <2>1. cuts' \in Nat
    BY <1>0, <1>2
  <2>2. OpenTurns' = Row(e, cuts', (SpeechOf(jobs) \cup work.speech)')
    BY <1>6, <2>1, OpenIsRowNext
  <2>3. (SpeechOf(jobs) \cup work.speech)' = SpeechOf(jobs)
    BY <1>3, <1>4
  <2>4. e \in d..cuts
    BY <1>0, <1>1 DEF InRow
  <2>. QED  BY <1>0, <1>1, <1>2, <2>2, <2>3, <2>4, OpenIsRow
<1>8. \A t \in (e + 1)..cuts : t \in SpeechOf(jobs) <=> t \in sp
  <2>1. \A t \in (e + 1)..cuts : t \notin (d + 1)..e
    BY <1>7
  <2>. QED  BY <1>0, <1>1, <2>1 DEF InRow
<1>. HIDE DEF sp
<1>9. OpenTurns' = SubSeq(OpenTurns, (e - d) + 1, Len(OpenTurns)) /\ e - d \in 0..Len(OpenTurns)
  <2>1. RowLost(d, e, cuts, sp, SpeechOf(jobs))
    BY <1>0, <1>7, <1>8, RowLoses
  <2>. QED  BY <1>7, <2>1 DEF RowLost
<1>10. T!Close
  BY <1>2, <1>5, <1>9 DEF T!Close
<1>. QED  BY <1>6, <1>10 DEF TurnsInRow, Promised, T!Transcribes

\* Every step of the decode worker is one of the transcriber that the session sees, or none: turns
\* are decided in the order they were spoken, each becomes part of one final or of none, and no
\* final that is queued is lost (push, _close_turn, _coalesce_backlog, _finalize, results, close).
THEOREM DecidesInOrder == DecodeSpec => T!TranscriberSteps
<1>1. DecodeInit => T!TranscriberInit /\ TurnsInRow
  <2>. SUFFICES ASSUME DecodeInit PROVE T!TranscriberInit /\ TurnsInRow
    OBVIOUS
  <2>1. /\ cuts = 0 /\ jobs = <<>> /\ results = <<>> /\ work = Idle /\ inHand.kind # "final"
        /\ teardown # "closed" /\ drain = "on"
    BY DEF DecodeInit, Nothing
  <2>2. Decoded = {} /\ ~Busy /\ TurnsOf(jobs) = {}
    BY <2>1, IdleWorks DEF Decoded, Busy, TurnsOf, FinalsIn
  <2>3. InRow(0, 0)
    BY <2>1, <2>2 DEF InRow
  <2>4. OpenTurns = <<>>
    <3>1. OpenTurns = Row(0, 0, SpeechOf(jobs) \cup work.speech)
      BY <2>1, <2>3, OpenIsRow
    <3>2. /\ Row(0, 0, SpeechOf(jobs) \cup work.speech) \in Seq([turn : Nat, speech : BOOLEAN])
          /\ Len(Row(0, 0, SpeechOf(jobs) \cup work.speech)) = 0
      BY RowListed
    <3>. QED  BY <3>1, <3>2, EmptySeq
  <2>. QED  BY <2>1, <2>3, <2>4, NoFinals DEF TurnsInRow, T!TranscriberInit
<1>2. DecodeInv /\ TurnsInRow /\ [DecodeNext]_decodeVars => TurnsInRow' /\ Promised
  BY WorkerPromises, IntakePromises, ConsumerPromises, ClosePromises DEF DecodeNext
<1>. QED  BY <1>1, <1>2, DecodeInvHolds, PTL DEF DecodeSpec, Promised, T!TranscriberSteps

-----------------------------------------------------------------------------
(* The song run.                                                           *)

MusicInv ==
  /\ BoxIsRun
  /\ scan.at = "lyrics" => songs < MaxSongs
  /\ scan.at = "retry" => scan.id # 0

\* Every end of a run is announced and takes its end task along, whoever ends it.
LEMMA EndsClean ==
  ASSUME BoxIsRun, EndMusicRun
  PROVE  /\ song' = NoSong /\ box' = 0 /\ endTask' = FALSE
         /\ candidate' = "none" /\ lastMatch' = "none" /\ lyricsOwed' = FALSE
BY DEF BoxIsRun, EndMusicRun, DoneFrame

\* The steps of the scan loop, the end task and the session keep the invariant.
LEMMA MusicStep == MusicInv /\ [MusicNext]_musicVars => MusicInv'
<1>. SUFFICES ASSUME MusicInv, [MusicNext]_musicVars PROVE MusicInv'
  OBVIOUS
<1>. USE DEF MusicInv, BoxIsRun, MusicTypeOK
<1>0. /\ MaxSongs \in Nat /\ NoSong \in [id : 0..MaxSongs, track : Tracks \cup {"none"}]
      /\ Asleep \in [at : {"sleep", "identify", "lyrics", "retry"}, id : 0..MaxSongs,
                     track : Tracks \cup {"none"}, timed : BOOLEAN]
      /\ Asleep.at = "sleep" /\ NoSong.id = 0
  BY MusicAssumption DEF NoSong, Asleep
<1>1. CASE StartScan
  <2>1. /\ scan' \in [at : {"sleep", "identify", "lyrics", "retry"}, id : 0..MaxSongs,
                      track : Tracks \cup {"none"}, timed : BOOLEAN]
        /\ scan'.at = "identify"
    BY <1>1, <1>0 DEF StartScan, Asleep
  <2>. QED  BY <1>1, <2>1 DEF StartScan
<1>2. CASE NoMatch
  <2>1. CASE EndMusicRun
    BY <1>0, <1>2, <2>1, EndsClean DEF NoMatch
  <2>2. CASE ~EndMusicRun
    BY <1>0, <1>2, <2>2 DEF NoMatch
  <2>. QED  BY <2>1, <2>2
<1>3. CASE Matched
  <2>. PICK track \in Tracks, timed \in BOOLEAN :
         SameSong(track, timed) \/ OtherSong(track) \/ NewSong(track, timed)
    BY <1>3 DEF Matched
  <2>0. UNCHANGED <<songs, listening>>
    BY <1>3 DEF Matched
  <2>1. CASE SameSong(track, timed)
    BY <1>0, <2>0, <2>1 DEF SameSong, Anchor
  <2>2. CASE OtherSong(track)
    <3>1. CASE EndMusicRun
      BY <1>0, <2>0, <2>2, <3>1, EndsClean DEF OtherSong
    <3>2. CASE ~EndMusicRun
      BY <1>0, <2>0, <2>2, <3>2 DEF OtherSong
    <3>. QED  BY <3>1, <3>2
  <2>3. CASE NewSong(track, timed)
    <3>1. CASE EndMusicRun
      BY <1>0, <2>0, <2>3, <3>1, EndsClean DEF NewSong
    <3>2. CASE ~EndMusicRun
      BY <1>0, <2>0, <2>3, <3>2 DEF NewSong
    <3>. QED  BY <3>1, <3>2
  <2>. QED  BY <2>1, <2>2, <2>3
<1>4. CASE LyricsArrive
  BY <1>0, <1>4 DEF LyricsArrive, Anchor, SongFrame
<1>5. CASE RetryArrives
  BY <1>0, <1>5 DEF RetryArrives, StillRuns, Anchor, SongFrame
<1>6. CASE HoldPasses \/ MusicClose \/ MusicDown
  <2>1. CASE HoldPasses
    BY <2>1 DEF HoldPasses
  <2>2. CASE MusicClose
    BY <2>2 DEF MusicClose
  <2>3. CASE MusicDown
    BY <1>0, <2>3 DEF MusicDown
  <2>. QED  BY <1>6, <2>1, <2>2, <2>3
<1>7. CASE SongEnds
  BY <1>0, <1>7, EndsClean DEF SongEnds
<1>8. CASE UNCHANGED musicVars
  BY <1>8 DEF musicVars
<1>. QED  BY <1>1, <1>2, <1>3, <1>4, <1>5, <1>6, <1>7, <1>8 DEF MusicNext

\* The client's box holds exactly the song of the run: the no-match hold, the song's end, a
\* takeover and a lyric retry that comes back late all leave it so (_end_music_run,
\* _open_music_run, _retry_song_lyrics).
THEOREM RunOwnsBox == MusicSpec => []BoxIsRun
<1>1. MusicInit => MusicInv
  <2>. SUFFICES ASSUME MusicInit PROVE MusicInv
    OBVIOUS
  <2>1. /\ song \in [id : 0..MaxSongs, track : Tracks \cup {"none"}] /\ songs \in 0..MaxSongs
        /\ scan \in [at : {"sleep", "identify", "lyrics", "retry"}, id : 0..MaxSongs,
                     track : Tracks \cup {"none"}, timed : BOOLEAN]
    BY MusicAssumption DEF MusicInit, NoSong, Asleep
  <2>2. song.id = 0 /\ scan.at = "sleep" /\ 0 \in 0..MaxSongs
    BY MusicAssumption DEF MusicInit, NoSong, Asleep
  <2>. QED  BY <2>1, <2>2 DEF MusicInit, MusicInv, BoxIsRun, MusicTypeOK
<1>2. MusicInv => BoxIsRun
  BY DEF MusicInv
<1>. QED  BY <1>1, <1>2, MusicStep, PTL DEF MusicSpec

-----------------------------------------------------------------------------
(* The translation run: its inductive invariant.                            *)

Entries     == [kind : {"translate", "done", "stop"}, run : Nat, lang : Langs]
QueuedTurns == [turn : 1..MaxTurns, speech : BOOLEAN]
Tells(e)    == e.kind \in {"translate", "done"}

\* One entry may reach the client before another.
MayPrecede(k, r, e) == Tells(e) => r <= e.run /\ (k = "done" /\ e.kind = "translate" => r < e.run)
\* ... and all that the run to come may queue.
MayGoOn(k, r) == r <= run.id /\ (run.open /\ k = "done" => r < run.id)

\* What is sent, in the worker and queued makes one stream, in which the latest run can go on.
StreamInOrder ==
  /\ \A i \in DOMAIN sent : /\ sent[i] = <<sent[i][1], sent[i][2]>>
                            /\ sent[i][1] \in {"translate", "done"} /\ sent[i][2] \in Nat
                            /\ MayGoOn(sent[i][1], sent[i][2])
                            /\ MayPrecede(sent[i][1], sent[i][2], job)
                            /\ \A j \in DOMAIN queue : MayPrecede(sent[i][1], sent[i][2], queue[j])
  /\ Tells(job) => /\ MayGoOn(job.kind, job.run)
                   /\ \A j \in DOMAIN queue : MayPrecede(job.kind, job.run, queue[j])
  /\ \A i \in DOMAIN queue : Tells(queue[i]) =>
       /\ MayGoOn(queue[i].kind, queue[i].run)
       /\ \A j \in DOMAIN queue : i < j => MayPrecede(queue[i].kind, queue[i].run, queue[j])

\* A turn of speech that was closed under a run is not on its way to the pump any more once no
\* run is open.
BegunAreDecided ==
  /\ begun \subseteq 1..turn
  /\ \A i \in DOMAIN pending : /\ pending[i].turn <= turn
                               /\ pending[i].turn \in begun => pending[i].speech
  /\ pump = "on" /\ ~run.open =>
       /\ hand \cap begun = {}
       /\ \A i \in DOMAIN ready : ready[i] \cap begun = {}
       /\ \A i \in DOMAIN pending : pending[i].turn \notin begun

TurnTypes ==
  /\ turn \in 0..MaxTurns /\ ready \in Seq(SUBSET (1..MaxTurns)) /\ hand \subseteq 1..MaxTurns
  /\ pending \in Seq(QueuedTurns) /\ begun \subseteq 1..MaxTurns
RunTypes ==
  /\ queue \in Seq(Entries) /\ job \in Entries \cup {NoJob} /\ sent \in Seq({"translate", "done"} \X Nat)
  /\ run \in [id : Nat, lang : Langs, open : BOOLEAN] /\ opener \in Foreign \cup {"none"}
  /\ hold \in BOOLEAN /\ translator \in {"on", "stopped"} /\ resends \in 0..MaxResends
  /\ job.run <= run.id /\ \A i \in DOMAIN queue : queue[i].run <= run.id

TranslationInv ==
  TurnTypes /\ RunTypes /\ DoneFollowsRun /\ StreamInOrder /\ BegunAreDecided /\ InheritedTurnKept

\* What an entry of the queue is, and no job.
LEMMA EntryFacts ==
  /\ \A e \in Entries : /\ e.run \in Nat /\ e.kind \in {"translate", "done", "stop"}
                      /\ e.kind # "stop" => Tells(e)
  /\ NoJob.run = 0 /\ ~Tells(NoJob)
  /\ \A e \in Entries \cup {NoJob} : e.run \in Nat
BY DEF Entries, Tells, NoJob, Langs

\* The invariant is strong enough.
LEMMA TranslationHolds == TranslationInv => TranslationSafe
<1> SUFFICES ASSUME TranslationInv PROVE TranslationSafe
  OBVIOUS
<1>1. \A e \in {job} \cup {queue[i] : i \in DOMAIN queue} :
         e \in [kind : {"none", "translate", "done", "stop"}, run : 0..run.id, lang : Langs]
  <2>1. ASSUME NEW e \in Entries \cup {NoJob}, e.run <= run.id
        PROVE  e \in [kind : {"none", "translate", "done", "stop"}, run : 0..run.id, lang : Langs]
    BY <2>1 DEF Entries, NoJob, Langs, TranslationInv, RunTypes
  <2>2. \A i \in DOMAIN queue : queue[i] \in Entries /\ queue[i].run <= run.id
    BY DEF TranslationInv, RunTypes
  <2>3. job \in Entries \cup {NoJob} /\ job.run <= run.id
    BY DEF TranslationInv, RunTypes
  <2> QED BY <2>1, <2>2, <2>3
<1>2. begun \cup dropped \subseteq 1..MaxTurns
  BY DEF TranslationInv, TurnTypes, InheritedTurnKept
<1>3. TranslationTypeOK
  BY <1>1, <1>2 DEF TranslationInv, TurnTypes, RunTypes, TranslationTypeOK
<1> QED BY <1>3 DEF TranslationInv, TranslationSafe

\* A session starts with nothing spoken, queued or sent.
LEMMA TranslationStart == TranslationInit => TranslationInv
<1> SUFFICES ASSUME TranslationInit PROVE TranslationInv
  OBVIOUS
<1>1. RunTypes
  <2>1. job = NoJob /\ job.run = 0 /\ run \in [id : Nat, lang : Langs, open : BOOLEAN] /\ run.id = 0
    BY DEF TranslationInit, NoRun, NoJob, Langs
  <2>2. queue \in Seq(Entries) /\ sent \in Seq({"translate", "done"} \X Nat) /\ DOMAIN queue = {}
    BY DEF TranslationInit
  <2>3. resends \in 0..MaxResends /\ translator = "on" /\ opener = "none"
    BY TranslationBounds DEF TranslationInit
  <2>4. hold \in BOOLEAN
    BY DEF TranslationInit
  <2> QED BY <2>1, <2>2, <2>3, <2>4 DEF RunTypes
<1>2. TurnTypes
  <2>1. pending \in Seq(QueuedTurns) /\ ready \in Seq(SUBSET (1..MaxTurns))
    BY DEF TranslationInit, TranscriberInit
  <2> QED BY <2>1, TranslationBounds DEF TranslationInit, TranscriberInit, TurnTypes
<1>3. DoneFollowsRun /\ BegunAreDecided /\ InheritedTurnKept
  BY DEF TranslationInit, TranscriberInit, DoneFollowsRun, BegunAreDecided, InheritedTurnKept
<1>4. StreamInOrder
  BY DEF TranslationInit, StreamInOrder, NoJob, Tells
<1> QED BY <1>1, <1>2, <1>3, <1>4 DEF TranslationInv

\* What is told of the latest run and of earlier ones comes before anything that the run may queue.
LEMMA GoesOn ==
  ASSUME run \in [id : Nat, lang : Langs, open : BOOLEAN], run' \in [id : Nat, lang : Langs, open : BOOLEAN],
         run.id <= run'.id, run'.open => ((run'.id = run.id /\ run.open) \/ run'.id = run.id + 1),
         NEW k, NEW r \in Nat, MayGoOn(k, r)
  PROVE  /\ r <= run'.id /\ (run'.open /\ k = "done" => r < run'.id)
         /\ \A e \in Entries : e.run = run'.id /\ (e.kind = "translate" => run'.open) => MayPrecede(k, r, e)
<1>1. /\ run.id \in Nat /\ run'.id \in Nat /\ run.open \in BOOLEAN /\ run'.open \in BOOLEAN
      /\ r <= run.id /\ (run.open /\ k = "done" => r < run.id)
  BY DEF MayGoOn
<1>2. r <= run'.id /\ (run'.open /\ k = "done" => r < run'.id)
  BY <1>1
<1> QED BY <1>1, <1>2 DEF MayPrecede

\* Entries of the current run, or of the one that is opened, keep the stream in order, done markers
\* only where the run is over.
LEMMA QueuedInOrder ==
  ASSUME RunTypes, StreamInOrder, NEW new \in Seq(Entries), queue' = queue \o new,
         UNCHANGED <<job, sent>>,
         run' \in [id : Nat, lang : Langs, open : BOOLEAN], run.id <= run'.id,
         run'.open => ((run'.id = run.id /\ run.open) \/ run'.id = run.id + 1),
         \A i \in DOMAIN new : Tells(new[i]) =>
            /\ new[i].run = run'.id /\ (new[i].kind = "done" => ~run'.open)
            /\ (new[i].kind = "translate" => run'.open),
         \A i \in DOMAIN new : new[i].run <= run'.id
  PROVE  StreamInOrder' /\ queue' \in Seq(Entries) /\ \A i \in DOMAIN queue' : queue'[i].run <= run'.id
<1>. DEFINE n == Len(queue)
<1>1. /\ n \in Nat /\ Len(new) \in Nat /\ queue' \in Seq(Entries) /\ DOMAIN queue' = 1..(n + Len(new))
      /\ DOMAIN queue = 1..n /\ DOMAIN new = 1..Len(new)
      /\ \A i \in 1..n : queue'[i] = queue[i]
      /\ \A i \in (n + 1)..(n + Len(new)) : queue'[i] = new[i - n] /\ i - n \in 1..Len(new)
  BY DEF RunTypes
<1>2. /\ run \in [id : Nat, lang : Langs, open : BOOLEAN] /\ run.id \in Nat /\ run'.id \in Nat
      /\ job.run \in Nat
  BY EntryFacts DEF RunTypes
<1>b. \A i \in 1..n : queue[i] \in Entries /\ queue[i].run <= run.id /\ queue[i].run \in Nat
  <2>1. ASSUME NEW i \in 1..n PROVE queue[i] \in Entries /\ queue[i].run <= run.id
    <3>1. queue \in Seq(Entries) /\ \A k \in DOMAIN queue : queue[k].run <= run.id
      BY DEF RunTypes
    <3>2. i \in DOMAIN queue
      BY <1>1
    <3>3. queue[i] \in Entries
      BY <3>1, ElementOfSeq
    <3>. QED  BY <3>1, <3>2, <3>3
  <2> QED BY <2>1, EntryFacts
<1>3. \A i \in 1..Len(new) : new[i] \in Entries /\ new[i].run \in Nat
  BY <1>1, EntryFacts
<1>4. ASSUME NEW j \in (n + 1)..(n + Len(new)), Tells(queue'[j])
      PROVE  /\ queue'[j].run = run'.id /\ (queue'[j].kind = "done" => ~run'.open)
             /\ (queue'[j].kind = "translate" => run'.open) /\ queue'[j] \in Entries
  <2>1. queue'[j] = new[j - n] /\ j - n \in DOMAIN new
    BY <1>1
  <2> QED BY <1>1, <1>3, <1>4, <2>1
<1>5. \A j \in 1..(n + Len(new)) : j \in 1..n \/ j \in (n + 1)..(n + Len(new))
  BY <1>1
<1>6. \A i \in DOMAIN queue' : queue'[i].run <= run'.id
  <2>1. ASSUME NEW i \in 1..(n + Len(new)) PROVE queue'[i].run <= run'.id
    <3>1. CASE i \in 1..n
      BY <1>1, <1>2, <1>b, <3>1
    <3>2. CASE i \in (n + 1)..(n + Len(new))
      BY <1>1, <3>2
    <3> QED BY <1>5, <3>1, <3>2
  <2> QED BY <1>1, <2>1
<1>a. ASSUME NEW k, NEW r \in Nat, MayGoOn(k, r), \A j \in DOMAIN queue : MayPrecede(k, r, queue[j])
      PROVE  /\ r <= run'.id /\ (run'.open /\ k = "done" => r < run'.id)
             /\ \A j \in DOMAIN queue' : MayPrecede(k, r, queue'[j])
  <2>1. /\ r <= run'.id /\ (run'.open /\ k = "done" => r < run'.id)
        /\ \A e \in Entries : e.run = run'.id /\ (e.kind = "translate" => run'.open) => MayPrecede(k, r, e)
    BY <1>2, <1>a, GoesOn
  <2>2. ASSUME NEW j \in 1..(n + Len(new))
        PROVE  MayPrecede(k, r, queue'[j])
    <3>1. CASE j \in 1..n
      BY <1>1, <1>a, <3>1
    <3>2. CASE j \in (n + 1)..(n + Len(new)) /\ Tells(queue'[j])
      BY <1>4, <2>1, <3>2
    <3>3. CASE ~Tells(queue'[j])
      BY <3>3 DEF MayPrecede
    <3> QED BY <1>5, <3>1, <3>2, <3>3
  <2> QED BY <1>1, <2>1, <2>2
<1>7. ASSUME NEW i \in DOMAIN sent
      PROVE  /\ sent[i] = <<sent[i][1], sent[i][2]>>
             /\ sent[i][1] \in {"translate", "done"} /\ sent[i][2] \in Nat
             /\ sent[i][2] <= run'.id /\ (run'.open /\ sent[i][1] = "done" => sent[i][2] < run'.id)
             /\ MayPrecede(sent[i][1], sent[i][2], job)
             /\ \A j \in DOMAIN queue' : MayPrecede(sent[i][1], sent[i][2], queue'[j])
  BY <1>a DEF StreamInOrder
<1>8. ASSUME Tells(job)
      PROVE  /\ job.run <= run'.id /\ (run'.open /\ job.kind = "done" => job.run < run'.id)
             /\ \A j \in DOMAIN queue' : MayPrecede(job.kind, job.run, queue'[j])
  BY <1>a, <1>2, <1>8 DEF StreamInOrder
<1>9. ASSUME NEW i \in 1..(n + Len(new)), Tells(queue'[i])
      PROVE  /\ queue'[i].run <= run'.id /\ (run'.open /\ queue'[i].kind = "done" => queue'[i].run < run'.id)
             /\ \A j \in DOMAIN queue' : i < j => MayPrecede(queue'[i].kind, queue'[i].run, queue'[j])
  <2>1. CASE i \in 1..n
    <3>1. queue'[i] = queue[i] /\ queue[i].run \in Nat /\ Tells(queue[i])
      BY <1>1, <1>b, <1>9, <2>1
    <3>2. /\ MayGoOn(queue[i].kind, queue[i].run)
          /\ \A j \in DOMAIN queue : i < j => MayPrecede(queue[i].kind, queue[i].run, queue[j])
      BY <1>1, <2>1, <3>1 DEF StreamInOrder
    <3>3. /\ queue[i].run <= run'.id /\ (run'.open /\ queue[i].kind = "done" => queue[i].run < run'.id)
          /\ \A e \in Entries : e.run = run'.id /\ (e.kind = "translate" => run'.open)
                             => MayPrecede(queue[i].kind, queue[i].run, e)
      BY <1>2, <3>1, <3>2, GoesOn
    <3>4. ASSUME NEW j \in 1..(n + Len(new)), i < j
          PROVE  MayPrecede(queue[i].kind, queue[i].run, queue'[j])
      <4>1. CASE j \in 1..n
        BY <1>1, <3>2, <3>4, <4>1
      <4>2. CASE j \in (n + 1)..(n + Len(new)) /\ Tells(queue'[j])
        BY <1>4, <3>3, <4>2
      <4>3. CASE ~Tells(queue'[j])
        BY <4>3 DEF MayPrecede
      <4> QED BY <1>5, <4>1, <4>2, <4>3
    <3> QED BY <1>1, <3>1, <3>3, <3>4
  <2>2. CASE i \in (n + 1)..(n + Len(new))
    <3>1. /\ queue'[i].run = run'.id /\ (queue'[i].kind = "done" => ~run'.open)
          /\ (queue'[i].kind = "translate" => run'.open)
      BY <1>4, <1>9, <2>2
    <3>2. ASSUME NEW j \in 1..(n + Len(new)), i < j, Tells(queue'[j])
          PROVE  /\ queue'[j].run = run'.id /\ (queue'[j].kind = "translate" => run'.open)
      <4>1. j \in (n + 1)..(n + Len(new))
        BY <1>1, <1>5, <2>2, <3>2
      <4> QED BY <1>4, <3>2, <4>1
    <3>3. run'.id <= run'.id
      BY <1>2
    <3> QED BY <1>1, <3>1, <3>2, <3>3 DEF MayPrecede
  <2> QED BY <1>5, <2>1, <2>2
<1>10. StreamInOrder'
  <2>1. sent' = sent /\ job' = job
    OBVIOUS
  <2> QED BY <1>1, <1>7, <1>8, <1>9, <2>1 DEF StreamInOrder, MayGoOn
<1>. QED  BY <1>1, <1>6, <1>10

\* A step that leaves the stream alone.
LEMMA SameStream ==
  ASSUME RunTypes, DoneFollowsRun, StreamInOrder, UNCHANGED <<run, queue, job, sent>>,
         opener' \in Foreign \cup {"none"}, hold' \in BOOLEAN, translator' \in {"on", "stopped"},
         resends' \in 0..MaxResends
  PROVE  RunTypes' /\ DoneFollowsRun' /\ StreamInOrder'
<1>1. RunTypes'
  BY DEF RunTypes
<1>2. DoneFollowsRun' /\ StreamInOrder'
  BY DEF DoneFollowsRun, StreamInOrder, MayGoOn
<1> QED BY <1>1, <1>2

\* A step that queues.
LEMMA Queued ==
  ASSUME RunTypes, DoneFollowsRun, StreamInOrder, NEW new \in Seq(Entries), queue' = queue \o new,
         UNCHANGED <<job, sent, translator>>,
         opener' \in Foreign \cup {"none"}, hold' \in BOOLEAN, resends' \in 0..MaxResends,
         run' \in [id : Nat, lang : Langs, open : BOOLEAN], run.id <= run'.id,
         run'.open => ((run'.id = run.id /\ run.open) \/ run'.id = run.id + 1),
         \A i \in DOMAIN new : Tells(new[i]) =>
            /\ new[i].run = run'.id /\ (new[i].kind = "done" => ~run'.open)
            /\ (new[i].kind = "translate" => run'.open),
         \A i \in DOMAIN new : new[i].run <= run'.id
  PROVE  RunTypes' /\ DoneFollowsRun' /\ StreamInOrder'
<1>1. StreamInOrder' /\ queue' \in Seq(Entries) /\ \A i \in DOMAIN queue' : queue'[i].run <= run'.id
  BY QueuedInOrder
<1>2. job'.run <= run'.id
  <2>1. job.run \in Nat /\ run.id \in Nat /\ run'.id \in Nat /\ job.run <= run.id
    BY EntryFacts DEF RunTypes
  <2> QED BY <2>1
<1>3. RunTypes'
  BY <1>1, <1>2 DEF RunTypes
<1>4. DoneFollowsRun'
  BY DEF DoneFollowsRun
<1> QED BY <1>1, <1>3, <1>4

\* The worker takes the oldest entry, which precedes the others.
LEMMA TakingKeeps ==
  ASSUME RunTypes, DoneFollowsRun, StreamInOrder, TakeJob
  PROVE  RunTypes' /\ DoneFollowsRun' /\ StreamInOrder'
<1>1. /\ queue # <<>> /\ job' = Head(queue) /\ queue' = Tail(queue)
      /\ UNCHANGED <<run, sent, opener, hold, translator, resends>>
  BY DEF TakeJob
<1>2. /\ Len(queue) \in Nat /\ Len(queue) > 0 /\ job' = queue[1] /\ queue' \in Seq(Entries)
      /\ DOMAIN queue = 1..Len(queue) /\ DOMAIN queue' = 1..(Len(queue) - 1)
      /\ \A i \in 1..(Len(queue) - 1) : queue'[i] = queue[i + 1] /\ i + 1 \in 1..Len(queue)
      /\ 1 \in 1..Len(queue)
  BY <1>1 DEF RunTypes
<1>3. RunTypes'
  <2>1. job' \in Entries \cup {NoJob} /\ queue' \in Seq(Entries)
    BY <1>1, <1>2 DEF RunTypes
  <2>2. job'.run <= run.id /\ \A i \in DOMAIN queue' : queue'[i].run <= run.id
    BY <1>1, <1>2 DEF RunTypes
  <2>. QED  BY <1>1, <2>1, <2>2 DEF RunTypes
<1>4. DoneFollowsRun'
  BY <1>1 DEF DoneFollowsRun
<1>5. StreamInOrder'
  <2>1. ASSUME NEW i \in DOMAIN queue', Tells(queue'[i])
        PROVE  /\ MayGoOn(queue'[i].kind, queue'[i].run)
               /\ \A j \in DOMAIN queue' : i < j => MayPrecede(queue'[i].kind, queue'[i].run, queue'[j])
    <3>1. queue'[i] = queue[i + 1] /\ i + 1 \in DOMAIN queue
      BY <1>2
    <3>2. \A j \in DOMAIN queue' : i < j => queue'[j] = queue[j + 1] /\ j + 1 \in DOMAIN queue /\ i + 1 < j + 1
      BY <1>2
    <3> QED BY <1>1, <2>1, <3>1, <3>2 DEF StreamInOrder, MayGoOn
  <2>2. ASSUME NEW i \in DOMAIN sent
        PROVE  /\ MayPrecede(sent[i][1], sent[i][2], job')
               /\ \A j \in DOMAIN queue' : MayPrecede(sent[i][1], sent[i][2], queue'[j])
    BY <1>2 DEF StreamInOrder
  <2>3. ASSUME Tells(job')
        PROVE  /\ MayGoOn(job'.kind, job'.run)
               /\ \A j \in DOMAIN queue' : MayPrecede(job'.kind, job'.run, queue'[j])
    <3>1. \A j \in DOMAIN queue' : queue'[j] = queue[j + 1] /\ j + 1 \in DOMAIN queue /\ 1 < j + 1
      BY <1>2
    <3> QED BY <1>1, <1>2, <2>3, <3>1 DEF StreamInOrder, MayGoOn
  <2> QED BY <1>1, <2>1, <2>2, <2>3 DEF StreamInOrder, MayGoOn
<1> QED BY <1>3, <1>4, <1>5

\* What the worker had may be sent: it follows all that was sent.
LEMMA FinishingKeeps ==
  ASSUME RunTypes, DoneFollowsRun, StreamInOrder, FinishJob
  PROVE  RunTypes' /\ DoneFollowsRun' /\ StreamInOrder'
<1>1. /\ job # NoJob /\ job' = NoJob /\ UNCHANGED <<run, opener, hold, queue, resends>>
      /\ (translator' = translator \/ translator' = "stopped")
      /\ \/ job.kind # "stop" /\ sent' = Append(sent, <<job.kind, job.run>>)
         \/ sent' = sent
  BY DEF FinishJob
<1>2. /\ job \in Entries /\ job.run \in Nat /\ job.run <= run.id
      /\ job.kind # "stop" => Tells(job) /\ job.kind \in {"translate", "done"}
  <2>1. job \in Entries /\ job.run <= run.id
    BY <1>1 DEF RunTypes
  <2>2. job.run \in Nat /\ job.kind \in {"translate", "done", "stop"}
    BY <2>1 DEF Entries
  <2> QED BY <2>1, <2>2 DEF Tells
<1>3. NoJob.run <= run.id /\ ~Tells(NoJob)
  BY EntryFacts DEF RunTypes
<1>4. CASE sent' = sent
  <2>1. RunTypes'
    BY <1>1, <1>3, <1>4 DEF RunTypes
  <2>2. DoneFollowsRun'
    BY <1>4 DEF DoneFollowsRun
  <2>3. StreamInOrder'
    BY <1>1, <1>3, <1>4 DEF StreamInOrder, MayGoOn, MayPrecede
  <2> QED BY <2>1, <2>2, <2>3
<1>5. CASE job.kind # "stop" /\ sent' = Append(sent, <<job.kind, job.run>>)
  <2>1. /\ Len(sent) \in Nat /\ DOMAIN sent = 1..Len(sent) /\ DOMAIN sent' = 1..(Len(sent) + 1)
        /\ sent' \in Seq({"translate", "done"} \X Nat)
        /\ \A i \in 1..Len(sent) : sent'[i] = sent[i]
        /\ sent'[Len(sent) + 1] = <<job.kind, job.run>>
    BY <1>2, <1>5 DEF RunTypes
  <2>2. \A i \in DOMAIN sent' : i \in DOMAIN sent \/ i = Len(sent) + 1
    BY <2>1
  <2>3. RunTypes'
    BY <1>1, <1>3, <2>1 DEF RunTypes
  <2>4. DoneFollowsRun'
    <3>1. ASSUME NEW i \in DOMAIN sent', NEW j \in DOMAIN sent', i < j
          PROVE  /\ sent'[i][2] <= sent'[j][2]
                 /\ sent'[i][1] = "done" /\ sent'[j][1] = "translate" => sent'[i][2] < sent'[j][2]
      <4>1. CASE j \in DOMAIN sent
        <5>1. i \in DOMAIN sent
          BY <2>1, <3>1, <4>1
        <5> QED BY <2>1, <3>1, <4>1, <5>1 DEF DoneFollowsRun
      <4>2. CASE j = Len(sent) + 1
        <5>1. i \in DOMAIN sent
          BY <2>1, <3>1, <4>2
        <5>2. MayPrecede(sent[i][1], sent[i][2], job)
          BY <5>1 DEF StreamInOrder
        <5> QED BY <1>2, <1>5, <2>1, <4>2, <5>1, <5>2 DEF MayPrecede
      <4> QED BY <2>2, <4>1, <4>2
    <3> QED BY <3>1 DEF DoneFollowsRun
  <2>5. ASSUME NEW i \in DOMAIN sent'
        PROVE  /\ sent'[i] = <<sent'[i][1], sent'[i][2]>>
               /\ sent'[i][1] \in {"translate", "done"} /\ sent'[i][2] \in Nat
               /\ MayGoOn(sent'[i][1], sent'[i][2])
               /\ \A j \in DOMAIN queue : MayPrecede(sent'[i][1], sent'[i][2], queue[j])
    <3>1. CASE i \in DOMAIN sent
      BY <2>1, <3>1 DEF StreamInOrder
    <3>2. CASE i = Len(sent) + 1
      BY <1>2, <1>5, <2>1, <3>2 DEF StreamInOrder
    <3> QED BY <2>2, <3>1, <3>2
  <2>6. StreamInOrder'
    BY <1>1, <1>3, <2>5 DEF StreamInOrder, MayGoOn, MayPrecede
  <2> QED BY <2>3, <2>4, <2>6
<1> QED BY <1>1, <1>4, <1>5

\* The drain's timeout drops the entry in the worker.
LEMMA DrainEnds ==
  ASSUME RunTypes, DoneFollowsRun, StreamInOrder, DrainTimesOut
  PROVE  RunTypes' /\ DoneFollowsRun' /\ StreamInOrder'
<1>1. job' = NoJob /\ translator' = "stopped" /\ UNCHANGED <<run, opener, hold, queue, resends, sent>>
  BY DEF DrainTimesOut
<1>2. NoJob.run <= run.id /\ ~Tells(NoJob)
  BY EntryFacts DEF RunTypes
<1>3. RunTypes'
  BY <1>1, <1>2 DEF RunTypes
<1>4. DoneFollowsRun'
  BY <1>1 DEF DoneFollowsRun
<1>5. StreamInOrder'
  BY <1>1, <1>2 DEF StreamInOrder, MayGoOn, MayPrecede
<1> QED BY <1>3, <1>4, <1>5

-----------------------------------------------------------------------------
(* The turns of speech of an open run, up to their final.                   *)

\* A turn that closes is among those begun only if a run is open and it holds speech.
LEMMA CutKeepsTurns ==
  ASSUME TurnTypes, BegunAreDecided, InheritedTurnKept, CutTurn
  PROVE  TurnTypes' /\ BegunAreDecided' /\ InheritedTurnKept'
<1> PICK speech \in BOOLEAN : /\ Cut(speech)
                              /\ begun' = IF run.open /\ speech THEN begun \cup {turn'} ELSE begun
  BY DEF CutTurn
<1> DEFINE new == [turn |-> turn + 1, speech |-> speech]
<1>1. /\ turn \in Nat /\ turn < MaxTurns /\ turn' = turn + 1 /\ turn + 1 \in 1..MaxTurns
      /\ UNCHANGED <<ready, hand, pump, run, dropped>> /\ turn' \in 0..MaxTurns
  BY TranslationBounds DEF CutTurn, Cut, TurnTypes
<1>2. new \in QueuedTurns /\ pending' = Append(pending, new)
  BY <1>1 DEF Cut, QueuedTurns
<1>3. /\ pending' \in Seq(QueuedTurns) /\ Len(pending) \in Nat /\ DOMAIN pending = 1..Len(pending)
      /\ DOMAIN pending' = 1..(Len(pending) + 1)
      /\ \A i \in 1..Len(pending) : pending'[i] = pending[i]
      /\ pending'[Len(pending) + 1] = new
  BY <1>2 DEF TurnTypes
<1>4. begun' \subseteq 1..turn' /\ begun' \subseteq 1..MaxTurns
  BY <1>1 DEF BegunAreDecided, TurnTypes
<1>5. new.turn = turn + 1 /\ new.speech = speech
  OBVIOUS
<1> HIDE DEF new
<1>6. TurnTypes'
  BY <1>1, <1>3, <1>4 DEF TurnTypes
<1>7. ASSUME NEW i \in DOMAIN pending'
      PROVE  /\ pending'[i].turn <= turn'
             /\ pending'[i].turn \in begun' => pending'[i].speech
             /\ pump' = "on" /\ ~run'.open => pending'[i].turn \notin begun'
  <2>1. CASE i \in DOMAIN pending
    <3>1. pending'[i] = pending[i] /\ pending[i].turn \in Nat /\ pending[i].turn <= turn
      <4>1. pending'[i] = pending[i] /\ pending[i] \in QueuedTurns /\ i \in DOMAIN pending
        BY <1>3, <2>1 DEF TurnTypes
      <4>2. pending[i].turn \in Nat
        BY <4>1 DEF QueuedTurns
      <4> QED BY <4>1, <4>2 DEF BegunAreDecided
    <3>2. pending[i].turn # turn' /\ pending[i].turn <= turn'
      BY <1>1, <3>1
    <3> QED BY <1>1, <2>1, <3>1, <3>2 DEF BegunAreDecided
  <2>2. CASE i = Len(pending) + 1
    <3>1. pending'[i].turn = turn + 1 /\ pending'[i].speech = speech /\ turn + 1 \notin begun
      BY <1>1, <1>3, <1>5, <2>2 DEF BegunAreDecided
    <3> QED BY <1>1, <3>1
  <2> QED BY <1>3, <2>1, <2>2
<1>8. pump' = "on" /\ ~run'.open => hand' \cap begun' = {} /\ \A i \in DOMAIN ready' : ready'[i] \cap begun' = {}
  BY <1>1 DEF BegunAreDecided
<1>9. BegunAreDecided'
  BY <1>4, <1>7, <1>8 DEF BegunAreDecided
<1> QED BY <1>1, <1>6, <1>9 DEF InheritedTurnKept

\* What is left of the queued turns when the first k are decided or given up.
LEMMA TurnsLeft ==
  ASSUME TurnTypes, BegunAreDecided, NEW k \in 0..Len(pending), pending' = SubSeq(pending, k + 1, Len(pending)),
         UNCHANGED <<turn, begun>>
  PROVE  /\ pending' \in Seq(QueuedTurns)
         /\ \A i \in DOMAIN pending' : \E j \in DOMAIN pending : pending'[i] = pending[j]
<1>1. Len(pending) \in Nat /\ DOMAIN pending = 1..Len(pending) /\ k \in Nat
  BY DEF TurnTypes
<1>2. /\ pending' \in Seq(QueuedTurns)
      /\ Len(pending') = IF k + 1 <= Len(pending) THEN Len(pending) - (k + 1) + 1 ELSE 0
      /\ \A i \in 1..(Len(pending) - (k + 1) + 1) : pending'[i] = pending[k + 1 + i - 1]
  <2>1. \A i \in (k + 1)..Len(pending) : pending[i] \in QueuedTurns
    BY <1>1 DEF TurnTypes
  <2> HIDE DEF QueuedTurns
  <2> QED BY <1>1, <2>1, SubSeqProperties
<1>3. ASSUME NEW i \in DOMAIN pending' PROVE \E j \in DOMAIN pending : pending'[i] = pending[j]
  <2>0. DOMAIN pending' = 1..Len(pending')
    BY <1>2
  <2>1. Len(pending') = Len(pending) - k /\ k <= Len(pending)
    <3>1. ASSUME NEW n \in Nat, NEW m \in 0..n, NEW l, l = IF m + 1 <= n THEN n - (m + 1) + 1 ELSE 0
          PROVE  l = n - m /\ m <= n
      BY <3>1
    <3>2. k \in 0..Len(pending) /\ Len(pending) \in Nat
      BY <1>1
    <3> QED BY ONLY <1>2, <3>1, <3>2
  <2>2. ASSUME NEW n \in Nat, NEW m \in 0..n, NEW x \in 1..(n - m)
        PROVE  m + x \in 1..n /\ x \in 1..(n - (m + 1) + 1) /\ m + 1 + x - 1 = m + x
    OBVIOUS
  <2>3. i \in 1..(Len(pending) - k) /\ Len(pending) \in Nat
    BY <1>1, <2>0, <2>1
  <2>4. i \in 1..(Len(pending) - (k + 1) + 1) /\ k + i \in DOMAIN pending /\ k + 1 + i - 1 = k + i
    BY ONLY <1>1, <2>2, <2>3
  <2> QED BY <1>2, <2>4
<1> QED BY <1>2, <1>3

\* Turns only move on: from the queue to a final or to nothing, and to the pump.
LEMMA DecodingKeepsTurns ==
  ASSUME TurnTypes, BegunAreDecided, InheritedTurnKept, Decode
  PROVE  TurnTypes' /\ BegunAreDecided' /\ InheritedTurnKept'
<1>1. run' = run /\ begun' = begun /\ dropped' = dropped
  BY DEF Decode, runVars
<1>2. CASE Decide
  <2>1. PICK k \in 1..Len(pending) :
          /\ pending' = SubSeq(pending, k + 1, Len(pending))
          /\ ready' \in {ready, Append(ready, {pending[i].turn : i \in 1..k})}
    BY <1>2 DEF Decide
  <2>2. UNCHANGED <<turn, hand, pump>> /\ k \in 0..Len(pending)
    BY <1>2 DEF Decide, TurnTypes
  <2>3. /\ pending' \in Seq(QueuedTurns)
        /\ \A i \in DOMAIN pending' : \E j \in DOMAIN pending : pending'[i] = pending[j]
    BY <1>1, <2>1, <2>2, TurnsLeft
  <2> DEFINE decided == {pending[i].turn : i \in 1..k}
  <2>4. /\ decided \subseteq 1..MaxTurns
        /\ pump = "on" /\ ~run.open => decided \cap begun = {}
    <3>1. 1..k \subseteq DOMAIN pending /\ \A i \in DOMAIN pending : pending[i] \in QueuedTurns
      BY <2>2 DEF TurnTypes
    <3> QED BY <3>1 DEF BegunAreDecided, QueuedTurns
  <2>5. ready' = ready \/ ready' = Append(ready, decided)
    BY <2>1
  <2> HIDE DEF decided
  <2>6. /\ ready' \in Seq(SUBSET (1..MaxTurns))
        /\ pump = "on" /\ ~run.open => \A i \in DOMAIN ready' : ready'[i] \cap begun = {}
    <3>1. CASE ready' = ready
      BY <3>1 DEF TurnTypes, BegunAreDecided
    <3>2. CASE ready' = Append(ready, decided)
      <4>1. /\ ready' \in Seq(SUBSET (1..MaxTurns)) /\ Len(ready) \in Nat /\ DOMAIN ready = 1..Len(ready)
            /\ DOMAIN ready' = 1..(Len(ready) + 1) /\ ready'[Len(ready) + 1] = decided
            /\ \A i \in 1..Len(ready) : ready'[i] = ready[i]
        BY <2>4, <3>2 DEF TurnTypes
      <4>2. \A i \in DOMAIN ready' : i \in DOMAIN ready \/ i = Len(ready) + 1
        BY <4>1
      <4> QED BY <2>4, <4>1, <4>2 DEF BegunAreDecided
    <3> QED BY <2>5, <3>1, <3>2
  <2>7. TurnTypes'
    BY <1>1, <2>2, <2>3, <2>6 DEF TurnTypes
  <2>8. BegunAreDecided'
    BY <1>1, <2>2, <2>3, <2>6 DEF BegunAreDecided
  <2> QED BY <1>1, <2>7, <2>8 DEF InheritedTurnKept
<1>3. CASE Take
  <2>1. /\ ready # <<>> /\ hand' = Head(ready) /\ ready' = Tail(ready) /\ UNCHANGED <<turn, pending, pump>>
    BY <1>3 DEF Take
  <2>2. /\ Len(ready) \in Nat /\ DOMAIN ready = 1..Len(ready) /\ 1 \in DOMAIN ready /\ hand' = ready[1]
        /\ ready' \in Seq(SUBSET (1..MaxTurns)) /\ ready[1] \subseteq 1..MaxTurns
        /\ \A i \in DOMAIN ready' : i + 1 \in DOMAIN ready /\ ready'[i] = ready[i + 1]
    BY <2>1 DEF TurnTypes
  <2>3. TurnTypes'
    BY <1>1, <2>1, <2>2 DEF TurnTypes
  <2>4. BegunAreDecided'
    BY <1>1, <2>1, <2>2 DEF BegunAreDecided
  <2> QED BY <1>1, <2>3, <2>4 DEF InheritedTurnKept
<1>4. CASE PumpEnds \/ PumpDies
  <2>1. UNCHANGED <<turn, pending, ready, hand>> /\ pump' # "on"
    BY <1>4 DEF PumpEnds, PumpDies
  <2> QED BY <1>1, <2>1 DEF TurnTypes, BegunAreDecided, InheritedTurnKept
<1>5. CASE Close
  <2>1. PICK k \in 0..Len(pending) : pending' = SubSeq(pending, k + 1, Len(pending))
    BY <1>5 DEF Close
  <2>2. UNCHANGED <<turn, ready, hand, pump>>
    BY <1>5 DEF Close
  <2>3. /\ pending' \in Seq(QueuedTurns)
        /\ \A i \in DOMAIN pending' : \E j \in DOMAIN pending : pending'[i] = pending[j]
    BY <1>1, <2>1, <2>2, TurnsLeft
  <2>4. TurnTypes'
    BY <1>1, <2>2, <2>3 DEF TurnTypes
  <2>5. BegunAreDecided'
    BY <1>1, <2>2, <2>3 DEF BegunAreDecided
  <2> QED BY <1>1, <2>4, <2>5 DEF InheritedTurnKept
<1> QED BY <1>2, <1>3, <1>4, <1>5 DEF Decode

\* A final takes its turns out of those begun, and English all of them.
LEMMA HandledKeepsTurns ==
  ASSUME TurnTypes, BegunAreDecided, Handled, begun' \subseteq begun \ hand,
         run'.open = run.open \/ (run.open = FALSE) \/ begun' = {}, run.open \in BOOLEAN
  PROVE  TurnTypes' /\ BegunAreDecided'
<1>1. hand' = {} /\ UNCHANGED <<turn, pending, ready>> /\ pump = "on"
  BY DEF Handled
<1>2. TurnTypes'
  BY <1>1 DEF TurnTypes
<1>3. BegunAreDecided'
  BY <1>1 DEF BegunAreDecided
<1> QED BY <1>2, <1>3

\* Steps after the transcriber's leave the turns alone; a run ends only when no begun turn is left.
LEMMA SameTurns ==
  ASSUME TurnTypes, BegunAreDecided, InheritedTurnKept, UNCHANGED <<transcriberVars, begun, dropped>>,
         (pump = "on" /\ ~run'.open) => (~run.open \/ ~Finalizing)
  PROVE  TurnTypes' /\ BegunAreDecided' /\ InheritedTurnKept'
<1>1. UNCHANGED <<turn, pending, ready, hand, pump, begun, dropped>>
  BY DEF transcriberVars
<1>2. TurnTypes'
  BY <1>1 DEF TurnTypes
<1>3. BegunAreDecided'
  <2>1. ASSUME pump = "on", ~run.open \/ ~Finalizing
        PROVE  /\ hand \cap begun = {}
               /\ \A i \in DOMAIN ready : ready[i] \cap begun = {}
               /\ \A i \in DOMAIN pending : pending[i].turn \notin begun
    <3>1. CASE ~run.open
      BY <2>1, <3>1 DEF BegunAreDecided
    <3>2. CASE ~Finalizing
      BY <3>2 DEF BegunAreDecided, Finalizing
    <3> QED BY <2>1, <3>1, <3>2
  <2> QED BY <1>1, <2>1 DEF BegunAreDecided
<1> QED BY <1>1, <1>2, <1>3 DEF InheritedTurnKept

-----------------------------------------------------------------------------
(* The steps of the session.                                                *)

\* A run is opened, or goes on, with the turns that the final queues.
LEMMA OpeningKeeps ==
  ASSUME RunTypes, DoneFollowsRun, StreamInOrder, NEW lang \in Langs, NEW n \in Nat, OpenRun(lang, n),
         UNCHANGED <<job, sent, translator, resends>>
  PROVE  RunTypes' /\ DoneFollowsRun' /\ StreamInOrder' /\ run'.open = TRUE
<1> DEFINE r   == IF run.open THEN run.id ELSE run.id + 1
           new == [i \in 1..n |-> TranslateJob(lang, r)]
<1>1. /\ run.id \in Nat /\ r \in Nat /\ run.id <= r /\ ((r = run.id /\ run.open) \/ r = run.id + 1)
      /\ resends \in 0..MaxResends
  BY DEF RunTypes
<1>2. TranslateJob(lang, r) \in Entries /\ TranslateJob(lang, r).run = r /\ TranslateJob(lang, r).kind = "translate"
  BY <1>1 DEF TranslateJob, Entries
<1>3. /\ run' = [id |-> r, lang |-> lang, open |-> TRUE] /\ opener' = "none" /\ hold' = TRUE
      /\ queue' = queue \o new
  BY DEF OpenRun
<1>4. /\ new \in Seq(Entries) /\ DOMAIN new = 1..n
      /\ \A i \in DOMAIN new : new[i].run = r /\ new[i].kind = "translate"
  BY <1>2
<1>5. /\ run' \in [id : Nat, lang : Langs, open : BOOLEAN] /\ run'.id = r /\ run'.open = TRUE
  BY <1>1, <1>3
<1> HIDE DEF new, r
<1>6. \A i \in DOMAIN new : /\ new[i].run <= run'.id
                            /\ Tells(new[i]) => /\ new[i].run = run'.id /\ (new[i].kind = "done" => ~run'.open)
                                                /\ (new[i].kind = "translate" => run'.open)
  BY <1>1, <1>4, <1>5
<1>7. /\ opener' \in Foreign \cup {"none"} /\ hold' \in BOOLEAN /\ resends' \in 0..MaxResends
      /\ run.id <= run'.id /\ (run'.open => ((run'.id = run.id /\ run.open) \/ run'.id = run.id + 1))
      /\ UNCHANGED <<job, sent, translator>> /\ queue' = queue \o new
  BY <1>1, <1>3, <1>5
<1> QED BY <1>4, <1>5, <1>6, <1>7, Queued

\* A done marker is queued where its run is over.
LEMMA MarkingKeeps ==
  ASSUME RunTypes, DoneFollowsRun, StreamInOrder, NEW new \in Seq(Entries),
         \A i \in DOMAIN new : new[i] = DoneJob(run.id) \/ new[i] = StopJob,
         queue' = queue \o new, run' = run \/ run' = EndedRun,
         run'.open = FALSE \/ (\A i \in DOMAIN new : new[i] = StopJob),
         opener' \in Foreign \cup {"none"}, hold' \in BOOLEAN, resends' \in 0..MaxResends,
         UNCHANGED <<job, sent, translator>>
  PROVE  RunTypes' /\ DoneFollowsRun' /\ StreamInOrder'
<1>1. run \in [id : Nat, lang : Langs, open : BOOLEAN] /\ run.id \in Nat
  BY DEF RunTypes
<1>2. /\ run' \in [id : Nat, lang : Langs, open : BOOLEAN] /\ run'.id = run.id /\ run.id <= run'.id
      /\ run'.open => run.open
  <2>1. EndedRun \in [id : Nat, lang : Langs, open : BOOLEAN] /\ EndedRun.id = run.id /\ EndedRun.open = FALSE
    BY <1>1 DEF EndedRun, Langs
  <2>2. CASE run' = run
    BY <1>1, <2>2
  <2>3. CASE run' = EndedRun
    BY <1>1, <2>1, <2>3
  <2> QED BY <2>2, <2>3
<1>3. DoneJob(run.id).run = run.id /\ DoneJob(run.id).kind = "done" /\ StopJob.run = 0 /\ ~Tells(StopJob)
  BY DEF DoneJob, StopJob, Tells
<1>4. ASSUME NEW i \in DOMAIN new
      PROVE  /\ new[i].run <= run'.id
             /\ Tells(new[i]) => /\ new[i].run = run'.id /\ (new[i].kind = "done" => ~run'.open)
                                 /\ (new[i].kind = "translate" => run'.open)
  <2>1. CASE new[i] = StopJob
    BY <1>1, <1>2, <1>3, <2>1
  <2>2. CASE new[i] # StopJob
    <3>1. new[i] = DoneJob(run.id) /\ run'.open = FALSE
      BY <2>2
    <3> QED BY <1>1, <1>2, <1>3, <3>1
  <2> QED BY <2>1, <2>2
<1> QED BY <1>2, <1>4, Queued

\* Markers are entries.
LEMMA EntriesMade == \A r \in Nat : DoneJob(r) \in Entries /\ StopJob \in Entries
BY DEF DoneJob, StopJob, Entries, Langs

\* A final opens, ends or goes on with a run, or does nothing.
LEMMA ConsideringKeeps ==
  ASSUME RunTypes, DoneFollowsRun, StreamInOrder, NEW lang \in Langs, Consider(lang),
         UNCHANGED <<job, sent, translator, resends>>
  PROVE  /\ RunTypes' /\ DoneFollowsRun' /\ StreamInOrder'
         /\ run'.open = run.open \/ run.open = FALSE \/ lang = "en"
<1>1. /\ run \in [id : Nat, lang : Langs, open : BOOLEAN] /\ run.open \in BOOLEAN /\ run.id \in Nat
      /\ run.lang \in Langs /\ opener \in Foreign \cup {"none"} /\ hold \in BOOLEAN /\ resends \in 0..MaxResends
  BY DEF RunTypes
<1>2. CASE UNCHANGED <<run, hold, queue>> /\ opener' \in Foreign \cup {"none"}
  <2>1. hold' \in BOOLEAN /\ translator' \in {"on", "stopped"} /\ resends' \in 0..MaxResends
    BY <1>2 DEF RunTypes
  <2> QED BY <1>2, <2>1, SameStream
<1>3. ASSUME NEW n \in Nat, OpenRun(lang, n), run.open \/ run.open = FALSE
      PROVE  /\ RunTypes' /\ DoneFollowsRun' /\ StreamInOrder'
             /\ run'.open = run.open \/ run.open = FALSE
  <2>1. RunTypes' /\ DoneFollowsRun' /\ StreamInOrder' /\ run'.open = TRUE
    BY <1>3, OpeningKeeps
  <2> QED BY <1>1, <2>1
<1>4. CASE EndRun /\ lang = "en" /\ opener' = "none"
  <2>1. /\ <<DoneJob(run.id)>> \in Seq(Entries) /\ queue \in Seq(Entries)
        /\ DOMAIN <<DoneJob(run.id)>> = {1} /\ <<DoneJob(run.id)>>[1] = DoneJob(run.id)
    BY <1>1, EntriesMade DEF RunTypes
  <2>2. /\ queue' = queue \o <<DoneJob(run.id)>> /\ run' = EndedRun /\ hold' \in BOOLEAN
    <3>1. queue' = Append(queue, DoneJob(run.id)) /\ run' = EndedRun /\ hold' = FALSE
      BY <1>4 DEF EndRun
    <3>2. Append(queue, DoneJob(run.id)) = queue \o <<DoneJob(run.id)>>
      BY <1>1, <2>1, EntriesMade, AppendIsConcat
    <3> QED BY <3>1, <3>2
  <2>3. run'.open = FALSE
    BY <1>1, <2>2 DEF EndedRun
  <2> QED BY <1>1, <1>4, <2>1, <2>2, <2>3, MarkingKeeps
<1>5. CASE lang = "none" /\ opener' = opener /\ run' = run /\ run.open = TRUE
           /\ hold' = TRUE /\ queue' = Append(queue, TranslateJob(run.lang, run.id))
  <2> DEFINE e == TranslateJob(run.lang, run.id)
  <2>1. e \in Entries /\ e.run = run.id /\ e.kind = "translate"
    BY <1>1 DEF TranslateJob, Entries
  <2> HIDE DEF e
  <2>2. /\ <<e>> \in Seq(Entries) /\ queue' = queue \o <<e>> /\ DOMAIN <<e>> = {1} /\ <<e>>[1] = e
    <3>1. Append(queue, e) = queue \o <<e>>
      BY <2>1, AppendIsConcat DEF RunTypes
    <3>2. queue' = Append(queue, e)
      BY <1>5 DEF e
    <3> QED BY <2>1, <3>1, <3>2
  <2>3. \A i \in DOMAIN <<e>> :
           /\ <<e>>[i].run <= run'.id
           /\ Tells(<<e>>[i]) => /\ <<e>>[i].run = run'.id /\ (<<e>>[i].kind = "done" => ~run'.open)
                                 /\ (<<e>>[i].kind = "translate" => run'.open)
    BY <1>1, <1>5, <2>1, <2>2
  <2>4. /\ run' \in [id : Nat, lang : Langs, open : BOOLEAN] /\ run.id <= run'.id
        /\ (run'.open => ((run'.id = run.id /\ run.open) \/ run'.id = run.id + 1))
        /\ opener' \in Foreign \cup {"none"} /\ hold' \in BOOLEAN /\ resends' \in 0..MaxResends
    BY <1>1, <1>5
  <2> QED BY <1>5, <2>2, <2>3, <2>4, Queued
<1>6. \/ UNCHANGED <<run, hold, queue>> /\ opener' \in Foreign \cup {"none"}
      \/ (run.open \/ run.open = FALSE) /\ (OpenRun(lang, 1) \/ OpenRun(lang, 2))
      \/ EndRun /\ lang = "en" /\ opener' = "none"
      \/ /\ lang = "none" /\ opener' = opener /\ run' = run /\ run.open = TRUE
         /\ hold' = TRUE /\ queue' = Append(queue, TranslateJob(run.lang, run.id))
  BY <1>1 DEF Consider, Weigh
<1>7. CASE (run.open \/ run.open = FALSE) /\ (OpenRun(lang, 1) \/ OpenRun(lang, 2))
  <2>1. 1 \in Nat /\ 2 \in Nat
    OBVIOUS
  <2> QED BY <1>3, <1>7, <2>1
<1> QED BY <1>2, <1>4, <1>5, <1>6, <1>7

\* Every step of the session keeps the invariant.
LEMMA TranslationKept == TranslationInv /\ [TranslationNext]_translationVars => TranslationInv'
<1> SUFFICES ASSUME TranslationInv, [TranslationNext]_translationVars PROVE TranslationInv'
  OBVIOUS
<1>1. /\ TurnTypes /\ RunTypes /\ DoneFollowsRun /\ StreamInOrder /\ BegunAreDecided /\ InheritedTurnKept
  BY DEF TranslationInv
<1>2. /\ run \in [id : Nat, lang : Langs, open : BOOLEAN] /\ run.open \in BOOLEAN /\ run.id \in Nat
      /\ opener \in Foreign \cup {"none"} /\ hold \in BOOLEAN /\ translator \in {"on", "stopped"}
      /\ resends \in 0..MaxResends
  BY <1>1 DEF RunTypes
<1>3. CASE CutTurn
  <2>1. UNCHANGED <<run, opener, hold, queue, job, translator, sent, resends>>
    BY <1>3 DEF CutTurn
  <2>2. RunTypes' /\ DoneFollowsRun' /\ StreamInOrder'
    BY <1>1, <1>2, <2>1, SameStream
  <2>3. TurnTypes' /\ BegunAreDecided' /\ InheritedTurnKept'
    BY <1>1, <1>3, CutKeepsTurns
  <2> QED BY <2>2, <2>3 DEF TranslationInv
<1>4. CASE Decode
  <2>1. UNCHANGED <<run, opener, hold, queue, job, translator, sent, resends>>
    BY <1>4 DEF Decode, runVars
  <2>2. RunTypes' /\ DoneFollowsRun' /\ StreamInOrder'
    BY <1>1, <1>2, <2>1, SameStream
  <2>3. TurnTypes' /\ BegunAreDecided' /\ InheritedTurnKept'
    BY <1>1, <1>4, DecodingKeepsTurns
  <2> QED BY <2>2, <2>3 DEF TranslationInv
<1>5. CASE HandleStale
  <2>1. /\ Handled /\ begun' = begun \ hand
        /\ UNCHANGED <<run, opener, hold, queue, job, translator, sent, resends, dropped>>
    BY <1>5 DEF HandleStale
  <2>2. RunTypes' /\ DoneFollowsRun' /\ StreamInOrder'
    BY <1>1, <1>2, <2>1, SameStream
  <2>3. TurnTypes' /\ BegunAreDecided'
    BY <1>1, <1>2, <2>1, HandledKeepsTurns
  <2> QED BY <1>1, <2>1, <2>2, <2>3 DEF TranslationInv, InheritedTurnKept
<1>6. CASE HandleFinal
  <2>1. PICK lang \in Langs :
          /\ Consider(lang)
          /\ begun' = IF lang = "en" THEN {} ELSE begun \ hand
          /\ dropped' = IF lang = "none" /\ ~run.open THEN dropped \cup (hand \cap begun) ELSE dropped
    BY <1>6 DEF HandleFinal
  <2>2. Handled /\ pump = "on" /\ UNCHANGED <<job, translator, sent, resends>>
    BY <1>6 DEF HandleFinal, Handled
  <2>3. /\ RunTypes' /\ DoneFollowsRun' /\ StreamInOrder'
        /\ run'.open = run.open \/ run.open = FALSE \/ lang = "en"
    BY <1>1, <2>1, <2>2, ConsideringKeeps
  <2>4. begun' \subseteq begun \ hand /\ (run'.open = run.open \/ run.open = FALSE \/ begun' = {})
    BY <2>1, <2>3
  <2>5. TurnTypes' /\ BegunAreDecided'
    BY <1>1, <1>2, <2>2, <2>4, HandledKeepsTurns
  <2>6. ~run.open => hand \cap begun = {}
    BY <1>1, <2>2 DEF BegunAreDecided
  <2>7. InheritedTurnKept'
    BY <1>1, <2>1, <2>6 DEF InheritedTurnKept
  <2> QED BY <2>3, <2>5, <2>7 DEF TranslationInv
<1>7. CASE HoldExpires
  <2>1. /\ ~HoldWaits /\ EndRun /\ UNCHANGED <<transcriberVars, begun, dropped>>
        /\ UNCHANGED <<opener, job, translator, sent, resends>>
    BY <1>7 DEF HoldExpires
  <2>2. queue' = Append(queue, DoneJob(run.id)) /\ run' = EndedRun /\ hold' = FALSE
    BY <2>1 DEF EndRun
  <2>3. <<DoneJob(run.id)>> \in Seq(Entries) /\ queue' = queue \o <<DoneJob(run.id)>>
    BY <1>1, <1>2, <2>2, EntriesMade, AppendIsConcat DEF RunTypes
  <2>4. DOMAIN <<DoneJob(run.id)>> = {1} /\ <<DoneJob(run.id)>>[1] = DoneJob(run.id)
    OBVIOUS
  <2>5. run'.open = FALSE /\ hold' \in BOOLEAN
    BY <1>2, <2>2 DEF EndedRun
  <2>6. RunTypes' /\ DoneFollowsRun' /\ StreamInOrder'
    BY <1>1, <1>2, <2>1, <2>2, <2>3, <2>4, <2>5, MarkingKeeps
  <2>7. (pump = "on" /\ ~run'.open) => (~run.open \/ ~Finalizing)
    BY <2>1 DEF HoldWaits
  <2>8. TurnTypes' /\ BegunAreDecided' /\ InheritedTurnKept'
    BY <1>1, <2>1, <2>7, SameTurns
  <2> QED BY <2>6, <2>8 DEF TranslationInv
<1>8. ASSUME UNCHANGED <<transcriberVars, run, begun, dropped>>
      PROVE  TurnTypes' /\ BegunAreDecided' /\ InheritedTurnKept'
  BY <1>1, <1>8, SameTurns
<1>9. CASE TakeJob
  <2>1. UNCHANGED <<transcriberVars, run, begun, dropped>>
    BY <1>9 DEF TakeJob
  <2> QED BY <1>1, <1>8, <1>9, <2>1, TakingKeeps DEF TranslationInv
<1>10. CASE FinishJob
  <2>1. UNCHANGED <<transcriberVars, run, begun, dropped>>
    BY <1>10 DEF FinishJob
  <2> QED BY <1>1, <1>8, <1>10, <2>1, FinishingKeeps DEF TranslationInv
<1>11. CASE Resend
  <2>1. /\ resends < MaxResends /\ ~run.open /\ resends' = resends + 1 /\ queue' = Append(queue, DoneJob(run.id))
        /\ UNCHANGED <<transcriberVars, run, begun, dropped>> /\ UNCHANGED <<opener, hold, job, translator, sent>>
    BY <1>11 DEF Resend
  <2>2. <<DoneJob(run.id)>> \in Seq(Entries) /\ queue' = queue \o <<DoneJob(run.id)>>
    BY <1>1, <1>2, <2>1, EntriesMade, AppendIsConcat DEF RunTypes
  <2>3. DOMAIN <<DoneJob(run.id)>> = {1} /\ <<DoneJob(run.id)>>[1] = DoneJob(run.id)
    OBVIOUS
  <2>4. run'.open = FALSE /\ resends' \in 0..MaxResends /\ opener' \in Foreign \cup {"none"} /\ hold' \in BOOLEAN
    BY <1>2, <2>1, TranslationBounds
  <2>5. RunTypes' /\ DoneFollowsRun' /\ StreamInOrder'
    BY <1>1, <2>1, <2>2, <2>3, <2>4, MarkingKeeps
  <2> QED BY <1>8, <2>1, <2>5 DEF TranslationInv
<1>12. CASE PumpJoined
  <2> DEFINE new == IF run.open THEN <<DoneJob(run.id), StopJob>> ELSE <<StopJob>>
  <2>1. /\ pump # "on" /\ queue' = queue \o new /\ run' = (IF run.open THEN EndedRun ELSE run)
        /\ hold' \in BOOLEAN
        /\ UNCHANGED <<transcriberVars, begun, dropped>> /\ UNCHANGED <<opener, job, translator, sent, resends>>
    BY <1>12 DEF PumpJoined
  <2>2. /\ new \in Seq(Entries) /\ \A i \in DOMAIN new : new[i] = DoneJob(run.id) \/ new[i] = StopJob
    <3>1. CASE run.open
      <4>1. new = <<DoneJob(run.id), StopJob>> /\ DOMAIN new = {1, 2} /\ new[1] = DoneJob(run.id) /\ new[2] = StopJob
        BY <3>1
      <4>2. <<DoneJob(run.id), StopJob>> \in Seq(Entries)
        BY <1>2, EntriesMade
      <4> QED BY <4>1, <4>2
    <3>2. CASE ~run.open
      <4>1. new = <<StopJob>> /\ DOMAIN new = {1} /\ new[1] = StopJob
        BY <3>2
      <4>2. <<StopJob>> \in Seq(Entries)
        BY <1>2, EntriesMade
      <4> QED BY <4>1, <4>2
    <3> QED BY <3>1, <3>2
  <2> HIDE DEF new
  <2>3. EndedRun.open = FALSE /\ run'.open = FALSE
    BY <1>2, <2>1 DEF EndedRun
  <2>4. RunTypes' /\ DoneFollowsRun' /\ StreamInOrder'
    BY <1>1, <1>2, <2>1, <2>2, <2>3, MarkingKeeps
  <2>5. TurnTypes' /\ BegunAreDecided' /\ InheritedTurnKept'
    BY <1>1, <2>1, SameTurns
  <2> QED BY <2>4, <2>5 DEF TranslationInv
<1>13. CASE DrainTimesOut
  <2>1. UNCHANGED <<transcriberVars, run, begun, dropped>>
    BY <1>13 DEF DrainTimesOut
  <2> QED BY <1>1, <1>8, <1>13, <2>1, DrainEnds DEF TranslationInv
<1>14. CASE UNCHANGED translationVars
  <2>1. /\ UNCHANGED <<transcriberVars, run, begun, dropped>>
        /\ UNCHANGED <<opener, hold, queue, job, translator, sent, resends>>
    BY <1>14 DEF translationVars, runVars
  <2>2. RunTypes' /\ DoneFollowsRun' /\ StreamInOrder'
    BY <1>1, <1>2, <2>1, SameStream
  <2> QED BY <1>8, <2>1, <2>2 DEF TranslationInv
<1> QED
  BY <1>3, <1>4, <1>5, <1>6, <1>7, <1>9, <1>10, <1>11, <1>12, <1>13, <1>14 DEF TranslationNext, Drained

\* The stream of translations and done markers that a client gets (session.py, the run of
\* _consider_translation and _translation_worker_loop) names runs in order, ends no run whose
\* translations are still to come, and leaves out no turn of a run however late its final is.
THEOREM TranslationsAreSafe == TranslationSpec => []TranslationSafe
<1>1. TranslationSpec => []TranslationInv
  BY TranslationStart, TranslationKept, PTL DEF TranslationSpec
<1> QED BY <1>1, TranslationHolds, PTL

-----------------------------------------------------------------------------
(* Cues: the inductive invariant.                                           *)

\* Every subject shown is remembered, and one that is being checked is not shown yet: nothing is
\* sent while a call is in flight but its own cue.
SubjectsKnown ==
  /\ \A i \in DOMAIN shown : shown[i].subject \in subjects
  /\ call.at = "check" => \A cue \in call.cue : cue.subject \notin subjects

\* A turn is missed only once the floor of the call in flight has lapsed, so what catches up on it
\* keeps the floor too.
MissedLate == missed # 0 => ~floor

CueInv == CueSafe /\ SubjectsKnown /\ MissedLate

Calls == [at : {"none", "model", "check", "send"}, cue : SUBSET Cues]

\* The calls that there are.
LEMMA CallFacts == /\ NoCall \in Calls /\ NoCall.at = "none" /\ NoCall.cue = {}
                   /\ [at |-> "model", cue |-> {}] \in Calls
                   /\ \A c \in Calls, x \in {"check", "send"}, cue \in Cues :
                        /\ [at |-> x, cue |-> {cue}] \in Calls
                        /\ c.at # "none" => c # NoCall
BY DEF NoCall, Calls

\* A session starts with no cue and no call.
LEMMA CuesStart == CueInit => CueInv
<1> SUFFICES ASSUME CueInit PROVE CueInv
  OBVIOUS
<1>1. CueTypeOK
  <2>1. call \in Calls /\ shown \in Seq(Cues)
    BY CallFacts DEF CueInit
  <2>2. {floor, timer, interval, busy, checker} \subseteq BOOLEAN
    BY DEF CueInit
  <2> QED BY <2>1, <2>2, CueAssumption DEF CueInit, CueTypeOK, Calls
<1>2. SetAsideIsOwned /\ NoSubjectTwice /\ SubjectsKnown /\ MissedLate
  BY CallFacts DEF CueInit, SetAsideIsOwned, NoSubjectTwice, SubjectsKnown, MissedLate
<1> QED BY <1>1, <1>2 DEF CueInv, CueSafe

\* What a call leaves behind when it ends: another call on what was set aside, or nothing.
LEMMA CallEnded ==
  ASSUME CueInv, NEW n, NEW justShown, CatchUp(n, justShown), final' = final
  PROVE  /\ final' \in 0..MaxFinals /\ seen' \in 0..MaxFinals /\ held' \in 0..MaxFinals /\ missed' = 0
         /\ floor' \in BOOLEAN /\ timer' \in BOOLEAN /\ call' \in Calls
         /\ call'.at \in {"none", "model"} /\ (held' # 0 => timer')
<1>a. /\ final \in 0..MaxFinals /\ seen \in 0..MaxFinals /\ held \in 0..MaxFinals
      /\ floor \in BOOLEAN /\ timer \in BOOLEAN /\ (held # 0 => timer) /\ 0 \in 0..MaxFinals
  BY CueAssumption DEF CueInv, CueSafe, CueTypeOK, SetAsideIsOwned
<1>1. CASE MayCatchUp(n) /\ ~justShown
  <2>1. missed' = 0 /\ StartCall(final)
    BY <1>1 DEF CatchUp
  <2> QED BY <1>a, <2>1, CallFacts DEF StartCall
<1>2. CASE ~(MayCatchUp(n) /\ ~justShown)
  <2>1. missed' = 0 /\ call' = NoCall /\ UNCHANGED <<seen, floor, timer, held>>
    BY <1>2 DEF CatchUp
  <2> QED BY <1>a, <2>1, CallFacts
<1> QED BY <1>1, <1>2

\* A cue that does not repeat a subject is shown once.
LEMMA Shown ==
  ASSUME CueInv, NEW cue \in Cues, cue.subject \notin subjects, Show(cue), call.at # "none",
         UNCHANGED <<busy, ending, checker>>
  PROVE  CueInv'
<1> USE DEF CueInv, CueSafe
<1>1. /\ call' = [at |-> "send", cue |-> {cue}] /\ subjects' = subjects \cup {cue.subject}
      /\ shown' = Append(shown, cue) /\ norms' = norms \cup {cue} /\ interval' = TRUE
      /\ UNCHANGED <<final, seen, floor, timer, held, missed>>
  BY DEF Show
<1>2. /\ shown \in Seq(Cues) /\ shown' \in Seq(Cues) /\ Len(shown) \in Nat
      /\ DOMAIN shown = 1..Len(shown) /\ DOMAIN shown' = 1..(Len(shown) + 1)
      /\ \A i \in 1..Len(shown) : shown'[i] = shown[i]
      /\ shown'[Len(shown) + 1] = cue
  BY <1>1 DEF CueTypeOK
<1>3. CueTypeOK'
  <2>1. call' \in Calls /\ cue.subject \in Subjects
    BY <1>1, CallFacts DEF Cues
  <2>2. {floor, timer, interval, busy, checker}' \subseteq BOOLEAN
    BY <1>1 DEF CueTypeOK
  <2> QED BY <1>1, <1>2, <2>1, <2>2 DEF CueTypeOK, Calls
<1>4. SetAsideIsOwned'
  BY <1>1, CallFacts DEF SetAsideIsOwned
<1>5. NoSubjectTwice'
  <2> SUFFICES ASSUME NEW i \in 1..(Len(shown) + 1), NEW j \in 1..(Len(shown) + 1),
                      shown'[i].subject = shown'[j].subject
               PROVE  i = j
    BY <1>2 DEF NoSubjectTwice
  <2>1. \A k \in 1..Len(shown) : shown'[k].subject # cue.subject
    BY <1>2 DEF SubjectsKnown
  <2>2. CASE i \in 1..Len(shown) /\ j \in 1..Len(shown)
    BY <1>2, <2>2 DEF NoSubjectTwice
  <2>3. CASE i = Len(shown) + 1 \/ j = Len(shown) + 1
    BY <1>2, <2>1, <2>3
  <2> QED BY <1>2, <2>2, <2>3
<1>6. SubjectsKnown'
  <2>1. call'.at # "check"
    BY <1>1
  <2>2. ASSUME NEW i \in 1..(Len(shown) + 1)
        PROVE  shown'[i].subject \in subjects'
    <3>1. CASE i \in 1..Len(shown)
      BY <1>1, <1>2, <3>1 DEF SubjectsKnown
    <3>2. CASE i = Len(shown) + 1
      BY <1>1, <1>2, <3>2
    <3> QED BY <1>2, <3>1, <3>2
  <2> QED BY <1>2, <2>1, <2>2 DEF SubjectsKnown
<1>7. MissedLate'
  BY <1>1 DEF MissedLate
<1> QED BY <1>3, <1>4, <1>5, <1>6, <1>7

\* A call that ends without showing anything, whatever is noted of its title.
LEMMA Dropped ==
  ASSUME CueInv, NEW n, NEW justShown, CatchUp(n, justShown), final' = final,
         norms' \subseteq Cues, UNCHANGED <<interval, busy, ending, checker, subjects, shown>>
  PROVE  CueInv'
<1>1. /\ final' \in 0..MaxFinals /\ seen' \in 0..MaxFinals /\ held' \in 0..MaxFinals /\ missed' = 0
      /\ floor' \in BOOLEAN /\ timer' \in BOOLEAN /\ call' \in Calls
      /\ call'.at \in {"none", "model"} /\ (held' # 0 => timer')
  BY CallEnded
<1>2. CueTypeOK'
  <2>1. {floor, timer, interval, busy, checker}' \subseteq BOOLEAN
    BY <1>1 DEF CueInv, CueSafe, CueTypeOK
  <2>2. missed' \in 0..MaxFinals
    BY <1>1, CueAssumption
  <2> QED BY <1>1, <2>1, <2>2 DEF CueInv, CueSafe, CueTypeOK, Calls
<1>3. SetAsideIsOwned' /\ NoSubjectTwice' /\ SubjectsKnown' /\ MissedLate'
  BY <1>1 DEF CueInv, CueSafe, SetAsideIsOwned, NoSubjectTwice, SubjectsKnown, MissedLate
<1> QED BY <1>2, <1>3 DEF CueInv, CueSafe

\* Every step keeps the invariant: turns and timers set aside, calls end, show or drop.
LEMMA CuesKept == CueInv /\ [CueNext]_cueVars => CueInv'
<1> SUFFICES ASSUME CueInv, [CueNext]_cueVars PROVE CueInv'
  OBVIOUS
<1>a. CueTypeOK /\ SetAsideIsOwned /\ NoSubjectTwice /\ SubjectsKnown /\ MissedLate
  BY DEF CueInv, CueSafe
<1>1. CASE ConsiderFinal
  <2>1. UNCHANGED <<interval, busy, ending, checker, norms, subjects, shown>> /\ final' \in 0..MaxFinals
    BY <1>a, <1>1, CueAssumption DEF ConsiderFinal, CueTypeOK
  <2>2. /\ seen' \in 0..MaxFinals /\ held' \in 0..MaxFinals /\ missed' \in 0..MaxFinals
        /\ floor' \in BOOLEAN /\ timer' \in BOOLEAN /\ call' \in Calls
        /\ (held' # 0 => timer') /\ (missed' # 0 => call' # NoCall /\ ~floor')
        /\ call' = call \/ call'.at = "model"
    BY <1>a, <1>1, <2>1, CueAssumption, CallFacts
       DEF ConsiderFinal, StartCall, CueTypeOK, Calls, SetAsideIsOwned, MissedLate
  <2>3. {floor, timer, interval, busy, checker}' \subseteq BOOLEAN
    BY <1>a, <2>1, <2>2 DEF CueTypeOK
  <2>4. CueTypeOK'
    BY <1>a, <2>1, <2>2, <2>3 DEF CueTypeOK, Calls
  <2>5. NoSubjectTwice' /\ SubjectsKnown' /\ SetAsideIsOwned' /\ MissedLate'
    BY <1>a, <2>1, <2>2 DEF NoSubjectTwice, SubjectsKnown, SetAsideIsOwned, MissedLate
  <2> QED BY <2>4, <2>5 DEF CueInv, CueSafe
<1>2. CASE FloorPasses \/ IntervalPasses \/ BoxChanges \/ SessionEnds
  <2>1. /\ UNCHANGED <<final, seen, timer, held, missed, call, checker, norms, subjects, shown>>
        /\ ending' \in {"open", "closed", "finished"}
        /\ (floor' = floor \/ floor' = FALSE) /\ (interval' = interval \/ interval' = FALSE)
        /\ (busy' = busy \/ busy' = ~busy)
    BY <1>a, <1>2 DEF FloorPasses, IntervalPasses, BoxChanges, SessionEnds, CueTypeOK
  <2>2. {floor, timer, interval, busy, checker}' \subseteq BOOLEAN
    BY <1>a, <2>1 DEF CueTypeOK
  <2>3. CueTypeOK'
    BY <1>a, <2>1, <2>2 DEF CueTypeOK
  <2>4. NoSubjectTwice' /\ SubjectsKnown' /\ SetAsideIsOwned'
    BY <1>a, <2>1 DEF NoSubjectTwice, SubjectsKnown, SetAsideIsOwned
  <2>5. MissedLate'
    BY <1>a, <2>1 DEF MissedLate
  <2> QED BY <2>3, <2>4, <2>5 DEF CueInv, CueSafe
<1>3. CASE TimerFires
  <2>1. UNCHANGED <<final, interval, busy, ending, checker, norms, subjects, shown>>
    BY <1>3 DEF TimerFires
  <2>2. /\ seen' \in 0..MaxFinals /\ held' = 0 /\ missed' \in 0..MaxFinals
        /\ floor' \in BOOLEAN /\ timer' = FALSE /\ call' \in Calls
        /\ (missed' # 0 => call' # NoCall /\ ~floor') /\ (call' = call \/ call'.at = "model")
    <3>1. CASE call # NoCall
      <4>1. HandOver /\ ~floor /\ UNCHANGED <<seen, floor, call>>
        BY <1>3, <3>1 DEF TimerFires
      <4>2. /\ seen \in 0..MaxFinals /\ floor \in BOOLEAN /\ call \in Calls
            /\ held \in 0..MaxFinals /\ missed \in 0..MaxFinals
        BY <1>a DEF CueTypeOK, Calls
      <4> QED BY <3>1, <4>1, <4>2 DEF HandOver
    <3>2. CASE call = NoCall
      <4>1. missed' = 0 /\ timer' = FALSE /\ held' = 0
        BY <1>3, <3>2 DEF TimerFires
      <4>2. \/ call' = [at |-> "model", cue |-> {}] /\ seen' = final /\ floor' = TRUE
            \/ UNCHANGED <<call, seen, floor>>
        BY <1>3, <3>2 DEF TimerFires
      <4>3. /\ final \in 0..MaxFinals /\ seen \in 0..MaxFinals /\ floor \in BOOLEAN /\ call \in Calls
            /\ 0 \in 0..MaxFinals
        BY <1>a, CueAssumption DEF CueTypeOK, Calls
      <4>4. call' \in Calls /\ (call' = call \/ call'.at = "model")
        BY <4>2, <4>3, CallFacts
      <4>5. seen' \in 0..MaxFinals /\ floor' \in BOOLEAN
        BY <4>2, <4>3
      <4> QED BY <4>1, <4>3, <4>4, <4>5
    <3> QED BY <3>1, <3>2
  <2>3. {floor, timer, interval, busy, checker}' \subseteq BOOLEAN
    BY <1>a, <2>1, <2>2 DEF CueTypeOK
  <2>4. CueTypeOK'
    BY <1>a, <2>1, <2>2, <2>3, CueAssumption DEF CueTypeOK, Calls
  <2>5. NoSubjectTwice' /\ SubjectsKnown' /\ SetAsideIsOwned' /\ MissedLate'
    BY <1>a, <2>1, <2>2 DEF NoSubjectTwice, SubjectsKnown, SetAsideIsOwned, MissedLate
  <2> QED BY <2>4, <2>5 DEF CueInv, CueSafe
<1>4. CASE ModelAnswers
  <2>1. call.at = "model" /\ UNCHANGED <<busy, ending, checker>>
    BY <1>4 DEF ModelAnswers
  <2>2. CASE CallEnds /\ UNCHANGED <<interval, norms, subjects, shown>>
    BY <1>a, <2>1, <2>2, Dropped DEF CallEnds, CueTypeOK
  <2>3. ASSUME NEW cue \in Cues, ~Repeats(cue), Show(cue)
        PROVE  CueInv'
    BY <2>1, <2>3, Shown DEF Repeats
  <2>4. ASSUME NEW cue \in Cues, ~Repeats(cue), call' = [at |-> "check", cue |-> {cue}],
               UNCHANGED <<final, seen, floor, timer, held, missed, interval, norms, subjects, shown>>
        PROVE  CueInv'
    <3>1. call' \in Calls /\ call' # NoCall
      BY <2>4, CallFacts
    <3>2. CueTypeOK'
      BY <1>a, <2>1, <2>4, <3>1 DEF CueTypeOK, Calls
    <3>3. NoSubjectTwice' /\ SubjectsKnown' /\ SetAsideIsOwned' /\ MissedLate'
      BY <1>a, <2>4, <3>1 DEF NoSubjectTwice, SubjectsKnown, SetAsideIsOwned, MissedLate, Repeats
    <3> QED BY <3>2, <3>3 DEF CueInv, CueSafe
  <2> QED BY <1>4, <2>2, <2>3, <2>4 DEF ModelAnswers
<1>5. CASE Checked
  <2>1. call.at = "check" /\ UNCHANGED <<busy, ending, checker>>
    BY <1>5 DEF Checked
  <2>2. PICK cue \in call.cue :
          \/ norms' = norms \cup {cue} /\ CallEnds /\ UNCHANGED <<interval, subjects, shown>>
          \/ MayShow /\ Show(cue)
          \/ ~MayShow /\ CallEnds /\ UNCHANGED <<interval, norms, subjects, shown>>
    BY <1>5 DEF Checked
  <2>3. cue \in Cues /\ cue.subject \notin subjects
    BY <1>a, <2>1, <2>2 DEF CueTypeOK, SubjectsKnown
  <2>4. CASE CallEnds /\ norms' \subseteq Cues /\ UNCHANGED <<interval, subjects, shown>>
    BY <2>1, <2>4, Dropped DEF CallEnds
  <2>5. CASE Show(cue)
    BY <2>1, <2>3, <2>5, Shown
  <2>6. norms \cup {cue} \subseteq Cues
    BY <1>a, <2>3 DEF CueTypeOK
  <2> QED BY <2>2, <2>4, <2>5, <2>6
<1>6. CASE Sent
  BY <1>a, <1>6, Dropped DEF Sent, CallEnds, CueTypeOK
<1>7. CASE UNCHANGED cueVars
  BY <1>a, <1>7 DEF cueVars, CueInv, CueSafe, CueTypeOK, SetAsideIsOwned, NoSubjectTwice, SubjectsKnown, MissedLate
<1> QED BY <1>1, <1>2, <1>3, <1>4, <1>5, <1>6, <1>7 DEF CueNext

\* No subject is shown twice, and a turn set aside is somebody's, for any number of turns, subjects
\* and angles on them (session.py, _consider_cue to _cue_catch_up).
THEOREM CuesAreSafe == CueSpec => []CueSafe
<1>1. CueInv => CueSafe
  BY DEF CueInv
<1> QED BY CuesStart, CuesKept, <1>1, PTL DEF CueSpec

\* A call of the model starts only outside the floor of the last attempt, and a cue is sent only
\* while neither a run nor a song has the box and the row is not marked ready.
THEOREM CuesKeepApart == CueSpec => AttemptsAreApart /\ ShownInTheOpen
<1>1. ASSUME CueInv, [CueNext]_cueVars
      PROVE  /\ call'.at = "model" /\ call.at # "model" => ~floor
             /\ shown' # shown => ~busy /\ ending # "finished"
  <2>a. CueTypeOK /\ MissedLate /\ SetAsideIsOwned
    BY <1>1 DEF CueInv, CueSafe
  <2>b. ASSUME CallEnds
        PROVE  call'.at = "model" => ~floor
    <3>1. CASE missed = 0
      BY <2>b, <3>1, CallFacts DEF CallEnds, CatchUp, MayCatchUp
    <3>2. CASE missed # 0
      BY <2>a, <3>2 DEF MissedLate
    <3> QED BY <3>1, <3>2
  <2>1. CASE ConsiderFinal
    BY <2>1 DEF ConsiderFinal
  <2>2. CASE FloorPasses \/ IntervalPasses \/ BoxChanges \/ SessionEnds \/ UNCHANGED cueVars
    BY <2>2 DEF FloorPasses, IntervalPasses, BoxChanges, SessionEnds, cueVars
  <2>3. CASE TimerFires
    BY <2>3 DEF TimerFires
  <2>4. CASE ModelAnswers
    BY <2>4 DEF ModelAnswers, MayShow
  <2>5. CASE Checked
    <3>1. /\ call.at = "check"
          /\ (CallEnds /\ UNCHANGED shown) \/ (MayShow /\ \E cue \in Cues : Show(cue))
      <4>1. call.cue \subseteq Cues
        BY <2>a DEF CueTypeOK
      <4>2. PICK cue \in call.cue : (CallEnds /\ UNCHANGED shown) \/ (MayShow /\ Show(cue))
        BY <2>5 DEF Checked
      <4>3. call.at = "check"
        BY <2>5 DEF Checked
      <4>4. cue \in Cues
        BY <4>1, <4>2
      <4> QED BY <4>2, <4>3, <4>4
    <3> QED BY <2>b, <3>1 DEF MayShow, Show
  <2>6. CASE Sent
    BY <2>b, <2>6 DEF Sent
  <2> QED BY <1>1, <2>1, <2>2, <2>3, <2>4, <2>5, <2>6 DEF CueNext
<1> QED BY CuesStart, CuesKept, <1>1, PTL DEF CueSpec, AttemptsAreApart, ShownInTheOpen

-----------------------------------------------------------------------------
(* The checks of cues against the encyclopedia.                             *)

CheckRecords ==
  [at : {"idle", "propose", "full", "short", "reads", "verdict"},
   left : {"full", "short", "none"}, waited : BOOLEAN, read : [Titles -> ReadStates]]

\* A slot is asked for and held by reads of a check that is at its reads.
ReadsInTime ==
  \A c \in Checks : \A t \in Titles : checks[c].read[t] \in {"wait"} \cup Reading => checks[c].at = "reads"

\* One check at a time is waited for; the others that go on have no time left.
WaitedAlone ==
  /\ \A c, d \in Checks : checks[c].waited /\ checks[d].waited => c = d
  /\ \A c \in Checks : /\ checks[c].waited => checks[c].at # "idle"
                       /\ checks[c].at # "idle" /\ ~checks[c].waited => checks[c].left = "none"

\* What the checker remembers of the last limit is of the check that is waited for, as long as that
\* one is at the catalog.
LimitIsOwn == \A c \in Checks : checks[c].waited /\ checks[c].at = "short" => ~lastFull

FactInv == FactTypeOK /\ FactSafe /\ ReadsInTime /\ WaitedAlone /\ LimitIsOwn

-----------------------------------------------------------------------------
LEMMA HeldReadsCount ==
  ASSUME NEW S, S \subseteq Checks \X Titles
  PROVE  IsFiniteSet(S) /\ Cardinality(S) \in Nat
BY FactConstants, FS_Product, FS_Subset, FS_CardinalityType

\* The record of one check changes: what becomes of the reads that hold slots.
LEMMA HeldOfOthers ==
  ASSUME FactTypeOK, NEW c \in Checks, NEW r \in CheckRecords, checks' = [checks EXCEPT ![c] = r]
  PROVE  /\ checks' \in [Checks -> CheckRecords]
         /\ \A d \in Checks : checks'[d] = IF d = c THEN r ELSE checks[d]
         /\ \A t \in Titles : <<c, t>> \in HeldReads' <=> r.read[t] \in Reading
         /\ \A d \in Checks \ {c} : \A t \in Titles : <<d, t>> \in HeldReads' <=> <<d, t>> \in HeldReads
BY DEF FactTypeOK, CheckRecords, HeldReads

\* None of its reads takes or leaves a slot.
LEMMA HeldSame ==
  ASSUME FactTypeOK, NEW c \in Checks, NEW r \in CheckRecords, checks' = [checks EXCEPT ![c] = r],
         \A t \in Titles : r.read[t] \in Reading <=> checks[c].read[t] \in Reading
  PROVE  HeldReads' = HeldReads
<1>1. \A p \in Checks \X Titles : p \in HeldReads' <=> p \in HeldReads
  BY HeldOfOthers DEF HeldReads
<1>2. QED
  BY <1>1 DEF HeldReads

\* The parts of the invariant that one check's new record can disturb.
LEMMA RecordKept ==
  ASSUME FactInv, NEW c \in Checks, NEW r \in CheckRecords, checks' = [checks EXCEPT ![c] = r],
         \A t \in Titles : r.read[t] \in {"wait"} \cup Reading => r.at = "reads",
         r.waited => r.at # "idle" /\ \A d \in Checks \ {c} : ~checks[d].waited,
         r.at # "idle" /\ ~r.waited => r.left = "none",
         r.waited /\ r.at = "short" => ~lastFull',
         lastFull' = lastFull \/ \A d \in Checks \ {c} : ~checks[d].waited
  PROVE  ReadsInTime' /\ WaitedAlone' /\ LimitIsOwn'
<1>1. FactTypeOK
  BY DEF FactInv, FactSafe
<1>2. \A d \in Checks : checks'[d] = IF d = c THEN r ELSE checks[d]
  BY <1>1, HeldOfOthers
<1>3. ReadsInTime'
  BY <1>2 DEF FactInv, ReadsInTime, Reading
<1>4. WaitedAlone'
  BY <1>2 DEF FactInv, WaitedAlone
<1>5. LimitIsOwn'
  BY <1>2 DEF FactInv, LimitIsOwn
<1>6. QED
  BY <1>3, <1>4, <1>5

\* A check moves on or ends, and no slot changes hands.
LEMMA MovesOn ==
  ASSUME FactInv, NEW c \in Checks, NEW r \in CheckRecords, checks' = [checks EXCEPT ![c] = r],
         \A t \in Titles : r.read[t] \in Reading <=> checks[c].read[t] \in Reading,
         \A t \in Titles : r.read[t] \in {"wait"} \cup Reading => r.at = "reads",
         r.waited => r.at # "idle" /\ (checks[c].waited \/ \A d \in Checks : ~checks[d].waited),
         r.at # "idle" /\ ~r.waited => r.left = "none",
         r.waited /\ r.at = "short" => ~lastFull',
         lastFull' = lastFull \/ checks[c].waited,
         lastFull' \in BOOLEAN, content' \in BOOLEAN, kiwix' = kiwix,
         UNCHANGED <<freeReads, othersRead>>, backoff' \in BOOLEAN, wronglyDown' = FALSE
  PROVE  FactInv'
<1>1. FactTypeOK /\ SlotsKept /\ WaitedAlone
  BY DEF FactInv, FactSafe
<1>2. HeldReads' = HeldReads
  BY <1>1, HeldSame
<1>3. checks' \in [Checks -> CheckRecords]
  BY <1>1, HeldOfOthers
<1>4. FactTypeOK'
  BY <1>1, <1>3 DEF FactTypeOK, CheckRecords
<1>5. SlotsKept' /\ DownIsKiwixs'
  BY <1>1, <1>2 DEF SlotsKept, DownIsKiwixs
<1>7. \A d \in Checks \ {c} : checks[c].waited => ~checks[d].waited
  BY <1>1 DEF WaitedAlone
<1>8. ReadsInTime' /\ WaitedAlone' /\ LimitIsOwn'
  BY <1>7, RecordKept
<1>9. QED
  BY <1>4, <1>5, <1>8 DEF FactInv, FactSafe

\* A check ends whose reads are over.
LEMMA EndsWell ==
  ASSUME FactInv, NEW c \in Checks, Over(c), \A t \in Titles : checks[c].read[t] \notin Reading,
         lastFull' = lastFull \/ checks[c].waited,
         lastFull' \in BOOLEAN, content' \in BOOLEAN, kiwix' = kiwix,
         UNCHANGED <<freeReads, othersRead>>, backoff' \in BOOLEAN, wronglyDown' = FALSE
  PROVE  FactInv'
<1>1. NoCheck \in CheckRecords
  BY DEF NoCheck, CheckRecords, ReadStates
<1>2. \A t \in Titles : NoCheck.read[t] = "none"
  BY DEF NoCheck
<1>3. NoCheck.at = "idle" /\ ~NoCheck.waited
  BY DEF NoCheck
<1>4. \A t \in Titles : NoCheck.read[t] \notin {"wait"} \cup Reading
  BY <1>2 DEF Reading
<1>5. checks' = [checks EXCEPT ![c] = NoCheck]
  BY DEF Over
<1>6. QED
  BY <1>1, <1>3, <1>4, <1>5, MovesOn

\* A check goes to a place that has no reads under way, or from there to its reads.
LEMMA GoesTo ==
  ASSUME FactInv, NEW c \in Checks, checks[c].at # "idle", NEW to \in {"propose", "full", "short", "verdict"},
         Moves(c, to), \A t \in Titles : checks[c].read[t] \notin {"wait"} \cup Reading,
         to = "short" /\ checks[c].waited => ~lastFull',
         lastFull' = lastFull \/ checks[c].waited,
         lastFull' \in BOOLEAN, content' \in BOOLEAN, kiwix' = kiwix,
         UNCHANGED <<freeReads, othersRead>>, backoff' \in BOOLEAN, wronglyDown' = FALSE
  PROVE  FactInv'
<1> DEFINE r == [checks[c] EXCEPT !.at = to]
<1>1. checks[c] \in CheckRecords /\ checks \in [Checks -> CheckRecords]
  BY DEF FactInv, FactSafe, FactTypeOK, CheckRecords
<1>2. r \in CheckRecords /\ r.at = to /\ r.left = checks[c].left /\ r.waited = checks[c].waited /\ r.read = checks[c].read
  BY <1>1 DEF CheckRecords
<1>3. checks' = [checks EXCEPT ![c] = r]
  BY DEF Moves
<1>4. checks[c].waited \/ checks[c].left = "none"
  BY DEF FactInv, WaitedAlone
<1> HIDE DEF r
<1>5. /\ \A t \in Titles : r.read[t] \in Reading <=> checks[c].read[t] \in Reading
      /\ \A t \in Titles : r.read[t] \in {"wait"} \cup Reading => r.at = "reads"
      /\ r.waited => r.at # "idle" /\ checks[c].waited
      /\ r.at # "idle" /\ ~r.waited => r.left = "none"
      /\ r.waited /\ r.at = "short" => ~lastFull'
  BY <1>2, <1>4
<1>6. QED
  BY <1>2, <1>3, <1>5, MovesOn

\* A check that has no reads under way sends out one for each title.
LEMMA SendsReads ==
  ASSUME FactInv, NEW c \in Checks, checks[c].at \in {"propose", "full", "short"}, WithRoot(c),
         UNCHANGED lastFull, content' \in BOOLEAN, kiwix' = kiwix,
         UNCHANGED <<freeReads, othersRead>>, backoff' \in BOOLEAN, wronglyDown' = FALSE
  PROVE  FactInv'
<1> DEFINE r == [checks[c] EXCEPT !.at = "reads", !.read = [t \in Titles |-> "wait"]]
<1>1. checks[c] \in CheckRecords /\ checks \in [Checks -> CheckRecords] /\ lastFull \in BOOLEAN
  BY DEF FactInv, FactSafe, FactTypeOK, CheckRecords
<1>2. /\ r \in CheckRecords /\ r.at = "reads" /\ r.left = checks[c].left /\ r.waited = checks[c].waited
      /\ \A t \in Titles : r.read[t] = "wait"
  BY <1>1 DEF CheckRecords, ReadStates
<1>3. checks' = [checks EXCEPT ![c] = r]
  BY <1>1 DEF WithRoot
<1>4. checks[c].waited \/ checks[c].left = "none"
  BY DEF FactInv, WaitedAlone
<1>5. \A t \in Titles : checks[c].read[t] \notin Reading
  BY DEF FactInv, ReadsInTime
<1>6. \A t \in Titles : r.read[t] \notin Reading
  BY <1>2 DEF Reading
<1> HIDE DEF r
<1>7. /\ \A t \in Titles : r.read[t] \in Reading <=> checks[c].read[t] \in Reading
      /\ \A t \in Titles : r.read[t] \in {"wait"} \cup Reading => r.at = "reads"
      /\ r.waited => r.at # "idle" /\ checks[c].waited
      /\ r.at # "idle" /\ ~r.waited => r.left = "none"
      /\ r.waited /\ r.at = "short" => ~lastFull'
      /\ lastFull' \in BOOLEAN
  BY <1>1, <1>2, <1>4, <1>5, <1>6
<1>8. QED
  BY <1>2, <1>3, <1>7, MovesOn

\* A read of a check comes to a state; `took` says whether it takes, gives back or keeps a slot.
LEMMA ReadComesTo ==
  ASSUME FactInv, NEW c \in Checks, NEW t \in Titles, NEW state \in ReadStates, ReadIs(c, t, state),
         checks[c].read[t] \in {"wait"} \cup Reading, state # "wait",
         NEW took \in {-1, 0, 1}, freeReads' = freeReads - took, freeReads' >= 0,
         took = (IF state \in Reading THEN 1 ELSE 0) - (IF checks[c].read[t] \in Reading THEN 1 ELSE 0),
         UNCHANGED <<content, lastFull, othersRead, backoff, wronglyDown, kiwix>>
  PROVE  FactInv'
<1> DEFINE r == [checks[c] EXCEPT !.read[t] = state]
           p == <<c, t>>
<1>1. checks[c] \in CheckRecords /\ checks \in [Checks -> CheckRecords] /\ FactTypeOK /\ SlotsKept
  BY DEF FactInv, FactSafe, FactTypeOK, CheckRecords
<1>2. /\ r \in CheckRecords /\ r.at = checks[c].at /\ r.left = checks[c].left /\ r.waited = checks[c].waited
      /\ \A u \in Titles : r.read[u] = IF u = t THEN state ELSE checks[c].read[u]
  BY <1>1 DEF CheckRecords
<1>3. checks' = [checks EXCEPT ![c] = r]
  BY <1>1 DEF ReadIs
<1> HIDE DEF r
<1>4. checks[c].at = "reads"
  BY DEF FactInv, ReadsInTime
<1>5. ReadsInTime' /\ WaitedAlone' /\ LimitIsOwn'
  <2>1. \A u \in Titles : r.read[u] \in {"wait"} \cup Reading => r.at = "reads"
    BY <1>2, <1>4
  <2>2. r.waited => r.at # "idle" /\ \A d \in Checks \ {c} : ~checks[d].waited
    BY <1>2, <1>4 DEF FactInv, WaitedAlone
  <2>3. r.at # "idle" /\ ~r.waited => r.left = "none"
    BY <1>2 DEF FactInv, WaitedAlone
  <2>4. r.waited /\ r.at = "short" => ~lastFull'
    BY <1>2, <1>4
  <2>5. QED
    BY <1>2, <1>3, <2>1, <2>2, <2>3, <2>4, RecordKept
<1>6. /\ checks' \in [Checks -> CheckRecords]
      /\ \A u \in Titles : <<c, u>> \in HeldReads' <=> r.read[u] \in Reading
      /\ \A d \in Checks \ {c} : \A u \in Titles : <<d, u>> \in HeldReads' <=> <<d, u>> \in HeldReads
  BY <1>1, <1>2, <1>3, HeldOfOthers
<1>7. \A u \in Titles : <<c, u>> \in HeldReads <=> checks[c].read[u] \in Reading
  BY DEF HeldReads
<1>8. \A q \in Checks \X Titles : q # p => (q \in HeldReads' <=> q \in HeldReads)
  BY <1>2, <1>6, <1>7
<1>9. HeldReads \subseteq Checks \X Titles /\ HeldReads' \subseteq Checks \X Titles
  BY DEF HeldReads
<1>10. /\ IsFiniteSet(HeldReads) /\ Cardinality(HeldReads) \in Nat
       /\ IsFiniteSet(HeldReads') /\ Cardinality(HeldReads') \in Nat
  BY <1>9, HeldReadsCount
<1>11. Cardinality(HeldReads') = Cardinality(HeldReads) + took
  <2>1. CASE state \in Reading /\ checks[c].read[t] \notin Reading
    <3>1. p \notin HeldReads /\ HeldReads' = HeldReads \cup {p}
      BY <1>2, <1>6, <1>7, <1>8, <1>9, <2>1
    <3>2. QED
      BY <1>10, <2>1, <3>1, FS_AddElement
  <2>2. CASE state \notin Reading /\ checks[c].read[t] \in Reading
    <3>1. p \in HeldReads /\ HeldReads' = HeldReads \ {p}
      BY <1>2, <1>6, <1>7, <1>8, <1>9, <2>2
    <3>2. QED
      BY <1>10, <2>2, <3>1, FS_RemoveElement
  <2>3. CASE state \in Reading <=> checks[c].read[t] \in Reading
    <3>1. HeldReads' = HeldReads
      BY <1>2, <1>6, <1>7, <1>8, <1>9, <2>3
    <3>2. QED
      BY <1>10, <2>3, <3>1
  <2>4. QED
    BY <2>1, <2>2, <2>3
<1>12. SlotsKept' /\ freeReads' \in 0..ReadSlots
  <2>1. ReadSlots \in Nat /\ freeReads \in 0..ReadSlots /\ othersRead \in 0..ReadSlots
    BY <1>1, FactConstants DEF FactTypeOK
  <2>2. freeReads + othersRead + Cardinality(HeldReads) = ReadSlots
    BY <1>1 DEF SlotsKept
  <2>3. freeReads' + othersRead' + Cardinality(HeldReads') = ReadSlots
    BY <1>10, <1>11, <2>1, <2>2
  <2>4. QED
    BY <1>10, <2>1, <2>3 DEF SlotsKept
<1>13. FactTypeOK'
  BY <1>1, <1>6, <1>12 DEF FactTypeOK, CheckRecords
<1>14. DownIsKiwixs'
  BY DEF FactInv, FactSafe, DownIsKiwixs
<1>15. QED
  BY <1>5, <1>12, <1>13, <1>14 DEF FactInv, FactSafe

-----------------------------------------------------------------------------
LEMMA FactStarts == FactInit => FactInv
<1>1. SUFFICES ASSUME FactInit PROVE FactInv
  OBVIOUS
<1>2. NoCheck \in CheckRecords
  BY DEF NoCheck, CheckRecords, ReadStates
<1>3. \A c \in Checks : /\ checks[c].at = "idle" /\ ~checks[c].waited
                         /\ \A t \in Titles : checks[c].read[t] = "none"
  BY <1>1 DEF FactInit, NoCheck
<1>4. HeldReads = {}
  BY <1>3 DEF HeldReads, Reading
<1>5. SlotsKept
  BY <1>1, <1>4, FactConstants, FS_EmptySet DEF FactInit, SlotsKept
<1>6. FactTypeOK
  <2>1. 0 \in 0..ReadSlots /\ ReadSlots \in 0..ReadSlots
    BY FactConstants
  <2>2. freeReads \in 0..ReadSlots /\ othersRead \in 0..ReadSlots
    BY <1>1, <2>1 DEF FactInit
  <2>3. checks \in [Checks -> CheckRecords]
    BY <1>1, <1>2 DEF FactInit
  <2>4. QED
    BY <1>1, <2>2, <2>3 DEF FactInit, FactTypeOK, CheckRecords
<1>7. ReadsInTime /\ WaitedAlone /\ LimitIsOwn
  BY <1>3 DEF ReadsInTime, WaitedAlone, LimitIsOwn, Reading
<1>8. QED
  BY <1>1, <1>5, <1>6, <1>7 DEF FactInit, FactInv, FactSafe, DownIsKiwixs

\* What a step of a check's own does.
LEMMA CheckSteps ==
  ASSUME FactInv, NEW c \in Checks, CheckStep(c)
  PROVE  FactInv'
<1>1. /\ checks \in [Checks -> CheckRecords] /\ content \in BOOLEAN /\ lastFull \in BOOLEAN
      /\ backoff \in BOOLEAN /\ wronglyDown = FALSE
  BY DEF FactInv, FactSafe, FactTypeOK, CheckRecords, DownIsKiwixs
<1>2. checks[c].at # "reads" => \A t \in Titles : checks[c].read[t] \notin {"wait"} \cup Reading
  BY DEF FactInv, ReadsInTime
<1>3. checks[c].waited \/ checks[c].at = "idle" \/ checks[c].left = "none"
  BY DEF FactInv, WaitedAlone
<1>4. CASE NoTitles(c) \/ Verdict(c)
  BY <1>1, <1>2, <1>4, EndsWell DEF NoTitles, Verdict, SharedKept
<1>5. CASE Propose(c)
  <2>1. /\ checks[c].at = "propose" /\ UNCHANGED <<content, kiwix, freeReads, othersRead, backoff, wronglyDown>>
    BY <1>5 DEF Propose, SharedKept
  <2>2. CASE content /\ WithRoot(c) /\ UNCHANGED lastFull
    BY <1>1, <2>1, <2>2, SendsReads
  <2>3. CASE checks[c].left = "none" /\ Over(c) /\ UNCHANGED lastFull
    BY <1>1, <1>2, <2>1, <2>3, EndsWell
  <2>4. CASE checks[c].left # "none" /\ Moves(c, checks[c].left) /\ lastFull' = (checks[c].left = "full")
    <3>1. checks[c].waited /\ checks[c].left \in {"full", "short"} /\ lastFull' \in BOOLEAN
      BY <1>1, <1>3, <2>1, <2>4 DEF CheckRecords
    <3>2. checks[c].left = "short" => ~lastFull'
      BY <2>4
    <3>3. QED
      BY <1>1, <1>2, <2>1, <2>4, <3>1, <3>2, GoesTo
  <2>5. QED
    BY <1>5, <2>2, <2>3, <2>4 DEF Propose
<1>6. CASE CatalogAnswers(c)
  BY <1>1, <1>6, SendsReads DEF CatalogAnswers, Reading, SharedKept
<1>7. CASE CatalogFails(c)
  <2>1. /\ checks[c].at # "reads" /\ Over(c) /\ backoff' = TRUE /\ wronglyDown' = FALSE
        /\ UNCHANGED <<content, lastFull, freeReads, othersRead, kiwix>>
    BY <1>1, <1>7 DEF CatalogFails, Reading, Trip
  <2>2. QED
    BY <1>1, <1>2, <2>1, EndsWell
<1>8. CASE CatalogTimesOut(c)
  <2>1. /\ checks[c].at \in {"short", "full"} /\ Over(c)
        /\ UNCHANGED <<content, lastFull, freeReads, othersRead, kiwix>>
    BY <1>8 DEF CatalogTimesOut
  <2>2. lastFull => checks[c].at = "full" \/ ~checks[c].waited
    BY <2>1 DEF FactInv, LimitIsOwn
  <2>3. backoff' \in BOOLEAN /\ wronglyDown' = FALSE
    BY <1>1, <1>8, <2>2 DEF CatalogTimesOut, Trip
  <2>4. QED
    BY <1>1, <1>2, <2>1, <2>3, EndsWell
<1>9. CASE Judge(c)
  <2>1. /\ checks[c].at = "reads" /\ UNCHANGED <<lastFull, freeReads, othersRead, kiwix>>
        /\ \A t \in Titles : checks[c].read[t] \in {"page", "missing", "failed", "late"}
        /\ Moves(c, "verdict") \/ Over(c)
    BY <1>9 DEF Judge
  <2>2. \A t \in Titles : checks[c].read[t] \notin {"wait"} \cup Reading
    BY <2>1 DEF Reading
  <2>3. content' \in BOOLEAN /\ backoff' \in BOOLEAN /\ wronglyDown' = FALSE
    BY <1>1, <1>9 DEF Judge, Trip
  <2>4. CASE Moves(c, "verdict")
    BY <1>1, <2>1, <2>2, <2>3, <2>4, GoesTo
  <2>5. CASE Over(c)
    BY <1>1, <2>1, <2>2, <2>3, <2>5, EndsWell
  <2>6. QED
    BY <2>1, <2>4, <2>5
<1>10. QED
  BY <1>4, <1>5, <1>6, <1>7, <1>8, <1>9 DEF CheckStep

\* What a read of a check does.
LEMMA ReadSteps ==
  ASSUME FactInv, NEW c \in Checks, NEW t \in Titles, ReadStep(c, t)
  PROVE  FactInv'
<1>1. freeReads \in Nat
  BY FactConstants DEF FactInv, FactSafe, FactTypeOK
<1>2. checks[c].left \in {"full", "short", "none"}
  BY DEF FactInv, FactSafe, FactTypeOK
<1>3. CASE TakeSlot(c, t)
  <2>1. CASE backoff \/ checks[c].left = "none"
    BY <1>1, <1>3, <2>1, ReadComesTo DEF TakeSlot, SlotReturned, ReadStates, Reading
  <2>2. CASE ~(backoff \/ checks[c].left = "none")
    BY <1>1, <1>2, <1>3, <2>2, ReadComesTo DEF TakeSlot, ReadStates, Reading
  <2>3. QED
    BY <2>1, <2>2
<1>4. CASE NoSlotInTime(c, t)
  BY <1>1, <1>4, ReadComesTo DEF NoSlotInTime, SharedKept, ReadStates, Reading
<1>5. CASE ReadAnswered(c, t)
  BY <1>1, <1>5, ReadComesTo DEF ReadAnswered, ReadStates, Reading
<1>6. CASE ReadErrs(c, t)
  BY <1>1, <1>6, ReadComesTo DEF ReadErrs, ReadStates, Reading
<1>7. CASE ReadTimesOut(c, t)
  BY <1>1, <1>7, ReadComesTo DEF ReadTimesOut, ReadStates, Reading
<1>8. QED
  BY <1>3, <1>4, <1>5, <1>6, <1>7 DEF ReadStep

\* A step that leaves the checks and what they remember alone.
LEMMA SlotsMove ==
  ASSUME FactInv, UNCHANGED <<checks, content, lastFull>>,
         freeReads' \in 0..ReadSlots, othersRead' \in 0..ReadSlots,
         freeReads' + othersRead' = freeReads + othersRead,
         backoff' \in BOOLEAN, wronglyDown' = FALSE, kiwix' \in {"answers", "fails", "hangs"}
  PROVE  FactInv'
<1>1. FactTypeOK /\ SlotsKept
  BY DEF FactInv, FactSafe
<1>2. HeldReads' = HeldReads
  BY DEF HeldReads
<1>3. SlotsKept'
  BY <1>1, <1>2 DEF SlotsKept
<1>4. FactTypeOK'
  BY <1>1 DEF FactTypeOK
<1>5. ReadsInTime' /\ WaitedAlone' /\ LimitIsOwn'
  BY DEF FactInv, ReadsInTime, WaitedAlone, LimitIsOwn
<1>6. QED
  BY <1>3, <1>4, <1>5 DEF FactInv, FactSafe, DownIsKiwixs

LEMMA FactSteps == FactInv /\ [FactNext]_factVars => FactInv'
<1>1. SUFFICES ASSUME FactInv, [FactNext]_factVars PROVE FactInv'
  OBVIOUS
<1>2. /\ checks \in [Checks -> CheckRecords] /\ content \in BOOLEAN /\ lastFull \in BOOLEAN
      /\ backoff \in BOOLEAN /\ wronglyDown = FALSE /\ kiwix \in {"answers", "fails", "hangs"}
      /\ freeReads \in 0..ReadSlots /\ othersRead \in 0..ReadSlots /\ ReadSlots \in Nat
  BY <1>1, FactConstants DEF FactInv, FactSafe, FactTypeOK, CheckRecords, DownIsKiwixs
<1>3. \A c \in Checks : checks[c].at # "reads" =>
        \A t \in Titles : checks[c].read[t] \notin {"wait"} \cup Reading
  BY <1>1 DEF FactInv, ReadsInTime
<1>4. CASE UNCHANGED factVars
  BY <1>1, <1>2, <1>4, SlotsMove DEF factVars
<1>5. ASSUME NEW c \in Checks, StartCheck(c) PROVE FactInv'
  <2> DEFINE r == [checks[c] EXCEPT !.at = "propose", !.waited = TRUE]
  <2>1. r \in CheckRecords /\ r.at = "propose" /\ r.waited /\ r.read = checks[c].read
    BY <1>2 DEF CheckRecords
  <2>2. /\ checks[c].at = "idle" /\ \A d \in Checks : ~checks[d].waited
        /\ UNCHANGED <<content, lastFull, kiwix, freeReads, othersRead, backoff, wronglyDown>>
    BY <1>5 DEF StartCheck, SharedKept
  <2>3. checks' = [checks EXCEPT ![c] = r]
    BY <1>2, <1>5 DEF StartCheck
  <2> HIDE DEF r
  <2>4. /\ \A t \in Titles : r.read[t] \in Reading <=> checks[c].read[t] \in Reading
        /\ \A t \in Titles : r.read[t] \in {"wait"} \cup Reading => r.at = "reads"
        /\ ~(r.waited /\ r.at = "short")
    BY <1>3, <2>1, <2>2
  <2>5. QED
    BY <1>1, <1>2, <2>1, <2>2, <2>3, <2>4, MovesOn
<1>6. ASSUME NEW c \in Checks, Elapse(c) PROVE FactInv'
  <2> DEFINE to == IF checks[c].left = "full" THEN "short" ELSE "none"
             r == [checks[c] EXCEPT !.left = to]
  <2>1. r \in CheckRecords /\ r.at = checks[c].at /\ r.waited = checks[c].waited /\ r.read = checks[c].read
    BY <1>2 DEF CheckRecords
  <2>2. /\ checks[c].at # "idle" /\ checks[c].left # "none"
        /\ UNCHANGED <<content, lastFull, kiwix, freeReads, othersRead, backoff, wronglyDown>>
    BY <1>6 DEF Elapse, SharedKept
  <2>3. checks' = [checks EXCEPT ![c] = r]
    BY <1>2, <1>6 DEF Elapse, CheckRecords
  <2> HIDE DEF r
  <2>4. checks[c].waited /\ (checks[c].at = "short" => ~lastFull)
    BY <1>1, <2>2 DEF FactInv, WaitedAlone, LimitIsOwn
  <2>5. /\ \A t \in Titles : r.read[t] \in Reading <=> checks[c].read[t] \in Reading
        /\ \A t \in Titles : r.read[t] \in {"wait"} \cup Reading => r.at = "reads"
        /\ r.at # "idle" /\ r.waited /\ (r.at = "short" => ~lastFull')
    BY <1>3, <2>1, <2>2, <2>4
  <2>6. QED
    BY <1>1, <1>2, <2>1, <2>2, <2>3, <2>4, <2>5, MovesOn
<1>7. ASSUME NEW c \in Checks, ShowUnchecked(c) PROVE FactInv'
  <2> DEFINE r == [checks[c] EXCEPT !.waited = FALSE]
  <2>1. r \in CheckRecords /\ r.at = checks[c].at /\ ~r.waited /\ r.read = checks[c].read
        /\ r.left = checks[c].left
    BY <1>2 DEF CheckRecords
  <2>2. /\ checks[c].left = "none"
        /\ UNCHANGED <<content, lastFull, kiwix, freeReads, othersRead, backoff, wronglyDown>>
    BY <1>7 DEF ShowUnchecked, SharedKept
  <2>3. checks' = [checks EXCEPT ![c] = r]
    BY <1>2, <1>7 DEF ShowUnchecked
  <2> HIDE DEF r
  <2>4. /\ \A t \in Titles : r.read[t] \in Reading <=> checks[c].read[t] \in Reading
        /\ \A t \in Titles : r.read[t] \in {"wait"} \cup Reading => r.at = "reads"
        /\ r.left = "none"
    BY <1>3, <2>1, <2>2
  <2>5. QED
    BY <1>1, <1>2, <2>1, <2>2, <2>3, <2>4, MovesOn
<1>s. freeReads + othersRead <= ReadSlots
  <2>1. Cardinality(HeldReads) \in Nat
    BY HeldReadsCount DEF HeldReads
  <2>2. freeReads + othersRead + Cardinality(HeldReads) = ReadSlots
    BY <1>1 DEF FactInv, FactSafe, SlotsKept
  <2>3. QED
    BY <1>2, <2>1, <2>2
<1>8. CASE OthersTake \/ OthersReturn
  <2>1. /\ freeReads' \in 0..ReadSlots /\ othersRead' \in 0..ReadSlots
        /\ freeReads' + othersRead' = freeReads + othersRead
    BY <1>2, <1>s, <1>8 DEF OthersTake, OthersReturn
  <2>2. UNCHANGED <<checks, content, lastFull, backoff, wronglyDown, kiwix>>
    BY <1>8 DEF OthersTake, OthersReturn
  <2>3. QED
    BY <1>1, <1>2, <2>1, <2>2, SlotsMove
<1>9. CASE OthersTrip \/ KiwixRetried \/ KiwixChanges
  BY <1>1, <1>2, <1>9, SlotsMove DEF OthersTrip, KiwixRetried, KiwixChanges, Trip, SharedKept
<1>10. QED
  BY <1>1, <1>4, <1>5, <1>6, <1>7, <1>8, <1>9, CheckSteps, ReadSteps DEF FactNext

\* The slots are kept, and nothing but a failing Kiwix switches the checks off.
THEOREM ChecksAreFair == FactInit /\ [][FactNext]_factVars => [](FactTypeOK /\ FactSafe)
<1>1. FactInv => FactTypeOK /\ FactSafe
  BY DEF FactInv
<1>2. QED
  BY <1>1, FactStarts, FactSteps, PTL

-----------------------------------------------------------------------------
(* The evidence that grounds a cue.                                         *)

CacheEntries == [topic : Topics, some : {TRUE}]
TopicOnce(cache) == \A i, j \in DOMAIN cache : cache[i].topic = cache[j].topic => i = j
CacheHolds(cache) == cache \in Seq(CacheEntries) /\ Len(cache) <= CacheMax /\ TopicOnce(cache)

Searches(l) == lookups[l].at["wikipedia"] = "search"

EvidenceTypes ==
  /\ lookups \in [Lookups -> LookupRecords] /\ searching \in BOOLEAN
  /\ httpOpen \in [Retrievers -> BOOLEAN] /\ caught \subseteq retired /\ retired \subseteq Retrievers
  /\ DOMAIN topicCache = Retrievers /\ \A s \in Retrievers : CacheHolds(topicCache[s])

\* The slot is taken for the one search.
SlotIsSearch ==
  /\ \A l, m \in Lookups : Searches(l) /\ Searches(m) => l = m
  /\ searching <=> \E l \in Lookups : Searches(l)

\* A number that is not in use has nothing left of a lookup.
IdleRests == \A l \in Lookups : lookups[l].phase = "idle" => lookups[l] = NoLookup

\* A session closed between two lookups has none, and no client.
RetiredRests ==
  \A s \in retired \ caught : ~httpOpen[s] /\ \A l \in Lookups : lookups[l].by = s => lookups[l].phase = "idle"

EvidenceInv == EvidenceTypes /\ SlotIsSearch /\ IdleRests /\ RetiredRests

LEMMA NoLookupIsRecord ==
  /\ NoLookup \in LookupRecords /\ NoLookup.phase = "idle"
  /\ \A tier \in NetworkTiers : NoLookup.at[tier] = "off"
<1>1. (CHOOSE s \in Retrievers : TRUE) \in Retrievers /\ (CHOOSE t \in Topics : TRUE) \in Topics
  BY EvidenceConstants
<1>2. QED
  BY <1>1 DEF NoLookup, LookupRecords, TierSteps, NetworkTiers

\* The cache stays short, and a topic is cached once.
LEMMA RemembersOnce ==
  ASSUME NEW cache, CacheHolds(cache), NEW t \in Topics
  PROVE  CacheHolds(Remembered(cache, t, TRUE))
<1> DEFINE entry == [topic |-> t, some |-> TRUE]
           known == {i \in DOMAIN cache : cache[i].topic = t}
           renewed == [i \in DOMAIN cache |-> IF i \in known THEN entry ELSE cache[i]]
           grown == IF known # {} THEN renewed ELSE Append(cache, entry)
<1>1. /\ cache \in Seq(CacheEntries) /\ Len(cache) \in Nat /\ Len(cache) <= CacheMax /\ TopicOnce(cache)
      /\ DOMAIN cache = 1..Len(cache) /\ \A i \in 1..Len(cache) : cache[i] \in CacheEntries
      /\ CacheMax \in Nat \ {0}
  BY EvidenceConstants, LenProperties, ElementOfSeq DEF CacheHolds
<1>2. entry \in CacheEntries /\ entry.topic = t
  BY DEF CacheEntries
<1>3. Remembered(cache, t, TRUE) = IF Len(grown) > CacheMax THEN Tail(grown) ELSE grown
  BY DEF Remembered
<1>4. CASE known # {}
  <2>1. grown = renewed
    BY <1>4
  <2>2. renewed \in [1..Len(cache) -> CacheEntries]
    BY <1>1, <1>2
  <2>3. renewed \in Seq(CacheEntries) /\ Len(renewed) = Len(cache)
    <3> HIDE DEF renewed
    <3>1. renewed \in Seq(CacheEntries)
      BY <1>1, <2>2
    <3>2. DOMAIN renewed = 1..Len(cache)
      BY <2>2
    <3>3. QED
      BY <1>1, <3>1, <3>2, LenProperties
  <2>4. \A i \in 1..Len(cache) : renewed[i].topic = cache[i].topic
    BY <1>1, <1>2
  <2>5. TopicOnce(renewed)
    BY <1>1, <2>2, <2>4 DEF TopicOnce
  <2>6. Remembered(cache, t, TRUE) = renewed
    <3> HIDE DEF renewed, grown
    <3>1. ~(Len(grown) > CacheMax)
      BY <1>1, <2>1, <2>3
    <3>2. QED
      BY <1>3, <2>1, <3>1
  <2>7. QED
    BY <1>1, <2>3, <2>5, <2>6 DEF CacheHolds
<1>5. CASE known = {}
  <2>1. /\ grown = Append(cache, entry) /\ grown \in Seq(CacheEntries) /\ Len(grown) = Len(cache) + 1
        /\ \A i \in 1..Len(cache) : grown[i] = cache[i]
        /\ grown[Len(cache) + 1] = entry
    BY <1>1, <1>2, <1>5, AppendProperties
  <2>2. \A i \in 1..Len(cache) : cache[i].topic # t
    BY <1>1, <1>5
  <2>3. DOMAIN grown = 1..(Len(cache) + 1)
    BY <2>1, LenProperties
  <2>4. \A i, j \in 1..(Len(cache) + 1) : grown[i].topic = grown[j].topic => i = j
    <3>1. TAKE i, j \in 1..(Len(cache) + 1)
    <3>2. \A k \in 1..(Len(cache) + 1) : k \in 1..Len(cache) \/ k = Len(cache) + 1
      BY <1>1
    <3>3. QED
      BY <1>1, <1>2, <2>1, <2>2, <3>2, ZenonT(30) DEF TopicOnce
  <2> HIDE DEF grown
  <2>5. CASE Len(grown) <= CacheMax
    <3>1. ~(Len(grown) > CacheMax)
      BY <1>1, <2>1, <2>5
    <3>2. Remembered(cache, t, TRUE) = grown
      BY <1>3, <3>1
    <3>3. QED
      BY <2>1, <2>3, <2>4, <2>5, <3>2 DEF CacheHolds, TopicOnce
  <2>6. CASE Len(grown) > CacheMax
    <3>1. Remembered(cache, t, TRUE) = Tail(grown)
      BY <1>3, <2>6
    <3>2. grown # << >>
      BY <1>1, <2>1
    <3>3. /\ Tail(grown) \in Seq(CacheEntries) /\ Len(Tail(grown)) = Len(cache)
          /\ \A i \in 1..Len(cache) : Tail(grown)[i] = grown[i + 1]
      BY <1>1, <2>1, <3>2, HeadTailProperties
    <3>4. DOMAIN Tail(grown) = 1..Len(cache)
      BY <3>3, LenProperties
    <3>5. \A i \in 1..Len(cache) : i + 1 \in 1..(Len(cache) + 1)
      BY <1>1
    <3>6. TopicOnce(Tail(grown))
      <4>1. ASSUME NEW i \in 1..Len(cache), NEW j \in 1..Len(cache), Tail(grown)[i].topic = Tail(grown)[j].topic
            PROVE  i = j
        <5>1. grown[i + 1].topic = grown[j + 1].topic
          BY <3>3, <4>1
        <5>2. i + 1 = j + 1
          BY <2>4, <3>5, <5>1
        <5>3. QED
          BY <1>1, <5>2
      <4>2. QED
        BY <3>4, <4>1 DEF TopicOnce
    <3>7. QED
      BY <1>1, <3>1, <3>3, <3>6 DEF CacheHolds
  <2>7. Len(grown) <= CacheMax \/ Len(grown) > CacheMax
    BY <1>1, <2>1
  <2>8. QED
    BY <2>5, <2>6, <2>7
<1>6. QED
  BY <1>4, <1>5

-----------------------------------------------------------------------------
\* One number's record becomes r; the session s it works for is open and its client is b; the
\* slot goes with a search; the caches stay short.
RecordMoves(l, r) == lookups' = [lookups EXCEPT ![l] = r] /\ (r.phase = "idle" => r = NoLookup)

OwnerMoves(r, s, b) ==
  /\ s \notin retired \ caught /\ (r.phase # "idle" => r.by = s)
  /\ httpOpen' = [httpOpen EXCEPT ![s] = b]

SlotMoves(l, r) ==
  /\ searching' \in BOOLEAN
  /\ r.at["wikipedia"] = "search" => searching' /\ (Searches(l) \/ ~searching)
  /\ r.at["wikipedia"] # "search" => (searching' <=> searching /\ ~Searches(l))

CachesHold == DOMAIN topicCache' = Retrievers /\ \A q \in Retrievers : CacheHolds(topicCache'[q])

\* One number's record changes, and with it the slot, the client and the cache of its session.
LEMMA OneLookup ==
  ASSUME EvidenceInv, NEW l \in Lookups, NEW r \in LookupRecords, NEW s \in Retrievers, NEW b \in BOOLEAN,
         RecordMoves(l, r), OwnerMoves(r, s, b), SlotMoves(l, r), CachesHold, UNCHANGED <<retired, caught>>
  PROVE  EvidenceInv'
<1> USE DEF RecordMoves, OwnerMoves, SlotMoves, CachesHold
<1>1. EvidenceTypes /\ SlotIsSearch /\ IdleRests /\ RetiredRests
  BY DEF EvidenceInv
<1>2. /\ lookups' \in [Lookups -> LookupRecords] /\ lookups'[l] = r
      /\ \A m \in Lookups \ {l} : lookups'[m] = lookups[m]
  BY <1>1 DEF EvidenceTypes
<1>3. EvidenceTypes'
  BY <1>1, <1>2 DEF EvidenceTypes, CacheHolds, TopicOnce
<1>4. SlotIsSearch'
  <2>1. (Searches(l)' <=> r.at["wikipedia"] = "search") /\ \A m \in Lookups \ {l} : Searches(m)' <=> Searches(m)
    BY <1>2 DEF Searches
  <2>2. CASE r.at["wikipedia"] = "search"
    <3>1. \A m \in Lookups \ {l} : ~Searches(m)
      BY <1>1, <2>2 DEF SlotIsSearch
    <3>2. QED
      BY <2>1, <2>2, <3>1 DEF SlotIsSearch
  <2>3. CASE r.at["wikipedia"] # "search"
    BY <1>1, <2>1, <2>3 DEF SlotIsSearch
  <2>4. QED
    BY <2>2, <2>3
<1>5. IdleRests'
  BY <1>1, <1>2 DEF IdleRests, NoLookup
<1>6. RetiredRests'
  <2>1. ASSUME NEW q \in retired \ caught
        PROVE  ~httpOpen'[q] /\ \A m \in Lookups : lookups'[m].by = q => lookups'[m].phase = "idle"
    <3>1. q # s /\ q \in Retrievers /\ ~httpOpen[q]
      BY <1>1, <2>1 DEF EvidenceTypes, RetiredRests
    <3>2. ~httpOpen'[q]
      BY <1>1, <3>1 DEF EvidenceTypes
    <3>3. QED
      BY <1>1, <1>2, <2>1, <3>1, <3>2 DEF RetiredRests
  <2>2. QED
    BY <2>1 DEF RetiredRests
<1>7. QED
  BY <1>3, <1>4, <1>5, <1>6 DEF EvidenceInv

\* Who has a lookup going on is not closed, or was while it waited.
LEMMA GoingIsKnown ==
  ASSUME EvidenceInv, NEW l \in Lookups, lookups[l].phase # "idle"
  PROVE  lookups[l].by \in Retrievers /\ lookups[l].by \notin retired \ caught
BY DEF EvidenceInv, EvidenceTypes, RetiredRests, LookupRecords

\* What is found is cached if there is any.
LEMMA CachesWell ==
  ASSUME EvidenceInv, NEW l \in Lookups,
         topicCache' = IF ~lookups[l].got THEN topicCache
                       ELSE [topicCache EXCEPT ![lookups[l].by] = Remembered(@, lookups[l].topic, lookups[l].got)]
  PROVE  DOMAIN topicCache' = Retrievers /\ \A q \in Retrievers : CacheHolds(topicCache'[q])
<1>1. /\ lookups[l].by \in Retrievers /\ lookups[l].topic \in Topics /\ lookups[l].got \in BOOLEAN
      /\ DOMAIN topicCache = Retrievers /\ \A q \in Retrievers : CacheHolds(topicCache[q])
  BY DEF EvidenceInv, EvidenceTypes, LookupRecords
<1>2. CASE ~lookups[l].got
  BY <1>1, <1>2
<1>3. CASE lookups[l].got
  <2> DEFINE s == lookups[l].by
             new == Remembered(topicCache[s], lookups[l].topic, TRUE)
  <2>1. CacheHolds(new)
    BY <1>1, RemembersOnce
  <2>2. lookups[l].got = TRUE
    BY <1>1, <1>3
  <2>3. topicCache' = [topicCache EXCEPT ![s] = new]
    BY <1>3, <2>2
  <2> HIDE DEF new
  <2>4. DOMAIN topicCache' = Retrievers /\ \A q \in Retrievers : topicCache'[q] = IF q = s THEN new ELSE topicCache[q]
    BY <1>1, <2>3
  <2>5. QED
    BY <1>1, <2>1, <2>4
<1>4. QED
  BY <1>2, <1>3

LEMMA EvidenceStarts == EvidenceInit => EvidenceInv
<1>1. SUFFICES ASSUME EvidenceInit PROVE EvidenceInv
  OBVIOUS
<1>2. CacheHolds(<< >>)
  BY EvidenceConstants, EmptySeq DEF CacheHolds, TopicOnce
<1>3. EvidenceTypes
  BY <1>1, <1>2, NoLookupIsRecord DEF EvidenceInit, EvidenceTypes
<1>4. \A l \in Lookups : ~Searches(l) /\ lookups[l] = NoLookup
  BY <1>1, NoLookupIsRecord DEF EvidenceInit, Searches, NetworkTiers
<1>5. QED
  BY <1>1, <1>3, <1>4 DEF EvidenceInit, EvidenceInv, SlotIsSearch, IdleRests, RetiredRests

LEMMA BeginsLookup ==
  ASSUME EvidenceInv, NEW l \in Lookups, NEW s \in Retrievers, NEW t \in Topics, BeginLookup(l, s, t)
  PROVE  EvidenceInv'
<1> DEFINE uncached == CachedFor(s, t) = {}
           steps == [tier \in NetworkTiers |-> IF uncached THEN "asked" ELSE "off"]
           r == [lookups[l] EXCEPT !.phase = "waiting", !.by = s, !.topic = t, !.at = steps]
<1>1. lookups[l] \in LookupRecords /\ lookups[l] = NoLookup /\ s \notin retired
  BY DEF BeginLookup, EvidenceInv, EvidenceTypes
<1>2. steps \in [NetworkTiers -> TierSteps] /\ steps["wikipedia"] # "search"
  BY DEF NetworkTiers, TierSteps
<1>3. r \in LookupRecords /\ r.phase = "waiting" /\ r.by = s /\ r.at = steps
  BY <1>1, <1>2 DEF LookupRecords
<1>4. lookups' = [lookups EXCEPT ![l] = r]
  BY DEF BeginLookup
<1> DEFINE b == httpOpen[s] \/ uncached
<1>5. b \in BOOLEAN /\ httpOpen' = [httpOpen EXCEPT ![s] = b]
  BY DEF BeginLookup
<1>6. ~Searches(l) /\ UNCHANGED <<topicCache, searching, retired, caught>>
  BY <1>1, NoLookupIsRecord DEF BeginLookup, Searches, NetworkTiers
<1>7. /\ searching \in BOOLEAN /\ DOMAIN topicCache = Retrievers /\ \A q \in Retrievers : CacheHolds(topicCache[q])
  BY DEF EvidenceInv, EvidenceTypes
<1> HIDE DEF r, steps, b
<1>8. RecordMoves(l, r) /\ OwnerMoves(r, s, b)
  BY <1>1, <1>3, <1>4, <1>5 DEF RecordMoves, OwnerMoves
<1>9. SlotMoves(l, r) /\ CachesHold
  BY <1>2, <1>3, <1>6, <1>7 DEF SlotMoves, CachesHold
<1>10. QED
  BY <1>3, <1>5, <1>6, <1>8, <1>9, OneLookup

\* A call returns, or its late tiers settle.
LEMMA LeavesWell ==
  ASSUME EvidenceInv, NEW l \in Lookups, NEW newsLate \in BOOLEAN, Return(l, newsLate) \/ SettleLate(l)
  PROVE  EvidenceInv'
<1> DEFINE r == lookups'[l]
           s == lookups[l].by
<1>1. /\ lookups \in [Lookups -> LookupRecords] /\ lookups[l].phase # "idle" /\ httpOpen \in [Retrievers -> BOOLEAN]
      /\ searching \in BOOLEAN
  BY DEF Return, SettleLate, EvidenceInv, EvidenceTypes
<1>2. /\ r \in LookupRecords /\ lookups' = [lookups EXCEPT ![l] = r]
      /\ \/ r = NoLookup /\ BusyTiers(l) = {}
         \/ r.phase = "late" /\ r.by = s /\ r.at = lookups[l].at
  <2>1. CASE SettleLate(l) \/ (Return(l, newsLate) /\ BusyTiers(l) = {} /\ ~newsLate)
    <3>1. BusyTiers(l) = {} /\ lookups' = [lookups EXCEPT ![l] = NoLookup]
      BY <2>1 DEF SettleLate, Return
    <3>2. r = NoLookup
      BY <1>1, <3>1
    <3>3. QED
      BY <3>1, <3>2, NoLookupIsRecord
  <2>3. CASE Return(l, newsLate) /\ ~(BusyTiers(l) = {} /\ ~newsLate)
    <3> DEFINE late == [lookups[l] EXCEPT !.phase = "late", !.got = FALSE]
    <3>1. late \in LookupRecords /\ late.phase = "late" /\ late.by = s /\ late.at = lookups[l].at
      BY <1>1 DEF LookupRecords
    <3>2. lookups' = [lookups EXCEPT ![l] = late]
      BY <2>3 DEF Return
    <3> HIDE DEF late
    <3>3. QED
      BY <1>1, <3>1, <3>2
  <2>4. QED
    BY <2>1, <2>3
<1> HIDE DEF r
<1>3. r = NoLookup => ~Searches(l) /\ r.at["wikipedia"] # "search" /\ r.phase = "idle"
  BY <1>1, <1>2, NoLookupIsRecord DEF BusyTiers, Searches, NetworkTiers
<1>4. r # NoLookup => (r.at["wikipedia"] = "search" <=> Searches(l)) /\ r.phase = "late" /\ r.by = s
  BY <1>2 DEF Searches
<1>5. UNCHANGED <<searching, httpOpen, retired, caught>>
  BY DEF Return, SettleLate
<1>6. Searches(l) => searching
  BY DEF EvidenceInv, SlotIsSearch
<1>7. CachesHold
  BY CachesWell DEF Return, SettleLate, CachesHold
<1>8. s \in Retrievers /\ s \notin retired \ caught
  BY <1>1, GoingIsKnown
<1>9. httpOpen[s] \in BOOLEAN /\ httpOpen' = [httpOpen EXCEPT ![s] = httpOpen[s]]
  BY <1>1, <1>5, <1>8
<1> HIDE DEF s
<1> DEFINE b == httpOpen[s]
<1>10. RecordMoves(l, r)
  BY <1>2, <1>4 DEF RecordMoves
<1>11. OwnerMoves(r, s, b)
  BY <1>3, <1>4, <1>8, <1>9 DEF OwnerMoves
<1>12. SlotMoves(l, r)
  BY <1>1, <1>3, <1>4, <1>5, <1>6 DEF SlotMoves
<1>13. b \in BOOLEAN
  BY <1>9
<1> HIDE DEF b
<1>14. QED
  BY <1>2, <1>5, <1>7, <1>8, <1>10, <1>11, <1>12, <1>13, OneLookup

\* A tier moves: what it has found is kept, and Wikipedia's search takes or frees the slot.
LEMMA TierMoves ==
  ASSUME EvidenceInv, NEW l \in Lookups, NEW tier \in NetworkTiers, NEW to \in TierSteps, NEW got \in BOOLEAN,
         lookups[l].at[tier] \notin {"off", "ended"},
         lookups' = [lookups EXCEPT ![l].at[tier] = to, ![l].got = got],
         NEW b \in BOOLEAN, httpOpen' = [httpOpen EXCEPT ![lookups[l].by] = b],
         to = "search" => tier = "wikipedia",
         \/ to = "search" /\ ~searching /\ searching'
         \/ tier = "wikipedia" /\ to # "search" /\ Searches(l) /\ ~searching'
         \/ to # "search" /\ lookups[l].at[tier] # "search" /\ searching' = searching,
         searching' \in BOOLEAN,
         UNCHANGED <<topicCache, retired, caught>>
  PROVE  EvidenceInv'
<1> DEFINE r == [lookups[l] EXCEPT !.at[tier] = to, !.got = got]
           s == lookups[l].by
<1>1. lookups[l] \in LookupRecords /\ lookups \in [Lookups -> LookupRecords] /\ searching \in BOOLEAN
  BY DEF EvidenceInv, EvidenceTypes
<1>2. /\ r \in LookupRecords /\ r.phase = lookups[l].phase /\ r.by = s
      /\ r.at[tier] = to /\ \A u \in NetworkTiers \ {tier} : r.at[u] = lookups[l].at[u]
  BY <1>1 DEF LookupRecords
<1>3. lookups' = [lookups EXCEPT ![l] = r]
  BY <1>1 DEF LookupRecords
<1>4. lookups[l].phase # "idle"
  BY NoLookupIsRecord DEF EvidenceInv, IdleRests
<1>5. s \in Retrievers /\ s \notin retired \ caught
  BY <1>4, GoingIsKnown
<1>6. /\ Searches(l) => searching
      /\ DOMAIN topicCache = Retrievers /\ \A q \in Retrievers : CacheHolds(topicCache[q])
  BY DEF EvidenceInv, SlotIsSearch, EvidenceTypes
<1> HIDE DEF r
<1>7. RecordMoves(l, r)
  BY <1>2, <1>3, <1>4 DEF RecordMoves
<1>8. OwnerMoves(r, s, b)
  BY <1>2, <1>5 DEF OwnerMoves
<1>9. CachesHold
  BY <1>6 DEF CachesHold
<1> HIDE DEF s
<1>10. SlotMoves(l, r)
  <2>1. CASE tier = "wikipedia"
    BY <1>1, <1>2, <1>6, <2>1 DEF Searches, SlotMoves
  <2>2. CASE tier # "wikipedia"
    <3>1. r.at["wikipedia"] = "search" <=> Searches(l)
      BY <1>2, <2>2 DEF Searches, NetworkTiers
    <3>2. searching' = searching
      BY <2>2
    <3>3. QED
      BY <1>1, <1>6, <3>1, <3>2 DEF SlotMoves
  <2>3. QED
    BY <2>1, <2>2
<1>11. QED
  BY <1>2, <1>5, <1>7, <1>8, <1>9, <1>10, OneLookup

\* close(): what is cancelled frees the slot.
LEMMA RetiresWell ==
  ASSUME EvidenceInv, NEW s \in Retrievers, Retire(s)
  PROVE  EvidenceInv'
<1>1. /\ lookups \in [Lookups -> LookupRecords] /\ searching \in BOOLEAN /\ httpOpen \in [Retrievers -> BOOLEAN]
      /\ caught \subseteq retired /\ retired \subseteq Retrievers /\ s \notin retired
      /\ DOMAIN topicCache = Retrievers /\ \A q \in Retrievers : CacheHolds(topicCache[q])
      /\ SlotIsSearch /\ IdleRests /\ RetiredRests
  BY DEF Retire, EvidenceInv, EvidenceTypes
<1>2. \A l \in Lookups : lookups'[l] = IF l \in Cancelled(s) THEN NoLookup ELSE lookups[l]
  BY DEF Retire
<1>3. CacheHolds(<< >>)
  BY EvidenceConstants, EmptySeq DEF CacheHolds, TopicOnce
<1>4. EvidenceTypes'
  <2>1. lookups' \in [Lookups -> LookupRecords] /\ searching' \in BOOLEAN
    BY <1>1, NoLookupIsRecord DEF Retire
  <2>2. httpOpen' \in [Retrievers -> BOOLEAN] /\ caught' \subseteq retired' /\ retired' \subseteq Retrievers
    BY <1>1 DEF Retire
  <2>3. DOMAIN topicCache' = Retrievers /\ \A q \in Retrievers : topicCache'[q] = IF q = s THEN << >> ELSE topicCache[q]
    BY <1>1 DEF Retire
  <2>4. \A q \in Retrievers : CacheHolds(topicCache'[q])
    BY <1>1, <1>3, <2>3
  <2>5. QED
    BY <2>1, <2>2, <2>3, <2>4 DEF EvidenceTypes, CacheHolds, TopicOnce
<1>5. SlotIsSearch'
  <2>1. \A l \in Lookups : Searches(l)' <=> Searches(l) /\ l \notin Cancelled(s)
    BY <1>2, NoLookupIsRecord DEF Searches, NetworkTiers
  <2>2. searching' <=> searching /\ \A l \in Cancelled(s) : ~Searches(l)
    BY DEF Retire, Searches
  <2>3. Cancelled(s) \subseteq Lookups
    BY DEF Cancelled
  <2>4. QED
    BY <1>1, <2>1, <2>2, <2>3 DEF SlotIsSearch
<1>6. IdleRests'
  BY <1>1, <1>2 DEF IdleRests, NoLookup
<1>7. RetiredRests'
  <2>1. ASSUME NEW q \in retired' \ caught'
        PROVE  ~httpOpen'[q] /\ \A l \in Lookups : lookups'[l].by = q => lookups'[l].phase = "idle"
    <3>1. CASE q = s
      <4>1. \A l \in Lookups : lookups[l].by = s => lookups[l].phase # "waiting"
        BY <2>1, <3>1 DEF Retire
      <4>2. \A l \in Lookups \ Cancelled(s) : lookups[l].by = s => lookups[l].phase = "idle"
        BY <1>1, <4>1 DEF Cancelled, LookupRecords
      <4>3. ~httpOpen'[s]
        BY <1>1 DEF Retire
      <4>4. QED
        BY <1>2, <3>1, <4>2, <4>3, NoLookupIsRecord
    <3>2. CASE q # s
      <4>1. q \in retired \ caught /\ ~httpOpen'[q]
        BY <1>1, <2>1, <3>2 DEF Retire, RetiredRests
      <4>2. QED
        BY <1>1, <1>2, <4>1, NoLookupIsRecord DEF RetiredRests
    <3>3. QED
      BY <3>1, <3>2
  <2>2. QED
    BY <2>1 DEF RetiredRests
<1>8. QED
  BY <1>4, <1>5, <1>6, <1>7 DEF EvidenceInv

LEMMA LookupSteps ==
  ASSUME EvidenceInv, NEW l \in Lookups, LookupStep(l)
  PROVE  EvidenceInv'
<1>1. /\ lookups \in [Lookups -> LookupRecords] /\ searching \in BOOLEAN /\ httpOpen \in [Retrievers -> BOOLEAN]
      /\ lookups[l].got \in BOOLEAN /\ lookups[l].by \in Retrievers
  BY DEF EvidenceInv, EvidenceTypes, LookupRecords
<1>2. httpOpen = [httpOpen EXCEPT ![lookups[l].by] = httpOpen[lookups[l].by]] /\ httpOpen[lookups[l].by] \in BOOLEAN
  BY <1>1
<1>3. ASSUME NEW tier \in NetworkTiers, NEW got \in BOOLEAN, lookups[l].at[tier] \in {"asked", "leads"},
             TierEnds(l, tier, got), UNCHANGED <<topicCache, searching, httpOpen, retired, caught>>
      PROVE  EvidenceInv'
  <2> DEFINE g == lookups[l].got \/ got
  <2>1. g \in BOOLEAN /\ lookups' = [lookups EXCEPT ![l].at[tier] = "ended", ![l].got = g]
    BY <1>1, <1>3 DEF TierEnds
  <2> HIDE DEF g
  <2>2. httpOpen' = [httpOpen EXCEPT ![lookups[l].by] = httpOpen[lookups[l].by]]
    BY <1>2, <1>3
  <2>3. QED
    BY <1>1, <1>2, <1>3, <2>1, <2>2, TierMoves DEF TierSteps
<1>4. CASE WikipediaDown(l)
  <2>1. CASE searching
    BY <1>3, <1>4, <2>1 DEF WikipediaDown, SlotSeen, NetworkTiers
  <2>2. CASE ~searching
    <3>1. /\ lookups[l].at["wikipedia"] = "asked"
          /\ lookups' = [lookups EXCEPT ![l].at["wikipedia"] = "search"] /\ searching' = TRUE
          /\ httpOpen' = [httpOpen EXCEPT ![lookups[l].by] = TRUE]
          /\ UNCHANGED <<topicCache, retired, caught>>
      BY <1>4, <2>2 DEF WikipediaDown, SlotSeen
    <3>2. lookups' = [lookups EXCEPT ![l].at["wikipedia"] = "search", ![l].got = lookups[l].got]
      BY <1>1, <3>1 DEF LookupRecords
    <3>3. QED
      BY <1>1, <2>2, <3>1, <3>2, TierMoves DEF TierSteps, NetworkTiers
  <2>3. QED
    BY <2>1, <2>2
<1>5. ASSUME NEW hits \in BOOLEAN, SearchEnds(l, hits) PROVE EvidenceInv'
  <2> DEFINE to == IF hits THEN "leads" ELSE "ended"
             b == httpOpen[lookups[l].by] \/ hits
  <2>1. /\ Searches(l) /\ searching' = FALSE /\ lookups' = [lookups EXCEPT ![l].at["wikipedia"] = to]
        /\ httpOpen' = [httpOpen EXCEPT ![lookups[l].by] = b] /\ b \in BOOLEAN
        /\ UNCHANGED <<topicCache, retired, caught>>
    BY <1>5 DEF SearchEnds, Searches
  <2>2. to \in TierSteps /\ to # "search"
    BY DEF TierSteps
  <2> HIDE DEF to, b
  <2>3. lookups' = [lookups EXCEPT ![l].at["wikipedia"] = to, ![l].got = lookups[l].got]
    BY <1>1, <2>1 DEF LookupRecords
  <2>4. /\ "wikipedia" \in NetworkTiers /\ lookups[l].at["wikipedia"] \notin {"off", "ended"}
        /\ ~searching' /\ searching' \in BOOLEAN
    BY <2>1 DEF NetworkTiers, Searches
  <2>5. QED
    BY <1>1, <2>1, <2>2, <2>3, <2>4, TierMoves
<1>6. CASE \E got \in BOOLEAN : \/ LeadsRead(l, got)
                                 \/ \E tier \in NetworkTiers : SiteAnswers(l, tier, got)
  BY <1>3, <1>6 DEF LeadsRead, SiteAnswers, NetworkTiers
<1>7. CASE SettleLate(l) \/ \E got \in BOOLEAN : Return(l, got)
  BY <1>7, LeavesWell
<1>8. QED
  BY <1>4, <1>5, <1>6, <1>7 DEF LookupStep

LEMMA EvidenceSteps == EvidenceInv /\ [EvidenceNext]_evidenceVars => EvidenceInv'
<1>1. SUFFICES ASSUME EvidenceInv, [EvidenceNext]_evidenceVars PROVE EvidenceInv'
  OBVIOUS
<1>2. CASE UNCHANGED evidenceVars
  BY <1>1, <1>2 DEF evidenceVars, EvidenceInv, EvidenceTypes, SlotIsSearch, Searches, IdleRests, RetiredRests,
                    CacheHolds, TopicOnce
<1>3. QED
  BY <1>1, <1>2, LookupSteps, BeginsLookup, RetiresWell DEF EvidenceNext

\* One search runs at a time, what is cached was found, and a closed session leaves nothing.
THEOREM SearchesAreShared == EvidenceInit /\ [][EvidenceNext]_evidenceVars => []EvidenceSafe
<1>1. EvidenceInv => EvidenceSafe
  <2>1. SUFFICES ASSUME EvidenceInv PROVE EvidenceSafe
    OBVIOUS
  <2>2. EvidenceTypeOK
    BY <2>1 DEF EvidenceInv, EvidenceTypes, EvidenceTypeOK, CacheHolds
  <2>3. SearchesAlone
    <3> DEFINE S == {l \in Lookups : Searches(l)}
    <3>1. Cardinality(S) <= 1
      <4>1. CASE S = {}
        BY <4>1, FS_EmptySet
      <4>2. CASE S # {}
        <5>1. PICK l \in S : TRUE
          BY <4>2
        <5>2. S = {l}
          BY <2>1, <5>1 DEF EvidenceInv, SlotIsSearch
        <5>3. QED
          BY <5>2, FS_Singleton
      <4>3. QED
        BY <4>1, <4>2
    <3>2. searching = \E l \in Lookups : Searches(l)
      BY <2>1 DEF EvidenceInv, EvidenceTypes, SlotIsSearch
    <3>3. QED
      BY <3>1, <3>2 DEF SearchesAlone, Searches
  <2>4. CacheIsEarned
    <3>1. ASSUME NEW s \in Retrievers, NEW i \in DOMAIN topicCache[s]
          PROVE  topicCache[s][i].some /\ CachedFor(s, topicCache[s][i].topic) = {i}
      <4>1. CacheHolds(topicCache[s])
        BY <2>1 DEF EvidenceInv, EvidenceTypes
      <4>2. topicCache[s][i] \in CacheEntries
        BY <3>1, <4>1, LenProperties, ElementOfSeq DEF CacheHolds
      <4>3. QED
        BY <3>1, <4>1, <4>2 DEF CacheHolds, TopicOnce, CachedFor, CacheEntries
    <3>2. QED
      BY <3>1 DEF CacheIsEarned
  <2>5. RetiredIsQuiet
    BY <2>1, NoLookupIsRecord DEF EvidenceInv, IdleRests, RetiredRests, RetiredIsQuiet, Going, BusyTiers
  <2>6. QED
    BY <2>2, <2>3, <2>4, <2>5 DEF EvidenceSafe
<1>2. QED
  BY <1>1, EvidenceStarts, EvidenceSteps, PTL
=============================================================================
