----------------------------- MODULE Recording -----------------------------
(***************************************************************************)
(* One conversation of the api, recorded over several SITTINGS: the first   *)
(* Session creates the conversation row, and each later one is a cold       *)
(* resume of the same id after the earlier session was closed              *)
(* (api/session.py: start, close, _close_teardown, _persist, _finalize,     *)
(* _finalize_deferred; api/history.py: delete_conversation).                *)
(*                                                                         *)
(* Two stores are shared by the sittings: the conversation ROW in the       *)
(* database and the WAV in the audio store.  Every store call runs in a     *)
(* thread, so between two calls of one sitting any step of another sitting, *)
(* of the deferred-finalize loop or of a History delete may happen.  An     *)
(* action is one such store call together with the event-loop code up to    *)
(* the next await.                                                          *)
(***************************************************************************)
EXTENDS Integers, Sequences

CONSTANTS
  MaxSittings,     \* how many Sessions record into this conversation
  MaxChunks,       \* how many audio chunks are heard, over all sittings
  MaxOpenFaults,   \* how many create()/reopen() calls raise
  MaxWriteFaults,  \* how many later database writes raise (retryable)
  MaxDiskFaults,   \* how many audio-store calls raise
  MaxDeletes       \* how many History deletes are requested

ASSUME BoundsAssumption ==
  /\ MaxSittings \in Nat \ {0}
  /\ MaxChunks \in Nat
  /\ MaxOpenFaults \in Nat
  /\ MaxWriteFaults \in Nat
  /\ MaxDiskFaults \in Nat
  /\ MaxDeletes \in Nat

VARIABLES
  row,            \* the conversation row: status, opened_at token, audio_key set
  wav,            \* the stored audio, as the sequence of chunks it holds
  pc,             \* where each sitting is in start / teardown
  created,        \* Session._create: the row-opening thread and its outcome
  failed,         \* Session._start_failed
  offset,         \* Session._start_offset_ms, in chunks
  heard,          \* chunks on_audio took this sitting
  kept,           \* chunks of those already stored and trimmed from _full_audio
  retain,         \* step of the _persist_audio call in flight
  existing,       \* the stored audio that call read
  taken,          \* how much of the buffer it took
  keyPending,     \* Session._audio_key_pending
  retainOutage,   \* Session._retain_outage
  firstRetain,    \* outcome of Session._first_retain
  successor,      \* Session._successor (0: None)
  priorRetain,    \* Session._prior_retain, as the sitting it belongs to
  priorTeardown,  \* Session._prior_teardown, as the sitting it belongs to
  closing,        \* _closing[key] (0: no entry)
  retrying,       \* the sitting _finalize_deferred is on (0: none)
  deleting,       \* progress of a History delete
  deletes, openFaults, writeFaults, diskFaults,   \* how much of each bound is used
  stopping        \* the sitting close_all_sessions closed (0: it has not run)

lifeVars   == <<pc, created, failed>>
audioVars  == <<offset, heard, kept>>
retainVars == <<retain, existing, taken, keyPending, retainOutage, firstRetain>>
orderVars  == <<successor, priorRetain, priorTeardown, closing, retrying>>
deleteVars == <<deleting, deletes>>
faultVars  == <<openFaults, writeFaults, diskFaults>>
vars == <<row, wav, lifeVars, audioVars, retainVars, orderVars, deleteVars,
          faultVars, stopping>>

Sittings == 1..MaxSittings
None     == 0
OrNone   == Sittings \cup {None}
Chunk    == Sittings \X Nat      \* <<sitting, its place in that sitting's audio>>

Row == [status : {"absent", "live", "ready", "deleted"},
        token  : OrNone,
        linked : BOOLEAN]

Pc == {"none", "offset", "open", "live",          \* start(), then recording
       "first", "drain", "persist", "create",     \* _close_teardown, _persist
       "finalize", "finish", "deferred", "done"}  \* _finalize and its retry

\* The shape of each group of variables; a buffer is never trimmed past what was heard, nor
\* past what the store call in flight took of it.
StoresOK == row \in Row /\ wav \in Seq(Chunk)
LifeOK   == /\ pc \in [Sittings -> Pc]
            /\ created \in [Sittings -> {"none", "running", "opened", "gone", "error"}]
            /\ failed \in [Sittings -> BOOLEAN]
AudioOK  == /\ offset \in [Sittings -> Nat]
            /\ heard \in [Sittings -> Nat]
            /\ kept \in [Sittings -> Nat]
            /\ existing \in [Sittings -> Seq(Chunk)]
            /\ taken \in [Sittings -> Nat]
            /\ \A s \in Sittings : kept[s] <= heard[s] /\ taken[s] <= heard[s]
RetainOK == /\ retain \in [Sittings -> {"idle", "begin", "put", "link", "drop"}]
            /\ keyPending \in [Sittings -> BOOLEAN]
            /\ retainOutage \in [Sittings -> BOOLEAN]
            /\ firstRetain \in [Sittings -> {"pending", "stored", "failed"}]
OrderOK  == /\ successor \in [Sittings -> OrNone]
            /\ priorRetain \in [Sittings -> OrNone]
            /\ priorTeardown \in [Sittings -> OrNone]
            /\ closing \in OrNone /\ retrying \in OrNone /\ stopping \in OrNone
CountsOK == /\ deleting \in {"no", "row", "again"}
            /\ deletes \in Nat
            /\ openFaults \in Nat /\ writeFaults \in Nat /\ diskFaults \in Nat

\* The type invariant of the module.
TypeOK == StoresOK /\ LifeOK /\ AudioOK /\ RetainOK /\ OrderOK /\ CountsOK

Init ==
  /\ row = [status |-> "absent", token |-> None, linked |-> FALSE]
  /\ wav = <<>>
  /\ pc = [s \in Sittings |-> "none"]
  /\ created = [s \in Sittings |-> "none"]
  /\ failed = [s \in Sittings |-> FALSE]
  /\ offset = [s \in Sittings |-> 0]
  /\ heard = [s \in Sittings |-> 0]
  /\ kept = [s \in Sittings |-> 0]
  /\ retain = [s \in Sittings |-> "idle"]
  /\ existing = [s \in Sittings |-> <<>>]
  /\ taken = [s \in Sittings |-> 0]
  /\ keyPending = [s \in Sittings |-> FALSE]
  /\ retainOutage = [s \in Sittings |-> FALSE]
  /\ firstRetain = [s \in Sittings |-> "pending"]
  /\ successor = [s \in Sittings |-> None]
  /\ priorRetain = [s \in Sittings |-> None]
  /\ priorTeardown = [s \in Sittings |-> None]
  /\ closing = None
  /\ retrying = None
  /\ deleting = "no"
  /\ deletes = 0 /\ openFaults = 0 /\ writeFaults = 0 /\ diskFaults = 0
  /\ stopping = None

-----------------------------------------------------------------------------
(* What the code asks of the state.                                         *)

RowExists == row.status \in {"live", "ready"}

\* start() has not been called yet, or close() has not (Session.is_closed).
Closed(s) == pc[s] \notin {"none", "offset", "open", "live"}

\* Where a sitting's own timeline stands (_current_audio_ms).
TimelineEnd(s) == offset[s] + heard[s]

\* The members of _unfinalized: waiting for the loop, or being retried by it.
Unfinalized(s) == pc[s] = "deferred" \/ retrying = s

\* The task in _teardown has ended (it ends once _persist has deferred, too).
TeardownDone(s) == pc[s] = "done" \/ Unfinalized(s)

\* The sittings later than s on its _successor chain.
Chain[s \in Sittings] ==
  IF successor[s] \in Sittings /\ successor[s] > s
  THEN {successor[s]} \cup Chain[successor[s]]
  ELSE {}

\* A later sitting has opened the row and is not closed (_row_opened is set together with
\* the _create thread).
ResumedLive(s) == \E t \in Sittings : t \in Chain[s] /\ created[t] # "none" /\ ~Closed(t)

ChunksOf(s, from, to) == [i \in 1..(to - from) |-> <<s, from + i>>]

TotalHeard == LET sum[s \in 0..MaxSittings] == IF s = 0 THEN 0 ELSE sum[s - 1] + heard[s]
              IN sum[MaxSittings]

-----------------------------------------------------------------------------
(* Starting a sitting: Session.start under registry.start_lock.             *)

\* The ws handler lets sitting s start: the start lock is free, no Session of the id
\* is registered, and a resume has found the row stored.
MayStart(s) ==
  /\ pc[s] = "none"
  /\ stopping = None
  /\ \A r \in 1..(s - 1) : Closed(r) /\ (failed[r] => TeardownDone(r))
  /\ s > 1 => RowExists /\ ~failed[1]

\* The first sitting: no resume, so no offset to find; its create() thread starts.
StartFresh ==
  /\ MayStart(1)
  /\ pc' = [pc EXCEPT ![1] = "open"]
  /\ created' = [created EXCEPT ![1] = "running"]
  /\ UNCHANGED <<row, wav, failed, audioVars, retainVars, orderVars, deleteVars, faultVars,
                 stopping>>

\* A cold resume, up to the first await of _resume_offset_ms: it becomes the successor
\* of the deferred sittings and of the one still tearing down, whose timeline it takes.
StartResume(s) ==
  /\ s > 1
  /\ MayStart(s)
  /\ successor' = [r \in Sittings |->
                     IF Unfinalized(r) \/ r = closing THEN s ELSE successor[r]]
  /\ IF closing # None
     THEN /\ offset' = [offset EXCEPT ![s] = TimelineEnd(closing)]
          /\ priorRetain' = [priorRetain EXCEPT ![s] = closing]
          /\ priorTeardown' = [priorTeardown EXCEPT ![s] = closing]
          /\ pc' = [pc EXCEPT ![s] = "open"]
          /\ created' = [created EXCEPT ![s] = "running"]
     ELSE /\ pc' = [pc EXCEPT ![s] = "offset"]
          /\ UNCHANGED <<offset, priorRetain, priorTeardown, created>>
  /\ UNCHANGED <<row, wav, failed, heard, kept, retainVars, closing, retrying, deleteVars,
                 faultVars, stopping>>

\* The rest of _resume_offset_ms: the stored WAV's duration, else the end of the last
\* stored segment (somewhere on the earlier sittings' timelines), else 0.
ReadOffset(s) ==
  /\ pc[s] = "offset"
  /\ \E o \in Nat \cap (0..(MaxSittings * MaxChunks)) :
       /\ IF wav # <<>> THEN o = Len(wav)
          ELSE o = 0 \/ (RowExists /\ \E r \in 1..(s - 1) : o <= TimelineEnd(r))
       /\ offset' = [offset EXCEPT ![s] = o]
  /\ pc' = [pc EXCEPT ![s] = "open"]
  /\ created' = [created EXCEPT ![s] = "running"]
  /\ UNCHANGED <<row, wav, failed, heard, kept, retainVars, orderVars, deleteVars, faultVars,
                 stopping>>

\* What ConversationStore.create (an upsert) and .reopen (an UPDATE) leave in the row.
Opened(s) ==
  IF s = 1 \/ RowExists
  THEN [row EXCEPT !.status = "live", !.token = s]
  ELSE row

\* The _create thread commits; a reopen that matches no row returns None.
OpenRow(s) ==
  /\ created[s] = "running"
  /\ row' = Opened(s)
  /\ created' = [created EXCEPT ![s] = IF row'.token = s THEN "opened" ELSE "gone"]
  /\ UNCHANGED <<wav, pc, failed, audioVars, retainVars, orderVars, deleteVars, faultVars,
                 stopping>>

\* The _create thread raises; it may have written the row all the same.
OpenFault(s) ==
  /\ created[s] = "running"
  /\ openFaults < MaxOpenFaults
  /\ openFaults' = openFaults + 1
  /\ row' \in {row, Opened(s)}
  /\ created' = [created EXCEPT ![s] = "error"]
  /\ UNCHANGED <<wav, pc, failed, audioVars, retainVars, orderVars, deleteVars, writeFaults,
                 diskFaults, stopping>>

\* session.ready is sent, start() returns and the handler registers the session.
Ready(s) ==
  /\ pc[s] = "open"
  /\ created[s] = "opened"
  /\ pc' = [pc EXCEPT ![s] = "live"]
  /\ UNCHANGED <<row, wav, created, failed, audioVars, retainVars, orderVars, deleteVars,
                 faultVars, stopping>>

\* start() raises: a store read or the create failed, the recording is gone, the socket
\* died before session.ready, or the handler was cancelled.  close() runs at once, ordered
\* behind nobody and not entered in _closing.
StartFails(s) ==
  /\ pc[s] \in {"offset", "open"}
  /\ failed' = [failed EXCEPT ![s] = TRUE]
  /\ priorRetain' = [priorRetain EXCEPT ![s] = None]
  /\ priorTeardown' = [priorTeardown EXCEPT ![s] = None]
  /\ pc' = [pc EXCEPT ![s] = "first"]
  /\ retain' = [retain EXCEPT ![s] = "begin"]
  /\ UNCHANGED <<row, wav, created, audioVars, existing, taken, keyPending, retainOutage, firstRetain,
                 successor, closing, retrying, deleteVars, faultVars, stopping>>

-----------------------------------------------------------------------------
(* Recording, and the end of a sitting.                                     *)

\* on_audio: while live, and during a teardown begun by shutdown, whose socket still feeds it.
Hear(s) ==
  /\ pc[s] = "live" \/ (stopping = s /\ ~TeardownDone(s))
  /\ TotalHeard < MaxChunks
  /\ heard' = [heard EXCEPT ![s] = @ + 1]
  /\ UNCHANGED <<row, wav, lifeVars, offset, kept, retainVars, orderVars, deleteVars,
                 faultVars, stopping>>

\* close() up to its await, for session.end, a lapsed grace window, revoke and shutdown.
CloseLive(s) ==
  /\ pc[s] = "live"
  /\ pc' = [pc EXCEPT ![s] = "first"]
  /\ retain' = [retain EXCEPT ![s] = "begin"]
  /\ closing' = s
  /\ UNCHANGED <<row, wav, created, failed, audioVars, existing, taken, keyPending, retainOutage,
                 firstRetain, successor, priorRetain, priorTeardown, retrying, deleteVars,
                 faultVars>>

Close(s) == CloseLive(s) /\ UNCHANGED stopping

\* close_all_sessions: the live session is closed and the process stops serving.
Shutdown(s) == stopping = None /\ CloseLive(s) /\ stopping' = s

-----------------------------------------------------------------------------
(* Retaining audio: _retain_audio / _persist_audio, from a teardown's first  *)
(* retain (pc "first"), from _persist and from the retry loop ("persist").   *)

\* The retain in flight ends; ok is what _retain_audio returns.
RetainEnds(s, ok) ==
  /\ retain' = [retain EXCEPT ![s] = "idle"]
  /\ existing' = [existing EXCEPT ![s] = <<>>]
  /\ taken' = [taken EXCEPT ![s] = 0]
  /\ IF pc[s] = "first"
     THEN /\ firstRetain' = [firstRetain EXCEPT ![s] = IF ok THEN "stored" ELSE "failed"]
          /\ pc' = [pc EXCEPT ![s] = "drain"]
     ELSE /\ pc' = [pc EXCEPT ![s] = "create"]
          /\ UNCHANGED firstRetain

\* _retain_audio_after_prior: wait for the first retain of the sitting resumed from, and
\* leave our audio to _persist if that one failed.
AwaitPriorRetain(s) ==
  /\ pc[s] = "first"
  /\ priorRetain[s] # None
  /\ firstRetain[priorRetain[s]] # "pending"
  /\ priorRetain' = [priorRetain EXCEPT ![s] = None]
  /\ IF firstRetain[priorRetain[s]] = "stored"
     THEN /\ priorTeardown' = [priorTeardown EXCEPT ![s] = None]
          /\ UNCHANGED <<pc, retain, existing, taken, firstRetain>>
     ELSE RetainEnds(s, FALSE) /\ UNCHANGED priorTeardown
  /\ UNCHANGED <<row, wav, created, failed, audioVars, keyPending, retainOutage, successor,
                 closing, retrying, deleteVars, faultVars, stopping>>

\* Mutant: the first retain does not wait for the prior sitting's.
RetainingUnordered(s) == retain[s] = "begin"

\* A retain may start: at once, except a first retain ordered behind a prior one.
Retaining(s) == retain[s] = "begin" /\ (pc[s] = "first" => priorRetain[s] = None)

\* Nothing buffered and no key owed.
RetainNothing(s) ==
  /\ Retaining(s)
  /\ kept[s] = heard[s] /\ ~keyPending[s]
  /\ retainOutage' = [retainOutage EXCEPT ![s] = FALSE]
  /\ RetainEnds(s, TRUE)
  /\ UNCHANGED <<row, wav, created, failed, audioVars, keyPending, orderVars, deleteVars,
                 faultVars, stopping>>

\* AudioStore.get: the stored WAV, and the length of the buffer taken.
RetainRead(s) ==
  /\ Retaining(s)
  /\ kept[s] < heard[s]
  /\ existing' = [existing EXCEPT ![s] = wav]
  /\ taken' = [taken EXCEPT ![s] = heard[s]]
  /\ retain' = [retain EXCEPT ![s] = "put"]
  /\ UNCHANGED <<row, wav, lifeVars, audioVars, keyPending, retainOutage, firstRetain,
                 orderVars, deleteVars, faultVars, stopping>>

\* Mutant: one chunk too many is trimmed.
TrimOneMore(s) == taken[s] + 1

\* How far the buffer is trimmed once its audio is stored.
TrimTo(s) == taken[s]

\* AudioStore.put of the read audio and the taken buffer, which is then trimmed.
RetainWrite(s) ==
  /\ retain[s] = "put"
  /\ wav' = existing[s] \o ChunksOf(s, kept[s], taken[s])
  /\ kept' = [kept EXCEPT ![s] = TrimTo(s)]
  /\ existing' = [existing EXCEPT ![s] = <<>>]
  /\ taken' = [taken EXCEPT ![s] = 0]
  /\ keyPending' = [keyPending EXCEPT ![s] = TRUE]
  /\ retain' = [retain EXCEPT ![s] = "link"]
  /\ UNCHANGED <<row, lifeVars, offset, heard, retainOutage, firstRetain, orderVars,
                 deleteVars, faultVars, stopping>>

\* The audio store raises (get, put or delete): not an outage, so it holds nothing back.
RetainFault(s) ==
  /\ \/ Retaining(s) /\ kept[s] < heard[s]
     \/ retain[s] \in {"put", "drop"}
  /\ diskFaults < MaxDiskFaults
  /\ diskFaults' = diskFaults + 1
  /\ retainOutage' = [retainOutage EXCEPT ![s] = FALSE]
  /\ RetainEnds(s, FALSE)
  /\ UNCHANGED <<row, wav, created, failed, audioVars, keyPending, orderVars, deleteVars,
                 openFaults, writeFaults, stopping>>

Linking(s) ==
  \/ retain[s] = "link"
  \/ Retaining(s) /\ kept[s] = heard[s] /\ keyPending[s]

\* Mutant: the result of set_audio_key is not looked at.
RowGoneIgnored(s) == FALSE

\* set_audio_key matched no row although our create() is over: the recording was deleted.
RowGone(s) == ~RowExists /\ created[s] # "running"

\* set_audio_key: TRUE when it matched a row.  When our row is gone, the WAV just stored
\* goes too (XERK-1608).
LinkKey(s) ==
  /\ Linking(s)
  /\ keyPending' = [keyPending EXCEPT ![s] = FALSE]
  /\ IF ~RowGone(s)
     THEN /\ row' = IF RowExists THEN [row EXCEPT !.linked = TRUE] ELSE row
          /\ retainOutage' = [retainOutage EXCEPT ![s] = FALSE]
          /\ RetainEnds(s, TRUE)
     ELSE /\ retain' = [retain EXCEPT ![s] = "drop"]
          /\ UNCHANGED <<row, pc, existing, taken, retainOutage, firstRetain>>
  /\ UNCHANGED <<wav, created, failed, audioVars, orderVars, deleteVars, faultVars, stopping>>

\* set_audio_key meets an outage: the key stays pending for the next retain.
LinkFault(s) ==
  /\ Linking(s)
  /\ writeFaults < MaxWriteFaults
  /\ writeFaults' = writeFaults + 1
  /\ retainOutage' = [retainOutage EXCEPT ![s] = TRUE]
  /\ RetainEnds(s, FALSE)
  /\ UNCHANGED <<row, wav, created, failed, audioVars, keyPending, orderVars, deleteVars,
                 openFaults, diskFaults, stopping>>

\* AudioStore.delete of a WAV stored after its recording was deleted.
DropOrphan(s) ==
  /\ retain[s] = "drop"
  /\ wav' = <<>>
  /\ retainOutage' = [retainOutage EXCEPT ![s] = FALSE]
  /\ RetainEnds(s, TRUE)
  /\ UNCHANGED <<row, created, failed, audioVars, keyPending, orderVars, deleteVars, faultVars,
                 stopping>>

-----------------------------------------------------------------------------
(* _persist and _finalize, and the loop that retries them.                  *)

\* The model drains are over (or were cut short): _persist waits for the teardown of a
\* sitting whose first retain failed, then retains what is left.
Persist(s) ==
  /\ pc[s] = "drain"
  /\ priorTeardown[s] # None => TeardownDone(priorTeardown[s])
  /\ priorTeardown' = [priorTeardown EXCEPT ![s] = None]
  /\ pc' = [pc EXCEPT ![s] = "persist"]
  /\ retain' = [retain EXCEPT ![s] = "begin"]
  /\ UNCHANGED <<row, wav, created, failed, audioVars, existing, taken, keyPending, retainOutage,
                 firstRetain, successor, priorRetain, closing, retrying, deleteVars, faultVars,
                 stopping>>

\* The sitting leaves its teardown, or the retry loop, for `to`.
Leave(s, to) ==
  /\ pc' = [pc EXCEPT ![s] = to]
  /\ closing' = IF closing = s THEN None ELSE closing
  /\ retrying' = IF retrying = s THEN None ELSE retrying

\* Mutant: only a create() that succeeded ends the wait.
CreateSucceeded(s) == created[s] \in {"none", "opened"}

\* The _create thread, if there is one, is over, whatever its outcome.
CreateOver(s) == created[s] # "running"

\* _persist waits for the _create thread; a start that never reached it has no row to finish.
AwaitCreate(s) ==
  /\ pc[s] = "create"
  /\ CreateOver(s)
  /\ IF created[s] = "none"
     THEN Leave(s, "done")
     ELSE pc' = [pc EXCEPT ![s] = "finalize"] /\ UNCHANGED <<closing, retrying>>
  /\ UNCHANGED <<row, wav, created, failed, audioVars, retainVars, successor, priorRetain,
                 priorTeardown, deleteVars, faultVars, stopping>>

\* Mutant: an owed audio key does not hold the finalize back.
NeverHeldBack(s) == FALSE

\* The last retain stored audio whose key an outage kept from the row.
HeldBack(s) == keyPending[s] /\ retainOutage[s]

\* _finalize before its finish(): held back by an owed key, or left to a later sitting.
Finalize(s) ==
  /\ pc[s] = "finalize"
  /\ \/ HeldBack(s) /\ Leave(s, "deferred")
     \/ ~HeldBack(s) /\ ResumedLive(s) /\ Leave(s, "done")
     \/ /\ ~HeldBack(s) /\ ~ResumedLive(s)
        /\ pc' = [pc EXCEPT ![s] = "finish"]
        /\ UNCHANGED <<closing, retrying>>
  /\ UNCHANGED <<row, wav, created, failed, audioVars, retainVars, successor, priorRetain,
                 priorTeardown, deleteVars, faultVars, stopping>>

\* Mutant: finish() without the sitting's token.
OwnsRowAlways(s) == TRUE

\* finish() matches the row: a sitting that knows its opened_at only its own opening of it.
OwnsRow(s) == created[s] = "opened" => row.token = s

\* ConversationStore.finish with this sitting's opened_at; None finishes unconditionally.
Finish(s) ==
  /\ pc[s] = "finish"
  /\ row' = IF RowExists /\ OwnsRow(s)
            THEN [row EXCEPT !.status = "ready"] ELSE row
  /\ Leave(s, "done")
  /\ UNCHANGED <<wav, created, failed, audioVars, retainVars, successor, priorRetain,
                 priorTeardown, deleteVars, faultVars, stopping>>

\* An outage stops _flush_writes or finish(): _defer_finalize, or wait for the next pass.
FinalizeFault(s) ==
  /\ pc[s] \in {"finalize", "finish"}
  /\ writeFaults < MaxWriteFaults
  /\ writeFaults' = writeFaults + 1
  /\ Leave(s, "deferred")
  /\ UNCHANGED <<row, wav, created, failed, audioVars, retainVars, successor, priorRetain,
                 priorTeardown, deleteVars, openFaults, diskFaults, stopping>>

\* _finalize_deferred takes up a session: retain, then finalize.  One at a time.
Retry(s) ==
  /\ pc[s] = "deferred"
  /\ retrying = None
  /\ retrying' = s
  /\ pc' = [pc EXCEPT ![s] = "persist"]
  /\ retain' = [retain EXCEPT ![s] = "begin"]
  /\ UNCHANGED <<row, wav, created, failed, audioVars, existing, taken, keyPending, retainOutage,
                 firstRetain, successor, priorRetain, priorTeardown, closing, deleteVars,
                 faultVars, stopping>>

-----------------------------------------------------------------------------
(* History's delete_conversation: audio, row, audio again.                  *)

DeleteAudio ==
  /\ deleting = "no" /\ deletes < MaxDeletes
  /\ RowExists
  /\ wav' = <<>>
  /\ deleting' = "row"
  /\ deletes' = deletes + 1
  /\ UNCHANGED <<row, lifeVars, audioVars, retainVars, orderVars, faultVars, stopping>>

DeleteRow ==
  /\ deleting = "row"
  /\ row' = [row EXCEPT !.status = "deleted"]
  /\ deleting' = "again"
  /\ UNCHANGED <<wav, deletes, lifeVars, audioVars, retainVars, orderVars, faultVars, stopping>>

\* The row's DELETE meets an outage: the request fails and the row stays for a retry.
DeleteFault ==
  /\ deleting = "row"
  /\ writeFaults < MaxWriteFaults
  /\ writeFaults' = writeFaults + 1
  /\ deleting' = "no"
  /\ UNCHANGED <<row, wav, deletes, lifeVars, audioVars, retainVars, orderVars, openFaults,
                 diskFaults, stopping>>

DeleteAudioAgain ==
  /\ deleting = "again"
  /\ wav' = <<>>
  /\ deleting' = "no"
  /\ UNCHANGED <<row, deletes, lifeVars, audioVars, retainVars, orderVars, faultVars, stopping>>

-----------------------------------------------------------------------------

\* Nothing is running: every sitting that started has ended, and no delete is under way.
Settled == deleting = "no" /\ \A s \in Sittings : pc[s] \in {"none", "done"}

Rest == Settled /\ UNCHANGED vars

Starting(s)   == \/ s = 1 /\ StartFresh
                 \/ StartResume(s) \/ ReadOffset(s) \/ OpenRow(s) \/ OpenFault(s)
                 \/ Ready(s) \/ StartFails(s)
Storing(s)    == \/ AwaitPriorRetain(s) \/ RetainNothing(s) \/ RetainRead(s) \/ RetainWrite(s)
                 \/ LinkKey(s) \/ DropOrphan(s)
Finalizing(s) == \/ Persist(s) \/ AwaitCreate(s) \/ Finalize(s) \/ Finish(s) \/ Retry(s)
Faulting(s)   == RetainFault(s) \/ LinkFault(s) \/ FinalizeFault(s)
Deleting      == DeleteAudio \/ DeleteRow \/ DeleteFault \/ DeleteAudioAgain

Next ==
  \/ \E s \in Sittings : \/ Starting(s) \/ Hear(s) \/ Close(s) \/ Shutdown(s)
                         \/ Storing(s) \/ Finalizing(s) \/ Faulting(s)
  \/ Deleting
  \/ Rest

\* The event loop and the store threads keep running: a started call ends, a teardown step
\* whose wait is over is taken, and the retry loop wakes every _FINALIZE_RETRY_S.  Nobody has
\* to speak, resume, hang up, delete or fail.
Fairness ==
  /\ \A s \in Sittings : /\ WF_vars(OpenRow(s))
                         /\ WF_vars(Storing(s))
                         /\ WF_vars(Persist(s) \/ AwaitCreate(s) \/ Finalize(s) \/ Finish(s))
                         /\ WF_vars(Retry(s))
  /\ WF_vars(DeleteRow \/ DeleteAudioAgain)

Spec     == Init /\ [][Next]_vars
FairSpec == Spec /\ Fairness

-----------------------------------------------------------------------------
(* Properties.                                                              *)

\* The sitting has opened the row and has not been closed.
Recording(s) == created[s] = "opened" /\ pc[s] \in {"open", "live"}

\* While a sitting records into the conversation its row is not shown as finished, whatever
\* earlier teardown or deferred retry ends meanwhile (XERK-1502, XERK-1591): _resumed_live,
\* and finish() keyed on opened_at.  It leans on create()/reopen() having returned a token,
\* so it is claimed until one of those calls has raised.
ReadyMeansNobodyRecording ==
  openFaults = 0 => (row.status = "ready" => \A s \in Sittings : ~Recording(s))

\* What makes it so, as an inductive invariant: sittings open the row one after another under
\* the start lock, each token names the sitting that opened the row last, and a sitting reaches
\* finish() only once its own create() is over.
Sequential ==
  \A r, s \in Sittings : r < s /\ pc[s] # "none" => Closed(r) /\ created[r] # "running"

StepsInOrder ==
  \A s \in Sittings :
    /\ retain[s] # "idle" => pc[s] \in {"first", "persist"}
    /\ pc[s] \in {"none", "offset"} => created[s] = "none"
    /\ pc[s] \in {"finalize", "finish"} => created[s] # "none"
    /\ pc[s] \in {"finalize", "finish"} \/ TeardownDone(s) => created[s] # "running"
    /\ ~Closed(s) => ~failed[s] /\ retrying # s
    /\ pc[s] = "live" \/ (Closed(s) /\ ~failed[s]) => created[s] = "opened"

RowKnown ==
  /\ \A s \in Sittings : created[s] = "gone" => row.status = "deleted"
  /\ \A s \in Sittings : s > 1 /\ pc[s] # "none" => row.status # "absent"

TokenIsLastOpener ==
  openFaults = 0 =>
    /\ \A s \in Sittings : created[s] # "error"
    /\ row.token # None => created[row.token] = "opened"
    /\ \A s \in Sittings : created[s] = "opened" => s <= row.token

OwnershipInv == Sequential /\ StepsInOrder /\ RowKnown /\ TokenIsLastOpener
                /\ ReadyMeansNobodyRecording

\* The same with no exception for a create()/reopen() that raised, as the comment in
\* _finalize has it ("a resume can reopen the row after the check above, while this finish
\* waits on a connection, and must not be closed by it").
LiveRowStaysLive == row.status = "ready" => \A s \in Sittings : ~Recording(s)

\* A sitting has two attempts at storing its audio, and what an outage stops is retried: one
\* failure of the audio store alone, or any number of outages alone, costs nothing.
FaultsSpared == diskFaults = 0 \/ (diskFaults = 1 /\ writeFaults = 0)

\* Each stored chunk sits where its sitting's transcript timeline says, so captions and
\* playback agree across sittings (XERK-1500): _resume_offset_ms against the order in which
\* the sittings' retains read, write and trim.  Audio lost to more faults moves up what later
\* sittings store.
AudioOnTimeline ==
  (deletes = 0 /\ FaultsSpared) =>
    \A p \in DOMAIN wav : p = offset[wav[p][1]] + wav[p][2]

\* What has been stored stays in the recording: _persist_audio extends what the store has, and
\* never clobbers it with the latest fragment (XERK-86).
StoredStays ==
  deletes = 0 => \A s \in Sittings : \A i \in 1..kept[s] : \E p \in DOMAIN wav : wav[p] = <<s, i>>

\* So it is while the faults spare it, and once everything has ended nothing is left in a
\* buffer unless it arrived during a shutdown.
NothingLost ==
  FaultsSpared =>
    /\ StoredStays
    /\ Settled /\ deletes = 0 => \A s \in Sittings : stopping # s => kept[s] = heard[s]

\* All the audio heard is kept, each chunk once and where the transcript has it.
AudioKept == AudioOnTimeline /\ NothingLost

\* Once everything has ended the conversation is ready, not recording forever, and its stored
\* audio is playable (XERK-236, XERK-1531): no sitting left the row to another that left it too.
SettledRowIsReady ==
  (Settled /\ RowExists /\ diskFaults = 0) => row.status = "ready" /\ (wav # <<>> => row.linked)

\* Audio does not outlive a deleted recording, wherever the delete's three steps fall among
\* the retains of the sittings recording into it (XERK-1608), unless the audio store fails.
NoOrphanAudio == (Settled /\ row.status = "deleted" /\ diskFaults = 0) => wav = <<>>

\* Every close is eventually finalized: no cycle among waits for a prior retain, a prior
\* teardown, the create thread and the serial retry loop holds a sitting forever.
TeardownsEnd == \A s \in Sittings : Closed(s) ~> pc[s] = "done"

-----------------------------------------------------------------------------
(* Recording implements Conversation: the row's status is what is shown, and   *)
(* the recorder is the sitting that has opened the row and is not closed.      *)

Recorder == IF \E s \in Sittings : Recording(s) THEN CHOOSE s \in Sittings : Recording(s) ELSE None

C == INSTANCE Conversation
       WITH Sitters <- Sittings, Nobody <- None, status <- row.status, recorder <- Recorder

\* However its sittings' starts, teardowns, deferred retries and a History delete interleave, a
\* conversation is taken by one sitting at a time, shows ready only once nobody records, is not
\* brought back once deleted, and is finished after the last sitting even through an outage
\* (start, _finalize, finish, _finalize_deferred).  Claimed where no create() or reopen() raises.
ImplementsConversation == C!Spec
=============================================================================
