----------------------------- MODULE HeldWrites -----------------------------
(***************************************************************************)
(* The transcript writes of one conversation (session.py, _store to        *)
(* _finalize): each sitting queues its segments, translations, songs and   *)
(* cues and stores them in order, off its pump, against a database that    *)
(* may be away.  A cue may come back from its model after its sitting has  *)
(* closed, been finished, or handed its row to the sitting that resumed it.*)
(*                                                                         *)
(* Recording has the audio and the row of the same sittings; here they are *)
(* reduced to who opened the row last and whether it is ready.             *)
(***************************************************************************)
EXTENDS Integers, Sequences

CONSTANTS MaxSittings,  \* bound: sittings of the conversation, each resuming the one before
          MaxQueued,    \* bound: writes queued
          MaxFailures   \* bound: database calls that fail

ASSUME HeldAssumption == MaxSittings \in Nat \ {0} /\ MaxQueued \in Nat /\ MaxFailures \in Nat

Sittings == 1..MaxSittings

VARIABLES
  stage,     \* a sitting's stage: "none", "open", "closed", "flush", "finish", "deferred",
             \* "handed" (_handed_off) or "finished" (_finished)
  unsaved,   \* _unsaved_writes
  writer,    \* the _writer task runs: it waits for, or has, the write lock
  lock,      \* _writes_lock: "free", "writer" or "finalize"
  linked,    \* _successor is set
  cue,       \* a cue of the sitting is being generated, and was it let through a closed session
  rowOpener, \* the row: the sitting that opened it last
  rowReady,  \* and whether it is marked ready
  queued,    \* writes queued so far: a write's number
  failures,
  stored,    \* history: the writes that landed, as <<sitting, number>>
  refused,   \* history: writes dropped for an error of their own
  late       \* history: cues that were queued for a flush that may be over

heldVars == <<stage, unsaved, writer, lock, linked, cue, rowOpener, rowReady, queued, failures, stored, refused, late>>

HeldInit ==
  /\ stage = [s \in Sittings |-> IF s = 1 THEN "open" ELSE "none"]
  /\ unsaved = [s \in Sittings |-> <<>>] /\ writer = [s \in Sittings |-> FALSE]
  /\ lock = [s \in Sittings |-> "free"] /\ linked = [s \in Sittings |-> FALSE]
  /\ cue = [s \in Sittings |-> FALSE]
  /\ rowOpener = 1 /\ rowReady = FALSE /\ queued = 0 /\ failures = 0 /\ stored = <<>> /\ refused = {} /\ late = {}

Settled(s) == stage[s] \in {"handed", "finished"}

\* A resume: the sitting before has closed; while it is not settled it learns its successor.
OpenSitting(s) ==
  /\ stage[s] = "none" /\ s > 1 /\ stage[s - 1] \notin {"none", "open"}
  /\ stage' = [stage EXCEPT ![s] = "open"]
  /\ linked' = [linked EXCEPT ![s - 1] = ~Settled(s - 1)]
  /\ rowOpener' = s /\ rowReady' = FALSE
  /\ UNCHANGED <<unsaved, writer, lock, cue, queued, failures, stored, refused, late>>

\* Segments and translations are queued until the teardown has drained them.
Store(s) == /\ queued < MaxQueued /\ queued' = queued + 1
            /\ unsaved' = [unsaved EXCEPT ![s] = Append(@, queued')]
            /\ writer' = [writer EXCEPT ![s] = TRUE]
StoreTurn(s) ==
  /\ stage[s] \in {"open", "closed"} /\ Store(s)
  /\ UNCHANGED <<stage, lock, linked, cue, rowOpener, rowReady, failures, stored, refused, late>>

CloseSitting(s) ==
  /\ stage[s] = "open" /\ stage' = [stage EXCEPT ![s] = "closed"]
  /\ UNCHANGED <<unsaved, writer, lock, linked, cue, rowOpener, rowReady, queued, failures, stored, refused, late>>

-----------------------------------------------------------------------------
(* _flush_writes, by the writer task and by _finalize, one at a time.       *)

\* The lock is fair, and the writer was started before the finalize that waits behind it.
TakeLock(s) ==
  /\ lock[s] = "free"
  /\ \/ writer[s] /\ lock' = [lock EXCEPT ![s] = "writer"]
     \/ ~writer[s] /\ stage[s] = "flush" /\ lock' = [lock EXCEPT ![s] = "finalize"]
  /\ UNCHANGED <<stage, unsaved, writer, linked, cue, rowOpener, rowReady, queued, failures, stored, refused, late>>

StoreNext(s) ==
  /\ lock[s] # "free" /\ unsaved[s] # <<>>
  /\ stored' = Append(stored, <<s, Head(unsaved[s])>>)
  /\ unsaved' = [unsaved EXCEPT ![s] = Tail(@)]
  /\ UNCHANGED <<stage, writer, lock, linked, cue, rowOpener, rowReady, queued, failures, refused, late>>

\* A later sitting of the chain records into the row, so that one will finish it.
LaterLive(s) == \E t \in Sittings : t > s /\ stage[t] = "open" /\ \A u \in s..(t - 1) : linked[u]

\* The flush of _finalize goes on, with no await between, to the check and to finish().
AfterFlush(s) == IF LaterLive(s) THEN "handed" ELSE "finish"
FlushEnds(s, next) ==
  /\ lock' = [lock EXCEPT ![s] = "free"]
  /\ \/ lock[s] = "writer" /\ writer' = [writer EXCEPT ![s] = FALSE] /\ UNCHANGED stage
     \/ lock[s] = "finalize" /\ stage' = [stage EXCEPT ![s] = next] /\ UNCHANGED writer

Flushed(s) ==
  /\ lock[s] # "free" /\ unsaved[s] = <<>> /\ FlushEnds(s, AfterFlush(s))
  /\ UNCHANGED <<unsaved, linked, cue, rowOpener, rowReady, queued, failures, stored, refused, late>>

\* An error of one write drops that write; an outage holds it and all behind it.
DropWrite(s) == /\ unsaved' = [unsaved EXCEPT ![s] = Tail(@)] /\ refused' = refused \cup {Head(unsaved[s])}
                /\ UNCHANGED <<lock, stage, writer>>
\* Mutant: the finalize that met an outage goes on and finishes the row.
HoldWritesAndFinish(s) == FlushEnds(s, "finish") /\ UNCHANGED <<unsaved, refused>>
HoldWrites(s) == FlushEnds(s, "deferred") /\ UNCHANGED <<unsaved, refused>>
WriteFails(s) ==
  /\ lock[s] # "free" /\ unsaved[s] # <<>> /\ failures < MaxFailures /\ failures' = failures + 1
  /\ DropWrite(s) \/ HoldWrites(s)
  /\ UNCHANGED <<linked, cue, rowOpener, rowReady, queued, stored, late>>

-----------------------------------------------------------------------------
(* _finalize, from the teardown and again from _finalize_deferred.          *)

BeginFinalize(s) ==
  /\ stage[s] \in {"closed", "deferred"}
  /\ stage' = [stage EXCEPT ![s] = "flush"]
  /\ UNCHANGED <<unsaved, writer, lock, linked, cue, rowOpener, rowReady, queued, failures, stored, refused, late>>

\* finish() marks the row ready unless a later sitting opened it meanwhile.
Finish(s) ==
  /\ stage[s] = "finish"
  /\ rowReady' = (rowReady \/ rowOpener = s)
  /\ stage' = [stage EXCEPT ![s] = IF rowReady' THEN "finished" ELSE "handed"]
  /\ UNCHANGED <<unsaved, writer, lock, linked, cue, rowOpener, queued, failures, stored, refused, late>>

FinishFails(s) ==
  /\ stage[s] = "finish" /\ failures < MaxFailures /\ failures' = failures + 1
  /\ stage' = [stage EXCEPT ![s] = "deferred"]
  /\ UNCHANGED <<unsaved, writer, lock, linked, cue, rowOpener, rowReady, queued, stored, refused, late>>

-----------------------------------------------------------------------------
(* A cue and the await in which its sitting may end.                        *)

CueStarts(s) ==
  /\ stage[s] = "open" /\ ~cue[s] /\ cue' = [cue EXCEPT ![s] = TRUE]
  /\ UNCHANGED <<stage, unsaved, writer, lock, linked, rowOpener, rowReady, queued, failures, stored, refused, late>>

\* The sitting that a cue of s is written by: the first one that has not handed its row on.
Heir(s) == CHOOSE t \in Sittings :
             /\ t >= s /\ \A u \in s..(t - 1) : stage[u] = "handed" /\ linked[u]
             /\ ~(stage[t] = "handed" /\ linked[t])

\* Mutant: a closing sitting starts its writer for a late cue.
QueuedOnlyNever(t) == FALSE
\* A sitting that is closing leaves a late cue to its last flush.
QueuedOnly(t) == stage[t] \in {"closed", "flush", "finish", "deferred"}

\* Dropped once the row is ready.
CueArrives(s) ==
  /\ cue[s] /\ cue' = [cue EXCEPT ![s] = FALSE]
  /\ LET owner == Heir(s) IN
     \/ /\ "finished" \in {stage[s], stage[owner]}
        /\ UNCHANGED <<unsaved, writer, queued, late>>
     \/ /\ "finished" \notin {stage[s], stage[owner]} /\ QueuedOnly(owner)
        /\ queued < MaxQueued /\ queued' = queued + 1
        /\ unsaved' = [unsaved EXCEPT ![owner] = Append(@, queued')] /\ late' = late \cup {queued'}
        /\ UNCHANGED writer
     \/ /\ "finished" \notin {stage[s], stage[owner]} /\ ~QueuedOnly(owner)
        /\ Store(owner) /\ UNCHANGED late
  /\ UNCHANGED <<stage, lock, linked, rowOpener, rowReady, failures, stored, refused>>

HeldNext == \E s \in Sittings :
  \/ OpenSitting(s) \/ StoreTurn(s) \/ CloseSitting(s) \/ TakeLock(s) \/ StoreNext(s)
  \/ Flushed(s) \/ WriteFails(s) \/ BeginFinalize(s) \/ Finish(s) \/ FinishFails(s)
  \/ CueStarts(s) \/ CueArrives(s)

HeldSpec == HeldInit /\ [][HeldNext]_heldVars

-----------------------------------------------------------------------------
(* Properties.                                                              *)

HeldTypeOK ==
  /\ stage \in [Sittings -> {"none", "open", "closed", "flush", "finish", "deferred", "handed", "finished"}]
  /\ unsaved \in [Sittings -> Seq(1..MaxQueued)] /\ stored \in Seq(Sittings \X (1..MaxQueued))
  /\ writer \in [Sittings -> BOOLEAN] /\ lock \in [Sittings -> {"free", "writer", "finalize"}]
  /\ linked \in [Sittings -> BOOLEAN] /\ cue \in [Sittings -> BOOLEAN]
  /\ rowOpener \in Sittings /\ rowReady \in BOOLEAN
  /\ queued \in 0..MaxQueued /\ failures \in 0..MaxFailures /\ refused \cup late \subseteq 1..MaxQueued

\* A translation updates the segment it follows, so the writes of a sitting land in the order
\* they were queued, across outages, the writer task and the finalize; none lands twice.
WritesInOrder ==
  \A i, j \in DOMAIN stored : i < j /\ stored[i][1] = stored[j][1] => stored[i][2] < stored[j][2]

\* An outage never costs a write (XERK-1531): each is stored, waits, or was dropped for an error
\* of its own, and a sitting that has settled the row leaves nothing waiting but a cue that came
\* after its last flush, whichever sitting finishes the row.
NothingLeftBehind ==
  /\ \A n \in 1..queued : \/ n \in refused
                          \/ \E i \in DOMAIN stored : stored[i][2] = n
                          \/ \E s \in Sittings : \E i \in DOMAIN unsaved[s] : unsaved[s][i] = n
  /\ \A s \in Sittings : Settled(s) /\ ~writer[s] => \A i \in DOMAIN unsaved[s] : unsaved[s][i] \in late

\* What the writes of a conversation keep.
WritesSafe == HeldTypeOK /\ WritesInOrder /\ NothingLeftBehind

\* After a sitting marked the row ready nothing of its own lands in it any more: what History
\* shows as finished does not change (the late cue, XERK-102).
ReadyIsFinal ==
  [][stored' # stored => stage[stored'[Len(stored')][1]] # "finished"]_heldVars
=============================================================================
