----------------------------- MODULE StaleSweep -----------------------------
(***************************************************************************)
(* Restarts: a process that dies leaves the conversations it was recording  *)
(* `live`, and the next one finishes them with one sweep                    *)
(* (api/persistence/stale.py, finish_stale in api/persistence/postgres.py,  *)
(* api/main.py lifespan).  A sweep that fails at boot stays owed: a retry    *)
(* loop and every starting session then run it, and none of them may finish *)
(* a conversation that this process opened.                                *)
(*                                                                         *)
(* One process runs at a time.  What Recording models, how a session stores *)
(* and finishes its recording, is here the three store calls that a crash   *)
(* may fall between.                                                        *)
(***************************************************************************)
EXTENDS Integers, FiniteSets

CONSTANTS
  Recordings,    \* conversation ids
  Boot, Loop,    \* the callers of the sweep that are not starting sessions
  NoCaller,      \* nobody holds stale._lock
  MaxCrashes,    \* how often the process dies
  MaxFaults,     \* how many database calls raise
  MaxSittings    \* how many sessions start

ASSUME SweepAssumption ==
  /\ Boot \notin Recordings /\ Loop \notin Recordings /\ NoCaller \notin Recordings
  /\ Boot # Loop /\ NoCaller \notin {Boot, Loop}
  /\ MaxCrashes \in Nat
  /\ MaxFaults \in Nat
  /\ MaxSittings \in Nat

VARIABLES
  row,        \* each conversation's status in the database
  wav,        \* its audio is stored
  linked,     \* its audio_key is set
  pc,         \* where each caller of the sweep is: a session of this process, Boot and Loop
  pending,    \* stale._pending
  sweeping,   \* the holder of stale._lock
  toLink,     \* swept rows whose audio is still to be looked for
  crashes, faults, sittings   \* how much of each bound is used

sweepVars == <<row, wav, linked, pc, pending, sweeping, toLink, crashes, faults, sittings>>

Callers == Recordings \cup {Boot, Loop}

\* Boot: "sweep" until it has tried once.  Loop: "asleep" while a failed boot sweep is owed.
\* A session: its start, its recording, and its teardown's store calls.
Pc == {"none", "asleep", "sweep", "links",
       "start", "open", "live", "store", "link", "finish", "deferred"}

\* No session starts before boot has tried its sweep.
SweepTypeOK ==
  /\ row \in [Recordings -> {"absent", "live", "ready"}]
  /\ wav \in [Recordings -> BOOLEAN]
  /\ linked \in [Recordings -> BOOLEAN]
  /\ pc \in [Callers -> Pc]
  /\ pending \in BOOLEAN
  /\ sweeping \in Callers \cup {NoCaller}
  /\ toLink \subseteq Recordings
  /\ \A c \in Recordings : pc[c] # "none" => pc[Boot] = "none"
  /\ crashes \in 0..MaxCrashes
  /\ faults \in 0..MaxFaults
  /\ sittings \in 0..MaxSittings

\* lifespan arms the sweep and runs it before serving.
Booting == [x \in Callers |-> IF x = Boot THEN "sweep" ELSE "none"]

SweepInit ==
  /\ row = [c \in Recordings |-> "absent"]
  /\ wav = [c \in Recordings |-> FALSE]
  /\ linked = [c \in Recordings |-> FALSE]
  /\ pc = Booting
  /\ pending = TRUE
  /\ sweeping = NoCaller
  /\ toLink = {}
  /\ crashes = 0 /\ faults = 0 /\ sittings = 0

-----------------------------------------------------------------------------
(* The sweep.                                                               *)

\* Mutant: connections are taken while the boot sweep runs.
ServingAtOnce == TRUE

\* lifespan has yielded: the app takes connections.
Serving == pc[Boot] = "none"

\* A session of this process has opened the row and has not yet settled it.
Owns(c) == pc[c] \in {"live", "store", "link", "finish", "deferred"}

\* What a caller does once sweep_if_pending has returned.
AfterSweep(x) == IF x \in Recordings THEN "open" ELSE "none"

\* Mutant: a failed boot sweep is logged and forgotten.
Forgotten(x) == [pc EXCEPT ![x] = "none"]

\* What a caller does once sweep_if_pending has raised: boot starts the retry loop, the loop
\* sleeps, and a session's start fails before it has a row to finish.
AfterFailure(x) ==
  IF x = Boot THEN [pc EXCEPT ![Boot] = "none", ![Loop] = "asleep"]
  ELSE IF x = Loop THEN [pc EXCEPT ![Loop] = "asleep"]
  ELSE [pc EXCEPT ![x] = "none"]

\* Mutant: the sweep is not looked up again under the lock.
OwedAnyway == TRUE

\* `if _pending is not store: return`, under the lock.
StillOwed == pending

\* sweep_if_pending takes the lock; with no sweep owed any more it returns at once.
TakeLock(x) ==
  /\ pc[x] = "sweep"
  /\ sweeping = NoCaller
  /\ IF StillOwed
     THEN sweeping' = x /\ UNCHANGED pc
     ELSE pc' = [pc EXCEPT ![x] = AfterSweep(x)] /\ UNCHANGED sweeping
  /\ UNCHANGED <<row, wav, linked, pending, toLink, crashes, faults, sittings>>

\* Mutant: finish_stale does not return the rows it closed.
NotReturned == {}

Stale == {c \in Recordings : row[c] = "live"}

Swept == [c \in Recordings |-> IF row[c] = "live" THEN "ready" ELSE row[c]]

\* finish_stale commits.
Sweep(x) ==
  /\ sweeping = x
  /\ row' = Swept
  /\ toLink' = Stale
  /\ pending' = FALSE
  /\ sweeping' = NoCaller
  /\ pc' = [pc EXCEPT ![x] = "links"]
  /\ UNCHANGED <<wav, linked, crashes, faults, sittings>>

OwedAfterRaise == pending

\* finish_stale raises, its UPDATE committed or not: the sweep stays owed.
SweepRaises(x) ==
  /\ sweeping = x
  /\ faults < MaxFaults
  /\ faults' = faults + 1
  /\ row' \in {row, Swept}
  /\ sweeping' = NoCaller
  /\ pc' = AfterFailure(x)
  /\ pending' = OwedAfterRaise
  /\ UNCHANGED <<wav, linked, toLink, crashes, sittings>>

\* _link_stored_audio: one swept row's WAV, if it is stored.
LinkSwept(x, c) ==
  /\ pc[x] = "links" /\ c \in toLink
  /\ linked' = [linked EXCEPT ![c] = @ \/ wav[c]]
  /\ toLink' = toLink \ {c}
  /\ UNCHANGED <<row, wav, pc, pending, sweeping, crashes, faults, sittings>>

\* An outage stops the loop over the swept rows, and one bad row is skipped.
LinkSweptRaises(x, c) ==
  /\ pc[x] = "links" /\ c \in toLink
  /\ faults < MaxFaults
  /\ faults' = faults + 1
  /\ toLink' \in {{}, toLink \ {c}}
  /\ UNCHANGED <<row, wav, linked, pc, pending, sweeping, crashes, sittings>>

SweepReturns(x) ==
  /\ pc[x] = "links" /\ toLink = {}
  /\ pc' = [pc EXCEPT ![x] = AfterSweep(x)]
  /\ UNCHANGED <<row, wav, linked, pending, sweeping, toLink, crashes, faults, sittings>>

\* retry_loop: its sleep is over.
Wake ==
  /\ pc[Loop] = "asleep"
  /\ pc' = [pc EXCEPT ![Loop] = IF pending THEN "sweep" ELSE "none"]
  /\ UNCHANGED <<row, wav, linked, pending, sweeping, toLink, crashes, faults, sittings>>

-----------------------------------------------------------------------------
(* A session and its row.                                                   *)

\* Session(...), for a new conversation or a cold resume of a stored one.
Start(c) ==
  /\ Serving
  /\ pc[c] = "none"
  /\ sittings < MaxSittings
  /\ sittings' = sittings + 1
  /\ pc' = [pc EXCEPT ![c] = "start"]
  /\ UNCHANGED <<row, wav, linked, pending, sweeping, toLink, crashes, faults>>

\* stale.is_pending(store), without the lock.
IsPending == pending

\* start() as far as the sweep: run it first if it is owed.
CheckSweep(c) ==
  /\ pc[c] = "start"
  /\ pc' = [pc EXCEPT ![c] = IF IsPending THEN "sweep" ELSE "open"]
  /\ UNCHANGED <<row, wav, linked, pending, sweeping, toLink, crashes, faults, sittings>>

\* create() or reopen() commits.
Open(c) ==
  /\ pc[c] = "open"
  /\ row' = [row EXCEPT ![c] = "live"]
  /\ pc' = [pc EXCEPT ![c] = "live"]
  /\ UNCHANGED <<wav, linked, pending, sweeping, toLink, crashes, faults, sittings>>

\* It raises, the row written or not: close() finishes it.
OpenRaises(c) ==
  /\ pc[c] = "open"
  /\ faults < MaxFaults
  /\ faults' = faults + 1
  /\ \/ row' = [row EXCEPT ![c] = "live"]
     \/ UNCHANGED row
  /\ pc' = [pc EXCEPT ![c] = "finish"]
  /\ UNCHANGED <<wav, linked, pending, sweeping, toLink, crashes, sittings>>

\* close(), with audio to keep or without.
End(c) ==
  /\ pc[c] = "live"
  /\ pc' \in {[pc EXCEPT ![c] = "store"], [pc EXCEPT ![c] = "finish"]}
  /\ UNCHANGED <<row, wav, linked, pending, sweeping, toLink, crashes, faults, sittings>>

StoreAudio(c) ==
  /\ pc[c] = "store"
  /\ wav' = [wav EXCEPT ![c] = TRUE]
  /\ pc' = [pc EXCEPT ![c] = "link"]
  /\ UNCHANGED <<row, linked, pending, sweeping, toLink, crashes, faults, sittings>>

LinkAudio(c) ==
  /\ pc[c] = "link"
  /\ linked' = [linked EXCEPT ![c] = TRUE]
  /\ pc' = [pc EXCEPT ![c] = "finish"]
  /\ UNCHANGED <<row, wav, pending, sweeping, toLink, crashes, faults, sittings>>

Finish(c) ==
  /\ pc[c] = "finish"
  /\ row' = [row EXCEPT ![c] = IF @ = "absent" THEN @ ELSE "ready"]
  /\ pc' = [pc EXCEPT ![c] = "none"]
  /\ UNCHANGED <<wav, linked, pending, sweeping, toLink, crashes, faults, sittings>>

\* An outage: _defer_finalize, with the key it still owes.
Defer(c) ==
  /\ pc[c] \in {"link", "finish"}
  /\ faults < MaxFaults
  /\ faults' = faults + 1
  /\ pc' = [pc EXCEPT ![c] = "deferred"]
  /\ UNCHANGED <<row, wav, linked, pending, sweeping, toLink, crashes, sittings>>

\* _finalize_deferred.
Retry(c) ==
  /\ pc[c] = "deferred"
  /\ pc' = [pc EXCEPT ![c] = IF wav[c] /\ ~linked[c] THEN "link" ELSE "finish"]
  /\ UNCHANGED <<row, wav, linked, pending, sweeping, toLink, crashes, faults, sittings>>

-----------------------------------------------------------------------------

\* The process dies, and the next one boots and arms the sweep.  A call in flight may have
\* committed: a create, a finish or the sweep itself.
Crash ==
  /\ crashes < MaxCrashes
  /\ crashes' = crashes + 1
  /\ \/ UNCHANGED row
     \/ \E c \in Recordings : pc[c] = "open" /\ row' = [row EXCEPT ![c] = "live"]
     \/ \E c \in Recordings : pc[c] = "finish" /\ row[c] # "absent"
                              /\ row' = [row EXCEPT ![c] = "ready"]
     \/ sweeping # NoCaller /\ row' = Swept
  /\ pc' = Booting
  /\ pending' = TRUE
  /\ sweeping' = NoCaller
  /\ toLink' = {}
  /\ UNCHANGED <<wav, linked, faults, sittings>>

\* Nobody records and no sweep is under way.
AtRest == (\A x \in Callers : pc[x] = "none") /\ UNCHANGED sweepVars

Sweeping(x) == TakeLock(x) \/ Sweep(x) \/ SweepReturns(x) \/ \E c \in Recordings : LinkSwept(x, c)
Settling(c) == StoreAudio(c) \/ LinkAudio(c) \/ Finish(c) \/ Retry(c)
Session(c)  == Start(c) \/ CheckSweep(c) \/ Open(c) \/ OpenRaises(c) \/ End(c) \/ Defer(c)
               \/ Settling(c)

SweepNext ==
  \/ \E x \in Callers : \/ Sweeping(x) \/ SweepRaises(x)
                        \/ \E c \in Recordings : LinkSweptRaises(x, c)
  \/ \E c \in Recordings : Session(c)
  \/ Wake \/ Crash \/ AtRest

\* Threads and the two retry loops keep running while the process does.  Nobody has to start,
\* end, fail or crash.
SweepFairness ==
  /\ \A x \in Callers : WF_sweepVars(Sweeping(x))
  /\ \A c \in Recordings : WF_sweepVars(CheckSweep(c) \/ Open(c) \/ Settling(c))
  /\ WF_sweepVars(Wake)

SweepSpec     == SweepInit /\ [][SweepNext]_sweepVars
SweepFairSpec == SweepSpec /\ SweepFairness

-----------------------------------------------------------------------------
(* Properties.                                                              *)

\* No sweep, boot's, the loop's or another session's, finishes a conversation that this
\* process is recording (XERK-1428).
SweepSparesOwn == \A c \in Recordings : pc[c] = "live" => row[c] = "live"

\* A conversation shown as recording is one this process records or will finish, or a sweep
\* is owed that will finish it (XERK-236, XERK-1428).
LiveIsSomebodys ==
  \A c \in Recordings : row[c] = "live" => Owns(c) \/ pending

\* A recording is live exactly while somebody of this process is there for it.
SweepSafe == SweepSparesOwn /\ LiveIsSomebodys

\* A finished conversation's stored audio is playable from History, also when its session died
\* between storing the WAV and linking it (XERK-1553).  Claimed for one crash and no failed
\* call: what stops the linking of swept rows half way is left to History's next read.
StoredIsLinked ==
  crashes <= 1 /\ faults = 0 =>
    \A c \in Recordings :
      row[c] = "ready" /\ wav[c] /\ ~linked[c] => c \in toLink \/ Owns(c)

\* A sweep that failed at boot is made good without a restart and without a session, so a
\* conversation that a dead process left recording does not stay so.
OrphansHealed ==
  \A c \in Recordings : row[c] = "live" /\ ~Owns(c) ~> row[c] # "live" \/ Owns(c)
=============================================================================
