---------------------------- MODULE EndingProofs ----------------------------
(* What ends, ends well, for any number of everything involved.  A sweep     *)
(* never finishes a conversation of its own process, every conversation      *)
(* shown as recording has somebody to finish it, and what was recorded of    *)
(* it is linked.  A capture client that is started, stopped and dropped has  *)
(* one socket.  A meeting marked as sent is one that the hub took.  What a   *)
(* meeting's merger counts final is stored, in one meeting.                  *)
EXTENDS StaleSweep, MeetingDelivery, CaptureClient, ScreenMeetings, TLAPS

\* Why: no session of this process opens a row while a sweep is owed, and only a caller that
\* found it owed under the lock sweeps.
NoneOpenedYet ==
  pending => \A c \in Recordings : pc[c] \in {"none", "start", "sweep"}
HolderOwes == sweeping # NoCaller => pending /\ pc[sweeping] = "sweep"

SweepInv == SweepTypeOK /\ NoneOpenedYet /\ HolderOwes /\ SweepSparesOwn /\ LiveIsSomebodys

LEMMA InitSweepInv == SweepInit => SweepInv
<1> USE SweepAssumption
<1> QED BY DEF SweepInit, SweepInv, SweepTypeOK, Booting, NoneOpenedYet, HolderOwes, SweepSparesOwn,
              LiveIsSomebodys, Callers, Pc

\* A step of the sweep, whoever runs it, keeps the invariant.
LEMMA SweepingKeepsInv ==
  ASSUME SweepInv, NEW x \in Callers,
         Sweeping(x) \/ SweepRaises(x) \/ (\E c \in Recordings : LinkSweptRaises(x, c))
  PROVE  SweepInv'
<1> USE SweepAssumption DEF SweepInv, Callers
<1>1. CASE TakeLock(x)
  <2> USE <1>1 DEF TakeLock, StillOwed, AfterSweep
  <2>1. SweepTypeOK' BY DEF SweepTypeOK, Pc
  <2>2. NoneOpenedYet' /\ HolderOwes' BY DEF NoneOpenedYet, HolderOwes, SweepTypeOK
  <2>3. SweepSparesOwn' /\ LiveIsSomebodys'
    BY DEF SweepSparesOwn, LiveIsSomebodys, Owns, SweepTypeOK
  <2> QED BY <2>1, <2>2, <2>3
<1>2. CASE Sweep(x)
  <2> USE <1>2 DEF Sweep
  <2>1. pending BY DEF HolderOwes, SweepTypeOK
  <2>2. SweepTypeOK' BY DEF SweepTypeOK, HolderOwes, Pc, Swept, Stale
  <2>3. NoneOpenedYet' /\ HolderOwes' BY DEF NoneOpenedYet, HolderOwes
  <2>4. SweepSparesOwn' BY <2>1 DEF SweepSparesOwn, NoneOpenedYet, SweepTypeOK
  <2>5. LiveIsSomebodys' BY DEF LiveIsSomebodys, Swept, SweepTypeOK
  <2> QED BY <2>2, <2>3, <2>4, <2>5
<1>3. CASE SweepRaises(x)
  <2> USE <1>3 DEF SweepRaises, OwedAfterRaise, AfterFailure
  <2>1. pending BY DEF HolderOwes, SweepTypeOK
  <2>2. SweepTypeOK' BY DEF SweepTypeOK, HolderOwes, Pc, Swept
  <2>3. NoneOpenedYet' /\ HolderOwes' BY <2>1 DEF NoneOpenedYet, HolderOwes, SweepTypeOK
  <2>4. SweepSparesOwn' BY <2>1 DEF SweepSparesOwn, NoneOpenedYet, SweepTypeOK
  <2>5. LiveIsSomebodys' BY <2>1 DEF LiveIsSomebodys
  <2> QED BY <2>2, <2>3, <2>4, <2>5
<1>4. ASSUME NEW c \in Recordings, LinkSwept(x, c) \/ LinkSweptRaises(x, c) PROVE SweepInv'
  <2> USE <1>4 DEF LinkSwept, LinkSweptRaises
  <2>1. SweepTypeOK' BY DEF SweepTypeOK, Pc
  <2>2. NoneOpenedYet' /\ HolderOwes' BY DEF NoneOpenedYet, HolderOwes
  <2>3. SweepSparesOwn' /\ LiveIsSomebodys' BY DEF SweepSparesOwn, LiveIsSomebodys, Owns
  <2> QED BY <2>1, <2>2, <2>3
<1>5. CASE SweepReturns(x)
  <2> USE <1>5 DEF SweepReturns, AfterSweep
  <2>1. SweepTypeOK' BY DEF SweepTypeOK, Pc
  <2>2. NoneOpenedYet' /\ HolderOwes' BY DEF NoneOpenedYet, HolderOwes, SweepTypeOK
  <2>3. SweepSparesOwn' /\ LiveIsSomebodys'
    BY DEF SweepSparesOwn, LiveIsSomebodys, Owns, SweepTypeOK
  <2> QED BY <2>1, <2>2, <2>3
<1> QED BY <1>1, <1>2, <1>3, <1>4, <1>5 DEF Sweeping

\* A step of a session of this process keeps it.
LEMMA SessionKeepsInv ==
  ASSUME SweepInv, NEW c \in Recordings, Session(c)
  PROVE  SweepInv'
<1> USE SweepAssumption DEF SweepInv, Callers
<1>1. CASE Start(c) \/ CheckSweep(c) \/ End(c) \/ Defer(c) \/ Retry(c)
  <2> USE <1>1 DEF Start, CheckSweep, End, Defer, Retry, Serving, IsPending
  <2>1. SweepTypeOK' BY DEF SweepTypeOK, Pc
  <2>2. NoneOpenedYet' /\ HolderOwes' BY DEF NoneOpenedYet, HolderOwes, SweepTypeOK
  <2>3. SweepSparesOwn' /\ LiveIsSomebodys'
    BY DEF SweepSparesOwn, LiveIsSomebodys, Owns, SweepTypeOK
  <2> QED BY <2>1, <2>2, <2>3
<1>2. CASE Open(c) \/ OpenRaises(c) \/ Finish(c)
  <2> USE <1>2 DEF Open, OpenRaises, Finish
  <2>1. SweepTypeOK' BY DEF SweepTypeOK, Pc
  <2>2. NoneOpenedYet' /\ HolderOwes' BY DEF NoneOpenedYet, HolderOwes, SweepTypeOK
  <2>3. SweepSparesOwn' /\ LiveIsSomebodys'
    BY DEF SweepSparesOwn, LiveIsSomebodys, Owns, SweepTypeOK
  <2> QED BY <2>1, <2>2, <2>3
<1>3. CASE StoreAudio(c) \/ LinkAudio(c)
  <2> USE <1>3 DEF StoreAudio, LinkAudio
  <2>1. SweepTypeOK' BY DEF SweepTypeOK, Pc
  <2>2. NoneOpenedYet' /\ HolderOwes' BY DEF NoneOpenedYet, HolderOwes, SweepTypeOK
  <2>3. SweepSparesOwn' /\ LiveIsSomebodys'
    BY DEF SweepSparesOwn, LiveIsSomebodys, Owns, SweepTypeOK
  <2> QED BY <2>1, <2>2, <2>3
<1> QED BY <1>1, <1>2, <1>3 DEF Session, Settling

\* So do the retry loop's wake-up and a crash.
LEMMA LoopAndCrashKeepInv ==
  ASSUME SweepInv, Wake \/ Crash
  PROVE  SweepInv'
<1> USE SweepAssumption DEF SweepInv, Callers
<1>1. CASE Wake
  <2> USE <1>1 DEF Wake
  <2>1. SweepTypeOK' BY DEF SweepTypeOK, Pc
  <2>2. NoneOpenedYet' /\ HolderOwes' BY DEF NoneOpenedYet, HolderOwes, SweepTypeOK
  <2>3. SweepSparesOwn' /\ LiveIsSomebodys'
    BY DEF SweepSparesOwn, LiveIsSomebodys, Owns, SweepTypeOK
  <2> QED BY <2>1, <2>2, <2>3
<1>2. CASE Crash
  <2> USE <1>2 DEF Crash, Booting
  <2>1. row' \in [Recordings -> {"absent", "live", "ready"}] BY DEF SweepTypeOK, Swept
  <2>2. SweepTypeOK' BY <2>1 DEF SweepTypeOK, Pc
  <2>3. NoneOpenedYet' /\ HolderOwes' BY DEF NoneOpenedYet, HolderOwes
  <2>4. SweepSparesOwn' /\ LiveIsSomebodys' BY DEF SweepSparesOwn, LiveIsSomebodys
  <2> QED BY <2>2, <2>3, <2>4
<1> QED BY <1>1, <1>2

LEMMA SweepInvHolds == SweepSpec => []SweepInv
<1>1. SweepInv /\ [SweepNext]_sweepVars => SweepInv'
  <2> SUFFICES ASSUME SweepInv, [SweepNext]_sweepVars PROVE SweepInv'
    OBVIOUS
  <2>1. CASE UNCHANGED sweepVars
    BY <2>1 DEF SweepInv, sweepVars, SweepTypeOK, NoneOpenedYet, HolderOwes, SweepSparesOwn,
                LiveIsSomebodys, Owns
  <2>2. CASE SweepNext
    BY <2>1, <2>2, SweepingKeepsInv, SessionKeepsInv, LoopAndCrashKeepInv DEF SweepNext, AtRest
  <2> QED BY <2>1, <2>2
<1> QED BY InitSweepInv, <1>1, PTL DEF SweepSpec

\* Every variable keeps its type, and no session starts before boot has tried its sweep
\* (lifespan), for any number of conversations, sessions, crashes and failed calls.
THEOREM SweepTypes == SweepSpec => []SweepTypeOK
BY SweepInvHolds, PTL DEF SweepInv

\* A sweep, at boot, from the retry loop or from another session's start, never finishes a
\* conversation that this process is recording, and a conversation shown as recording is always
\* one that this process records or will finish, or one that a sweep still owed will finish
\* (stale.sweep_if_pending, XERK-236, XERK-1428).
THEOREM SweepIsSafe == SweepSpec => []SweepSafe
BY SweepInvHolds, PTL DEF SweepInv, SweepSafe

-----------------------------------------------------------------------------
(* A swept conversation's audio is linked.                                  *)

\* Why: a WAV is unlinked only between the two calls of a teardown that has its row open, or,
\* once that teardown's process is dead, until the sweep that is still owed has listed its row
\* and linked what it lists.
OpenWhileKept == \A c \in Recordings : pc[c] \in {"live", "store"} => row[c] = "live"
ListedOnce == pending => toLink = {}
AudioFollows ==
  crashes <= 1 /\ faults = 0 =>
    \A c \in Recordings :
      wav[c] /\ ~linked[c] => \/ pc[c] = "link" /\ row[c] = "live"
                              \/ crashes = 1 /\ row[c] = "live" /\ pending
                              \/ crashes = 1 /\ c \in toLink

LinkInv == OpenWhileKept /\ ListedOnce /\ AudioFollows

LEMMA SweepingKeepsLinkInv ==
  ASSUME SweepInv, LinkInv, NEW x \in Callers,
         Sweeping(x) \/ SweepRaises(x) \/ (\E c \in Recordings : LinkSweptRaises(x, c))
  PROVE  LinkInv'
<1> USE SweepAssumption DEF SweepInv, SweepTypeOK, LinkInv, Callers
<1>1. CASE TakeLock(x) \/ SweepReturns(x)
  <2> USE <1>1 DEF TakeLock, SweepReturns, AfterSweep
  <2>1. \A c \in Recordings : pc'[c] \in {"live", "store", "link"} => pc'[c] = pc[c]
    OBVIOUS
  <2>2. \A c \in Recordings : pc[c] = "link" => pc'[c] = "link"
    OBVIOUS
  <2> QED BY <2>1, <2>2 DEF OpenWhileKept, ListedOnce, AudioFollows
<1>2. CASE Sweep(x)
  <2> USE <1>2 DEF Sweep, Swept, Stale
  <2>1. pending /\ \A c \in Recordings : pc[c] \notin {"live", "store", "link"}
    BY DEF HolderOwes, NoneOpenedYet
  <2>2. OpenWhileKept' /\ ListedOnce' BY <2>1 DEF OpenWhileKept, ListedOnce
  <2>3. AudioFollows' BY <2>1 DEF AudioFollows, ListedOnce
  <2> QED BY <2>2, <2>3
<1>3. CASE SweepRaises(x)
  <2> USE <1>3 DEF SweepRaises, OwedAfterRaise, AfterFailure, Swept
  <2>1. pending /\ \A c \in Recordings : pc[c] \notin {"live", "store", "link"}
    BY DEF HolderOwes, NoneOpenedYet
  <2>2. OpenWhileKept' /\ ListedOnce' BY <2>1 DEF OpenWhileKept, ListedOnce
  <2>3. AudioFollows' BY DEF AudioFollows
  <2> QED BY <2>2, <2>3
<1>4. ASSUME NEW c \in Recordings, LinkSwept(x, c) PROVE LinkInv'
  <2> USE <1>4 DEF LinkSwept
  <2>1. OpenWhileKept' /\ ListedOnce' BY DEF OpenWhileKept, ListedOnce
  <2>2. \A d \in Recordings : wav'[d] /\ ~linked'[d] => wav[d] /\ ~linked[d] /\ d # c
    BY Zenon
  <2>3. AudioFollows' BY <2>2 DEF AudioFollows
  <2> QED BY <2>1, <2>3
<1>5. ASSUME NEW c \in Recordings, LinkSweptRaises(x, c) PROVE LinkInv'
  BY <1>5 DEF LinkSweptRaises, OpenWhileKept, ListedOnce, AudioFollows
<1> QED BY <1>1, <1>2, <1>3, <1>4, <1>5 DEF Sweeping

LEMMA SessionKeepsLinkInv ==
  ASSUME SweepInv, LinkInv, NEW c \in Recordings, Session(c)
  PROVE  LinkInv'
<1> USE SweepAssumption DEF SweepInv, SweepTypeOK, LinkInv, Callers
<1>1. CASE Start(c) \/ CheckSweep(c) \/ Defer(c)
  BY <1>1 DEF Start, CheckSweep, Defer, IsPending, OpenWhileKept, ListedOnce, AudioFollows
<1>2. CASE End(c)
  BY <1>2 DEF End, OpenWhileKept, ListedOnce, AudioFollows
<1>3. CASE Open(c) \/ OpenRaises(c)
  BY <1>3 DEF Open, OpenRaises, OpenWhileKept, ListedOnce, AudioFollows
<1>4. CASE Finish(c) \/ Retry(c)
  <2> USE <1>4 DEF Finish, Retry
  <2>1. ~pending BY DEF NoneOpenedYet
  <2>2. OpenWhileKept' /\ ListedOnce' BY DEF OpenWhileKept, ListedOnce
  <2>3. AudioFollows' BY <2>1 DEF AudioFollows
  <2> QED BY <2>2, <2>3
<1>5. CASE StoreAudio(c)
  <2> USE <1>5 DEF StoreAudio
  <2>1. OpenWhileKept' /\ ListedOnce' BY DEF OpenWhileKept, ListedOnce
  <2>2. \A d \in Recordings \ {c} : wav'[d] = wav[d] /\ pc'[d] = pc[d]
    OBVIOUS
  <2>3. pc'[c] = "link" /\ row'[c] = "live" BY DEF OpenWhileKept
  <2>4. AudioFollows' BY <2>2, <2>3 DEF AudioFollows
  <2> QED BY <2>1, <2>4
<1>6. CASE LinkAudio(c)
  <2> USE <1>6 DEF LinkAudio
  <2>1. OpenWhileKept' /\ ListedOnce' BY DEF OpenWhileKept, ListedOnce
  <2>2. linked'[c] /\ \A d \in Recordings \ {c} : linked'[d] = linked[d] /\ pc'[d] = pc[d]
    BY Zenon
  <2>3. AudioFollows' BY <2>2 DEF AudioFollows
  <2> QED BY <2>1, <2>3
<1> QED BY <1>1, <1>2, <1>3, <1>4, <1>5, <1>6 DEF Session, Settling

\* The process that dies took its sweep with it, so nobody of it had opened a row.
LEMMA CrashKeepsLinkInv ==
  ASSUME SweepInv, LinkInv, Crash
  PROVE  LinkInv'
<1> USE SweepAssumption DEF SweepInv, SweepTypeOK, LinkInv, Callers, Crash, Booting
<1>1. OpenWhileKept' /\ ListedOnce' BY DEF OpenWhileKept, ListedOnce
<1>2. ASSUME crashes' <= 1, faults = 0, NEW c \in Recordings, wav[c], ~linked[c]
      PROVE  crashes' = 1 /\ row'[c] = "live"
  <2>1. crashes = 0 /\ crashes' = 1 BY <1>2
  <2>2. pc[c] = "link" /\ row[c] = "live" BY <1>2, <2>1 DEF AudioFollows
  <2>3. sweeping = NoCaller BY <2>2 DEF HolderOwes, NoneOpenedYet
  <2> QED BY <2>1, <2>2, <2>3
<1>3. AudioFollows' BY <1>2 DEF AudioFollows
<1> QED BY <1>1, <1>3

\* Whatever conversations run when the process dies, and wherever each of them is in its
\* teardown: once one is finished, its stored audio is linked or about to be
\* (_link_stored_audio, XERK-1553).
THEOREM AudioIsLinked == SweepSpec => []StoredIsLinked
<1>1. SweepInit => LinkInv
  BY SweepAssumption DEF SweepInit, LinkInv, OpenWhileKept, ListedOnce, AudioFollows, Booting, Callers
<1>2. LinkInv /\ SweepInv /\ [SweepNext]_sweepVars => LinkInv'
  <2> SUFFICES ASSUME LinkInv, SweepInv, [SweepNext]_sweepVars PROVE LinkInv'
    OBVIOUS
  <2>1. CASE UNCHANGED sweepVars
    BY <2>1 DEF LinkInv, sweepVars, OpenWhileKept, ListedOnce, AudioFollows
  <2>2. CASE Wake
    BY <2>2, SweepAssumption
       DEF Wake, LinkInv, SweepInv, SweepTypeOK, Callers, OpenWhileKept, ListedOnce, AudioFollows
  <2>3. CASE SweepNext
    BY <2>1, <2>2, <2>3, SweepingKeepsLinkInv, SessionKeepsLinkInv, CrashKeepsLinkInv
       DEF SweepNext, AtRest
  <2> QED BY <2>1, <2>3
<1>3. LinkInv /\ SweepInv => StoredIsLinked
  BY DEF LinkInv, AudioFollows, StoredIsLinked, Owns
<1> QED BY <1>1, <1>2, <1>3, SweepInvHolds, PTL DEF SweepSpec

-----------------------------------------------------------------------------
(* The capture client: one socket, or one reconnect, for each start().       *)

\* A start() that has not got the microphone has done nothing with its client yet.
UntouchedBefore ==
  \A i \in Calls : starting[i] # "done" => socket[i] = "none" /\ pause[i] = "none"

CaptureInv == CaptureTypeOK /\ OneAttemptEach /\ UntouchedBefore

\* CaptureTypeOK, taken apart.
FlagsTyped == /\ running \in BOOLEAN /\ mic \in BOOLEAN /\ storedId \in BOOLEAN
              /\ oidc \in BOOLEAN /\ accepts \in BOOLEAN
CallsTyped == /\ current \in 0..MaxStarts /\ stopping \in 0..MaxStops
              /\ starting \in [Calls -> {"none", "permission", "load", "mic", "done"}]
SocketsTyped == /\ socket \in [Calls -> {"none", "connecting", "open", "ready", "closing"}]
                /\ pause \in [Calls -> {"none", "timer", "refresh"}]
MarksTyped == userClosed \in [Calls -> BOOLEAN] /\ fatal \in [Calls -> BOOLEAN] /\ reauthTried \in [Calls -> BOOLEAN]

LEMMA TypedApart ==
  /\ CaptureTypeOK <=> FlagsTyped /\ CallsTyped /\ SocketsTyped /\ MarksTyped
  /\ CaptureTypeOK' <=> FlagsTyped' /\ CallsTyped' /\ SocketsTyped' /\ MarksTyped'
  BY DEF CaptureTypeOK, FlagsTyped, CallsTyped, SocketsTyped, MarksTyped

LEMMA InitCaptureInv == CaptureInit => CaptureInv
<1> SUFFICES ASSUME CaptureInit PROVE CaptureInv
  OBVIOUS
<1>1. FlagsTyped /\ CallsTyped /\ SocketsTyped
  <2>1. FlagsTyped
    BY Zenon DEF CaptureInit, FlagsTyped
  <2>2. CallsTyped
    BY CaptureAssumption DEF CaptureInit, CallsTyped
  <2>3. SocketsTyped
    BY DEF CaptureInit, SocketsTyped
  <2>4. QED
    BY <2>1, <2>2, <2>3
<1>2. MarksTyped
  BY Zenon DEF CaptureInit, MarksTyped
<1>3. OneAttemptEach /\ UntouchedBefore
  BY DEF CaptureInit, OneAttemptEach, UntouchedBefore
<1>4. QED
  BY <1>1, <1>2, <1>3, TypedApart DEF CaptureInv

\* Types last, whoever moves.
LEMMA CaptureTypesLast == CaptureTypeOK /\ CaptureNext => CaptureTypeOK'
<1> SUFFICES ASSUME CaptureTypeOK, CaptureNext PROVE CaptureTypeOK'
  OBVIOUS
<1>0. FlagsTyped /\ CallsTyped /\ SocketsTyped /\ MarksTyped
  BY TypedApart
<1> USE CaptureAssumption DEF Calls, CallsStop, callVars, wsVars
<1>1. CASE CallStop \/ ApiRefuses
  <2>1. FlagsTyped'
    BY <1>0, <1>1 DEF CallStop, ApiRefuses, FlagsTyped
  <2>2. CallsTyped'
    BY <1>0, <1>1 DEF CallStop, ApiRefuses, CallsTyped
  <2>3. SocketsTyped' /\ MarksTyped'
    BY <1>0, <1>1 DEF CallStop, ApiRefuses, SocketsTyped, MarksTyped
  <2>4. QED
    BY <2>1, <2>2, <2>3, TypedApart
<1>2. CASE StopEnds
  <2>1. FlagsTyped'
    BY <1>0, <1>2 DEF StopEnds, FlagsTyped
  <2>2. CallsTyped'
    BY <1>0, <1>2 DEF StopEnds, CallsTyped
  <2>3. SocketsTyped'
    BY <1>0, <1>2 DEF StopEnds, CloseClient, SocketsTyped
  <2>4. MarksTyped'
    <3>1. userClosed' = userClosed \/ \E c : userClosed' = [userClosed EXCEPT ![c] = TRUE]
      BY <1>2 DEF StopEnds, CloseClient
    <3>2. fatal' = fatal /\ reauthTried' = reauthTried
      BY <1>2 DEF StopEnds
    <3>3. QED
      BY <1>0, <3>1, <3>2, Zenon DEF MarksTyped
  <2>5. QED
    BY <2>1, <2>2, <2>3, <2>4, TypedApart
<1>3. ASSUME NEW i \in Calls, CallStart(i) \/ PermissionAnswered(i) \/ IdLoaded(i) PROVE CaptureTypeOK'
  <2>1. FlagsTyped'
    BY <1>0, <1>3 DEF CallStart, PermissionAnswered, IdLoaded, FlagsTyped
  <2>2. CallsTyped'
    BY <1>0, <1>3 DEF CallStart, PermissionAnswered, IdLoaded, CallsTyped
  <2>3. SocketsTyped' /\ MarksTyped'
    BY <1>0, <1>3 DEF CallStart, PermissionAnswered, IdLoaded, SocketsTyped, MarksTyped
  <2>4. QED
    BY <2>1, <2>2, <2>3, TypedApart
<1>4. ASSUME NEW i \in Calls, MicAnswered(i) PROVE CaptureTypeOK'
  <2>1. FlagsTyped'
    BY <1>0, <1>4 DEF MicAnswered, FlagsTyped
  <2>2. CallsTyped'
    BY <1>0, <1>4 DEF MicAnswered, CallsTyped
  <2>3. SocketsTyped'
    BY <1>0, <1>4 DEF MicAnswered, OpenClient, SocketsTyped
  <2>4. MarksTyped'
    <3>1. /\ userClosed' = userClosed \/ userClosed' = [userClosed EXCEPT ![i] = FALSE]
          /\ fatal' = fatal \/ fatal' = [fatal EXCEPT ![i] = FALSE]
          /\ reauthTried' = reauthTried \/ reauthTried' = [reauthTried EXCEPT ![i] = FALSE]
      BY <1>4, Zenon DEF MicAnswered, OpenClient
    <3>2. QED
      BY <1>0, <3>1, Zenon DEF MarksTyped
  <2>5. QED
    BY <2>1, <2>2, <2>3, <2>4, TypedApart
<1>5. ASSUME NEW i \in Calls, ClientEvent(i) PROVE CaptureTypeOK'
  <2> USE DEF ClientEvent, Opened, Ready, Drops, Rejected, EndedByApi, TimerFires, Refreshed, FatalError
  <2>1. FlagsTyped'
    BY <1>0, <1>5 DEF FlagsTyped
  <2>2. CallsTyped'
    BY <1>0, <1>5 DEF CallsTyped
  <2>3. SocketsTyped'
    BY <1>0, <1>5 DEF SocketsTyped
  <2>4. MarksTyped'
    <3>1. /\ userClosed' = userClosed
          /\ fatal' = fatal \/ fatal' = [fatal EXCEPT ![i] = TRUE]
          /\ \/ reauthTried' = reauthTried \/ reauthTried' = [reauthTried EXCEPT ![i] = FALSE]
             \/ reauthTried' = [reauthTried EXCEPT ![i] = TRUE]
      BY <1>5, Zenon
    <3>2. QED
      BY <1>0, <3>1, Zenon DEF MarksTyped
  <2>5. QED
    BY <2>1, <2>2, <2>3, <2>4, TypedApart
<1>6. QED
  BY <1>1, <1>2, <1>3, <1>4, <1>5 DEF CaptureNext, StartStep

\* One attempt each, and nothing before the microphone, after any step.
LEMMA CaptureInvLasts == CaptureInv /\ [CaptureNext]_captureVars => CaptureInv'
<1> SUFFICES ASSUME CaptureInv, [CaptureNext]_captureVars PROVE CaptureInv'
  OBVIOUS
<1>a. SocketsTyped /\ CallsTyped /\ OneAttemptEach /\ UntouchedBefore
  BY TypedApart DEF CaptureInv
<1> USE DEF Calls, CallsStop, callVars, wsVars
<1>1. CASE UNCHANGED captureVars
  BY <1>1 DEF captureVars, callVars, wsVars, CaptureInv, CaptureTypeOK, OneAttemptEach, UntouchedBefore
<1>2. CASE CallStop \/ ApiRefuses
  BY <1>a, <1>2, CaptureTypesLast DEF CaptureInv, CaptureNext, CallStop, ApiRefuses, OneAttemptEach, UntouchedBefore
<1>3. CASE StopEnds
  <2>1. \A i \in Calls : socket'[i] = "none" <=> socket[i] = "none"
    BY <1>a, <1>3 DEF StopEnds, CloseClient, SocketsTyped
  <2>2. QED
    BY <1>a, <1>3, <2>1, CaptureTypesLast DEF CaptureInv, CaptureNext, StopEnds, OneAttemptEach, UntouchedBefore
<1>4. ASSUME NEW i \in Calls, CallStart(i) \/ PermissionAnswered(i) \/ IdLoaded(i)
      PROVE  OneAttemptEach' /\ UntouchedBefore'
  BY <1>a, <1>4 DEF CallStart, PermissionAnswered, IdLoaded, CallsTyped, OneAttemptEach, UntouchedBefore
<1>5. ASSUME NEW i \in Calls, MicAnswered(i) PROVE OneAttemptEach' /\ UntouchedBefore'
  <2>1. pause[i] = "none" /\ UNCHANGED pause /\ starting'[i] = "done"
    BY <1>a, <1>5 DEF MicAnswered, UntouchedBefore, CallsTyped
  <2>2. \A j \in Calls \ {i} : socket'[j] = socket[j] /\ starting'[j] = starting[j]
    BY <1>a, <1>5 DEF MicAnswered, OpenClient, SocketsTyped, CallsTyped
  <2>3. QED
    BY <1>a, <2>1, <2>2 DEF OneAttemptEach, UntouchedBefore
<1>6. ASSUME NEW i \in Calls, ClientEvent(i) PROVE OneAttemptEach' /\ UntouchedBefore'
  <2> USE DEF ClientEvent, Opened, Ready, Drops, Rejected, EndedByApi, TimerFires, Refreshed
  <2>1. starting[i] = "done" /\ starting' = starting
    BY <1>a, <1>6 DEF UntouchedBefore
  <2>2. \A j \in Calls \ {i} : socket'[j] = socket[j] /\ pause'[j] = pause[j]
    BY <1>a, <1>6 DEF SocketsTyped
  <2>3. pause'[i] # "none" => socket'[i] = "none"
    BY <1>a, <1>6 DEF OneAttemptEach, SocketsTyped
  <2>4. QED
    BY <1>a, <2>1, <2>2, <2>3 DEF OneAttemptEach, UntouchedBefore
<1>7. CASE CaptureNext
  <2>1. CaptureTypeOK'
    BY <1>7, CaptureTypesLast DEF CaptureInv
  <2>2. QED
    BY <1>2, <1>3, <1>4, <1>5, <1>6, <1>7, <2>1 DEF CaptureInv, CaptureNext, StartStep
<1>8. QED
  BY <1>1, <1>7

\* However starts, stops, drops, rejections, refreshes and fatal errors of any number of clients
\* interleave, no client has two sockets, or a reconnect under way beside a socket, which is what
\* made a capture displace itself for ever (connect and scheduleReconnect of ApiClient, ws.ts).
THEOREM OneSocketEach == CaptureSpec => []CaptureSafe
<1>1. CaptureInv => CaptureSafe
  BY DEF CaptureInv, CaptureSafe
<1>2. QED
  BY <1>1, InitCaptureInv, CaptureInvLasts, PTL DEF CaptureSpec

-----------------------------------------------------------------------------
(* Delivery: what is marked sent was taken.                                  *)

\* An answer that says the hub took the meeting is about one that it has, until it is acted on.
HeldIfOk(p, held) == p.at = "answered" /\ p.answer = "ok" => Head(p.list) \in held
\* A pass has its four parts, whatever is listed.
Passes(p) == p = [list |-> p.list, at |-> p.at, answer |-> p.answer, deferred |-> p.deferred]

DeliveryStates == {"open", "pending", "sent", "failed", "gone"}
SentInv == /\ delivery \in [Finished -> DeliveryStates] /\ SentIsHeld
           /\ Passes(pass) /\ HeldIfOk(pass, hubHolds)

LEMMA PassWith ==
  ASSUME NEW x, NEW y, NEW z, NEW w, NEW v, NEW p, p = [list |-> x, at |-> y, answer |-> z, deferred |-> w]
  PROVE  /\ p.list = x /\ p.at = y /\ p.answer = z /\ p.deferred = w
         /\ [p EXCEPT !.list = v] = [list |-> v, at |-> y, answer |-> z, deferred |-> w]
         /\ [p EXCEPT !.at = v] = [list |-> x, at |-> v, answer |-> z, deferred |-> w]
         /\ [p EXCEPT !.answer = v] = [list |-> x, at |-> y, answer |-> v, deferred |-> w]
         /\ [p EXCEPT !.deferred = v] = [list |-> x, at |-> y, answer |-> z, deferred |-> v]
  OBVIOUS

LEMMA PassMoved ==
  ASSUME NEW p, Passes(p), NEW a, NEW b, NEW l, NEW d
  PROVE  /\ [p EXCEPT !.at = a] = [list |-> p.list, at |-> a, answer |-> p.answer, deferred |-> p.deferred]
         /\ [p EXCEPT !.at = a, !.answer = b] = [list |-> p.list, at |-> a, answer |-> b, deferred |-> p.deferred]
         /\ [p EXCEPT !.deferred = d] = [list |-> p.list, at |-> p.at, answer |-> p.answer, deferred |-> d]
         /\ [p EXCEPT !.list = l, !.at = a] = [list |-> l, at |-> a, answer |-> p.answer, deferred |-> p.deferred]
<1>1. PICK x, y, z, w : p = [list |-> x, at |-> y, answer |-> z, deferred |-> w]
  BY DEF Passes
<1>2. p.list = x /\ p.at = y /\ p.answer = z /\ p.deferred = w
  BY <1>1, PassWith
<1>3. PICK q : q = [p EXCEPT !.at = a]
  OBVIOUS
<1>4. PICK r : r = [p EXCEPT !.list = l]
  OBVIOUS
<1>5. PICK s : s = [r EXCEPT !.at = a]
  OBVIOUS
<1>6. q = [list |-> x, at |-> a, answer |-> z, deferred |-> w] /\ r = [list |-> l, at |-> y, answer |-> z, deferred |-> w]
  BY <1>1, <1>3, <1>4, PassWith
<1>7. s = [list |-> l, at |-> a, answer |-> z, deferred |-> w]
  BY <1>5, <1>6, PassWith
<1>8. [p EXCEPT !.at = a, !.answer = b] = [q EXCEPT !.answer = b]
  BY <1>3
<1>9. [p EXCEPT !.list = l, !.at = a] = s
  BY <1>4, <1>5
<1>10. /\ [q EXCEPT !.answer = b] = [list |-> x, at |-> a, answer |-> b, deferred |-> w]
       /\ [p EXCEPT !.deferred = d] = [list |-> x, at |-> y, answer |-> z, deferred |-> d]
  BY <1>1, <1>6, PassWith
<1>11. QED
  BY <1>2, <1>3, <1>6, <1>7, <1>8, <1>9, <1>10

\* The answer of a delivery is put into its pass, whose other parts stay.
LEMMA PassAnswered ==
  ASSUME NEW p, Passes(p), NEW b
  PROVE  [p EXCEPT !.at = "answered", !.answer = b]
           = [list |-> p.list, at |-> "answered", answer |-> b, deferred |-> p.deferred]
<1>1. PICK x, y, z, w : p = [list |-> x, at |-> y, answer |-> z, deferred |-> w]
  BY DEF Passes
<1>2. p.list = x /\ p.at = y /\ p.answer = z /\ p.deferred = w
  BY <1>1, PassWith
<1>3. PICK q : q = [p EXCEPT !.at = "answered"]
  OBVIOUS
<1>4. q = [list |-> x, at |-> "answered", answer |-> z, deferred |-> w]
  BY <1>1, <1>3, PassWith
<1>5. [p EXCEPT !.at = "answered", !.answer = b] = [q EXCEPT !.answer = b]
  BY <1>3
<1>6. [q EXCEPT !.answer = b] = [list |-> x, at |-> "answered", answer |-> b, deferred |-> w]
  BY <1>4, PassWith
<1>7. QED
  BY <1>2, <1>5, <1>6

\* What a step leaves of a pass that it takes further: no answer.
Unanswered(p) == Passes(p) /\ p.at # "answered"
LEMMA AdvancedUnanswered ==
  ASSUME NEW p, Passes(p), NEW t
  PROVE  Unanswered([p EXCEPT !.list = t, !.at = "next", !.answer = "none"])
<1>1. PICK x, y, z, w : p = [list |-> x, at |-> y, answer |-> z, deferred |-> w]
  BY DEF Passes
<1>2. PICK r : r = [p EXCEPT !.list = t]
  OBVIOUS
<1>3. PICK s : s = [r EXCEPT !.at = "next"]
  OBVIOUS
<1>4. PICK u : u = [s EXCEPT !.answer = "none"]
  OBVIOUS
<1>5. r = [list |-> t, at |-> y, answer |-> z, deferred |-> w]
  BY <1>1, <1>2, PassWith
<1>6. s = [list |-> t, at |-> "next", answer |-> z, deferred |-> w]
  BY <1>3, <1>5, PassWith
<1>7. u = [list |-> t, at |-> "next", answer |-> "none", deferred |-> w]
  BY <1>4, <1>6, PassWith
<1>8. [p EXCEPT !.list = t, !.at = "next", !.answer = "none"] = u
  BY <1>2, <1>3, <1>4
<1>9. Unanswered(u)
  BY <1>7 DEF Unanswered, Passes
<1>10. QED
  BY <1>8, <1>9

LEMMA RestUnanswered ==
  /\ Unanswered(NoPass)
  /\ \A p : Passes(p) => Unanswered(Rest(p))
  /\ \A p, held : Unanswered(p) => HeldIfOk(p, held)
<1>1. Unanswered(NoPass)
  BY DEF NoPass, Passes, Unanswered
<1>2. ASSUME NEW p, Passes(p) PROVE Unanswered(Rest(p))
  <2>1. CASE Len(p.list) <= 1
    BY <1>1, <2>1 DEF Rest
  <2>2. CASE ~(Len(p.list) <= 1)
    <3>1. PICK t : Rest(p) = [p EXCEPT !.list = t, !.at = "next", !.answer = "none"]
      BY <2>2 DEF Rest
    <3>2. Unanswered([p EXCEPT !.list = t, !.at = "next", !.answer = "none"])
      BY <1>2, AdvancedUnanswered
    <3>3. QED
      BY <3>1, <3>2
  <2>3. QED
    BY <2>1, <2>2
<1>3. QED
  BY <1>1, <1>2 DEF HeldIfOk, Unanswered

\* A step that gets no answer, and marks nothing sent.
LEMMA SentLasts ==
  ASSUME SentInv, delivery' \in [Finished -> DeliveryStates], hubHolds \subseteq hubHolds',
         \A m \in Finished : delivery'[m] = "sent" => delivery[m] = "sent" \/ m \in hubHolds,
         pass' = pass \/ Unanswered(pass') \/ (Passes(pass') /\ HeldIfOk(pass', hubHolds'))
  PROVE  SentInv'
<1>1. SentIsHeld'
  BY DEF SentInv, SentIsHeld
<1>2. Passes(pass') /\ HeldIfOk(pass', hubHolds')
  BY RestUnanswered DEF SentInv, Unanswered, HeldIfOk
<1>3. QED
  BY <1>1, <1>2 DEF SentInv

LEMMA SentInvInit == DeliveryInit => SentInv
<1> SUFFICES ASSUME DeliveryInit PROVE SentInv
  OBVIOUS
<1>1. delivery \in [Finished -> DeliveryStates] /\ SentIsHeld
  BY DEF DeliveryInit, DeliveryStates, SentIsHeld
<1>2. Passes(pass) /\ HeldIfOk(pass, hubHolds)
  BY RestUnanswered DEF DeliveryInit, Unanswered
<1>3. QED
  BY <1>1, <1>2 DEF SentInv

LEMMA SentInvHolds == SentInv /\ [DeliveryNext]_deliveryVars => SentInv'
<1> SUFFICES ASSUME SentInv, [DeliveryNext]_deliveryVars PROVE SentInv'
  OBVIOUS
<1>0. delivery \in [Finished -> DeliveryStates] /\ Passes(pass) /\ HeldIfOk(pass, hubHolds) /\ Unanswered(Rest(pass)) /\ Unanswered(NoPass)
  BY RestUnanswered DEF SentInv
<1>1. CASE UNCHANGED deliveryVars
  BY <1>1, SentLasts DEF deliveryVars, SentInv
<1>2. ASSUME NEW m \in Finished, MeetingEnded(m) \/ MeetingDeleted(m) PROVE SentInv'
  <2>1. delivery' = [delivery EXCEPT ![m] = "pending"] \/ delivery' = [delivery EXCEPT ![m] = "gone"]
    BY <1>2 DEF MeetingEnded, MeetingDeleted
  <2>2. /\ delivery' \in [Finished -> DeliveryStates] /\ pass' = pass /\ hubHolds' = hubHolds
        /\ \A n \in Finished : delivery'[n] = "sent" => delivery[n] = "sent"
    BY <1>0, <1>2, <2>1 DEF MeetingEnded, MeetingDeleted, DeliveryStates
  <2>3. QED
    BY <2>2, SentLasts
<1>3. CASE Elapse \/ StartPass
  <2>1. Elapse => UNCHANGED <<delivery, pass, hubHolds>>
    BY DEF Elapse
  <2>2. ASSUME StartPass PROVE UNCHANGED <<delivery, hubHolds>> /\ Unanswered(pass')
    <3>1. PICK l : pass' = [NoPass EXCEPT !.list = l, !.at = "next"]
      BY <2>2 DEF StartPass
    <3>2. pass' = [list |-> l, at |-> "next", answer |-> NoPass.answer, deferred |-> NoPass.deferred]
      BY <1>0, <3>1, PassMoved DEF Unanswered
    <3>3. Unanswered(pass')
      BY <3>2 DEF Unanswered, Passes
    <3>4. QED
      BY <2>2, <3>3 DEF StartPass
  <2>3. QED
    BY <1>0, <1>3, <2>1, <2>2, SentLasts
<1>4. CASE PassOver \/ ReadRow \/ ReadAgain
  <2>1. UNCHANGED <<delivery, hubHolds>>
    BY <1>4 DEF PassOver, ReadRow, ReadAgain
  <2>2. \/ pass' = Rest(pass)
        \/ pass' = [pass EXCEPT !.at = "titling"] \/ pass' = [pass EXCEPT !.at = "posting"]
    BY <1>4 DEF PassOver, ReadRow, ReadAgain
  <2>3. Unanswered([pass EXCEPT !.at = "titling"]) /\ Unanswered([pass EXCEPT !.at = "posting"])
    <3>1. ASSUME NEW a, a # "answered" PROVE Unanswered([pass EXCEPT !.at = a])
      <4>1. [pass EXCEPT !.at = a] = [list |-> pass.list, at |-> a, answer |-> pass.answer, deferred |-> pass.deferred]
        BY <1>0, PassMoved
      <4>2. QED
        BY <3>1, <4>1 DEF Unanswered, Passes
    <3>2. QED
      BY <3>1
  <2>4. QED
    BY <1>0, <2>1, <2>2, <2>3, SentLasts
<1>5. CASE Post
  <2>1. /\ delivery' = delivery /\ hubHolds \subseteq hubHolds'
        /\ \E b : pass' = [pass EXCEPT !.at = "answered", !.answer = b] /\ (b = "ok" => Due \in hubHolds')
    BY <1>5 DEF Post, ForGood
  <2>2. PICK b : pass' = [pass EXCEPT !.at = "answered", !.answer = b] /\ (b = "ok" => Due \in hubHolds')
    BY <2>1
  <2>3. pass' = [list |-> pass.list, at |-> "answered", answer |-> b, deferred |-> pass.deferred]
    <3>1. [pass EXCEPT !.at = "answered", !.answer = b]
            = [list |-> pass.list, at |-> "answered", answer |-> b, deferred |-> pass.deferred]
      BY <1>0, PassAnswered
    <3>2. QED
      BY <2>2, <3>1
  <2>4. Passes(pass') /\ HeldIfOk(pass', hubHolds')
    <3>1. Passes(pass') /\ pass'.answer = b /\ Head(pass'.list) = Due
      BY <2>3 DEF Passes, Due
    <3>2. QED
      BY <2>2, <3>1 DEF HeldIfOk
  <2>5. QED
    BY <1>0, <2>1, <2>4, SentLasts
<1>6. CASE SettleAttempt
  <2>1. /\ pass' = Rest(pass) /\ hubHolds' = hubHolds
        /\ \/ delivery' = delivery
           \/ delivery' = [delivery EXCEPT ![Due] = "failed"]
           \/ delivery' = [delivery EXCEPT ![Due] = "sent"] /\ Due \in hubHolds
    BY <1>0, <1>6 DEF SettleAttempt, SetDelivery, HeldIfOk, Due, ForGood
  <2>2. /\ delivery' \in [Finished -> DeliveryStates]
        /\ \A m \in Finished : delivery'[m] = "sent" => delivery[m] = "sent" \/ m \in hubHolds
    BY <1>0, <2>1 DEF DeliveryStates
  <2>3. QED
    BY <1>0, <2>1, <2>2, SentLasts
<1>7. CASE Postpone \/ GiveUpOn
  <2>1. /\ hubHolds' = hubHolds
        /\ \/ delivery' = delivery
           \/ delivery' = [delivery EXCEPT ![Due] = "pending"] \/ delivery' = [delivery EXCEPT ![Due] = "failed"]
    BY <1>7 DEF Postpone, GiveUpOn, SetDelivery
  <2>2. /\ delivery' \in [Finished -> DeliveryStates]
        /\ \A m \in Finished : delivery'[m] = "sent" => delivery[m] = "sent"
    BY <1>0, <2>1 DEF DeliveryStates
  <2>3. Unanswered(pass')
    <3>1. pass' \in {Rest(pass), NoPass, Rest([pass EXCEPT !.deferred = TRUE])}
      BY <1>7 DEF Postpone, GiveUpOn, AfterRefusal, Deferring
    <3>2. Passes([pass EXCEPT !.deferred = TRUE])
      <4>1. \A d : [pass EXCEPT !.deferred = d] = [list |-> pass.list, at |-> pass.at, answer |-> pass.answer, deferred |-> d]
        BY <1>0, PassMoved
      <4>2. \A d : Passes([pass EXCEPT !.deferred = d])
        BY <4>1 DEF Passes
      <4>3. QED
        BY <4>2, Zenon
    <3>3. QED
      BY <1>0, <3>1, <3>2, RestUnanswered
  <2>4. QED
    BY <2>1, <2>2, <2>3, SentLasts
<1>8. CASE PassAborted \/ Restart
  <2>1. pass' = NoPass /\ hubHolds' = hubHolds
    BY <1>8 DEF PassAborted, Restart
  <2>2. /\ delivery' \in [Finished -> DeliveryStates]
        /\ \A m \in Finished : delivery'[m] = "sent" => delivery[m] = "sent"
    BY <1>0, <1>8 DEF PassAborted, Restart, DeliveryStates
  <2>3. QED
    BY <1>0, <2>1, <2>2, SentLasts
<1>9. QED
  BY <1>1, <1>2, <1>3, <1>4, <1>5, <1>6, <1>7, <1>8 DEF DeliveryNext, PassStep

\* For any number of meetings, however posts are answered, lost, refused or cut off by a restart, and
\* whatever is deleted meanwhile: a row that is marked sent is a meeting the hub has (set_delivery
\* after an attempt, and the re-queue at boot, in screen/turma.py).
THEOREM SentWasTaken == DeliverySpec => []SentIsHeld
<1>1. SentInv => SentIsHeld
  BY DEF SentInv
<1>2. QED
  BY <1>1, SentInvInit, SentInvHolds, PTL DEF DeliverySpec

-----------------------------------------------------------------------------
(* Meetings.  Whoever has a tracker's lock works on it alone, so that what a *)
(* frame took from the merger is still what the merger gave when the frame   *)
(* comes to store it.                                                        *)

Lines == 1..MaxLines
TrackerType == [open : MeetingIds \cup {0}, merger : MergerType, unsaved : Seq(Lines),
                notify : Sockets \cup {NoSocket}, captions : {"coming", "gone"}, ended : 0..MaxLines]
LaneType == [at : {"idle", "locking", "fed", "creating", "started", "storing"}, on : Slots \cup {0},
             merger : MergerType, segs : Seq(Lines)]
MeetingTyped ==
  /\ onScreen \in 0..MaxLines /\ kept \in Slots \cup {0} /\ carried \in 0..MaxLines
  /\ tracker \in [Slots -> TrackerType] /\ lane \in [Lanes -> LaneType]
  /\ sweeper \in [at : {"idle", "locking", "ending"}, on : Slots \cup {0}]
  /\ meetingRow \in [MeetingIds -> {"absent", "live", "ready"}]
  /\ meetingLines \in [MeetingIds -> SUBSET Lines]
  /\ holder = [t \in Slots |-> holder[t]] /\ waiters = [t \in Slots |-> waiters[t]]

\* A lane that has fed a frame under the tracker's lock and not released it.
Working(ln) == ln.at \in {"fed", "creating", "started", "storing"}
Ordered(m) == m.from <= m.final /\ m.final <= m.seen
Within(seq, m) == \A i \in ToSet(seq) : m.from < i /\ i <= m.final

\* One task at a time has a tracker's lock.
LockKept ==
  /\ \A l \in Lanes : /\ lane[l].at = "idle" <=> lane[l].on = 0
                      /\ Working(lane[l]) => holder[lane[l].on] = l
  /\ sweeper.at = "idle" <=> sweeper.on = 0
  /\ sweeper.at = "ending" => holder[sweeper.on] = SweepTask

\* What a lane has in its hands is of the tracker's open meeting, or of the one it will start.
LaneFits(ln, tr) ==
  /\ ln.at \in {"fed", "started"} /\ tr.open # 0 => Within(ln.segs, tr.merger)
  /\ ln.at \in {"fed", "creating"} /\ tr.open = 0 =>
       /\ ln.merger.from = tr.ended /\ Ordered(ln.merger)
       /\ ToSet(ln.segs) = (tr.ended + 1)..ln.merger.final
  /\ ln.at = "creating" => tr.open = 0
  /\ ln.at \in {"started", "storing"} => tr.open # 0
TrackerFits(tr) == tr.open # 0 => Ordered(tr.merger) /\ Within(tr.unsaved, tr.merger)
HandsFit == /\ \A l \in Lanes : lane[l].on # 0 => LaneFits(lane[l], tracker[lane[l].on])
            /\ \A t \in Slots : TrackerFits(tracker[t])
            /\ sweeper.at = "ending" => tracker[sweeper.on].open # 0

\* FinalIsOwed, with what the lane that has the line is doing.
InHands(i, t) == \E l \in Lanes : /\ lane[l].on = t /\ lane[l].at \in {"fed", "started"}
                                  /\ i \in ToSet(lane[l].segs)
OwedBy(t) ==
  tracker[t].open # 0 =>
    \A i \in (tracker[t].merger.from + 1)..tracker[t].merger.final :
      \/ i \in meetingLines[tracker[t].open] \cup ToSet(tracker[t].unsaved) \cup cutLines
      \/ InHands(i, t)
AllOwed == \A t \in Slots : OwedBy(t)

MeetingInv == MeetingTyped /\ LockKept /\ HandsFit /\ AllOwed

LEMMA Joined ==
  ASSUME NEW S, NEW s \in Seq(S), NEW u \in Seq(S)
  PROVE  s \o u \in Seq(S) /\ ToSet(s \o u) = ToSet(s) \cup ToSet(u)
<1>1. s \o u \in Seq(S) /\ Len(s \o u) = Len(s) + Len(u)
  OBVIOUS
<1>2. \A i \in 1..(Len(s) + Len(u)) : (s \o u)[i] = IF i <= Len(s) THEN s[i] ELSE u[i - Len(s)]
  OBVIOUS
<1>3. \A x : x \in ToSet(s) => x \in ToSet(s \o u)
  BY <1>1, <1>2 DEF ToSet
<1>4. ASSUME NEW x \in ToSet(u) PROVE x \in ToSet(s \o u)
  <2>1. PICK j \in 1..Len(u) : x = u[j]
    BY <1>4 DEF ToSet
  <2>2. Len(s) + j \in 1..(Len(s) + Len(u)) /\ (s \o u)[Len(s) + j] = u[j]
    BY <1>2
  <2> QED BY <2>1, <2>2, <1>1 DEF ToSet
<1>5. \A x : x \in ToSet(s \o u) => x \in ToSet(s) \/ x \in ToSet(u)
  BY <1>1, <1>2 DEF ToSet
<1> QED BY <1>1, <1>3, <1>4, <1>5

LEMMA Headed ==
  ASSUME NEW S, NEW s \in Seq(S), s # <<>>
  PROVE  /\ Head(s) \in S /\ Tail(s) \in Seq(S)
         /\ ToSet(s) = {Head(s)} \cup ToSet(Tail(s))
<1>1. Len(s) > 0 /\ Head(s) = s[1] /\ Head(s) \in S /\ Tail(s) \in Seq(S) /\ Len(Tail(s)) = Len(s) - 1
  OBVIOUS
<1>2. \A i \in 1..(Len(s) - 1) : Tail(s)[i] = s[i + 1]
  OBVIOUS
<1>3. ASSUME NEW x \in ToSet(s), x # s[1] PROVE x \in ToSet(Tail(s))
  <2>1. PICK j \in 1..Len(s) : x = s[j]
    BY <1>3 DEF ToSet
  <2>2. j - 1 \in 1..(Len(s) - 1) /\ Tail(s)[j - 1] = x
    BY <1>2, <1>3, <2>1
  <2>3. DOMAIN Tail(s) = 1..(Len(s) - 1)
    BY <1>1
  <2> QED BY <2>2, <2>3 DEF ToSet
<1>4. \A x : x \in ToSet(Tail(s)) => x \in ToSet(s)
  BY <1>1, <1>2 DEF ToSet
<1>5. s[1] \in ToSet(s)
  BY <1>1 DEF ToSet
<1> QED BY <1>1, <1>3, <1>4, <1>5

LEMMA Counted ==
  ASSUME NEW i \in 0..MaxLines, NEW j \in 0..MaxLines, i <= j
  PROVE  FromTo(i, j) \in Seq(Lines) /\ ToSet(FromTo(i, j)) = (i + 1)..j
<1>1. j - i \in Nat /\ MaxLines \in Nat
  BY MeetingBounds
<1>2. \A k \in 1..(j - i) : i + k \in Lines /\ i + k \in (i + 1)..j
  BY <1>1 DEF Lines
<1>3. FromTo(i, j) \in [1..(j - i) -> Lines]
  BY <1>2 DEF FromTo
<1>4. FromTo(i, j) \in Seq(Lines)
  BY <1>1, <1>3
<1>5. \A k \in (i + 1)..j : k - i \in 1..(j - i) /\ FromTo(i, j)[k - i] = k
  BY <1>1 DEF FromTo
<1>6. DOMAIN FromTo(i, j) = 1..(j - i) /\ \A k \in 1..(j - i) : FromTo(i, j)[k] = i + k
  BY DEF FromTo
<1>7. \A x \in (i + 1)..j : x \in ToSet(FromTo(i, j))
  BY <1>5, <1>6 DEF ToSet
<1>8. \A x \in ToSet(FromTo(i, j)) : x \in (i + 1)..j
  BY <1>2, <1>6 DEF ToSet
<1> QED BY <1>4, <1>7, <1>8

\* A tracker whose notify or captions change only fits whatever fitted it.
SameMeeting(a, b) == /\ a.open = b.open /\ a.merger = b.merger /\ a.unsaved = b.unsaved
                     /\ a.ended = b.ended

LEMMA StillFits ==
  ASSUME NEW a, NEW b, SameMeeting(a, b)
  PROVE  /\ TrackerFits(a) => TrackerFits(b)
         /\ \A ln : LaneFits(ln, a) => LaneFits(ln, b)
BY DEF SameMeeting, TrackerFits, LaneFits

LEMMA TasksDiffer ==
  /\ SweepTask # NoTask
  /\ \A k \in Lanes : k # NoTask /\ k # SweepTask
<1>1. SweepTask # NoTask /\ \A k \in Lanes : k # NoTask
  BY DEF Lanes, SweepTask, NoTask
<1>2. \A k \in Lanes : k # SweepTask
  BY MeetingBounds DEF Lanes, SweepTask
<1> QED BY <1>1, <1>2

\* Whoever works on a tracker has its lock, so nobody else does.
LEMMA Alone ==
  ASSUME LockKept, NEW l \in Lanes, holder[lane[l].on] = l
  PROVE  /\ \A k \in Lanes : k # l /\ lane[k].on = lane[l].on => ~Working(lane[k])
         /\ ~(sweeper.at = "ending" /\ sweeper.on = lane[l].on)
BY MeetingBounds DEF LockKept, Lanes, SweepTask

LEMMA AloneSweep ==
  ASSUME LockKept, holder[sweeper.on] = SweepTask
  PROVE  \A k \in Lanes : lane[k].on = sweeper.on => ~Working(lane[k])
BY MeetingBounds DEF LockKept, Lanes, SweepTask

LEMMA WaitersFit ==
  ASSUME NEW ln, ~Working(ln), NEW tr
  PROVE  LaneFits(ln, tr)
BY DEF Working, LaneFits

\* What a step of lane l on tracker t must bring, for the rest to stay as it is.
LaneMove(l, t, ln, tr) ==
  /\ lane' = [lane EXCEPT ![l] = ln] /\ tracker' = [tracker EXCEPT ![t] = tr]
  /\ lane[l].on \in {0, t} /\ ln.on \in {0, t} /\ (ln.at = "idle" <=> ln.on = 0)
  /\ UNCHANGED sweeper
LockMove(l, t, ln) ==
  /\ Working(ln) => holder'[t] = l
  /\ \A u \in Slots : holder[u] \notin {l, NoTask} => holder'[u] = holder[u]
FitMove(l, t, ln, tr) ==
  /\ TrackerFits(tr)
  /\ LaneFits(ln, tr)
  /\ \A k \in Lanes : k # l /\ lane[k].on = t => LaneFits(lane[k], tr)
  /\ sweeper.at = "ending" /\ sweeper.on = t => tr.open # 0
OnlyGrow == /\ \A m \in MeetingIds : meetingLines[m] \subseteq meetingLines'[m]
            /\ cutLines \subseteq cutLines'

LEMMA LaneMoves ==
  ASSUME MeetingInv, NEW l \in Lanes, NEW t \in Slots, NEW ln \in LaneType, NEW tr \in TrackerType,
         LaneMove(l, t, ln, tr), LockMove(l, t, ln), FitMove(l, t, ln, tr), OnlyGrow, OwedBy(t)'
  PROVE  LockKept' /\ HandsFit' /\ AllOwed' /\ lane' \in [Lanes -> LaneType]
         /\ tracker' \in [Slots -> TrackerType]
<1>1. lane \in [Lanes -> LaneType] /\ tracker \in [Slots -> TrackerType]
  BY DEF MeetingInv, MeetingTyped
<1>2. lane' \in [Lanes -> LaneType] /\ tracker' \in [Slots -> TrackerType]
  BY <1>1 DEF LaneMove
<1>3. /\ lane'[l] = ln /\ \A k \in Lanes : k # l => lane'[k] = lane[k]
      /\ tracker'[t] = tr /\ \A u \in Slots : u # t => tracker'[u] = tracker[u]
  BY <1>1 DEF LaneMove
<1>4. LockKept'
  <2>1. ASSUME NEW k \in Lanes
        PROVE  /\ lane'[k].at = "idle" <=> lane'[k].on = 0
               /\ Working(lane'[k]) => holder'[lane'[k].on] = k
    <3>1. CASE k = l
      <4>1. Working(ln) => ln.on = t
        BY DEF LaneMove, Working
      <4> QED BY <3>1, <1>3, <4>1 DEF LaneMove, LockMove
    <3>2. CASE k # l
      <4>1. k # NoTask
        BY DEF Lanes, NoTask
      <4>2. lane[k].at = "idle" <=> lane[k].on = 0
        BY DEF MeetingInv, LockKept
      <4>3. ASSUME Working(lane[k]) PROVE holder'[lane[k].on] = k
        <5>1. lane[k].on \in Slots /\ holder[lane[k].on] = k
          BY <4>2, <4>3, <1>1 DEF MeetingInv, LockKept, Working, LaneType
        <5> QED BY <5>1, <4>1, <3>2 DEF LockMove
      <4> QED BY <1>3, <3>2, <4>2, <4>3
    <3> QED BY <3>1, <3>2
  <2>2. sweeper' = sweeper
    BY DEF LaneMove
  <2>3. SweepTask # l /\ SweepTask # NoTask
    BY MeetingBounds DEF Lanes, SweepTask, NoTask
  <2>4. sweeper.at = "ending" => holder'[sweeper.on] = SweepTask
    <3>1. sweeper.at = "ending" => sweeper.on \in Slots /\ holder[sweeper.on] = SweepTask
      BY DEF MeetingInv, MeetingTyped, LockKept
    <3> QED BY <3>1, <2>3 DEF LockMove
  <2> QED BY <2>1, <2>2, <2>4 DEF MeetingInv, LockKept
<1>5. HandsFit'
  <2>1. \A k \in Lanes : lane'[k].on # 0 => LaneFits(lane'[k], tracker'[lane'[k].on])
    <3> SUFFICES ASSUME NEW k \in Lanes, lane'[k].on # 0
                 PROVE  LaneFits(lane'[k], tracker'[lane'[k].on])
      OBVIOUS
    <3>1. CASE k = l
      BY <3>1, <1>3 DEF LaneMove, FitMove
    <3>2. CASE k # l /\ lane[k].on = t
      BY <3>2, <1>3 DEF FitMove
    <3>3. CASE k # l /\ lane[k].on # t
      <4>1. lane[k].on \in Slots
        BY <3>3, <1>1, <1>3 DEF LaneType
      <4> QED BY <3>3, <4>1, <1>3 DEF MeetingInv, HandsFit
    <3> QED BY <3>1, <3>2, <3>3
  <2>2. \A u \in Slots : TrackerFits(tracker'[u])
    BY <1>3 DEF FitMove, MeetingInv, HandsFit
  <2>3. sweeper'.at = "ending" => tracker'[sweeper'.on].open # 0
    <3>1. sweeper.at = "ending" => sweeper.on \in Slots /\ tracker[sweeper.on].open # 0
      BY DEF MeetingInv, MeetingTyped, LockKept, HandsFit
    <3> QED BY <3>1, <1>3 DEF FitMove, LaneMove
  <2> QED BY <2>1, <2>2, <2>3 DEF HandsFit
<1>6. AllOwed'
  <2> SUFFICES ASSUME NEW u \in Slots, u # t PROVE OwedBy(u)'
    BY DEF AllOwed
  <2>1. tracker'[u] = tracker[u] /\ OwedBy(u)
    BY <1>3 DEF MeetingInv, AllOwed
  <2>2. \A i : InHands(i, u) => InHands(i, u)'
    <3> SUFFICES ASSUME NEW i, NEW k \in Lanes, lane[k].on = u, lane[k].at \in {"fed", "started"},
                        i \in ToSet(lane[k].segs)
                 PROVE  InHands(i, u)'
      BY DEF InHands
    <3>1. k # l
      BY DEF LaneMove, Slots
    <3> QED BY <3>1, <1>3 DEF InHands
  <2>3. tracker[u].open # 0 => tracker[u].open \in MeetingIds
    BY <1>1 DEF TrackerType
  <2> QED BY <2>1, <2>2, <2>3 DEF OwedBy, OnlyGrow
<1> QED BY <1>2, <1>4, <1>5, <1>6

\* What a step of the sweep on tracker t must bring.
SweepMove(t, tr) ==
  /\ UNCHANGED lane /\ tracker' = [tracker EXCEPT ![t] = tr]
  /\ \A u \in Slots : holder[u] \notin {SweepTask, NoTask} => holder'[u] = holder[u]
  /\ TrackerFits(tr)
  /\ \A k \in Lanes : lane[k].on = t => LaneFits(lane[k], tr)
SweeperKept ==
  /\ sweeper'.at = "idle" <=> sweeper'.on = 0
  /\ sweeper'.at = "ending" => /\ sweeper'.on \in Slots /\ holder'[sweeper'.on] = SweepTask
                               /\ tracker'[sweeper'.on].open # 0

LEMMA SweepMoves ==
  ASSUME MeetingInv, NEW t \in Slots, NEW tr \in TrackerType,
         SweepMove(t, tr), SweeperKept, OnlyGrow, OwedBy(t)'
  PROVE  LockKept' /\ HandsFit' /\ AllOwed' /\ tracker' \in [Slots -> TrackerType]
<1>1. lane \in [Lanes -> LaneType] /\ tracker \in [Slots -> TrackerType]
  BY DEF MeetingInv, MeetingTyped
<1>2. tracker' \in [Slots -> TrackerType] /\ lane' = lane
  BY <1>1 DEF SweepMove
<1>3. tracker'[t] = tr /\ \A u \in Slots : u # t => tracker'[u] = tracker[u]
  BY <1>1 DEF SweepMove
<1>4. LockKept'
  <2>1. ASSUME NEW k \in Lanes, Working(lane[k]) PROVE holder'[lane[k].on] = k
    <3>1. lane[k].on \in Slots /\ holder[lane[k].on] = k
      BY <2>1, <1>1 DEF MeetingInv, LockKept, Working, LaneType
    <3>2. k # NoTask /\ k # SweepTask
      BY TasksDiffer
    <3> QED BY <3>1, <3>2 DEF SweepMove
  <2> QED BY <1>2, <2>1 DEF MeetingInv, LockKept, SweeperKept
<1>5. HandsFit'
  <2>1. ASSUME NEW k \in Lanes, lane[k].on # 0 PROVE LaneFits(lane[k], tracker'[lane[k].on])
    <3>1. lane[k].on \in Slots
      BY <2>1, <1>1 DEF LaneType
    <3> QED BY <2>1, <3>1, <1>3 DEF SweepMove, MeetingInv, HandsFit
  <2>2. \A u \in Slots : TrackerFits(tracker'[u])
    BY <1>3 DEF SweepMove, MeetingInv, HandsFit
  <2> QED BY <1>2, <2>1, <2>2 DEF HandsFit, SweeperKept
<1>6. AllOwed'
  <2> SUFFICES ASSUME NEW u \in Slots, u # t PROVE OwedBy(u)'
    BY DEF AllOwed
  <2>1. tracker'[u] = tracker[u] /\ OwedBy(u)
    BY <1>3 DEF MeetingInv, AllOwed
  <2>2. \A i : InHands(i, u) => InHands(i, u)'
    BY <1>2 DEF InHands
  <2>3. tracker[u].open # 0 => tracker[u].open \in MeetingIds
    BY <1>1 DEF TrackerType
  <2> QED BY <2>1, <2>2, <2>3 DEF OwedBy, OnlyGrow
<1> QED BY <1>2, <1>4, <1>5, <1>6

\* The lock as it passes on: whoever else holds one keeps it.
LEMMA AskKeeps ==
  ASSUME MeetingTyped, NEW who, NEW t \in Slots, Ask(who, t)
  PROVE  /\ \A u \in Slots : holder[u] # NoTask => holder'[u] = holder[u]
         /\ holder' = [u \in Slots |-> holder'[u]] /\ waiters' = [u \in Slots |-> waiters'[u]]
<1>1. CASE holder[t] = NoTask
  <2>1. holder' = [holder EXCEPT ![t] = who] /\ waiters' = waiters
    BY <1>1 DEF Ask
  <2> QED BY <2>1, <1>1 DEF MeetingTyped
<1>2. CASE holder[t] # NoTask
  <2>1. holder' = holder /\ waiters' = [waiters EXCEPT ![t] = Append(@, who)]
    BY <1>2 DEF Ask
  <2> QED BY <2>1 DEF MeetingTyped
<1> QED BY <1>1, <1>2

LEMMA ReleaseKeeps ==
  ASSUME MeetingTyped, NEW who, NEW t \in Slots, holder[t] = who, Release(t)
  PROVE  /\ \A u \in Slots : holder[u] # who => holder'[u] = holder[u]
         /\ holder' = [u \in Slots |-> holder'[u]] /\ waiters' = [u \in Slots |-> waiters'[u]]
<1>1. holder' = [holder EXCEPT ![t] = First(waiters[t])] /\ waiters' = [waiters EXCEPT ![t] = Others(@)]
  BY DEF Release
<1> QED BY <1>1 DEF MeetingTyped

\* The step keeps what is not a tracker's, a lane's or the lock's.
RestTyped == /\ onScreen' \in 0..MaxLines /\ kept' \in Slots \cup {0} /\ carried' \in 0..MaxLines
             /\ sweeper' \in [at : {"idle", "locking", "ending"}, on : Slots \cup {0}]
             /\ meetingRow' \in [MeetingIds -> {"absent", "live", "ready"}]
             /\ meetingLines' \in [MeetingIds -> SUBSET Lines]
             /\ holder' = [u \in Slots |-> holder'[u]] /\ waiters' = [u \in Slots |-> waiters'[u]]

\* Lane l gives up the tracker's lock, and its tracker is still of the same meeting.
LEMMA LaneReleases ==
  ASSUME MeetingInv, NEW l \in Lanes, NEW t \in Slots, t = lane[l].on, NEW tr \in TrackerType,
         holder[t] = l, Release(t), lane' = [lane EXCEPT ![l] = IdleLane],
         tracker' = [tracker EXCEPT ![t] = tr], SameMeeting(tracker[t], tr),
         tr.open # 0 /\ lane[l].at \in {"fed", "started"} => ToSet(lane[l].segs) \subseteq cutLines',
         UNCHANGED <<sweeper, meetingLines>>, cutLines \subseteq cutLines'
  PROVE  LockKept' /\ HandsFit' /\ AllOwed' /\ lane' \in [Lanes -> LaneType]
         /\ tracker' \in [Slots -> TrackerType]
<1>1. lane \in [Lanes -> LaneType] /\ tracker \in [Slots -> TrackerType] /\ MeetingTyped
  BY DEF MeetingInv, MeetingTyped
<1>2. IdleLane \in LaneType
  <2>1. Merger(0) \in MergerType
    BY MeetingBounds DEF Merger, MergerType
  <2> QED BY <2>1 DEF IdleLane, LaneType
<1>3. LaneMove(l, t, IdleLane, tr)
  BY <1>1 DEF LaneMove, IdleLane
<1>4. LockMove(l, t, IdleLane)
  <2>1. ~Working(IdleLane)
    BY DEF Working, IdleLane
  <2>2. \A u \in Slots : holder[u] # l => holder'[u] = holder[u]
    BY <1>1, ReleaseKeeps
  <2> QED BY <2>1, <2>2 DEF LockMove
<1>5. FitMove(l, t, IdleLane, tr)
  <2>1. LaneFits(IdleLane, tr)
    BY WaitersFit DEF Working, IdleLane
  <2>2. TrackerFits(tr) /\ \A k \in Lanes : lane[k].on = t => LaneFits(lane[k], tr)
    BY <1>1, StillFits DEF MeetingInv, HandsFit, Slots
  <2>3. sweeper.at = "ending" /\ sweeper.on = t => tr.open # 0
    BY DEF MeetingInv, HandsFit, SameMeeting
  <2> QED BY <2>1, <2>2, <2>3 DEF FitMove
<1>6. OnlyGrow
  BY DEF OnlyGrow
<1>7. OwedBy(t)'
  <2>1. tracker'[t] = tr /\ \A k \in Lanes : k # l => lane'[k] = lane[k]
    BY <1>1
  <2>2. ASSUME NEW i, InHands(i, t), tr.open # 0 PROVE InHands(i, t)' \/ i \in cutLines'
    <3>1. PICK k \in Lanes : lane[k].on = t /\ lane[k].at \in {"fed", "started"} /\ i \in ToSet(lane[k].segs)
      BY <2>2 DEF InHands
    <3>2. CASE k = l
      BY <2>2, <3>1, <3>2
    <3>3. CASE k # l
      BY <2>1, <3>1, <3>3 DEF InHands
    <3> QED BY <3>2, <3>3
  <2>3. OwedBy(t)
    BY <1>1 DEF MeetingInv, AllOwed
  <2> QED BY <2>1, <2>2, <2>3 DEF OwedBy, SameMeeting
<1> QED BY <1>1, <1>2, <1>3, <1>4, <1>5, <1>6, <1>7, LaneMoves

\* Speaking, a socket that comes back: nothing that the invariant speaks of.
LEMMA QuietKeepsInv ==
  ASSUME MeetingInv, Speak \/ (\E s \in Sockets : Reconnect(s)) \/ UNCHANGED meetingVars
  PROVE  MeetingInv'
<1>1. /\ UNCHANGED <<kept, carried, tracker, lane, sweeper, meetingRow, meetingLines, holder, waiters, cutLines>>
      /\ onScreen' \in 0..MaxLines
  BY MeetingBounds DEF Speak, Reconnect, meetingVars, lockVars, MeetingInv, MeetingTyped
<1>2. MeetingTyped'
  BY <1>1 DEF MeetingInv, MeetingTyped
<1>3. LockKept' /\ HandsFit'
  BY <1>1 DEF MeetingInv, LockKept, HandsFit
<1>4. AllOwed'
  BY <1>1 DEF MeetingInv, AllOwed, OwedBy, InHands
<1> QED BY <1>2, <1>3, <1>4 DEF MeetingInv

LEMMA FallQuietKeepsInv ==
  ASSUME MeetingInv, FallQuiet
  PROVE  MeetingInv'
<1>1. /\ UNCHANGED <<onScreen, kept, carried, lane, sweeper, meetingRow, meetingLines, holder, waiters, cutLines>>
      /\ tracker' = [tracker EXCEPT ![kept].captions = "gone"]
  BY DEF FallQuiet, lockVars
<1>2. PICK t \in Slots : t = kept
  BY DEF FallQuiet, MeetingInv, MeetingTyped
<1>3. PICK tr \in TrackerType : tr = [tracker[t] EXCEPT !.captions = "gone"]
  <2>1. tracker[t] \in TrackerType
    BY <1>2 DEF MeetingInv, MeetingTyped
  <2> QED BY <2>1 DEF TrackerType
<1>4. tracker' = [tracker EXCEPT ![t] = tr] /\ SameMeeting(tracker[t], tr)
  BY <1>1, <1>2, <1>3 DEF SameMeeting, MeetingInv, MeetingTyped, TrackerType
<1>5. SweepMove(t, tr)
  <2>1. TrackerFits(tr) /\ \A k \in Lanes : lane[k].on = t => LaneFits(lane[k], tr)
    BY <1>4, StillFits DEF MeetingInv, HandsFit, Slots
  <2> QED BY <1>1, <1>4, <2>1 DEF SweepMove
<1>6. SweeperKept
  BY <1>1, <1>4 DEF SweeperKept, MeetingInv, MeetingTyped, LockKept, HandsFit, SameMeeting
<1>7. OwedBy(t)'
  <2>1. OwedBy(t) /\ tracker'[t] = tr
    BY <1>4 DEF MeetingInv, AllOwed, MeetingTyped
  <2> QED BY <1>1, <1>4, <2>1 DEF OwedBy, InHands, SameMeeting
<1>8. OnlyGrow
  BY <1>1 DEF OnlyGrow
<1>9. LockKept' /\ HandsFit' /\ AllOwed' /\ tracker' \in [Slots -> TrackerType]
  BY <1>5, <1>6, <1>7, <1>8, SweepMoves
<1>10. MeetingTyped'
  BY <1>1, <1>9 DEF MeetingInv, MeetingTyped
<1> QED BY <1>9, <1>10 DEF MeetingInv

LEMMA EmptyOnes ==
  /\ \A n \in 0..MaxLines : IdleTracker(n) \in TrackerType /\ Merger(n) \in MergerType
  /\ IdleLane \in LaneType
<1>1. MaxLines \in Nat
  BY MeetingBounds
<1>2. \A n \in 0..MaxLines : Merger(n) \in MergerType
  BY DEF Merger, MergerType
<1>3. \A n \in 0..MaxLines : IdleTracker(n) \in TrackerType
  BY <1>2 DEF IdleTracker, TrackerType
<1>4. IdleLane \in LaneType
  BY <1>1, <1>2 DEF IdleLane, LaneType
<1> QED BY <1>2, <1>3, <1>4

LEMMA FullFrameKeepsInv ==
  ASSUME MeetingInv, NEW l \in Lanes, FullFrame(l) \/ IgnoreCaption(l) \/ CreateFails(l) \/ StartFails(l) \/ DoneStoring(l)
  PROVE  MeetingInv'
<1>1. /\ UNCHANGED <<onScreen, kept, carried, tracker, sweeper, meetingRow, meetingLines>>
      /\ lane' = [lane EXCEPT ![l] = IdleLane] /\ Release(lane[l].on)
      /\ cutLines \subseteq cutLines'
      /\ lane[l].at = "started" => ToSet(lane[l].segs) \subseteq cutLines'
      /\ lane[l].at \in {"locking", "creating", "started", "storing"} /\ lane[l].at # "fed"
      /\ lane[l].at = "locking" => holder[lane[l].on] = l
  BY DEF FullFrame, IgnoreCaption, CreateFails, StartFails, DoneStoring, lockVars, Holds
<1>2. lane \in [Lanes -> LaneType] /\ tracker \in [Slots -> TrackerType]
  BY DEF MeetingInv, MeetingTyped
<1>3. PICK t \in Slots : t = lane[l].on /\ holder[t] = l
  BY <1>1, <1>2 DEF MeetingInv, LockKept, Working, LaneType
<1>4. PICK tr \in TrackerType : tr = tracker[t]
  BY <1>2
<1>5. tracker' = [tracker EXCEPT ![t] = tr] /\ SameMeeting(tracker[t], tr)
  BY <1>1, <1>2, <1>4 DEF SameMeeting
<1>6. LockKept' /\ HandsFit' /\ AllOwed' /\ lane' \in [Lanes -> LaneType] /\ tracker' \in [Slots -> TrackerType]
  BY <1>1, <1>3, <1>5, LaneReleases
<1>7. holder' = [u \in Slots |-> holder'[u]] /\ waiters' = [u \in Slots |-> waiters'[u]]
  BY <1>1, <1>3, ReleaseKeeps DEF MeetingInv
<1>8. MeetingTyped'
  BY <1>1, <1>6, <1>7 DEF MeetingInv, MeetingTyped
<1> QED BY <1>6, <1>8 DEF MeetingInv

LEMMA TakeTrackerKeepsInv ==
  ASSUME MeetingInv, NEW l \in Lanes, TakeTracker(l)
  PROVE  MeetingInv'
<1>1. lane \in [Lanes -> LaneType] /\ tracker \in [Slots -> TrackerType] /\ MeetingTyped
  BY DEF MeetingInv, MeetingTyped
<1>2. PICK t \in Slots :
        /\ IF kept # 0 THEN t = kept ELSE Unused(t)
        /\ kept' = t /\ carried' = IF kept # 0 THEN carried ELSE 0
        /\ tracker' = [tracker EXCEPT ![t] =
             [(IF kept # 0 THEN @ ELSE IdleTracker(carried)) EXCEPT !.notify = l[1]]]
        /\ lane' = [lane EXCEPT ![l].at = "locking", ![l].on = t] /\ Ask(l, t)
  BY DEF TakeTracker
<1>3. UNCHANGED <<onScreen, sweeper, meetingRow, meetingLines, cutLines>> /\ lane[l].at = "idle"
  BY DEF TakeTracker
<1>4. lane[l].on = 0
  BY <1>3 DEF MeetingInv, LockKept
<1>5. PICK old \in TrackerType : /\ old = (IF kept # 0 THEN tracker[t] ELSE IdleTracker(carried))
                                 /\ kept = 0 => old.open = 0
  <2>1. tracker[t] \in TrackerType
    BY <1>1
  <2>2. carried \in 0..MaxLines /\ IdleTracker(carried).open = 0
    BY DEF MeetingInv, MeetingTyped, IdleTracker
  <2> QED BY <2>1, <2>2, EmptyOnes
<1>6. PICK tr \in TrackerType : tr = [old EXCEPT !.notify = l[1]]
  <2>1. l[1] \in Sockets
    BY DEF Lanes
  <2> QED BY <2>1 DEF TrackerType
<1>7. tracker' = [tracker EXCEPT ![t] = tr] /\ SameMeeting(old, tr)
  BY <1>1, <1>2, <1>5, <1>6 DEF SameMeeting, TrackerType
<1>8. PICK ln \in LaneType : ln = [lane[l] EXCEPT !.at = "locking", !.on = t]
  <2>1. lane[l] \in LaneType
    BY <1>1
  <2> QED BY <2>1 DEF LaneType
<1>9. lane' = [lane EXCEPT ![l] = ln] /\ ln.at = "locking" /\ ln.on = t
  BY <1>1, <1>2, <1>8 DEF LaneType
<1>10. LaneMove(l, t, ln, tr)
  BY <1>3, <1>4, <1>7, <1>9 DEF LaneMove, Slots
<1>11. LockMove(l, t, ln)
  BY <1>1, <1>2, <1>9, AskKeeps DEF LockMove, Working
<1>12. FitMove(l, t, ln, tr)
  <2>1. LaneFits(ln, tr)
    BY <1>9, WaitersFit DEF Working
  <2>2. CASE kept # 0
    <3>1. t = kept /\ old = tracker[t]
      BY <1>2, <1>5, <2>2
    <3>2. TrackerFits(tr) /\ \A k \in Lanes : lane[k].on = t => LaneFits(lane[k], tr)
      BY <1>7, <3>1, StillFits DEF MeetingInv, HandsFit, Slots
    <3>3. sweeper.at = "ending" /\ sweeper.on = t => tr.open # 0
      BY <1>7, <3>1 DEF MeetingInv, HandsFit, SameMeeting
    <3> QED BY <2>1, <3>2, <3>3 DEF FitMove
  <2>3. CASE kept = 0
    <3>1. tr.open = 0
      BY <1>5, <1>7, <2>3 DEF SameMeeting
    <3>2. sweeper.on # t /\ \A k \in Lanes : lane[k].on # t
      BY <1>2, <2>3 DEF Unused
    <3> QED BY <2>1, <3>1, <3>2 DEF FitMove, TrackerFits
  <2> QED BY <2>2, <2>3
<1>13. OnlyGrow
  BY <1>3 DEF OnlyGrow
<1>14. OwedBy(t)'
  <2>1. tracker'[t] = tr /\ \A k \in Lanes : k # l => lane'[k] = lane[k]
    BY <1>1, <1>7, <1>9
  <2>2. CASE kept # 0
    <3>1. \A i : InHands(i, t) => InHands(i, t)'
      BY <1>4, <2>1 DEF InHands, Slots
    <3>2. old = tracker[t] /\ OwedBy(t)
      BY <1>5, <2>2 DEF MeetingInv, AllOwed
    <3> QED BY <1>3, <1>7, <2>1, <3>1, <3>2 DEF OwedBy, SameMeeting
  <2>3. CASE kept = 0
    BY <1>5, <1>7, <2>1, <2>3 DEF OwedBy, SameMeeting
  <2> QED BY <2>2, <2>3
<1>15. LockKept' /\ HandsFit' /\ AllOwed' /\ lane' \in [Lanes -> LaneType] /\ tracker' \in [Slots -> TrackerType]
  BY <1>10, <1>11, <1>12, <1>13, <1>14, LaneMoves
<1>16. MeetingTyped'
  <2>1. holder' = [u \in Slots |-> holder'[u]] /\ waiters' = [u \in Slots |-> waiters'[u]]
    BY <1>1, <1>2, AskKeeps
  <2>2. kept' \in Slots \cup {0} /\ carried' \in 0..MaxLines
    BY <1>2, MeetingBounds DEF MeetingInv, MeetingTyped
  <2> QED BY <1>3, <1>15, <2>1, <2>2 DEF MeetingInv, MeetingTyped
<1> QED BY <1>15, <1>16 DEF MeetingInv

LEMMA FeedKeepsInv ==
  ASSUME MeetingInv, NEW l \in Lanes, Feed(l)
  PROVE  MeetingInv'
<1>1. lane \in [Lanes -> LaneType] /\ tracker \in [Slots -> TrackerType] /\ MeetingTyped
  BY DEF MeetingInv, MeetingTyped
<1>2. UNCHANGED <<onScreen, kept, carried, lockVars, sweeper, meetingRow, meetingLines, cutLines>>
      /\ lane[l].at = "locking" /\ holder[lane[l].on] = l
  BY DEF Feed, Holds
<1>3. PICK t \in Slots : t = lane[l].on
  BY <1>1, <1>2 DEF MeetingInv, LockKept, LaneType
<1>4. tracker[t] \in TrackerType /\ onScreen \in 0..MaxLines /\ lane[l] \in LaneType /\ MaxLines \in Nat
  BY <1>1, MeetingBounds DEF MeetingInv, MeetingTyped
<1>5. PICK merger \in MergerType :
        /\ merger = (IF tracker[t].open # 0 THEN tracker[t].merger ELSE Merger(tracker[t].ended))
        /\ merger.from <= merger.final
        /\ tracker[t].open = 0 => merger.final = merger.from /\ merger.from = tracker[t].ended
  <2>1. Merger(tracker[t].ended) \in MergerType /\ tracker[t].merger \in MergerType
    BY <1>4, EmptyOnes DEF TrackerType
  <2>2. tracker[t].open # 0 => tracker[t].merger.from <= tracker[t].merger.final
    BY DEF MeetingInv, HandsFit, TrackerFits, Ordered
  <2>3. Merger(tracker[t].ended).from = tracker[t].ended /\ Merger(tracker[t].ended).final = tracker[t].ended
    BY DEF Merger
  <2>4. tracker[t].ended \in 0..MaxLines
    BY <1>4 DEF TrackerType
  <2> QED BY <2>1, <2>2, <2>3, <2>4
<1>6. PICK fed \in Fed(merger) :
        /\ lane' = [lane EXCEPT ![l].at = "fed", ![l].merger = fed, ![l].segs = FromTo(merger.final, fed.final)]
        /\ tracker' = IF tracker[t].open # 0 THEN [tracker EXCEPT ![t].merger = fed] ELSE tracker
  BY <1>3, <1>5, ZenonT(30) DEF Feed
<1>7. PICK f \in merger.final..onScreen : fed = [merger EXCEPT !.seen = onScreen, !.final = f]
  BY <1>6 DEF Fed
<1>8. merger.from \in 0..MaxLines /\ merger.final \in 0..MaxLines /\ f \in 0..MaxLines /\ merger.final <= f /\ f <= onScreen
  BY <1>4, <1>7 DEF MergerType
<1>9. fed \in MergerType /\ fed.from = merger.from /\ fed.final = f /\ fed.seen = onScreen
  BY <1>4, <1>5, <1>7, <1>8 DEF MergerType
<1>10. Ordered(fed)
  BY <1>4, <1>5, <1>8, <1>9 DEF Ordered
<1>11. PICK segs \in Seq(Lines) : segs = FromTo(merger.final, fed.final) /\ ToSet(segs) = (merger.final + 1)..f
  BY <1>8, <1>9, Counted
<1>12. PICK ln \in LaneType : ln = [lane[l] EXCEPT !.at = "fed", !.merger = fed, !.segs = segs]
  BY <1>4, <1>9, <1>11 DEF LaneType
<1>13. lane' = [lane EXCEPT ![l] = ln] /\ ln.at = "fed" /\ ln.on = t /\ ln.merger = fed /\ ln.segs = segs
  BY <1>1, <1>3, <1>6, <1>11, <1>12 DEF LaneType
<1>14. PICK tr \in TrackerType : tr = IF tracker[t].open # 0 THEN [tracker[t] EXCEPT !.merger = fed] ELSE tracker[t]
  BY <1>4, <1>9 DEF TrackerType
<1>15. /\ tracker' = [tracker EXCEPT ![t] = tr] /\ tr.open = tracker[t].open /\ tr.unsaved = tracker[t].unsaved
       /\ tr.ended = tracker[t].ended /\ (tr.open # 0 => tr.merger = fed)
  BY <1>1, <1>4, <1>6, <1>14 DEF TrackerType
<1>16. LaneMove(l, t, ln, tr)
  BY <1>2, <1>3, <1>13, <1>15 DEF LaneMove, Slots
<1>17. LockMove(l, t, ln)
  BY <1>2, <1>3 DEF LockMove, lockVars
<1>18. FitMove(l, t, ln, tr)
  <2>1. TrackerFits(tr)
    <3>1. TrackerFits(tracker[t])
      BY DEF MeetingInv, HandsFit
    <3>2. ASSUME tr.open # 0 PROVE Within(tr.unsaved, tr.merger)
      <4>1. Within(tracker[t].unsaved, merger) /\ ToSet(tracker[t].unsaved) \subseteq Int
        <5>1. \A s \in Seq(Lines) : ToSet(s) \subseteq Lines
          BY DEF ToSet
        <5> QED BY <1>4, <1>5, <1>15, <3>1, <3>2, <5>1 DEF TrackerFits, TrackerType, Lines
      <4> QED BY <1>8, <1>9, <1>15, <3>2, <4>1 DEF Within
    <3> QED BY <1>10, <1>15, <3>2 DEF TrackerFits
  <2>2. LaneFits(ln, tr)
    <3>1. tr.open # 0 => Within(segs, fed)
      BY <1>5, <1>8, <1>9, <1>11 DEF Within
    <3>2. tr.open = 0 => fed.from = tr.ended /\ ToSet(segs) = (tr.ended + 1)..fed.final
      BY <1>5, <1>9, <1>11, <1>15
    <3> QED BY <1>10, <1>13, <1>15, <3>1, <3>2 DEF LaneFits
  <2>3. /\ \A k \in Lanes : k # l /\ lane[k].on = t => LaneFits(lane[k], tr)
        /\ ~(sweeper.at = "ending" /\ sweeper.on = t)
    BY <1>2, <1>3, Alone, WaitersFit DEF MeetingInv
  <2> QED BY <2>1, <2>2, <2>3 DEF FitMove
<1>19. OnlyGrow
  BY <1>2 DEF OnlyGrow
<1>20. OwedBy(t)'
  <2>1. /\ tracker'[t] = tr /\ lane'[l] = ln /\ \A k \in Lanes : k # l => lane'[k] = lane[k]
    BY <1>1, <1>13, <1>15
  <2>2. OwedBy(t)
    BY DEF MeetingInv, AllOwed
  <2>3. \A i : InHands(i, t) => InHands(i, t)'
    BY <1>2, <2>1 DEF InHands
  <2>4. \A i \in (merger.final + 1)..f : InHands(i, t)'
    BY <1>11, <1>13, <2>1 DEF InHands
  <2> QED BY <1>2, <1>5, <1>8, <1>9, <1>15, <2>1, <2>2, <2>3, <2>4 DEF OwedBy
<1>21. LockKept' /\ HandsFit' /\ AllOwed' /\ lane' \in [Lanes -> LaneType] /\ tracker' \in [Slots -> TrackerType]
  BY <1>16, <1>17, <1>18, <1>19, <1>20, LaneMoves
<1>22. MeetingTyped'
  BY <1>1, <1>2, <1>21 DEF MeetingInv, MeetingTyped, lockVars
<1> QED BY <1>21, <1>22 DEF MeetingInv

\* _store is given a lane's lines: they join the unsaved ones of the open meeting.
LEMMA JoinKeepsInv ==
  ASSUME MeetingInv, NEW l \in Lanes, NEW t \in Slots, t = lane[l].on, tracker[t].open # 0,
         lane[l].at \in {"fed", "started"}, NEW tr \in TrackerType,
         tr.open = tracker[t].open, tr.merger = tracker[t].merger, tr.ended = tracker[t].ended,
         tr.unsaved = tracker[t].unsaved \o lane[l].segs,
         tracker' = [tracker EXCEPT ![t] = tr],
         lane' = [lane EXCEPT ![l].at = "storing", ![l].segs = <<>>],
         UNCHANGED <<onScreen, kept, carried, lockVars, sweeper, meetingRow, meetingLines, cutLines>>
  PROVE  MeetingInv'
<1>1. lane \in [Lanes -> LaneType] /\ tracker \in [Slots -> TrackerType] /\ MeetingTyped
  BY DEF MeetingInv, MeetingTyped
<1>2. lane[l] \in LaneType /\ tracker[t] \in TrackerType /\ holder[t] = l
  BY <1>1 DEF MeetingInv, LockKept, Working
<1>3. PICK ln \in LaneType : ln = [lane[l] EXCEPT !.at = "storing", !.segs = <<>>]
  <2>1. <<>> \in Seq(Lines)
    OBVIOUS
  <2> QED BY <1>2, <2>1 DEF LaneType
<1>4. lane' = [lane EXCEPT ![l] = ln] /\ ln.at = "storing" /\ ln.on = t /\ ln.segs = <<>>
  BY <1>1, <1>3 DEF LaneType
<1>5. tracker[t].unsaved \in Seq(Lines) /\ lane[l].segs \in Seq(Lines)
  BY <1>2 DEF TrackerType, LaneType
<1>6. ToSet(tr.unsaved) = ToSet(tracker[t].unsaved) \cup ToSet(lane[l].segs)
  BY <1>5, Joined
<1>7. LaneMove(l, t, ln, tr)
  <2>1. ln.at # "idle" /\ ln.on # 0 /\ sweeper' = sweeper
    BY <1>4 DEF Slots
  <2> QED BY <1>4, <2>1 DEF LaneMove
<1>8. LockMove(l, t, ln)
  BY <1>2 DEF LockMove, lockVars
<1>9. FitMove(l, t, ln, tr)
  <2>1. LaneFits(lane[l], tracker[t]) /\ TrackerFits(tracker[t])
    BY DEF MeetingInv, HandsFit, Slots
  <2>2. Within(tr.unsaved, tr.merger) /\ Ordered(tr.merger)
    BY <1>6, <2>1 DEF LaneFits, TrackerFits, Within
  <2>3. LaneFits(ln, tr)
    BY <1>4 DEF LaneFits
  <2>4. \A k \in Lanes : k # l /\ lane[k].on = t => LaneFits(lane[k], tr)
    BY <1>2, Alone, WaitersFit DEF MeetingInv
  <2> QED BY <2>2, <2>3, <2>4 DEF FitMove, TrackerFits
<1>10. OnlyGrow
  BY DEF OnlyGrow
<1>11. OwedBy(t)'
  <2>1. /\ tracker'[t] = tr /\ lane'[l] = ln /\ \A k \in Lanes : k # l => lane'[k] = lane[k]
    BY <1>1, <1>4
  <2>2. OwedBy(t)
    BY DEF MeetingInv, AllOwed
  <2>3. \A i : InHands(i, t) => InHands(i, t)' \/ i \in ToSet(lane[l].segs)
    BY <2>1 DEF InHands
  <2> QED BY <1>6, <2>1, <2>2, <2>3 DEF OwedBy
<1>12. LockKept' /\ HandsFit' /\ AllOwed' /\ lane' \in [Lanes -> LaneType] /\ tracker' \in [Slots -> TrackerType]
  BY <1>7, <1>8, <1>9, <1>10, <1>11, LaneMoves
<1>13. MeetingTyped'
  BY <1>1, <1>12 DEF MeetingInv, MeetingTyped, lockVars
<1> QED BY <1>12, <1>13 DEF MeetingInv

LEMMA TakeFedKeepsInv ==
  ASSUME MeetingInv, NEW l \in Lanes, TakeFed(l) \/ TakeStarted(l)
  PROVE  MeetingInv'
<1>1. lane \in [Lanes -> LaneType] /\ tracker \in [Slots -> TrackerType] /\ MeetingTyped
  BY DEF MeetingInv, MeetingTyped
<1>2. UNCHANGED <<onScreen, kept, carried, sweeper, meetingRow, meetingLines, cutLines>>
      /\ lane[l].at \in {"fed", "started"}
  BY DEF TakeFed, TakeStarted
<1>3. PICK t \in Slots : t = lane[l].on /\ holder[t] = l /\ LaneFits(lane[l], tracker[t])
  <2>1. lane[l].on # 0 /\ lane[l].on \in Slots
    BY <1>1, <1>2 DEF MeetingInv, LockKept, LaneType
  <2> QED BY <1>2, <2>1 DEF MeetingInv, LockKept, Working, HandsFit
<1>4. tracker[t] \in TrackerType /\ lane[l] \in LaneType
  BY <1>1
<1>5. tracker[t].unsaved \o lane[l].segs \in Seq(Lines)
  BY <1>4, Joined DEF TrackerType, LaneType
<1>6. CASE TakeStarted(l)
  <2>1. PICK tr \in TrackerType : tr = [tracker[t] EXCEPT !.unsaved = tracker[t].unsaved \o lane[l].segs]
    BY <1>4, <1>5 DEF TrackerType
  <2>2. /\ tracker' = [tracker EXCEPT ![t] = tr] /\ tr.open = tracker[t].open
        /\ tr.merger = tracker[t].merger /\ tr.ended = tracker[t].ended
        /\ tr.unsaved = tracker[t].unsaved \o lane[l].segs
    BY <1>1, <1>3, <1>4, <1>6, <2>1 DEF TakeStarted, TrackerType
  <2>3. tracker[t].open # 0
    BY <1>3, <1>6 DEF TakeStarted, LaneFits
  <2>4. lane' = [lane EXCEPT ![l].at = "storing", ![l].segs = <<>>] /\ UNCHANGED lockVars
    BY <1>6 DEF TakeStarted
  <2> QED BY <1>2, <1>3, <2>2, <2>3, <2>4, JoinKeepsInv
<1>7. CASE TakeFed(l) /\ tracker[t].open # 0
  <2>1. PICK tr \in TrackerType : tr = [tracker[t] EXCEPT !.captions = "coming", !.unsaved = tracker[t].unsaved \o lane[l].segs]
    BY <1>4, <1>5 DEF TrackerType
  <2>2. /\ tracker' = [tracker EXCEPT ![t] = tr] /\ tr.open = tracker[t].open
        /\ tr.merger = tracker[t].merger /\ tr.ended = tracker[t].ended
        /\ tr.unsaved = tracker[t].unsaved \o lane[l].segs
    BY <1>1, <1>3, <1>4, <1>7, <2>1 DEF TakeFed, TrackerType
  <2>3. lane' = [lane EXCEPT ![l].at = "storing", ![l].segs = <<>>] /\ UNCHANGED lockVars
    BY <1>3, <1>7 DEF TakeFed
  <2> QED BY <1>2, <1>3, <1>7, <2>2, <2>3, JoinKeepsInv
<1>8. CASE TakeFed(l) /\ tracker[t].open = 0
  <2>1. PICK tr \in TrackerType : tr = [tracker[t] EXCEPT !.captions = "coming"]
    BY <1>4 DEF TrackerType
  <2>2. tracker' = [tracker EXCEPT ![t] = tr] /\ SameMeeting(tracker[t], tr) /\ tr.open = 0
    BY <1>1, <1>3, <1>4, <1>8, <2>1 DEF TakeFed, TrackerType, SameMeeting
  <2>3. CASE lane' = [lane EXCEPT ![l] = IdleLane] /\ Release(t)
    <3>1. LockKept' /\ HandsFit' /\ AllOwed' /\ lane' \in [Lanes -> LaneType] /\ tracker' \in [Slots -> TrackerType]
      BY <1>2, <1>3, <2>2, <2>3, LaneReleases
    <3>2. holder' = [u \in Slots |-> holder'[u]] /\ waiters' = [u \in Slots |-> waiters'[u]]
      BY <1>1, <1>3, <2>3, ReleaseKeeps
    <3>3. MeetingTyped'
      BY <1>1, <1>2, <3>1, <3>2 DEF MeetingInv, MeetingTyped
    <3> QED BY <3>1, <3>3 DEF MeetingInv
  <2>4. CASE lane' = [lane EXCEPT ![l].at = "creating"] /\ UNCHANGED lockVars /\ lane[l].at = "fed"
    <3>1. PICK ln \in LaneType : ln = [lane[l] EXCEPT !.at = "creating"]
      BY <1>4 DEF LaneType
    <3>2. lane' = [lane EXCEPT ![l] = ln] /\ ln.at = "creating" /\ ln.on = t
          /\ ln.merger = lane[l].merger /\ ln.segs = lane[l].segs
      BY <1>1, <1>3, <2>4, <3>1 DEF LaneType
    <3>3. LaneMove(l, t, ln, tr)
      BY <1>2, <1>3, <2>2, <3>2 DEF LaneMove, Slots
    <3>4. LockMove(l, t, ln)
      BY <1>3, <2>4 DEF LockMove, lockVars
    <3>5. FitMove(l, t, ln, tr)
      <4>1. LaneFits(ln, tr)
        BY <1>3, <1>8, <2>2, <2>4, <3>2 DEF LaneFits, SameMeeting
      <4>2. /\ \A k \in Lanes : k # l /\ lane[k].on = t => LaneFits(lane[k], tr)
            /\ ~(sweeper.at = "ending" /\ sweeper.on = t)
        BY <1>3, Alone, WaitersFit DEF MeetingInv
      <4> QED BY <2>2, <4>1, <4>2 DEF FitMove, TrackerFits
    <3>6. OnlyGrow
      BY <1>2 DEF OnlyGrow
    <3>7. OwedBy(t)'
      BY <1>1, <2>2 DEF OwedBy
    <3>8. LockKept' /\ HandsFit' /\ AllOwed' /\ lane' \in [Lanes -> LaneType] /\ tracker' \in [Slots -> TrackerType]
      BY <3>3, <3>4, <3>5, <3>6, <3>7, LaneMoves
    <3>9. MeetingTyped'
      BY <1>1, <1>2, <2>4, <3>8 DEF MeetingInv, MeetingTyped, lockVars
    <3> QED BY <3>8, <3>9 DEF MeetingInv
  <2> QED BY <1>3, <1>8, <2>3, <2>4 DEF TakeFed
<1> QED BY <1>6, <1>7, <1>8

LEMMA CreateKeepsInv ==
  ASSUME MeetingInv, NEW l \in Lanes, Create(l)
  PROVE  MeetingInv'
<1>1. lane \in [Lanes -> LaneType] /\ tracker \in [Slots -> TrackerType] /\ MeetingTyped
  BY DEF MeetingInv, MeetingTyped
<1>2. UNCHANGED <<onScreen, kept, carried, lockVars, sweeper, meetingLines, cutLines>>
      /\ lane[l].at = "creating" /\ lane' = [lane EXCEPT ![l].at = "started"]
  BY DEF Create
<1>3. PICK t \in Slots : t = lane[l].on /\ holder[t] = l /\ LaneFits(lane[l], tracker[t])
  <2>1. lane[l].on # 0 /\ lane[l].on \in Slots
    BY <1>1, <1>2 DEF MeetingInv, LockKept, LaneType
  <2> QED BY <1>2, <2>1 DEF MeetingInv, LockKept, Working, HandsFit
<1>4. tracker[t] \in TrackerType /\ lane[l] \in LaneType
  BY <1>1
<1>5. PICK m \in MeetingIds :
        /\ meetingRow' = [meetingRow EXCEPT ![m] = "live"]
        /\ tracker' = [tracker EXCEPT ![t].open = m, ![t].merger = lane[l].merger, ![t].unsaved = <<>>]
  BY <1>3 DEF Create, NextMeeting
<1>6. PICK tr \in TrackerType : tr = [tracker[t] EXCEPT !.open = m, !.merger = lane[l].merger, !.unsaved = <<>>]
  <2>1. <<>> \in Seq(Lines) /\ m \in MeetingIds \cup {0} /\ lane[l].merger \in MergerType
    BY <1>4 DEF LaneType
  <2> QED BY <1>4, <2>1 DEF TrackerType
<1>7. tracker' = [tracker EXCEPT ![t] = tr] /\ tr.open = m /\ tr.merger = lane[l].merger /\ tr.unsaved = <<>>
      /\ tr.ended = tracker[t].ended
  BY <1>1, <1>4, <1>5, <1>6 DEF TrackerType
<1>8. m # 0
  BY DEF MeetingIds
<1>9. PICK ln \in LaneType : ln = [lane[l] EXCEPT !.at = "started"]
  BY <1>4 DEF LaneType
<1>10. lane' = [lane EXCEPT ![l] = ln] /\ ln.at = "started" /\ ln.on = t /\ ln.segs = lane[l].segs
  BY <1>1, <1>2, <1>3, <1>9 DEF LaneType
<1>11. /\ lane[l].merger.from = tracker[t].ended /\ Ordered(lane[l].merger)
       /\ ToSet(lane[l].segs) = (tracker[t].ended + 1)..lane[l].merger.final
  BY <1>2, <1>3 DEF LaneFits
<1>12. LaneMove(l, t, ln, tr)
  <2>1. ln.at # "idle" /\ ln.on # 0 /\ sweeper' = sweeper
    BY <1>2, <1>10 DEF Slots
  <2> QED BY <1>3, <1>7, <1>10, <2>1 DEF LaneMove
<1>13. LockMove(l, t, ln)
  BY <1>2, <1>3 DEF LockMove, lockVars
<1>14. FitMove(l, t, ln, tr)
  <2>1. tracker[t].ended \in Int
    BY <1>4 DEF TrackerType
  <2>2. LaneFits(ln, tr)
    BY <1>7, <1>8, <1>10, <1>11, <2>1 DEF LaneFits, Within
  <2>3. \A k \in Lanes : k # l /\ lane[k].on = t => LaneFits(lane[k], tr)
    BY <1>3, Alone, WaitersFit DEF MeetingInv
  <2>4. TrackerFits(tr)
    BY <1>7, <1>11 DEF TrackerFits, Within, ToSet
  <2> QED BY <1>7, <1>8, <2>2, <2>3, <2>4 DEF FitMove
<1>15. OnlyGrow
  BY <1>2 DEF OnlyGrow
<1>16. OwedBy(t)'
  <2>1. tracker'[t] = tr /\ lane'[l] = ln
    BY <1>1, <1>7, <1>10
  <2> QED BY <1>7, <1>10, <1>11, <2>1 DEF OwedBy, InHands
<1>17. LockKept' /\ HandsFit' /\ AllOwed' /\ lane' \in [Lanes -> LaneType] /\ tracker' \in [Slots -> TrackerType]
  BY <1>12, <1>13, <1>14, <1>15, <1>16, LaneMoves
<1>18. MeetingTyped'
  BY <1>1, <1>2, <1>5, <1>17 DEF MeetingInv, MeetingTyped, lockVars
<1> QED BY <1>17, <1>18 DEF MeetingInv

\* One line goes from _unsaved to the row, whoever stores it.
LEMMA StoreKeepsInv ==
  ASSUME MeetingInv, NEW t \in Slots, StoreNext(t), tracker[t].open # 0,
         \A k \in Lanes : lane[k].on = t => lane[k].at = "storing" \/ ~Working(lane[k]),
         UNCHANGED <<onScreen, kept, carried, lane, lockVars, sweeper, meetingRow, cutLines>>
  PROVE  MeetingInv'
<1>1. lane \in [Lanes -> LaneType] /\ tracker \in [Slots -> TrackerType] /\ MeetingTyped
  BY DEF MeetingInv, MeetingTyped
<1>2. tracker[t] \in TrackerType /\ tracker[t].unsaved # <<>> /\ tracker[t].unsaved \in Seq(Lines)
      /\ tracker[t].open \in MeetingIds
  BY <1>1 DEF StoreNext, TrackerType
<1>3. PICK head \in Lines, tail \in Seq(Lines) :
        /\ head = Head(tracker[t].unsaved) /\ tail = Tail(tracker[t].unsaved)
        /\ ToSet(tracker[t].unsaved) = {head} \cup ToSet(tail)
  <2> DEFINE un == tracker[t].unsaved
  <2>1. un \in Seq(Lines) /\ un # <<>>
    BY <1>2
  <2> HIDE DEF un
  <2>2. Head(un) \in Lines /\ Tail(un) \in Seq(Lines) /\ ToSet(un) = {Head(un)} \cup ToSet(Tail(un))
    BY <2>1, Headed
  <2> QED BY <2>2 DEF un
<1>4. PICK tr \in TrackerType : tr = [tracker[t] EXCEPT !.unsaved = tail]
  BY <1>2 DEF TrackerType
<1>5. tracker' = [tracker EXCEPT ![t] = tr] /\ tr.open = tracker[t].open /\ tr.merger = tracker[t].merger
      /\ tr.unsaved = tail
  BY <1>1, <1>2, <1>3, <1>4 DEF StoreNext, TrackerType
<1>6. meetingLines \in [MeetingIds -> SUBSET Lines]
  BY DEF MeetingInv, MeetingTyped
<1>7. /\ meetingLines' = [meetingLines EXCEPT ![tracker[t].open] = meetingLines[tracker[t].open] \cup {head}]
      /\ meetingLines' \in [MeetingIds -> SUBSET Lines]
  BY <1>2, <1>3, <1>6 DEF StoreNext
<1>8. SweepMove(t, tr)
  <2>1. TrackerFits(tr)
    BY <1>3, <1>5 DEF TrackerFits, Within, MeetingInv, HandsFit
  <2>2. ASSUME NEW k \in Lanes, lane[k].on = t PROVE LaneFits(lane[k], tr)
    <3>1. CASE lane[k].at = "storing"
      BY <1>5, <3>1 DEF LaneFits
    <3>2. CASE ~Working(lane[k])
      BY <3>2, WaitersFit
    <3> QED BY <2>2, <3>1, <3>2
  <2> QED BY <1>5, <2>1, <2>2 DEF SweepMove, lockVars
<1>9. SweeperKept
  <2>1. sweeper' = sweeper /\ holder' = holder
    BY DEF lockVars
  <2>2. \A u \in Slots : tracker'[u].open = tracker[u].open
    BY <1>1, <1>5
  <2>3. sweeper.at = "idle" <=> sweeper.on = 0
    BY DEF MeetingInv, LockKept
  <2>4. sweeper.at = "ending" => sweeper.on \in Slots /\ tracker[sweeper.on].open # 0
                                 /\ holder[sweeper.on] = SweepTask
    BY DEF MeetingInv, MeetingTyped, LockKept, HandsFit
  <2> QED BY <2>1, <2>2, <2>3, <2>4 DEF SweeperKept
<1>10. OnlyGrow
  BY <1>6, <1>7 DEF OnlyGrow
<1>11. OwedBy(t)'
  <2>1. OwedBy(t) /\ tracker'[t] = tr
    BY <1>1, <1>5 DEF MeetingInv, AllOwed
  <2>2. \A i : InHands(i, t) => InHands(i, t)'
    BY DEF InHands
  <2>3. meetingLines'[tr.open] = meetingLines[tr.open] \cup {head}
    BY <1>2, <1>5, <1>6, <1>7
  <2> QED BY <1>3, <1>5, <2>1, <2>2, <2>3 DEF OwedBy
<1>12. LockKept' /\ HandsFit' /\ AllOwed' /\ tracker' \in [Slots -> TrackerType]
  BY <1>8, <1>9, <1>10, <1>11, SweepMoves
<1>13. MeetingTyped'
  BY <1>1, <1>7, <1>12 DEF MeetingInv, MeetingTyped, lockVars
<1> QED BY <1>12, <1>13 DEF MeetingInv

LEMMA StoreLineKeepsInv ==
  ASSUME MeetingInv, (\E l \in Lanes : StoreLine(l)) \/ SweepStores
  PROVE  MeetingInv'
<1>1. lane \in [Lanes -> LaneType] /\ sweeper.on \in Slots \cup {0}
  BY DEF MeetingInv, MeetingTyped
<1>2. UNCHANGED <<onScreen, kept, carried, lane, lockVars, sweeper, meetingRow, cutLines>>
  BY DEF StoreLine, SweepStores
<1>3. ASSUME NEW l \in Lanes, StoreLine(l) PROVE MeetingInv'
  <2>1. PICK t \in Slots : t = lane[l].on /\ holder[t] = l /\ LaneFits(lane[l], tracker[t])
    BY <1>1, <1>3 DEF StoreLine, MeetingInv, LockKept, LaneType, Working, HandsFit, Slots
  <2>2. StoreNext(t) /\ lane[l].at = "storing"
    BY <1>3, <2>1 DEF StoreLine
  <2>3. tracker[t].open # 0
    BY <2>1, <2>2 DEF LaneFits
  <2>4. \A k \in Lanes : lane[k].on = t => lane[k].at = "storing" \/ ~Working(lane[k])
    BY <2>1, <2>2, Alone DEF MeetingInv
  <2> QED BY <1>2, <2>2, <2>3, <2>4, StoreKeepsInv
<1>4. CASE SweepStores
  <2>1. PICK t \in Slots : t = sweeper.on /\ holder[t] = SweepTask /\ tracker[t].open # 0
    BY <1>1, <1>4 DEF SweepStores, MeetingInv, LockKept, HandsFit
  <2>2. StoreNext(t)
    BY <1>4, <2>1 DEF SweepStores
  <2>3. \A k \in Lanes : lane[k].on = t => ~Working(lane[k])
    BY <2>1, AloneSweep DEF MeetingInv
  <2> QED BY <1>2, <2>1, <2>2, <2>3, StoreKeepsInv
<1> QED BY <1>3, <1>4

LEMMA SweepTakesKeepsInv ==
  ASSUME MeetingInv, SweepTakes
  PROVE  MeetingInv'
<1>1. lane \in [Lanes -> LaneType] /\ tracker \in [Slots -> TrackerType] /\ MeetingTyped
  BY DEF MeetingInv, MeetingTyped
<1>2. UNCHANGED <<onScreen, kept, carried, lane, tracker, meetingRow, meetingLines, cutLines>>
      /\ sweeper' = [at |-> "locking", on |-> kept]
  BY DEF SweepTakes
<1>3. PICK t \in Slots : t = kept /\ Ask(SweepTask, t)
  BY DEF SweepTakes, MeetingInv, MeetingTyped
<1>4. PICK tr \in TrackerType : tr = tracker[t] /\ tracker' = [tracker EXCEPT ![t] = tr]
  BY <1>1, <1>2
<1>5. SweepMove(t, tr)
  <2>1. TrackerFits(tr) /\ \A k \in Lanes : lane[k].on = t => LaneFits(lane[k], tr)
    BY <1>4 DEF MeetingInv, HandsFit, Slots
  <2> QED BY <1>1, <1>2, <1>3, <1>4, <2>1, AskKeeps DEF SweepMove
<1>6. SweeperKept
  BY <1>2, <1>3 DEF SweeperKept, Slots
<1>7. OnlyGrow /\ OwedBy(t)'
  BY <1>2 DEF OnlyGrow, MeetingInv, AllOwed, OwedBy, InHands
<1>8. LockKept' /\ HandsFit' /\ AllOwed' /\ tracker' \in [Slots -> TrackerType]
  BY <1>5, <1>6, <1>7, SweepMoves
<1>9. MeetingTyped'
  <2>1. holder' = [u \in Slots |-> holder'[u]] /\ waiters' = [u \in Slots |-> waiters'[u]]
    BY <1>1, <1>3, AskKeeps
  <2> QED BY <1>1, <1>2, <1>3, <1>8, <2>1 DEF MeetingInv, MeetingTyped
<1> QED BY <1>8, <1>9 DEF MeetingInv

LEMMA SweepEndsKeepsInv ==
  ASSUME MeetingInv, SweepEnds
  PROVE  MeetingInv'
<1>1. lane \in [Lanes -> LaneType] /\ tracker \in [Slots -> TrackerType] /\ MeetingTyped /\ MaxLines \in Nat
  BY MeetingBounds DEF MeetingInv, MeetingTyped
<1>2. UNCHANGED <<onScreen, kept, carried, lane, lockVars, meetingRow, meetingLines, cutLines>>
      /\ sweeper' = [sweeper EXCEPT !.at = "ending"]
  BY DEF SweepEnds
<1>3. PICK t \in Slots : t = sweeper.on /\ holder[t] = SweepTask /\ tracker[t].open # 0
  BY DEF SweepEnds, Holds, MeetingInv, MeetingTyped, LockKept
<1>4. PICK m \in MergerType : m = tracker[t].merger
  BY <1>1 DEF TrackerType
<1>5. m.from \in 0..MaxLines /\ m.final \in 0..MaxLines /\ m.seen \in 0..MaxLines /\ m.from <= m.final /\ m.final <= m.seen
  BY <1>3, <1>4 DEF MergerType, MeetingInv, HandsFit, TrackerFits, Ordered
<1>6. PICK fl \in MergerType : fl = [m EXCEPT !.final = m.seen]
  BY <1>4, <1>5 DEF MergerType
<1>7. fl.from = m.from /\ fl.final = m.seen /\ fl.seen = m.seen
  BY <1>4, <1>6 DEF MergerType
<1>8. PICK lines \in Seq(Lines) : lines = FromTo(m.final, m.seen) /\ ToSet(lines) = (m.final + 1)..m.seen
  BY <1>5, Counted
<1>9. tracker[t] \in TrackerType /\ tracker[t].unsaved \in Seq(Lines)
  BY <1>1 DEF TrackerType
<1>10. PICK un \in Seq(Lines) : un = tracker[t].unsaved \o lines
                                /\ ToSet(un) = ToSet(tracker[t].unsaved) \cup ToSet(lines)
  BY <1>9, Joined
<1>11. PICK tr \in TrackerType : tr = [tracker[t] EXCEPT !.unsaved = un, !.merger = fl]
  BY <1>9 DEF TrackerType
<1>12. tracker' = [tracker EXCEPT ![t] = tr] /\ tr.open = tracker[t].open /\ tr.merger = fl /\ tr.unsaved = un
  <2>1. tracker' = [tracker EXCEPT ![t].unsaved = un, ![t].merger.final = m.seen]
    BY <1>3, <1>4, <1>8, <1>10 DEF SweepEnds
  <2> QED BY <1>1, <1>4, <1>6, <1>9, <1>11, <2>1 DEF TrackerType
<1>13. SweepMove(t, tr)
  <2>1. TrackerFits(tr)
    <3>1. Within(tracker[t].unsaved, m)
      BY <1>3, <1>4 DEF MeetingInv, HandsFit, TrackerFits
    <3>2. ToSet(tracker[t].unsaved) \subseteq Int
      <4>1. \A s \in Seq(Lines) : ToSet(s) \subseteq Lines
        BY DEF ToSet
      <4> QED BY <1>9, <4>1 DEF Lines
    <3>3. Within(un, fl)
      BY <1>5, <1>7, <1>8, <1>10, <3>1, <3>2 DEF Within
    <3> QED BY <1>5, <1>7, <1>12, <3>3 DEF TrackerFits, Ordered
  <2>2. \A k \in Lanes : lane[k].on = t => LaneFits(lane[k], tr)
    BY <1>3, AloneSweep, WaitersFit DEF MeetingInv
  <2> QED BY <1>2, <1>12, <2>1, <2>2 DEF SweepMove, lockVars
<1>14. SweeperKept
  <2>1. sweeper'.at = "ending" /\ sweeper'.on = t /\ holder' = holder
    BY <1>1, <1>2, <1>3 DEF MeetingTyped, lockVars
  <2>2. tracker'[t] = tr
    BY <1>1, <1>12
  <2> QED BY <1>3, <1>12, <2>1, <2>2 DEF SweeperKept, Slots
<1>15. OnlyGrow
  BY <1>2 DEF OnlyGrow
<1>16. OwedBy(t)'
  <2>1. OwedBy(t) /\ tracker'[t] = tr
    BY <1>1, <1>12 DEF MeetingInv, AllOwed
  <2>2. \A i : InHands(i, t) => InHands(i, t)'
    BY <1>2 DEF InHands
  <2>3. \A i \in (m.from + 1)..m.final :
          \/ i \in meetingLines[tracker[t].open] \cup ToSet(tracker[t].unsaved) \cup cutLines
          \/ InHands(i, t)
    BY <1>3, <1>4, <2>1 DEF OwedBy
  <2>4. \A i \in (m.from + 1)..m.seen : i \in (m.from + 1)..m.final \/ i \in ToSet(lines)
    BY <1>5, <1>8
  <2> QED BY <1>2, <1>7, <1>10, <1>12, <2>1, <2>2, <2>3, <2>4 DEF OwedBy
<1>17. LockKept' /\ HandsFit' /\ AllOwed' /\ tracker' \in [Slots -> TrackerType]
  BY <1>13, <1>14, <1>15, <1>16, SweepMoves
<1>18. MeetingTyped'
  <2>1. sweeper' \in [at : {"idle", "locking", "ending"}, on : Slots \cup {0}]
    BY <1>1, <1>2 DEF MeetingTyped
  <2> QED BY <1>1, <1>2, <1>17, <2>1 DEF MeetingInv, MeetingTyped, lockVars
<1> QED BY <1>17, <1>18 DEF MeetingInv

LEMMA SweepFinishesKeepsInv ==
  ASSUME MeetingInv, SweepFinishes
  PROVE  MeetingInv'
<1>1. lane \in [Lanes -> LaneType] /\ tracker \in [Slots -> TrackerType] /\ MeetingTyped
  BY DEF MeetingInv, MeetingTyped
<1>2. /\ UNCHANGED <<onScreen, lane, meetingLines, cutLines>>
      /\ sweeper' = [at |-> "idle", on |-> 0] /\ sweeper.at = "ending"
  BY DEF SweepFinishes
<1>3. PICK t \in Slots : t = sweeper.on /\ holder[t] = SweepTask /\ tracker[t].open # 0
  BY <1>2 DEF MeetingInv, MeetingTyped, LockKept, HandsFit
<1>4. tracker[t] \in TrackerType /\ tracker[t].open \in MeetingIds /\ tracker[t].merger.seen \in 0..MaxLines
  BY <1>1, <1>3 DEF TrackerType, MergerType
<1>5. PICK tr \in TrackerType :
        tr = [IdleTracker(tracker[t].merger.seen) EXCEPT !.notify = tracker[t].notify]
  <2>1. IdleTracker(tracker[t].merger.seen) \in TrackerType
    BY <1>4, EmptyOnes
  <2> QED BY <1>4, <2>1 DEF TrackerType
<1>6. tr.open = 0 /\ tr.ended = tracker[t].merger.seen
  BY <1>5 DEF IdleTracker
<1>7. /\ meetingRow' = [meetingRow EXCEPT ![tracker[t].open] = "ready"]
      /\ tracker' = [tracker EXCEPT ![t] = tr] /\ DropIdle(t, tr) /\ Release(t)
  BY <1>3, <1>5 DEF SweepFinishes
<1>8. SweepMove(t, tr)
  <2>1. \A k \in Lanes : lane[k].on = t => LaneFits(lane[k], tr)
    BY <1>3, AloneSweep, WaitersFit DEF MeetingInv
  <2>2. \A u \in Slots : holder[u] # SweepTask => holder'[u] = holder[u]
    BY <1>1, <1>3, <1>7, ReleaseKeeps
  <2> QED BY <1>2, <1>6, <1>7, <2>1, <2>2 DEF SweepMove, TrackerFits
<1>9. SweeperKept
  BY <1>2 DEF SweeperKept
<1>10. OnlyGrow /\ OwedBy(t)'
  BY <1>1, <1>2, <1>6, <1>7 DEF OnlyGrow, OwedBy
<1>11. LockKept' /\ HandsFit' /\ AllOwed' /\ tracker' \in [Slots -> TrackerType]
  BY <1>8, <1>9, <1>10, SweepMoves
<1>12. MeetingTyped'
  <2>1. holder' = [u \in Slots |-> holder'[u]] /\ waiters' = [u \in Slots |-> waiters'[u]]
    BY <1>1, <1>3, <1>7, ReleaseKeeps
  <2>2. kept' \in Slots \cup {0} /\ carried' \in 0..MaxLines
    BY <1>1, <1>4, <1>6, <1>7 DEF DropIdle, MeetingTyped
  <2> QED BY <1>1, <1>2, <1>7, <1>11, <2>1, <2>2 DEF MeetingTyped
<1> QED BY <1>11, <1>12 DEF MeetingInv

LEMMA SweepGivesUpKeepsInv ==
  ASSUME MeetingInv, SweepFails \/ SweepPasses
  PROVE  MeetingInv'
<1>1. lane \in [Lanes -> LaneType] /\ tracker \in [Slots -> TrackerType] /\ MeetingTyped
  BY DEF MeetingInv, MeetingTyped
<1>2. /\ UNCHANGED <<onScreen, lane, tracker, meetingLines, cutLines>>
      /\ sweeper' = [at |-> "idle", on |-> 0]
  BY DEF SweepFails, SweepPasses
<1>3. PICK t \in Slots : t = sweeper.on /\ holder[t] = SweepTask /\ Release(t)
  BY DEF SweepFails, SweepPasses, Holds, MeetingInv, MeetingTyped, LockKept
<1>4. PICK tr \in TrackerType : tr = tracker[t] /\ tracker' = [tracker EXCEPT ![t] = tr]
  BY <1>1, <1>2
<1>5. SweepMove(t, tr)
  <2>1. TrackerFits(tr) /\ \A k \in Lanes : lane[k].on = t => LaneFits(lane[k], tr)
    BY <1>4 DEF MeetingInv, HandsFit, Slots
  <2>2. \A u \in Slots : holder[u] # SweepTask => holder'[u] = holder[u]
    BY <1>1, <1>3, ReleaseKeeps
  <2> QED BY <1>2, <1>4, <2>1, <2>2 DEF SweepMove
<1>6. SweeperKept
  BY <1>2 DEF SweeperKept
<1>7. OnlyGrow /\ OwedBy(t)'
  BY <1>2 DEF OnlyGrow, MeetingInv, AllOwed, OwedBy, InHands
<1>8. LockKept' /\ HandsFit' /\ AllOwed' /\ tracker' \in [Slots -> TrackerType]
  BY <1>5, <1>6, <1>7, SweepMoves
<1>9. /\ kept' \in Slots \cup {0} /\ carried' \in 0..MaxLines
      /\ meetingRow' \in [MeetingIds -> {"absent", "live", "ready"}]
  <2>1. tracker[t] \in TrackerType /\ tracker[t].ended \in 0..MaxLines
    BY <1>1 DEF TrackerType
  <2>2. CASE SweepFails
    BY <1>1, <2>2 DEF SweepFails, MeetingTyped
  <2>3. CASE SweepPasses
    BY <1>1, <1>3, <2>1, <2>3 DEF SweepPasses, DropIdle, MeetingTyped
  <2> QED BY <2>2, <2>3
<1>10. MeetingTyped'
  <2>1. holder' = [u \in Slots |-> holder'[u]] /\ waiters' = [u \in Slots |-> waiters'[u]]
    BY <1>1, <1>3, ReleaseKeeps
  <2> QED BY <1>1, <1>2, <1>8, <1>9, <2>1 DEF MeetingTyped
<1> QED BY <1>8, <1>10 DEF MeetingInv

LEMMA CloseSocketKeepsInv ==
  ASSUME MeetingInv, NEW s \in Sockets, CloseSocket(s)
  PROVE  MeetingInv'
<1> DEFINE gone == {l \in Lanes : l[1] = s}
<1>1. lane \in [Lanes -> LaneType] /\ tracker \in [Slots -> TrackerType] /\ MeetingTyped
  BY DEF MeetingInv, MeetingTyped
<1>2. /\ lane' = [l \in Lanes |-> IF l \in gone THEN IdleLane ELSE lane[l]]
      /\ UNCHANGED <<onScreen, kept, carried, sweeper>>
      /\ tracker' = [t \in Slots |-> IF t = kept /\ tracker[t].notify = s
                                     THEN [tracker[t] EXCEPT !.notify = NoSocket] ELSE tracker[t]]
  BY DEF CloseSocket
<1>3. /\ \A t \in Slots : holder[t] \notin gone => holder'[t] = holder[t]
      /\ holder' = [t \in Slots |-> holder'[t]] /\ waiters' = [t \in Slots |-> waiters'[t]]
  BY DEF CloseSocket
<1>4. /\ cutLines \subseteq cutLines'
      /\ \A l \in gone : lane[l].at \in {"fed", "started"} /\ tracker[lane[l].on].open # 0
                         => ToSet(lane[l].segs) \subseteq cutLines'
  BY DEF CloseSocket
<1>5. meetingRow' = meetingRow \/ \E m \in NextMeeting : meetingRow' = [meetingRow EXCEPT ![m] = "live"]
  BY DEF CloseSocket
<1>6. \/ meetingLines' = meetingLines
      \/ \E l \in gone : /\ lane[l].at = "storing" /\ tracker[lane[l].on].unsaved # <<>>
                         /\ meetingLines' = [meetingLines EXCEPT ![tracker[lane[l].on].open] =
                               @ \cup {Head(tracker[lane[l].on].unsaved)}]
  BY DEF CloseSocket
<1>7. \A l \in Lanes : IF l \in gone THEN lane'[l] = IdleLane ELSE lane'[l] = lane[l]
  BY <1>2
<1>8. /\ tracker' \in [Slots -> TrackerType]
      /\ \A t \in Slots : SameMeeting(tracker[t], tracker'[t])
  <2>1. ASSUME NEW t \in Slots
        PROVE  tracker'[t] \in TrackerType /\ SameMeeting(tracker[t], tracker'[t])
    <3>1. tracker[t] \in TrackerType
      BY <1>1
    <3>2. CASE tracker'[t] = tracker[t]
      BY <3>1, <3>2 DEF SameMeeting
    <3>3. CASE tracker'[t] = [tracker[t] EXCEPT !.notify = NoSocket]
      BY <3>1, <3>3 DEF SameMeeting, TrackerType
    <3> QED BY <1>2, <3>2, <3>3
  <2>2. tracker' = [t \in Slots |-> tracker'[t]]
    BY <1>2
  <2> QED BY <2>1, <2>2
<1>9. /\ meetingLines' \in [MeetingIds -> SUBSET Lines]
      /\ \A m \in MeetingIds : meetingLines[m] \subseteq meetingLines'[m]
  <2>1. meetingLines \in [MeetingIds -> SUBSET Lines]
    BY <1>1 DEF MeetingTyped
  <2>2. ASSUME NEW l \in gone, lane[l].at = "storing", tracker[lane[l].on].unsaved # <<>>,
               meetingLines' = [meetingLines EXCEPT ![tracker[lane[l].on].open] =
                               @ \cup {Head(tracker[lane[l].on].unsaved)}]
        PROVE  /\ meetingLines' \in [MeetingIds -> SUBSET Lines]
               /\ \A m \in MeetingIds : meetingLines[m] \subseteq meetingLines'[m]
    <3>1. PICK t \in Slots : t = lane[l].on
      BY <1>1, <2>2 DEF MeetingInv, LockKept, LaneType
    <3>2. tracker[t] \in TrackerType
      BY <1>1
    <3>3. tracker[t].unsaved \in Seq(Lines) /\ tracker[t].unsaved # <<>>
      BY <2>2, <3>1, <3>2 DEF TrackerType
    <3>4. PICK head \in Lines : head = Head(tracker[t].unsaved)
      BY <3>3
    <3> QED BY <2>1, <2>2, <3>1, <3>4
  <2> QED BY <1>6, <2>1, <2>2
<1>10. LockKept'
  <2>1. ASSUME NEW k \in Lanes
        PROVE  /\ lane'[k].at = "idle" <=> lane'[k].on = 0
               /\ Working(lane'[k]) => holder'[lane'[k].on] = k
    <3>1. CASE k \in gone
      BY <1>7, <3>1 DEF IdleLane, Working
    <3>2. CASE k \notin gone
      <4>1. lane'[k] = lane[k]
        BY <1>7, <3>2
      <4>2. lane[k].at = "idle" <=> lane[k].on = 0
        BY DEF MeetingInv, LockKept
      <4>3. ASSUME Working(lane[k]) PROVE holder'[lane[k].on] = k
        <5>1. lane[k].on \in Slots /\ holder[lane[k].on] = k
          BY <1>1, <4>2, <4>3 DEF MeetingInv, LockKept, Working, LaneType
        <5> QED BY <1>3, <3>2, <5>1
      <4> QED BY <4>1, <4>2, <4>3
    <3> QED BY <3>1, <3>2
  <2>2. sweeper.at = "ending" => holder'[sweeper.on] = SweepTask
    <3>1. sweeper.at = "ending" => sweeper.on \in Slots /\ holder[sweeper.on] = SweepTask
      BY <1>1 DEF MeetingInv, MeetingTyped, LockKept
    <3>2. SweepTask \notin gone
      BY TasksDiffer
    <3> QED BY <1>3, <3>1, <3>2
  <2>3. sweeper' = sweeper /\ (sweeper.at = "idle" <=> sweeper.on = 0)
    BY <1>2 DEF MeetingInv, LockKept
  <2> QED BY <2>1, <2>2, <2>3 DEF LockKept
<1>11. HandsFit'
  <2>1. ASSUME NEW k \in Lanes, lane'[k].on # 0 PROVE LaneFits(lane'[k], tracker'[lane'[k].on])
    <3>1. lane'[k] = lane[k] /\ lane[k].on \in Slots
      BY <1>1, <1>7, <2>1 DEF IdleLane, LaneType
    <3>2. LaneFits(lane[k], tracker[lane[k].on])
      BY <2>1, <3>1 DEF MeetingInv, HandsFit
    <3> QED BY <1>8, <3>1, <3>2, StillFits
  <2>2. \A t \in Slots : TrackerFits(tracker'[t])
    BY <1>8, StillFits DEF MeetingInv, HandsFit
  <2>3. sweeper'.at = "ending" => tracker'[sweeper'.on].open # 0
    <3>1. sweeper.at = "ending" => sweeper.on \in Slots /\ tracker[sweeper.on].open # 0
      BY <1>1 DEF MeetingInv, MeetingTyped, LockKept, HandsFit
    <3> QED BY <1>2, <1>8, <3>1 DEF SameMeeting
  <2> QED BY <2>1, <2>2, <2>3 DEF HandsFit
<1>12. AllOwed'
  <2> SUFFICES ASSUME NEW t \in Slots PROVE OwedBy(t)'
    BY DEF AllOwed
  <2>1. SameMeeting(tracker[t], tracker'[t]) /\ OwedBy(t)
    BY <1>8 DEF MeetingInv, AllOwed
  <2>2. ASSUME NEW i, InHands(i, t), tracker[t].open # 0 PROVE InHands(i, t)' \/ i \in cutLines'
    <3>1. PICK k \in Lanes : lane[k].on = t /\ lane[k].at \in {"fed", "started"} /\ i \in ToSet(lane[k].segs)
      BY <2>2 DEF InHands
    <3>2. CASE k \in gone
      BY <1>4, <2>2, <3>1, <3>2
    <3>3. CASE k \notin gone
      <4>1. lane'[k] = lane[k]
        BY <1>7, <3>3
      <4> QED BY <3>1, <4>1 DEF InHands
    <3> QED BY <3>2, <3>3
  <2>3. tracker[t].open # 0 => tracker[t].open \in MeetingIds
    BY <1>1 DEF TrackerType
  <2> QED BY <1>4, <1>9, <2>1, <2>2, <2>3 DEF OwedBy, SameMeeting
<1>13. MeetingTyped'
  <2>1. lane' \in [Lanes -> LaneType]
    <3>1. \A k \in Lanes : lane'[k] \in LaneType
      BY <1>1, <1>7, EmptyOnes
    <3> QED BY <1>2, <3>1
  <2>2. meetingRow' \in [MeetingIds -> {"absent", "live", "ready"}]
    BY <1>1, <1>5 DEF NextMeeting, MeetingTyped
  <2> QED BY <1>1, <1>2, <1>3, <1>8, <1>9, <2>1, <2>2 DEF MeetingTyped
<1> QED BY <1>10, <1>11, <1>12, <1>13 DEF MeetingInv

LEMMA MeetingInit_Inv == MeetingInit => MeetingInv
<1> SUFFICES ASSUME MeetingInit PROVE MeetingInv
  OBVIOUS
<1>1. \A l \in Lanes : lane[l] = IdleLane
  BY DEF MeetingInit
<1>2. \A t \in Slots : tracker[t] = IdleTracker(0) /\ tracker[t].open = 0
  BY DEF MeetingInit, IdleTracker
<1>3. MeetingTyped
  BY EmptyOnes, MeetingBounds DEF MeetingInit, MeetingTyped
<1>4. LockKept
  BY <1>1 DEF MeetingInit, LockKept, IdleLane, Working
<1>5. HandsFit
  BY <1>1, <1>2 DEF MeetingInit, HandsFit, IdleLane, TrackerFits
<1>6. AllOwed
  BY <1>2 DEF AllOwed, OwedBy
<1> QED BY <1>3, <1>4, <1>5, <1>6 DEF MeetingInv

LEMMA MeetingStep == ASSUME MeetingInv, [MeetingNext]_meetingVars PROVE MeetingInv'
<1>1. CASE Speak \/ (\E s \in Sockets : Reconnect(s)) \/ UNCHANGED meetingVars
  BY <1>1, QuietKeepsInv
<1>2. CASE FallQuiet
  BY <1>2, FallQuietKeepsInv
<1>3. ASSUME NEW l \in Lanes, TakeTracker(l) \/ LaneStep(l) \/ IgnoreCaption(l) \/ CreateFails(l) \/ StartFails(l) PROVE MeetingInv'
  BY <1>3, TakeTrackerKeepsInv, FullFrameKeepsInv, FeedKeepsInv, TakeFedKeepsInv, CreateKeepsInv,
     StoreLineKeepsInv DEF LaneStep
<1>4. ASSUME NEW s \in Sockets, CloseSocket(s) PROVE MeetingInv'
  BY <1>4, CloseSocketKeepsInv
<1>5. CASE SweepStep \/ SweepFails
  BY <1>5, SweepTakesKeepsInv, SweepEndsKeepsInv, StoreLineKeepsInv, SweepFinishesKeepsInv,
     SweepGivesUpKeepsInv DEF SweepStep
<1> QED BY <1>1, <1>2, <1>3, <1>4, <1>5 DEF MeetingNext

\* For any number of overlapping sockets, regions, frames, failures and sweeps: a line that the merger
\* of an open meeting counts final is stored, unsaved, or in the hands of the lane that fed it, unless
\* that lane was cancelled right after its feed or could not store the people of the meeting it started
\* (_on_caption, _start, _store and end in screen/meetings.py, the lanes' cancellation in screen/ws.py).
THEOREM NothingIsForgotten == MeetingSpec => []FinalIsOwed
<1>1. MeetingInv => FinalIsOwed
  BY DEF MeetingInv, AllOwed, OwedBy, InHands, FinalIsOwed
<1> QED BY <1>1, MeetingInit_Inv, MeetingStep, PTL DEF MeetingSpec

\* A socket that the tracker is to notify leaves no frame of another socket behind at it.
LeavesNobody ==
  \A s \in connected \ connected', l \in Lanes :
    kept # 0 /\ tracker[kept].notify = s /\ l[1] # s => lane[l].on # kept

\* Whoever has a tracker has the registered one, and it is not to be dropped.
Attached == \A l \in Lanes : lane[l].on # 0 => lane[l].on = kept /\ tracker[kept].notify # NoSocket
SweepKept == sweeper.on # 0 => sweeper.on = kept
HandsOnKept == Attached /\ SweepKept

\* The lines that the meetings up to now were given are the first ones of the panel.
Base == IF kept = 0 THEN carried
        ELSE IF tracker[kept].open # 0 THEN tracker[kept].merger.from ELSE tracker[kept].ended
OthersIdle == \A t \in Slots : t # kept => tracker[t].open = 0
Rows == /\ \A m \in MeetingIds : meetingRow[m] = "absent" => meetingLines[m] = {}
        /\ kept # 0 /\ tracker[kept].open # 0 => meetingRow[tracker[kept].open] # "absent"
Carry == kept # 0 => carried = 0
Past == \A m \in MeetingIds : kept = 0 \/ m # tracker[kept].open => \A i \in meetingLines[m] : i <= Base
Present == kept # 0 /\ tracker[kept].open # 0 =>
             \A i \in meetingLines[tracker[kept].open] :
               tracker[kept].merger.from < i /\ i <= tracker[kept].merger.final
Books == OthersIdle /\ Rows /\ Carry /\ Past /\ Present /\ StoredOnce

OnceInv == MeetingInv /\ HandsOnKept /\ Books

\* The meeting of the registered tracker goes on: its merger may count more lines final, and
\* one of those it counts final may reach the row.
SameCourse ==
  /\ kept' = kept /\ carried' = carried
  /\ \A t \in Slots : tracker'[t].open = tracker[t].open /\ tracker'[t].ended = tracker[t].ended
  /\ kept # 0 /\ tracker[kept].open # 0 =>
       /\ tracker'[kept].merger.from = tracker[kept].merger.from
       /\ tracker[kept].merger.final <= tracker'[kept].merger.final
  /\ \A m \in MeetingIds : meetingRow'[m] = "absent" => meetingRow[m] = "absent"
  /\ meetingLines' \in [MeetingIds -> SUBSET Lines]
OneMoreLine ==
  \E h \in Lines :
    /\ kept # 0 /\ tracker[kept].open # 0
    /\ tracker[kept].merger.from < h /\ h <= tracker[kept].merger.final
    /\ meetingLines' = [meetingLines EXCEPT ![tracker[kept].open] = @ \cup {h}]

LEMMA BooksGoOn ==
  ASSUME OnceInv, MeetingTyped', SameCourse, meetingLines' = meetingLines \/ OneMoreLine
  PROVE  Books'
<1>1. /\ tracker \in [Slots -> TrackerType] /\ tracker' \in [Slots -> TrackerType]
      /\ meetingLines \in [MeetingIds -> SUBSET Lines] /\ kept \in Slots \cup {0}
      /\ kept' = kept /\ carried' = carried /\ MaxLines \in Nat
  BY MeetingBounds DEF OnceInv, MeetingInv, MeetingTyped, SameCourse
<1>2. kept # 0 => kept \in Slots /\ tracker'[kept].open = tracker[kept].open
                  /\ tracker'[kept].ended = tracker[kept].ended
  BY <1>1 DEF SameCourse
<1>3. Base' = Base
  BY <1>1, <1>2 DEF Base, SameCourse
<1>4. OthersIdle' /\ Carry'
  BY <1>1 DEF OthersIdle, Carry, OnceInv, Books, SameCourse
<1>5. kept # 0 /\ tracker[kept].open # 0 =>
        /\ tracker[kept].open \in MeetingIds
        /\ tracker[kept].merger.from \in Int /\ tracker[kept].merger.final \in Int
        /\ tracker'[kept].merger.final \in Int
        /\ tracker'[kept].merger.from = tracker[kept].merger.from
        /\ tracker[kept].merger.final <= tracker'[kept].merger.final
        /\ Base = tracker[kept].merger.from
        /\ meetingRow[tracker[kept].open] # "absent"
  BY <1>1, <1>2 DEF TrackerType, MergerType, SameCourse, Base, OnceInv, Books, Rows
<1>6. CASE meetingLines' = meetingLines
  <2>1. Rows'
    BY <1>1, <1>2, <1>5, <1>6 DEF Rows, OnceInv, Books, SameCourse
  <2>2. Past' /\ StoredOnce'
    BY <1>1, <1>2, <1>3, <1>6 DEF Past, StoredOnce, OnceInv, Books
  <2>3. Present'
    <3>1. \A i \in Lines : i \in Int
      BY DEF Lines
    <3> QED BY <1>1, <1>2, <1>5, <1>6, <3>1 DEF Present, OnceInv, Books
  <2> QED BY <1>4, <2>1, <2>2, <2>3 DEF Books
<1>7. CASE OneMoreLine
  <2>1. PICK h \in Lines :
          /\ kept # 0 /\ tracker[kept].open # 0
          /\ tracker[kept].merger.from < h /\ h <= tracker[kept].merger.final
          /\ meetingLines' = [meetingLines EXCEPT ![tracker[kept].open] = @ \cup {h}]
    BY <1>7 DEF OneMoreLine
  <2>2. PICK o \in MeetingIds : o = tracker[kept].open
    BY <1>5, <2>1
  <2>3. /\ meetingLines'[o] = meetingLines[o] \cup {h}
        /\ \A m \in MeetingIds : m # o => meetingLines'[m] = meetingLines[m]
    BY <1>1, <2>1, <2>2
  <2>4. \A i \in Lines : i \in Int
    BY DEF Lines
  <2>5. Rows'
    BY <1>1, <1>2, <1>5, <2>1, <2>2, <2>3 DEF Rows, OnceInv, Books, SameCourse
  <2>6. Past'
    BY <1>1, <1>2, <1>3, <2>1, <2>2, <2>3 DEF Past, OnceInv, Books
  <2>7. Present'
    BY <1>1, <1>2, <1>5, <2>1, <2>2, <2>3, <2>4 DEF Present, OnceInv, Books
  <2>8. \A m \in MeetingIds : m # o => h \notin meetingLines[m]
    <3>1. \A m \in MeetingIds : m # o => \A i \in meetingLines[m] : i <= tracker[kept].merger.from
      BY <1>5, <2>1, <2>2 DEF Past, OnceInv, Books
    <3> QED BY <1>5, <2>1, <2>4, <3>1
  <2>9. StoredOnce'
    BY <2>3, <2>8 DEF StoredOnce, OnceInv, Books
  <2> QED BY <1>4, <2>5, <2>6, <2>7, <2>9 DEF Books
<1> QED BY <1>6, <1>7

LEMMA HandsStay ==
  ASSUME OnceInv, kept' = kept, \A k \in Lanes : lane'[k].on \in {0, lane[k].on},
         kept # 0 => tracker'[kept].notify = tracker[kept].notify \/ tracker'[kept].notify # NoSocket,
         sweeper'.on \in {0, sweeper.on, kept}
  PROVE  HandsOnKept'
<1>1. kept \in Slots \cup {0} /\ lane \in [Lanes -> LaneType]
  BY DEF OnceInv, MeetingInv, MeetingTyped
<1>2. Attached'
  <2> SUFFICES ASSUME NEW k \in Lanes, lane'[k].on # 0
               PROVE  lane'[k].on = kept /\ tracker'[kept].notify # NoSocket
    BY DEF Attached
  <2>1. lane[k].on # 0 /\ lane'[k].on = lane[k].on
    OBVIOUS
  <2>2. lane[k].on = kept /\ tracker[kept].notify # NoSocket
    BY <2>1 DEF OnceInv, HandsOnKept, Attached
  <2> QED BY <2>1, <2>2
<1>3. SweepKept'
  BY DEF OnceInv, HandsOnKept, SweepKept
<1> QED BY <1>2, <1>3 DEF HandsOnKept

\* The meeting stays what it is, and no line reaches a row.
LEMMA QuietOnce ==
  ASSUME OnceInv, MeetingInv',
         Speak \/ FallQuiet \/ (\E s \in Sockets : Reconnect(s)) \/ SweepTakes \/ UNCHANGED meetingVars
  PROVE  OnceInv'
<1>1. tracker \in [Slots -> TrackerType] /\ MeetingTyped /\ MeetingTyped' /\ kept \in Slots \cup {0}
  BY DEF OnceInv, MeetingInv, MeetingTyped
<1>2. UNCHANGED <<kept, carried, lane, meetingRow, meetingLines>>
  BY DEF Speak, FallQuiet, Reconnect, SweepTakes, meetingVars
<1>3. tracker' = tracker \/ (kept \in Slots /\ tracker' = [tracker EXCEPT ![kept].captions = "gone"])
  BY <1>1 DEF Speak, FallQuiet, Reconnect, SweepTakes, meetingVars
<1>4. \A t \in Slots : /\ tracker'[t].open = tracker[t].open /\ tracker'[t].ended = tracker[t].ended
                       /\ tracker'[t].merger = tracker[t].merger /\ tracker'[t].notify = tracker[t].notify
  <2>1. \A t \in Slots : tracker[t] \in TrackerType
    BY <1>1
  <2>2. CASE tracker' = tracker
    BY <2>2
  <2>3. CASE kept \in Slots /\ tracker' = [tracker EXCEPT ![kept].captions = "gone"]
    <3>1. \A t \in Slots : t # kept => tracker'[t] = tracker[t]
      BY <1>1, <2>3
    <3>2. tracker'[kept] = [tracker[kept] EXCEPT !.captions = "gone"]
      BY <1>1, <2>3
    <3>3. /\ tracker'[kept].open = tracker[kept].open /\ tracker'[kept].ended = tracker[kept].ended
          /\ tracker'[kept].merger = tracker[kept].merger /\ tracker'[kept].notify = tracker[kept].notify
      BY <2>1, <2>3, <3>2 DEF TrackerType
    <3> QED BY <3>1, <3>3
  <2> QED BY <1>3, <2>2, <2>3
<1>5. sweeper'.on \in {sweeper.on, kept}
  BY DEF Speak, FallQuiet, Reconnect, SweepTakes, meetingVars
<1>6. SameCourse
  <2>1. kept # 0 => tracker[kept].merger.final \in Int /\ kept \in Slots
    BY <1>1 DEF TrackerType, MergerType
  <2> QED BY <1>1, <1>2, <1>4, <2>1 DEF SameCourse, MeetingTyped
<1>7. HandsOnKept'
  BY <1>1, <1>2, <1>4, <1>5, HandsStay
<1> QED BY <1>1, <1>2, <1>6, <1>7, BooksGoOn DEF OnceInv

\* A lane gives the lock back and leaves the meeting as it is.
LEMMA LeavingOnce ==
  ASSUME OnceInv, MeetingInv', NEW l \in Lanes,
         FullFrame(l) \/ IgnoreCaption(l) \/ CreateFails(l) \/ StartFails(l) \/ DoneStoring(l)
  PROVE  OnceInv'
<1>1. tracker \in [Slots -> TrackerType] /\ lane \in [Lanes -> LaneType] /\ MeetingTyped /\ MeetingTyped'
      /\ kept \in Slots \cup {0}
  BY DEF OnceInv, MeetingInv, MeetingTyped
<1>2. UNCHANGED <<kept, carried, tracker, sweeper, meetingRow, meetingLines>>
      /\ lane' = [lane EXCEPT ![l] = IdleLane]
  BY DEF FullFrame, IgnoreCaption, CreateFails, StartFails, DoneStoring
<1>3. SameCourse
  <2>1. kept # 0 => tracker[kept].merger.final \in Int /\ kept \in Slots
    BY <1>1 DEF TrackerType, MergerType
  <2> QED BY <1>1, <1>2, <2>1 DEF SameCourse, MeetingTyped
<1>4. \A k \in Lanes : lane'[k].on \in {0, lane[k].on}
  BY <1>1, <1>2 DEF IdleLane
<1>5. HandsOnKept'
  BY <1>1, <1>2, <1>4, HandsStay
<1> QED BY <1>1, <1>2, <1>3, <1>5, BooksGoOn DEF OnceInv

\* A frame at the tracker of an open meeting, or of one not yet started.
LEMMA FrameOnce ==
  ASSUME OnceInv, MeetingInv', NEW l \in Lanes, Feed(l) \/ TakeFed(l) \/ TakeStarted(l)
  PROVE  OnceInv'
<1>1. tracker \in [Slots -> TrackerType] /\ lane \in [Lanes -> LaneType] /\ MeetingTyped /\ MeetingTyped'
      /\ kept \in Slots \cup {0}
  BY Zenon DEF OnceInv, MeetingInv, MeetingTyped
<1>2. UNCHANGED <<kept, carried, sweeper, meetingRow, meetingLines>>
      /\ lane[l].at \in {"locking", "fed", "started"}
  BY DEF Feed, TakeFed, TakeStarted
<1>3. PICK t \in Slots : t = lane[l].on
  BY <1>1, <1>2 DEF OnceInv, MeetingInv, LockKept, LaneType
<1>4. \A k \in Lanes : lane'[k].on \in {0, lane[k].on}
  <2>1. \A k \in Lanes : lane[k] \in LaneType
    BY <1>1
  <2>2. CASE Feed(l)
    <3> DEFINE merger == IF tracker[t].open # 0 THEN tracker[t].merger ELSE Merger(tracker[t].ended)
    <3>1. PICK fed \in Fed(merger) :
            lane' = [lane EXCEPT ![l].at = "fed", ![l].merger = fed, ![l].segs = FromTo(merger.final, fed.final)]
      BY <1>3, <2>2 DEF Feed
    <3>2. lane'[l].on = lane[l].on /\ \A k \in Lanes : k # l => lane'[k] = lane[k]
      BY <1>1, <2>1, <3>1 DEF LaneType
    <3> QED BY <3>2, Zenon
  <2>3. CASE TakeFed(l)
    BY <1>1, <2>1, <2>3, SMTT(30) DEF TakeFed, LaneType, IdleLane
  <2>4. CASE TakeStarted(l)
    BY <1>1, <2>1, <2>4, SMTT(30) DEF TakeStarted, LaneType
  <2> QED BY <2>2, <2>3, <2>4
<1>5. tracker[t] \in TrackerType /\ tracker[t].merger \in MergerType /\ onScreen \in 0..MaxLines
  BY <1>1 DEF TrackerType, MeetingTyped
<1>6. /\ \A u \in Slots : u # t => tracker'[u] = tracker[u]
      /\ tracker'[t].open = tracker[t].open /\ tracker'[t].ended = tracker[t].ended
      /\ tracker'[t].notify = tracker[t].notify
      /\ tracker[t].open # 0 => /\ tracker'[t].merger.from = tracker[t].merger.from
                                /\ tracker[t].merger.final <= tracker'[t].merger.final
  <2>1. CASE Feed(l)
    <3>1. CASE tracker[t].open = 0
      <4>1. tracker' = tracker
        BY <1>3, <2>1, <3>1 DEF Feed
      <4> QED BY <3>1, <4>1
    <3>2. CASE tracker[t].open # 0
      <4>1. PICK fed \in Fed(tracker[t].merger) : tracker' = [tracker EXCEPT ![t].merger = fed]
        BY <1>3, <2>1, <3>2 DEF Feed
      <4>2. fed.from = tracker[t].merger.from /\ tracker[t].merger.final <= fed.final
        <5>1. PICK f \in tracker[t].merger.final..onScreen :
                fed = [tracker[t].merger EXCEPT !.seen = onScreen, !.final = f]
          BY <4>1 DEF Fed
        <5>2. tracker[t].merger.final \in Int /\ tracker[t].merger.final <= f
          BY <1>5, <5>1 DEF MergerType
        <5>3. fed.from = tracker[t].merger.from /\ fed.final = f
          BY <1>5, <5>1 DEF MergerType
        <5> QED BY <5>2, <5>3
      <4> QED BY <1>1, <1>5, <4>1, <4>2 DEF TrackerType
    <3> QED BY <3>1, <3>2
  <2>2. CASE TakeFed(l) \/ TakeStarted(l)
    <3>1. \/ tracker' = [tracker EXCEPT ![t].captions = "coming", ![t].unsaved = @ \o lane[l].segs]
          \/ tracker' = [tracker EXCEPT ![t].captions = "coming"]
          \/ tracker' = [tracker EXCEPT ![t].unsaved = @ \o lane[l].segs]
      BY <1>3, <2>2 DEF TakeFed, TakeStarted
    <3>2. tracker'[t].merger = tracker[t].merger /\ tracker[t].merger.final \in Int
      BY <1>1, <1>5, <3>1 DEF TrackerType, MergerType
    <3> QED BY <1>1, <1>5, <3>1, <3>2 DEF TrackerType
  <2> QED BY <2>1, <2>2
<1>7. SameCourse
  <2>1. t = kept
    BY <1>3 DEF OnceInv, HandsOnKept, Attached, Slots
  <2> QED BY <1>1, <1>2, <1>6, <2>1 DEF SameCourse, MeetingTyped
<1>8. HandsOnKept'
  BY <1>1, <1>2, <1>4, <1>6, HandsStay
<1> QED BY <1>1, <1>2, <1>7, <1>8, BooksGoOn DEF OnceInv

\* A line of the open meeting is stored, or the sweep counts every line it has seen final.
LEMMA StoringOnce ==
  ASSUME OnceInv, MeetingInv', (\E l \in Lanes : StoreLine(l)) \/ SweepStores \/ SweepEnds \/ SweepFails
  PROVE  OnceInv'
<1>1. tracker \in [Slots -> TrackerType] /\ lane \in [Lanes -> LaneType] /\ MeetingTyped /\ MeetingTyped'
      /\ kept \in Slots \cup {0} /\ sweeper.on \in Slots \cup {0}
      /\ meetingLines \in [MeetingIds -> SUBSET Lines] /\ meetingLines' \in [MeetingIds -> SUBSET Lines]
      /\ meetingRow \in [MeetingIds -> {"absent", "live", "ready"}]
  BY DEF OnceInv, MeetingInv, MeetingTyped
<1>2. UNCHANGED <<kept, carried, lane>>
  BY DEF StoreLine, SweepStores, SweepEnds, SweepFails
<1>3. kept # 0 => kept \in Slots /\ tracker[kept] \in TrackerType /\ tracker[kept].merger.final \in Int
                  /\ tracker[kept].merger \in MergerType
  BY <1>1 DEF TrackerType, MergerType
<1>4. ASSUME kept # 0, tracker[kept].open # 0, StoreNext(kept), UNCHANGED <<sweeper, meetingRow>>
      PROVE  OnceInv'
  <2>1. Within(tracker[kept].unsaved, tracker[kept].merger)
    BY <1>3, <1>4 DEF OnceInv, MeetingInv, HandsFit, TrackerFits
  <2>2. tracker[kept].unsaved \in Seq(Lines) /\ tracker[kept].unsaved # <<>>
    BY <1>3, <1>4 DEF TrackerType, StoreNext
  <2>3. PICK h \in Lines : h = Head(tracker[kept].unsaved) /\ h \in ToSet(tracker[kept].unsaved)
    <3> DEFINE un == tracker[kept].unsaved
    <3>1. un \in Seq(Lines) /\ un # <<>>
      BY <2>2
    <3> HIDE DEF un
    <3>2. Head(un) \in Lines /\ ToSet(un) = {Head(un)} \cup ToSet(Tail(un))
      BY <3>1, Headed
    <3> QED BY <3>2 DEF un
  <2>4. OneMoreLine
    BY <1>4, <2>1, <2>3 DEF OneMoreLine, StoreNext, Within
  <2>5. /\ \A t \in Slots : t # kept => tracker'[t] = tracker[t]
        /\ tracker'[kept].open = tracker[kept].open /\ tracker'[kept].ended = tracker[kept].ended
        /\ tracker'[kept].merger = tracker[kept].merger /\ tracker'[kept].notify = tracker[kept].notify
    BY <1>1, <1>3, <1>4 DEF StoreNext, TrackerType
  <2>6. SameCourse
    BY <1>1, <1>2, <1>3, <1>4, <2>5 DEF SameCourse
  <2>7. HandsOnKept'
    BY <1>2, <1>4, <2>5, HandsStay
  <2> QED BY <1>1, <2>4, <2>6, <2>7, BooksGoOn DEF OnceInv
<1>5. ASSUME NEW l \in Lanes, StoreLine(l) PROVE OnceInv'
  <2>1. lane[l].at = "storing" /\ StoreNext(lane[l].on) /\ UNCHANGED <<sweeper, meetingRow>>
    BY <1>5 DEF StoreLine
  <2>2. lane[l].on = kept /\ kept # 0
    BY <2>1 DEF OnceInv, MeetingInv, LockKept, HandsOnKept, Attached
  <2>3. tracker[kept].open # 0
    BY <2>1, <2>2 DEF OnceInv, MeetingInv, HandsFit, LaneFits
  <2> QED BY <1>4, <2>1, <2>2, <2>3
<1>6. CASE SweepStores
  <2>1. sweeper.on = kept /\ kept # 0 /\ tracker[kept].open # 0
    BY <1>6 DEF SweepStores, OnceInv, MeetingInv, LockKept, HandsFit, HandsOnKept, SweepKept
  <2> QED BY <1>4, <1>6, <2>1 DEF SweepStores
<1>7. CASE SweepEnds
  <2>1. sweeper.on = kept /\ kept # 0 /\ tracker[kept].open # 0
    BY <1>7 DEF SweepEnds, OnceInv, MeetingInv, LockKept, HandsOnKept, SweepKept
  <2>2. /\ UNCHANGED <<meetingRow, meetingLines>> /\ sweeper'.on = sweeper.on
        /\ tracker' = [tracker EXCEPT
             ![kept].unsaved = @ \o FromTo(tracker[kept].merger.final, tracker[kept].merger.seen),
             ![kept].merger.final = tracker[kept].merger.seen]
    BY <1>1, <1>7, <2>1 DEF SweepEnds, MeetingTyped
  <2>3. /\ \A t \in Slots : t # kept => tracker'[t] = tracker[t]
        /\ tracker'[kept].open = tracker[kept].open /\ tracker'[kept].ended = tracker[kept].ended
        /\ tracker'[kept].merger = [tracker[kept].merger EXCEPT !.final = tracker[kept].merger.seen]
        /\ tracker'[kept].notify = tracker[kept].notify
    BY <1>1, <1>3, <2>1, <2>2 DEF TrackerType
  <2>4. tracker[kept].merger.final <= tracker[kept].merger.seen
    BY <1>3, <2>1 DEF OnceInv, MeetingInv, HandsFit, TrackerFits, Ordered
  <2>5. tracker'[kept].merger.from = tracker[kept].merger.from
        /\ tracker'[kept].merger.final = tracker[kept].merger.seen
    BY <1>3, <2>1, <2>3 DEF MergerType
  <2>6. SameCourse
    BY <1>1, <1>2, <2>2, <2>3, <2>4, <2>5 DEF SameCourse
  <2>7. HandsOnKept'
    BY <1>2, <2>1, <2>2, <2>3, HandsStay
  <2> QED BY <1>1, <2>2, <2>6, <2>7, BooksGoOn DEF OnceInv
<1>8. CASE SweepFails
  <2>1. UNCHANGED <<tracker, meetingLines>> /\ sweeper'.on = 0
    BY <1>8 DEF SweepFails
  <2>2. \A m \in MeetingIds : meetingRow'[m] = "absent" => meetingRow[m] = "absent"
    BY <1>1, <1>8 DEF SweepFails
  <2>3. SameCourse
    BY <1>1, <1>2, <1>3, <2>1, <2>2 DEF SameCourse
  <2>4. HandsOnKept'
    BY <1>2, <2>1, HandsStay
  <2> QED BY <1>1, <2>1, <2>3, <2>4, BooksGoOn DEF OnceInv
<1> QED BY <1>5, <1>6, <1>7, <1>8

LEMMA CloseOnce ==
  ASSUME OnceInv, MeetingInv', NEW s \in Sockets, CloseSocket(s), LeavesNobody
  PROVE  OnceInv'
<1> DEFINE gone == {l \in Lanes : l[1] = s}
<1>1. tracker \in [Slots -> TrackerType] /\ lane \in [Lanes -> LaneType] /\ MeetingTyped /\ MeetingTyped'
      /\ kept \in Slots \cup {0}
      /\ meetingLines \in [MeetingIds -> SUBSET Lines] /\ meetingLines' \in [MeetingIds -> SUBSET Lines]
      /\ meetingRow \in [MeetingIds -> {"absent", "live", "ready"}]
  BY DEF OnceInv, MeetingInv, MeetingTyped
<1>2. /\ lane' = [l \in Lanes |-> IF l \in gone THEN IdleLane ELSE lane[l]]
      /\ UNCHANGED <<kept, carried, sweeper>> /\ s \in connected \ connected'
      /\ tracker' = [t \in Slots |-> IF t = kept /\ tracker[t].notify = s
                                     THEN [tracker[t] EXCEPT !.notify = NoSocket] ELSE tracker[t]]
  BY DEF CloseSocket
<1>3. meetingRow' = meetingRow \/ \E m \in NextMeeting : meetingRow' = [meetingRow EXCEPT ![m] = "live"]
  BY DEF CloseSocket
<1>4. \/ meetingLines' = meetingLines
      \/ \E l \in gone : /\ lane[l].at = "storing" /\ tracker[lane[l].on].unsaved # <<>>
                         /\ meetingLines' = [meetingLines EXCEPT ![tracker[lane[l].on].open] =
                               @ \cup {Head(tracker[lane[l].on].unsaved)}]
  BY DEF CloseSocket
<1>5. \A t \in Slots : /\ tracker'[t].open = tracker[t].open /\ tracker'[t].ended = tracker[t].ended
                       /\ tracker'[t].merger = tracker[t].merger
                       /\ tracker'[t].notify # tracker[t].notify => t = kept /\ tracker[t].notify = s
  <2> SUFFICES ASSUME NEW t \in Slots
               PROVE  /\ tracker'[t].open = tracker[t].open /\ tracker'[t].ended = tracker[t].ended
                      /\ tracker'[t].merger = tracker[t].merger
                      /\ tracker'[t].notify # tracker[t].notify => t = kept /\ tracker[t].notify = s
    OBVIOUS
  <2>1. tracker[t] \in TrackerType
    BY <1>1
  <2>2. CASE tracker'[t] = tracker[t]
    BY <2>2
  <2>3. CASE t = kept /\ tracker[t].notify = s /\ tracker'[t] = [tracker[t] EXCEPT !.notify = NoSocket]
    BY <2>1, <2>3 DEF TrackerType
  <2> QED BY <1>2, <2>2, <2>3
<1>6. \A l \in Lanes : IF l \in gone THEN lane'[l].on = 0 ELSE lane'[l] = lane[l]
  BY <1>2 DEF IdleLane
<1>7. Attached'
  <2> SUFFICES ASSUME NEW l \in Lanes, lane'[l].on # 0
               PROVE  lane'[l].on = kept /\ tracker'[kept].notify # NoSocket
    BY <1>2 DEF Attached
  <2>1. l[1] # s /\ lane'[l] = lane[l]
    BY <1>6
  <2>2. lane[l].on = kept /\ tracker[kept].notify # NoSocket /\ kept \in Slots
    BY <1>1, <2>1 DEF OnceInv, HandsOnKept, Attached
  <2>3. tracker[kept].notify # s
    BY <1>2, <2>1, <2>2 DEF LeavesNobody, Slots
  <2> QED BY <1>5, <2>1, <2>2, <2>3
<1>8. SweepKept'
  BY <1>2 DEF SweepKept, OnceInv, HandsOnKept
<1>9. SameCourse
  <2>1. kept # 0 => tracker[kept].merger.final \in Int /\ kept \in Slots
    BY <1>1 DEF TrackerType, MergerType
  <2>2. \A m \in MeetingIds : meetingRow'[m] = "absent" => meetingRow[m] = "absent"
    BY <1>1, <1>3 DEF NextMeeting
  <2> QED BY <1>1, <1>2, <1>5, <2>1, <2>2 DEF SameCourse
<1>10. meetingLines' = meetingLines \/ OneMoreLine
  <2> SUFFICES ASSUME NEW l \in gone, lane[l].at = "storing", tracker[lane[l].on].unsaved # <<>>,
                      meetingLines' = [meetingLines EXCEPT ![tracker[lane[l].on].open] =
                               @ \cup {Head(tracker[lane[l].on].unsaved)}]
               PROVE  OneMoreLine
    BY <1>4
  <2>1. lane[l].on = kept /\ kept \in Slots /\ kept # 0
    BY <1>1 DEF OnceInv, MeetingInv, LockKept, HandsOnKept, Attached, Slots
  <2>2. tracker[kept].open # 0 /\ tracker[kept] \in TrackerType
    BY <1>1, <2>1 DEF OnceInv, MeetingInv, HandsFit, LaneFits
  <2>3. Within(tracker[kept].unsaved, tracker[kept].merger)
    BY <2>1, <2>2 DEF OnceInv, MeetingInv, HandsFit, TrackerFits
  <2>4. PICK h \in Lines : h = Head(tracker[kept].unsaved) /\ h \in ToSet(tracker[kept].unsaved)
    <3> DEFINE un == tracker[kept].unsaved
    <3>1. un \in Seq(Lines) /\ un # <<>>
      BY <2>1, <2>2 DEF TrackerType
    <3> HIDE DEF un
    <3>2. Head(un) \in Lines /\ ToSet(un) = {Head(un)} \cup ToSet(Tail(un))
      BY <3>1, Headed
    <3> QED BY <3>2 DEF un
  <2> QED BY <2>1, <2>2, <2>3, <2>4 DEF OneMoreLine, Within
<1>11. Books'
  BY <1>1, <1>9, <1>10, BooksGoOn
<1> QED BY <1>7, <1>8, <1>11 DEF OnceInv, HandsOnKept

\* A meeting starts: its row is new, and its merger starts where the last meeting ended.
LEMMA CreateOnce ==
  ASSUME OnceInv, MeetingInv', NEW l \in Lanes, Create(l)
  PROVE  OnceInv'
<1>1. tracker \in [Slots -> TrackerType] /\ lane \in [Lanes -> LaneType] /\ MeetingTyped
      /\ kept \in Slots \cup {0} /\ meetingRow \in [MeetingIds -> {"absent", "live", "ready"}]
  BY DEF OnceInv, MeetingInv, MeetingTyped
<1>2. UNCHANGED <<kept, carried, sweeper, meetingLines>>
      /\ lane[l].at = "creating" /\ lane' = [lane EXCEPT ![l].at = "started"]
  BY DEF Create
<1>3. lane[l].on = kept /\ kept # 0 /\ kept \in Slots /\ LaneFits(lane[l], tracker[kept])
      /\ tracker[kept] \in TrackerType
  BY <1>1, <1>2 DEF OnceInv, MeetingInv, LockKept, HandsOnKept, Attached, HandsFit
<1>4. PICK m \in NextMeeting :
        /\ meetingRow' = [meetingRow EXCEPT ![m] = "live"]
        /\ tracker' = [tracker EXCEPT ![kept].open = m, ![kept].merger = lane[l].merger, ![kept].unsaved = <<>>]
  BY <1>3 DEF Create
<1>5. m \in MeetingIds /\ m # 0 /\ meetingLines[m] = {}
  BY DEF NextMeeting, OnceInv, Books, Rows, MeetingIds
<1>6. tracker[kept].open = 0 /\ lane[l].merger.from = tracker[kept].ended
  BY <1>2, <1>3 DEF LaneFits
<1>7. /\ \A t \in Slots : t # kept => tracker'[t] = tracker[t]
      /\ tracker'[kept].open = m /\ tracker'[kept].merger = lane[l].merger
      /\ tracker'[kept].notify = tracker[kept].notify
  BY <1>1, <1>3, <1>4 DEF TrackerType
<1>8. \A k \in Lanes : lane'[k].on \in {0, lane[k].on}
  <2>1. \A k \in Lanes : lane[k] \in LaneType
    BY <1>1
  <2> QED BY <1>1, <1>2, <2>1 DEF LaneType
<1>9. HandsOnKept'
  BY <1>2, <1>7, <1>8, HandsStay
<1>10. Base' = Base
  BY <1>2, <1>3, <1>5, <1>6, <1>7 DEF Base
<1>11. OthersIdle' /\ Carry'
  BY <1>2, <1>7 DEF OthersIdle, Carry, OnceInv, Books
<1>12. Rows'
  BY <1>1, <1>2, <1>4, <1>5, <1>7 DEF Rows, OnceInv, Books
<1>13. Past'
  BY <1>2, <1>6, <1>7, <1>10, <1>5 DEF Past, OnceInv, Books, MeetingIds
<1>14. Present'
  BY <1>2, <1>5, <1>7 DEF Present
<1>15. StoredOnce'
  BY <1>2 DEF StoredOnce, OnceInv, Books
<1> QED BY <1>9, <1>11, <1>12, <1>13, <1>14, <1>15 DEF OnceInv, Books

\* A tracker is registered, or the registered one is taken.
LEMMA TakeOnce ==
  ASSUME OnceInv, MeetingInv', NEW l \in Lanes, TakeTracker(l)
  PROVE  OnceInv'
<1>1. tracker \in [Slots -> TrackerType] /\ lane \in [Lanes -> LaneType] /\ MeetingTyped /\ MeetingTyped'
      /\ kept \in Slots \cup {0} /\ carried \in 0..MaxLines
  BY DEF OnceInv, MeetingInv, MeetingTyped
<1>2. PICK t \in Slots :
        /\ kept # 0 => t = kept
        /\ kept' = t /\ carried' = IF kept # 0 THEN carried ELSE 0
        /\ tracker' = [tracker EXCEPT ![t] =
             [(IF kept # 0 THEN @ ELSE IdleTracker(carried)) EXCEPT !.notify = l[1]]]
        /\ lane' = [lane EXCEPT ![l].at = "locking", ![l].on = t]
  BY DEF TakeTracker
<1>3. UNCHANGED <<sweeper, meetingRow, meetingLines>>
  BY DEF TakeTracker
<1>4. l[1] \in Sockets /\ l[1] # NoSocket
  BY MeetingBounds DEF Lanes
<1>5. \A k \in Lanes : lane'[k].on = IF k = l THEN t ELSE lane[k].on
  <2>1. lane[l] \in LaneType
    BY <1>1
  <2> QED BY <1>1, <1>2, <2>1 DEF LaneType
<1>6. \A u \in Slots : u # t => tracker'[u] = tracker[u]
  BY <1>1, <1>2
<1>7. CASE kept # 0
  <2>1. t = kept /\ tracker' = [tracker EXCEPT ![t].notify = l[1]] /\ tracker[t] \in TrackerType
    BY <1>1, <1>2, <1>7
  <2>2. /\ tracker'[t].open = tracker[t].open /\ tracker'[t].ended = tracker[t].ended
        /\ tracker'[t].merger = tracker[t].merger /\ tracker'[t].notify = l[1]
    BY <1>1, <2>1 DEF TrackerType
  <2>3. SameCourse
    <3>1. tracker[kept].merger.final \in Int
      BY <2>1 DEF TrackerType, MergerType
    <3> QED BY <1>1, <1>2, <1>3, <1>6, <1>7, <2>1, <2>2, <3>1 DEF SameCourse, MeetingTyped
  <2>4. HandsOnKept'
    BY <1>2, <1>3, <1>4, <1>5, <1>7, <2>1, <2>2, ZenonT(30) DEF HandsOnKept, Attached, SweepKept, OnceInv
  <2> QED BY <1>1, <1>3, <2>3, <2>4, BooksGoOn DEF OnceInv
<1>8. CASE kept = 0
  <2>1. /\ tracker'[t].open = 0 /\ tracker'[t].ended = carried /\ tracker'[t].notify = l[1]
        /\ carried' = 0 /\ kept' = t /\ t # 0
    <3>1. tracker'[t] = [IdleTracker(carried) EXCEPT !.notify = l[1]]
      BY <1>1, <1>2, <1>8
    <3> QED BY <1>2, <1>8, <3>1 DEF IdleTracker, Slots
  <2>2. \A k \in Lanes : lane[k].on = 0
    BY <1>8 DEF OnceInv, HandsOnKept, Attached
  <2>3. sweeper.on = 0
    BY <1>8 DEF OnceInv, HandsOnKept, SweepKept
  <2>4. HandsOnKept'
    BY <1>3, <1>4, <1>5, <2>1, <2>2, <2>3 DEF HandsOnKept, Attached, SweepKept
  <2>5. OthersIdle' /\ Carry'
    BY <1>6, <1>8, <2>1 DEF OthersIdle, Carry, OnceInv, Books, Slots
  <2>6. Rows' /\ Present' /\ StoredOnce'
    BY <1>3, <2>1 DEF Rows, Present, StoredOnce, OnceInv, Books
  <2>7. Past'
    BY <1>3, <1>8, <2>1 DEF Past, Base, OnceInv, Books
  <2> QED BY <2>4, <2>5, <2>6, <2>7 DEF OnceInv, Books
<1> QED BY <1>7, <1>8

\* A tracker that is idle, and that no socket hears, is dropped, or stays as it is.
LEMMA SweepPassesOnce ==
  ASSUME OnceInv, MeetingInv', SweepPasses
  PROVE  OnceInv'
<1>1. tracker \in [Slots -> TrackerType] /\ lane \in [Lanes -> LaneType] /\ MeetingTyped /\ MeetingTyped'
      /\ kept \in Slots \cup {0} /\ sweeper.on \in Slots \cup {0}
  BY DEF OnceInv, MeetingInv, MeetingTyped
<1>2. /\ UNCHANGED <<tracker, lane, meetingRow, meetingLines>> /\ sweeper'.on = 0
      /\ DropIdle(sweeper.on, tracker[sweeper.on]) /\ sweeper.at = "locking"
  BY DEF SweepPasses
<1>3. sweeper.on = kept /\ kept \in Slots /\ kept # 0 /\ tracker[kept] \in TrackerType
  BY <1>1, <1>2 DEF OnceInv, MeetingInv, LockKept, HandsOnKept, SweepKept
<1>4. CASE UNCHANGED <<kept, carried>>
  <2>1. SameCourse
    <3>1. tracker[kept].merger.final \in Int
      BY <1>3 DEF TrackerType, MergerType
    <3> QED BY <1>1, <1>2, <1>4, <3>1 DEF SameCourse, MeetingTyped
  <2>2. HandsOnKept'
    BY <1>2, <1>4, HandsStay
  <2> QED BY <1>1, <1>2, <2>1, <2>2, BooksGoOn DEF OnceInv
<1>5. CASE ~UNCHANGED <<kept, carried>>
  <2>1. /\ tracker[kept].open = 0 /\ tracker[kept].notify = NoSocket /\ kept' = 0
        /\ carried' = IF tracker[kept].ended > 0 THEN tracker[kept].ended ELSE carried
    BY <1>2, <1>3, <1>5 DEF DropIdle
  <2>2. carried = 0 /\ tracker[kept].ended \in 0..MaxLines /\ MaxLines \in Nat
    BY <1>3, MeetingBounds DEF OnceInv, Books, Carry, TrackerType
  <2>3. Base' = Base
    BY <1>3, <2>1, <2>2 DEF Base
  <2>4. \A k \in Lanes : lane[k].on = 0
    BY <2>1 DEF OnceInv, HandsOnKept, Attached
  <2>5. HandsOnKept'
    BY <1>2, <2>4 DEF HandsOnKept, Attached, SweepKept
  <2>6. OthersIdle' /\ Carry'
    BY <1>2, <2>1 DEF OthersIdle, Carry, OnceInv, Books
  <2>7. Rows' /\ Present' /\ StoredOnce'
    BY <1>2, <2>1 DEF Rows, Present, StoredOnce, OnceInv, Books
  <2>8. Past'
    <3>1. \A m \in MeetingIds : m # 0
      BY DEF MeetingIds
    <3> QED BY <1>2, <2>1, <2>3, <3>1 DEF Past, OnceInv, Books
  <2> QED BY <2>5, <2>6, <2>7, <2>8 DEF OnceInv, Books
<1> QED BY <1>4, <1>5

\* A meeting ends: whatever its rows hold is among the lines that its merger has seen.
LEMMA SweepFinishesOnce ==
  ASSUME OnceInv, MeetingInv', SweepFinishes
  PROVE  OnceInv'
<1>1. tracker \in [Slots -> TrackerType] /\ lane \in [Lanes -> LaneType] /\ MeetingTyped /\ MeetingTyped'
      /\ kept \in Slots \cup {0} /\ sweeper.on \in Slots \cup {0} /\ MaxLines \in Nat
      /\ meetingRow \in [MeetingIds -> {"absent", "live", "ready"}]
      /\ meetingLines \in [MeetingIds -> SUBSET Lines]
  BY MeetingBounds DEF OnceInv, MeetingInv, MeetingTyped
<1>2. sweeper.on = kept /\ kept \in Slots /\ kept # 0 /\ tracker[kept] \in TrackerType
      /\ tracker[kept].open # 0
  BY <1>1 DEF SweepFinishes, OnceInv, MeetingInv, LockKept, HandsFit, HandsOnKept, SweepKept
<1>3. PICK o \in MeetingIds, m \in MergerType : o = tracker[kept].open /\ m = tracker[kept].merger
  BY <1>2 DEF TrackerType
<1>4. m.from \in 0..MaxLines /\ m.final \in 0..MaxLines /\ m.seen \in 0..MaxLines
      /\ m.from <= m.final /\ m.final <= m.seen
  BY <1>2, <1>3 DEF MergerType, OnceInv, MeetingInv, HandsFit, TrackerFits, Ordered
<1> DEFINE after == [IdleTracker(m.seen) EXCEPT !.notify = tracker[kept].notify]
<1>5. after.open = 0 /\ after.ended = m.seen /\ after.notify = tracker[kept].notify
  BY DEF IdleTracker
<1>6. /\ UNCHANGED <<lane, meetingLines>> /\ sweeper'.on = 0
      /\ meetingRow' = [meetingRow EXCEPT ![o] = "ready"]
      /\ tracker' = [tracker EXCEPT ![kept] = after] /\ DropIdle(kept, after)
  BY <1>2, <1>3 DEF SweepFinishes
<1> HIDE DEF after
<1>7. tracker'[kept] = after /\ \A t \in Slots : t # kept => tracker'[t] = tracker[t]
  BY <1>1, <1>2, <1>6
<1>8. \/ UNCHANGED <<kept, carried>>
      \/ /\ kept' = 0 /\ after.notify = NoSocket
         /\ carried' = IF m.seen > 0 THEN m.seen ELSE carried
  BY <1>5, <1>6 DEF DropIdle
<1>9. Base = m.from /\ carried = 0
  BY <1>2, <1>3 DEF Base, OnceInv, Books, Carry
<1>10. Base' = m.seen
  BY <1>2, <1>4, <1>5, <1>7, <1>8, <1>9 DEF Base
<1>11. HandsOnKept'
  <2>1. CASE UNCHANGED <<kept, carried>>
    BY <1>5, <1>6, <1>7, <2>1, HandsStay
  <2>2. CASE kept' = 0 /\ after.notify = NoSocket
    <3>1. \A k \in Lanes : lane[k].on = 0
      BY <1>5, <2>2 DEF OnceInv, HandsOnKept, Attached
    <3> QED BY <1>6, <3>1 DEF HandsOnKept, Attached, SweepKept
  <2> QED BY <1>8, <2>1, <2>2
<1>12. \A t \in Slots : tracker'[t].open = 0
  BY <1>5, <1>7 DEF OnceInv, Books, OthersIdle
<1>13. OthersIdle' /\ Carry'
  BY <1>8, <1>9, <1>12 DEF OthersIdle, Carry
<1>14. Rows'
  BY <1>1, <1>2, <1>6, <1>7, <1>5, <1>8 DEF Rows, OnceInv, Books
<1>15. Present' /\ StoredOnce'
  BY <1>2, <1>5, <1>6, <1>7, <1>8 DEF Present, StoredOnce, OnceInv, Books
<1>16. Past'
  <2>1. \A n \in MeetingIds : \A i \in meetingLines[n] : i <= m.seen
    <3>1. \A n \in MeetingIds : meetingLines[n] \subseteq Int
      BY <1>1 DEF Lines
    <3>2. \A i \in meetingLines[o] : i <= m.final
      BY <1>2, <1>3 DEF OnceInv, Books, Present
    <3>3. \A n \in MeetingIds : n # o => \A i \in meetingLines[n] : i <= m.from
      BY <1>2, <1>3, <1>9 DEF OnceInv, Books, Past
    <3> QED BY <1>4, <3>1, <3>2, <3>3
  <2> QED BY <1>6, <1>10, <2>1 DEF Past
<1> QED BY <1>11, <1>13, <1>14, <1>15, <1>16 DEF OnceInv, Books

LEMMA MeetingInit_Once == MeetingInit => OnceInv
<1> SUFFICES ASSUME MeetingInit PROVE OnceInv
  OBVIOUS
<1>1. MeetingInv
  BY MeetingInit_Inv
<1>2. HandsOnKept
  BY DEF MeetingInit, HandsOnKept, Attached, SweepKept, IdleLane
<1>3. \A t \in Slots : tracker[t].open = 0
  BY DEF MeetingInit, IdleTracker
<1>4. kept = 0 /\ \A m \in MeetingIds : meetingLines[m] = {}
  BY DEF MeetingInit
<1>5. Books
  BY <1>3, <1>4 DEF Books, OthersIdle, Rows, Carry, Past, Present, StoredOnce
<1> QED BY <1>1, <1>2, <1>5 DEF OnceInv

LEMMA OnceStep == ASSUME OnceInv, [MeetingNext]_meetingVars, [LeavesNobody]_meetingVars PROVE OnceInv'
<1>1. MeetingInv'
  BY MeetingStep DEF OnceInv
<1>2. CASE Speak \/ FallQuiet \/ (\E s \in Sockets : Reconnect(s)) \/ SweepTakes \/ UNCHANGED meetingVars
  BY <1>1, <1>2, QuietOnce
<1>3. ASSUME NEW l \in Lanes, TakeTracker(l) \/ LaneStep(l) \/ IgnoreCaption(l) \/ CreateFails(l) \/ StartFails(l) PROVE OnceInv'
  BY <1>1, <1>3, TakeOnce, LeavingOnce, FrameOnce, CreateOnce, StoringOnce DEF LaneStep
<1>4. ASSUME NEW s \in Sockets, CloseSocket(s) PROVE OnceInv'
  <2>1. connected' # connected
    BY <1>4 DEF CloseSocket
  <2>2. LeavesNobody
    BY <2>1 DEF meetingVars
  <2> QED BY <1>1, <1>4, <2>2, CloseOnce
<1>5. CASE SweepStep \/ SweepFails
  BY <1>1, <1>5, QuietOnce, StoringOnce, SweepFinishesOnce, SweepPassesOnce DEF SweepStep
<1> QED BY <1>2, <1>3, <1>4, <1>5 DEF MeetingNext

\* For any number of sockets, as long as the socket a tracker notifies leaves no other socket's frame at
\* it when it goes away: no line is stored in two meetings, through ended meetings, dropped and remade
\* trackers and their carried lines (_start, end, _drop and get in screen/meetings.py).  Without that
\* condition a sweep drops a tracker under a waiting frame, and the line may be stored twice.
THEOREM LinesAreStoredOnce == MeetingSpec /\ [][LeavesNobody]_meetingVars => []StoredOnce
<1>1. OnceInv => StoredOnce
  BY DEF OnceInv, Books
<1> QED BY <1>1, MeetingInit_Once, OnceStep, PTL DEF MeetingSpec

\* The condition is true where a window has one socket at a time, however often it drops and comes back.
THEOREM OneSocketStoresOnce ==
  ASSUME NEW s, Sockets = {s}
  PROVE  MeetingSpec => []StoredOnce
<1>1. [MeetingNext]_meetingVars => [LeavesNobody]_meetingVars
  <2>1. \A l \in Lanes : l[1] = s
    BY DEF Lanes
  <2>2. MeetingNext => connected \ connected' \subseteq Sockets
    BY DEF MeetingNext, Speak, FallQuiet, TakeTracker, LaneStep, FullFrame, IgnoreCaption, Feed, TakeFed, Create, TakeStarted,
           StoreLine, DoneStoring, CreateFails, StartFails, CloseSocket, Reconnect, SweepStep, SweepTakes,
           SweepEnds, SweepStores, SweepFinishes, SweepPasses, SweepFails
  <2> QED BY <2>1, <2>2 DEF LeavesNobody
<1> QED BY <1>1, LinesAreStoredOnce, PTL DEF MeetingSpec
=============================================================================
