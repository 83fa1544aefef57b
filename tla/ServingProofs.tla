---------------------------- MODULE ServingProofs ----------------------------
(***************************************************************************)
(* Theorems about the process that serves sessions, for every value of the *)
(* bounds: what each of its parts never does.                              *)
(*                                                                         *)
(* Opening the pools: OpensAreSafe.  One thread of a process opens at a    *)
(* time, and only without a fresh failure (OpensAlone), so a window of one *)
(* has one failure to count (FailuresKept); what a pool is cached over was *)
(* applied when its thread passed the apply (StripsApplied, PoolsApplied). *)
(*                                                                         *)
(* Borrowing: BorrowsAreSafe.  A connection is once in the pool            *)
(* (PoolHasOnce), and a watchdog that may still sever watches a borrow     *)
(* that is at work (WatchesWork): the lock that disarming shares with      *)
(* severing is why.                                                        *)
(*                                                                         *)
(* The servers asked over HTTP: SttIsServed, AnswersAreFresh and           *)
(* RedIsEarned.  A component is red only once its timer ran out, and no    *)
(* timer started before its component was last heard (TimersAreHonest).    *)
(*                                                                         *)
(* The capture PCs' sockets: DevicesAreSafe.  A token that is not good now *)
(* never will be again (TokensMade), and only such a one is told of and    *)
(* has its sockets closed (OnlyBadClose).                                  *)
(*                                                                         *)
(* Captions and frames: TurnsAreTaken, PaneIsTold and FramesAreWhole.      *)
(* A user whose jobs wait stands once in the line (LineServes);            *)
(* what a client will have heard once the messages under way have come is  *)
(* what its socket was told (ComesTo); and every line of a frame is whole  *)
(* in a piece still to post or in one that was read (CoveredBy).           *)
(*                                                                         *)
(* The provider's keys: KeysAreSpared.  Once the window is over, every     *)
(* refetch counted in it is one of a thread that has yet to stamp it       *)
(* (RefetchesOwned).                                                       *)
(*                                                                         *)
(* The clients: CuesAreOrdered and OffersAreTaken.  A round of the cue     *)
(* band leaves cues out of the line but never swaps two (Thins), and a new *)
(* one joins at its end; a turn is held once, so it stays where it is.     *)
(* What an update check found is newer than the app, and what is shown as  *)
(* downloading is being fetched (UpdateInv).                               *)
(***************************************************************************)
EXTENDS PoolOpening, PoolBorrow, OidcKeys, FairTurns, OcrReading, SttServer, StatusLights,
        DeviceSockets, CaptionPane, CaptureView, AppUpdates, FiniteSetTheorems, SequenceTheorems, TLAPS

-----------------------------------------------------------------------------
(* Opening the database's pools.                                            *)

OpenTypes ==
  /\ process \in [Processes -> {"booting", "serving", "dead"}]
  /\ pool \in [Processes -> SUBSET PoolStores]
  /\ at \in [Callers -> {"idle", "store", "verdict", "connect", "lockSchema", "apply", "backoff", "strip"}]
  /\ severed \in [Callers -> BOOLEAN]
  /\ verdict \in [Processes -> {"none", "unreachable", "locked"}]

\* One thread of a process at a time opens a pool, and it found no fresh failure.
OpensAlone ==
  /\ \A c, d \in Callers : c # d /\ c.process = d.process => ~(HoldsVerdict(c) /\ HoldsVerdict(d))
  /\ \A c \in Callers : HoldsVerdict(c) => verdict[c.process] = "none"

\* A failure is counted while its verdict is kept.
FailuresKept == failures = [p \in Processes |-> IF verdict[p] = "none" THEN 0 ELSE 1]

\* Only the user store is stripped, and only over its own schema.
StripsApplied == \A c \in Callers : at[c] = "strip" => c.store \in applied
PoolsApplied == \A p \in Processes : pool[p] \subseteq applied

OpenInv == OpenTypes /\ OpensAlone /\ FailuresKept /\ StripsApplied /\ PoolsApplied /\ LockIsLive


\* What dies with a process leaves the others as they are.
LEMMA DiesWell ==
  ASSUME OpenInv, NEW p \in Processes, Died(p), UNCHANGED <<severed, applied>>
  PROVE  OpenInv'
<1>1. OpenTypes'
  BY DEF OpenInv, OpenTypes, Died
<1>2. OpensAlone'
  BY DEF OpenInv, OpenTypes, OpensAlone, HoldsVerdict, Died, Processes
<1>3. FailuresKept'
  BY DEF OpenInv, OpenTypes, FailuresKept, Died
<1>4. StripsApplied' /\ PoolsApplied'
  BY DEF OpenInv, OpenTypes, StripsApplied, PoolsApplied, Died
<1>5. LockIsLive'
  BY PoolBounds DEF OpenInv, OpenTypes, LockIsLive, Died
<1>6. QED
  BY <1>1, <1>2, <1>3, <1>4, <1>5 DEF OpenInv

\* A thread whose open raised lets go of everything it held.
LEMMA FailsWell ==
  ASSUME OpenInv, NEW c \in Callers, HoldsVerdict(c), NEW why \in {"unreachable", "locked", "rejected"},
         OpenFails(c, why), UNCHANGED <<severed, applied>>
  PROVE  OpenInv'
<1>p. c.process \in Processes
  BY DEF Processes
<1>1. CASE c.boots /\ process[c.process] = "booting" /\ why \in {"rejected", "locked"}
  <2>1. Died(c.process)
    BY <1>1 DEF OpenFails
  <2>2. QED
    BY <2>1, <1>p, DiesWell
<1>2. CASE ~(c.boots /\ process[c.process] = "booting" /\ why \in {"rejected", "locked"})
  <2>1. /\ at' = [at EXCEPT ![c] = "idle"]
        /\ verdict' = IF Remembered(why) THEN [verdict EXCEPT ![c.process] = why] ELSE verdict
        /\ failures' = IF why = "rejected" THEN failures
                       ELSE [failures EXCEPT ![c.process] = @ + 1]
        /\ schemaLock' = IF schemaLock = c THEN NoThread ELSE schemaLock
        /\ process' = IF c.boots THEN [process EXCEPT ![c.process] = "serving"] ELSE process
        /\ pool' = pool
    BY <1>2 DEF OpenFails
  <2>2. OpenTypes'
    BY <2>1, <1>p DEF OpenInv, OpenTypes, Remembered
  <2>3. OpensAlone'
    BY <2>1, <1>p DEF OpenInv, OpenTypes, OpensAlone, HoldsVerdict, Remembered
  <2>4. FailuresKept'
    <3>1. verdict[c.process] = "none"
      BY DEF OpenInv, OpensAlone
    <3>2. CASE why = "rejected"
      BY <2>1, <3>2 DEF OpenInv, FailuresKept, Remembered
    <3>3. CASE why # "rejected"
      BY <2>1, <3>1, <3>3, <1>p DEF OpenInv, OpenTypes, FailuresKept, Remembered
    <3>4. QED
      BY <3>2, <3>3
  <2>5. StripsApplied' /\ PoolsApplied'
    BY <2>1 DEF OpenInv, OpenTypes, StripsApplied, PoolsApplied
  <2>6. LockIsLive'
    BY <2>1, PoolBounds DEF OpenInv, OpenTypes, LockIsLive
  <2>7. QED
    BY <2>2, <2>3, <2>4, <2>5, <2>6 DEF OpenInv
<1>3. QED
  BY <1>1, <1>2

\* A step of one thread that keeps the advisory lock and fails nothing.
LEMMA MovesWell ==
  ASSUME OpenInv, NEW c \in Callers,
         NEW to \in {"idle", "store", "verdict", "connect", "lockSchema", "backoff", "strip"},
         at' = [at EXCEPT ![c] = to], OpenTypes',
         UNCHANGED <<verdict, failures>>,
         to \in {"connect", "lockSchema", "backoff", "strip"} =>
           /\ verdict[c.process] = "none"
           /\ \A d \in Callers \ {c} : d.process = c.process => ~HoldsVerdict(d),
         schemaLock' = IF schemaLock = c THEN NoThread ELSE schemaLock,
         \A d \in Callers \ {c} : severed'[d] = severed[d],
         applied \subseteq applied', to = "strip" => c.store \in applied',
         PoolsApplied'
  PROVE  OpenInv'
<1>1. OpensAlone'
  BY DEF OpenInv, OpenTypes, OpensAlone, HoldsVerdict
<1>2. FailuresKept'
  BY DEF OpenInv, FailuresKept
<1>3. StripsApplied'
  BY DEF OpenInv, OpenTypes, StripsApplied
<1>4. LockIsLive'
  BY PoolBounds DEF OpenInv, OpenTypes, LockIsLive
<1>5. QED
  BY <1>1, <1>2, <1>3, <1>4 DEF OpenInv

LEMMA OpenInvInit == PoolInit => OpenInv
<1>1. SUFFICES ASSUME PoolInit PROVE OpenInv
  OBVIOUS
<1>2. OpenTypes /\ OpensAlone /\ StripsApplied
  BY <1>1 DEF PoolInit, OpenTypes, OpensAlone, StripsApplied, HoldsVerdict
<1>3. FailuresKept /\ PoolsApplied
  BY <1>1 DEF PoolInit, FailuresKept, PoolsApplied
<1>4. LockIsLive
  BY <1>1, PoolBounds DEF PoolInit, LockIsLive
<1>5. QED
  BY <1>2, <1>3, <1>4 DEF OpenInv

LEMMA OpenInvHolds == OpenInv /\ [PoolNext]_poolVars => OpenInv'
<1>1. SUFFICES ASSUME OpenInv, [PoolNext]_poolVars PROVE OpenInv'
  OBVIOUS
<1>q. ASSUME NEW c \in Callers PROVE c.process \in Processes /\ c.store \in PoolStores
  BY <1>q, PoolBounds DEF Processes, PoolStores
<1>0. OpenTypes /\ OpensAlone /\ PoolsApplied
  BY <1>1 DEF OpenInv
<1>2. ASSUME NEW c \in Callers, CallStore(c) PROVE OpenInv'
  <2>0. OpenTypes' /\ PoolsApplied'
    BY <1>0, <1>2 DEF OpenTypes, PoolsApplied, CallStore
  <2>1. at' = [at EXCEPT ![c] = "store"] /\ schemaLock # c
    BY <1>1, <1>2 DEF CallStore, OpenInv, LockIsLive
  <2>2. QED
    BY <1>1, <1>2, <2>0, <2>1, MovesWell DEF CallStore
<1>3. ASSUME NEW c \in Callers, EnterStore(c) PROVE OpenInv'
  <2>0. OpenTypes' /\ PoolsApplied'
    BY <1>0, <1>3, <1>q DEF OpenTypes, PoolsApplied, EnterStore, Returns
  <2>1. PICK to \in {"idle", "verdict"} : at' = [at EXCEPT ![c] = to]
    BY <1>3 DEF EnterStore, Returns
  <2>2. schemaLock # c
    BY <1>1, <1>3 DEF EnterStore, OpenInv, LockIsLive
  <2>3. QED
    BY <1>1, <1>3, <2>0, <2>1, <2>2, MovesWell DEF EnterStore
<1>4. ASSUME NEW c \in Callers, EnterVerdict(c) PROVE OpenInv'
  <2>1. CASE Died(c.process)
    BY <1>1, <1>4, <1>q, <2>1, DiesWell DEF EnterVerdict
  <2>2. CASE ~Died(c.process)
    <3>0. PICK to \in {"idle", "connect"} :
            /\ at' = [at EXCEPT ![c] = to] /\ (to = "connect" => verdict[c.process] = "none")
            /\ UNCHANGED <<pool, verdict, failures, schemaLock>>
      BY <1>4, <2>2 DEF EnterVerdict, Returns
    <3>1. OpenTypes' /\ PoolsApplied'
      BY <1>0, <1>4, <1>q, <2>2, <3>0 DEF OpenTypes, PoolsApplied, EnterVerdict, Returns
    <3>2. schemaLock # c
      BY <1>1, <1>4 DEF EnterVerdict, OpenInv, LockIsLive
    <3>3. QED
      BY <1>1, <1>4, <3>0, <3>1, <3>2, MovesWell DEF EnterVerdict
  <2>3. QED
    BY <2>1, <2>2
<1>5. ASSUME NEW c \in Callers, ConnectPool(c) PROVE OpenInv'
  <2>0. HoldsVerdict(c) /\ schemaLock # c
    BY <1>1, <1>5 DEF ConnectPool, HoldsVerdict, OpenInv, LockIsLive
  <2>1. CASE database.up
    <3>0. OpenTypes' /\ PoolsApplied'
      BY <1>0, <1>5, <2>1 DEF OpenTypes, PoolsApplied, ConnectPool
    <3>1. verdict[c.process] = "none" /\ \A d \in Callers \ {c} : d.process = c.process => ~HoldsVerdict(d)
      BY <1>0, <2>0 DEF OpensAlone
    <3>2. \A d \in Callers \ {c} : severed'[d] = severed[d]
      BY <1>0, <1>5, <2>1 DEF ConnectPool, OpenTypes
    <3>3. at' = [at EXCEPT ![c] = "lockSchema"] /\ UNCHANGED <<verdict, failures, schemaLock, applied>>
      BY <1>5, <2>1 DEF ConnectPool
    <3>4. QED
      BY <1>1, <2>0, <3>0, <3>1, <3>2, <3>3, MovesWell
  <2>2. CASE ~database.up
    BY <1>1, <1>5, <2>0, <2>2, FailsWell DEF ConnectPool
  <2>3. QED
    BY <2>1, <2>2
<1>6. ASSUME NEW c \in Callers, LockSchema(c) PROVE OpenInv'
  <2>1. CASE severed[c]
    <3>1. HoldsVerdict(c)
      BY <1>6 DEF LockSchema, HoldsVerdict
    <3>2. QED
      BY <1>1, <1>6, <2>1, <3>1, FailsWell DEF LockSchema
  <2>2. CASE ~severed[c]
    <3>0. /\ at' = [at EXCEPT ![c] = "apply"] /\ schemaLock = NoThread /\ schemaLock' = c
          /\ at[c] = "lockSchema"
          /\ UNCHANGED <<process, pool, verdict, failures, severed, applied>>
      BY <1>6, <2>2 DEF LockSchema
    <3>1. OpenTypes' /\ PoolsApplied' /\ FailuresKept'
      BY <1>1, <3>0 DEF OpenInv, OpenTypes, PoolsApplied, FailuresKept
    <3>2. OpensAlone' /\ StripsApplied'
      BY <1>1, <3>0 DEF OpenInv, OpenTypes, OpensAlone, HoldsVerdict, StripsApplied
    <3>3. LockIsLive'
      BY <1>1, <2>2, <3>0, PoolBounds DEF OpenInv, OpenTypes, LockIsLive
    <3>4. QED
      BY <3>1, <3>2, <3>3 DEF OpenInv
  <2>3. QED
    BY <2>1, <2>2
<1>7. ASSUME NEW c \in Callers, Apply(c) PROVE OpenInv'
  <2>0. /\ HoldsVerdict(c) /\ verdict[c.process] = "none"
        /\ \A d \in Callers \ {c} : d.process = c.process => ~HoldsVerdict(d)
    BY <1>0, <1>7 DEF Apply, HoldsVerdict, OpensAlone
  <2>1. CASE \E why \in {"unreachable", "locked", "rejected"} : OpenFails(c, why) /\ UNCHANGED applied
    BY <1>1, <1>7, <2>0, <2>1, FailsWell DEF Apply
  <2>2. CASE ~severed[c] /\ LockTimeout(c) /\ UNCHANGED applied /\ attempt[c] # SchemaAttempts
    <3>0. /\ at' = [at EXCEPT ![c] = "backoff"] /\ schemaLock' = NoThread
          /\ UNCHANGED <<process, pool, verdict, failures, severed, applied>>
      BY <1>7, <2>2 DEF Apply, LockTimeout
    <3>1. OpenTypes' /\ PoolsApplied'
      BY <1>0, <3>0 DEF OpenTypes, PoolsApplied
    <3>2. schemaLock = c
      BY <1>1, <1>7, <2>2 DEF Apply, OpenInv, LockIsLive
    <3>3. QED
      BY <1>1, <2>0, <3>0, <3>1, <3>2, MovesWell
  <2>3. CASE ~severed[c] /\ Applied(c)
    <3>0. /\ schemaLock' = NoThread /\ UNCHANGED <<verdict, failures, severed>>
          /\ applied' = applied \cup {"conversations", c.store}
      BY <1>7, <2>3 DEF Apply, Applied
    <3>1. PICK to \in {"idle", "strip"} : at' = [at EXCEPT ![c] = to]
      BY <2>3 DEF Applied, Returns
    <3>2. OpenTypes'
      BY <1>0, <1>q, <2>3, <3>0 DEF OpenTypes, Applied, Returns
    <3>3. PoolsApplied'
      BY <1>0, <1>q, <2>3, <3>0 DEF OpenTypes, PoolsApplied, Applied, Returns
    <3>4. schemaLock = c
      BY <1>1, <1>7, <2>3 DEF Apply, OpenInv, LockIsLive
    <3>5. QED
      BY <1>1, <2>0, <3>0, <3>1, <3>2, <3>3, <3>4, MovesWell
  <2>4. QED
    BY <1>7, <2>1, <2>2, <2>3 DEF Apply, LockTimeout
<1>8. ASSUME NEW c \in Callers, NextAttempt(c) PROVE OpenInv'
  <2>0. HoldsVerdict(c) /\ schemaLock # c
    BY <1>1, <1>8 DEF NextAttempt, HoldsVerdict, OpenInv, LockIsLive
  <2>1. CASE database.up
    <3>0. OpenTypes' /\ PoolsApplied'
      BY <1>0, <1>8, <2>1 DEF OpenTypes, PoolsApplied, NextAttempt
    <3>1. verdict[c.process] = "none" /\ \A d \in Callers \ {c} : d.process = c.process => ~HoldsVerdict(d)
      BY <1>0, <2>0 DEF OpensAlone
    <3>2. \A d \in Callers \ {c} : severed'[d] = severed[d]
      BY <1>0, <1>8, <2>1 DEF NextAttempt, OpenTypes
    <3>3. at' = [at EXCEPT ![c] = "lockSchema"] /\ UNCHANGED <<verdict, failures, schemaLock, applied>>
      BY <1>8, <2>1 DEF NextAttempt
    <3>4. QED
      BY <1>1, <2>0, <3>0, <3>1, <3>2, <3>3, MovesWell
  <2>2. CASE ~database.up
    BY <1>1, <1>8, <2>0, <2>2, FailsWell DEF NextAttempt
  <2>3. QED
    BY <2>1, <2>2
<1>9. ASSUME NEW c \in Callers, Strip(c) PROVE OpenInv'
  <2>0. HoldsVerdict(c) /\ schemaLock # c
    BY <1>1, <1>9 DEF Strip, HoldsVerdict, OpenInv, LockIsLive
  <2>1. CASE database.up
    <3>1. at' = [at EXCEPT ![c] = "idle"] /\ UNCHANGED <<verdict, failures, schemaLock, applied, severed>>
      BY <1>9, <2>1 DEF Strip, Returns
    <3>2. OpenTypes'
      BY <1>0, <1>9, <1>q, <2>1 DEF OpenTypes, Strip, Returns
    <3>3. PoolsApplied'
      BY <1>1, <1>9, <1>q, <2>1 DEF OpenInv, OpenTypes, PoolsApplied, StripsApplied, Strip, Returns
    <3>4. QED
      BY <1>1, <2>0, <3>1, <3>2, <3>3, MovesWell
  <2>2. CASE ~database.up
    BY <1>1, <1>9, <2>0, <2>2, FailsWell DEF Strip
  <2>3. QED
    BY <2>1, <2>2
<1>10. ASSUME NEW p \in Processes, VerdictExpires(p) PROVE OpenInv'
  <2>1. OpenTypes' /\ OpensAlone'
    BY <1>0, <1>10 DEF OpenTypes, OpensAlone, HoldsVerdict, VerdictExpires
  <2>2. FailuresKept'
    BY <1>1, <1>10 DEF OpenInv, OpenTypes, FailuresKept, VerdictExpires
  <2>3. StripsApplied' /\ PoolsApplied' /\ LockIsLive'
    BY <1>1, <1>10 DEF OpenInv, StripsApplied, PoolsApplied, LockIsLive, VerdictExpires
  <2>4. QED
    BY <2>1, <2>2, <2>3 DEF OpenInv
<1>11. ASSUME NEW p \in Processes, Crash(p) PROVE OpenInv'
  BY <1>1, <1>11, DiesWell DEF Crash
<1>12. ASSUME NEW p \in Processes, Boot(p) PROVE OpenInv'
  <2>1. OpenTypes' /\ OpensAlone'
    BY <1>0, <1>12 DEF OpenTypes, OpensAlone, HoldsVerdict, Boot
  <2>2. FailuresKept' /\ StripsApplied' /\ PoolsApplied' /\ LockIsLive'
    BY <1>1, <1>12 DEF OpenInv, FailuresKept, StripsApplied, PoolsApplied, LockIsLive, Boot
  <2>3. QED
    BY <2>1, <2>2 DEF OpenInv
<1>13. ASSUME NEW field \in {"up", "locked", "rejects"}, DatabaseChanges(field) PROVE OpenInv'
  <2>0. \/ severed' = [c \in Callers |-> severed[c] \/ Connected(c)] /\ schemaLock' = NoThread
        \/ UNCHANGED <<severed, schemaLock>>
    BY <1>13 DEF DatabaseChanges
  <2>1. OpenTypes' /\ OpensAlone'
    <3>1. severed' \in [Callers -> BOOLEAN]
      BY <1>0, <2>0, Zenon DEF OpenTypes, Connected
    <3>2. QED
      BY <1>0, <1>13, <3>1 DEF OpenTypes, OpensAlone, HoldsVerdict, DatabaseChanges
  <2>2. FailuresKept' /\ StripsApplied' /\ PoolsApplied'
    BY <1>1, <1>13 DEF OpenInv, FailuresKept, StripsApplied, PoolsApplied, DatabaseChanges
  <2>3. LockIsLive'
    <3>1. ASSUME NEW c \in Callers PROVE (at[c] = "apply" /\ ~severed'[c]) <=> schemaLock' = c
      <4>1. (at[c] = "apply" /\ ~severed[c]) <=> schemaLock = c
        BY <1>1 DEF OpenInv, LockIsLive
      <4>2. CASE severed' = [d \in Callers |-> severed[d] \/ Connected(d)] /\ schemaLock' = NoThread
        <5>1. severed'[c] = (severed[c] \/ Connected(c)) /\ NoThread # c
          BY <4>2, PoolBounds
        <5>2. QED
          BY <4>2, <5>1, Zenon DEF Connected
      <4>3. QED
        BY <2>0, <4>1, <4>2
    <3>2. QED
      BY <1>13, <3>1 DEF LockIsLive, DatabaseChanges
  <2>4. QED
    BY <2>1, <2>2, <2>3 DEF OpenInv
<1>14. CASE UNCHANGED poolVars
  BY <1>1, <1>14 DEF OpenInv, OpenTypes, OpensAlone, HoldsVerdict, FailuresKept, StripsApplied,
                     PoolsApplied, LockIsLive, poolVars
<1>15. QED
  BY <1>1, <1>2, <1>3, <1>4, <1>5, <1>6, <1>7, <1>8, <1>9, <1>10, <1>11, <1>12, <1>13, <1>14
     DEF PoolNext, Opening

\* A pool is cached only over a database that took the store's whole schema, one window of a failed
\* open costs one bounded open, and the advisory lock is that of one live apply: whatever threads of
\* any number of pods call, and however the database and the pods come and go
\* (PoolOpener and apply_boot_schema).
THEOREM OpensAreSafe == PoolInit /\ [][PoolNext]_poolVars => [](SchemaFirst /\ LockIsLive)
<1>1. OpenInv => SchemaFirst /\ LockIsLive
  <2>1. SUFFICES ASSUME OpenInv PROVE SchemaFirst
    BY DEF OpenInv
  <2>2. QED
    BY <2>1 DEF OpenInv, OpenTypes, FailuresKept, PoolsApplied, SchemaFirst
<1>2. QED
  BY <1>1, OpenInvInit, OpenInvHolds, PTL


-----------------------------------------------------------------------------
(* Borrowing from the pool.                                                 *)

BorrowTypes ==
  /\ step \in [Borrowers -> {"idle", "waits", "checks", "works", "disarmed"}]
  /\ connOf \in [Borrowers -> PoolConns \cup {Nobody}]
  /\ idle \subseteq PoolConns /\ drained \subseteq PoolConns /\ missing \subseteq PoolConns
  /\ borrows \in [Borrowers -> Nat]
  /\ \A b \in Borrowers : connOf[b] # Nobody <=> step[b] \in {"checks", "works", "disarmed"}

\* What the pool has it has once.
PoolHasOnce == /\ idle \cap drained = {} /\ idle \cap missing = {} /\ drained \cap missing = {}

\* A watchdog that may still sever watches a borrow that is at work.
WatchesWork ==
  \A w \in armed \cup firing : w.by \in Borrowers /\ step[w.by] = "works" /\ w = BorrowOf(w.by)

BorrowInv == BorrowTypes /\ PoolHasOnce /\ OneHolder /\ WatchesWork /\ SeveredForItself

LEMMA BorrowInvInit == BorrowInit => BorrowInv
  BY BorrowBounds DEF BorrowInit, BorrowInv, BorrowTypes, PoolHasOnce, OneHolder, WatchesWork,
                      SeveredForItself

LEMMA BorrowInvHolds == BorrowInv /\ [BorrowNext]_borrowVars => BorrowInv'
<1>1. SUFFICES ASSUME BorrowInv, [BorrowNext]_borrowVars PROVE BorrowInv'
  OBVIOUS
<1>0. BorrowTypes /\ PoolHasOnce /\ OneHolder /\ WatchesWork /\ SeveredForItself
  BY <1>1 DEF BorrowInv
<1>2. ASSUME NEW b \in Borrowers, Borrow(b) PROVE BorrowInv'
  <2>1. BorrowTypes' /\ PoolHasOnce' /\ OneHolder'
    BY <1>0, <1>2 DEF BorrowTypes, PoolHasOnce, OneHolder, Borrow
  <2>2. \A d \in Borrowers : step[d] \in {"works", "disarmed"} => BorrowOf(d)' = BorrowOf(d)
    BY <1>0, <1>2 DEF BorrowTypes, Borrow, BorrowOf
  <2>3. WatchesWork'
    BY <1>0, <1>2, <2>2 DEF BorrowTypes, WatchesWork, Borrow
  <2>4. SeveredForItself'
    BY <1>0, <1>2, <2>2 DEF BorrowTypes, SeveredForItself, Borrow
  <2>5. QED
    BY <2>1, <2>3, <2>4 DEF BorrowInv
<1>3. ASSUME NEW b \in Borrowers, NEW c \in PoolConns, TakeConn(b, c) PROVE BorrowInv'
  <2>1. BorrowTypes'
    BY <1>0, <1>3, BorrowBounds DEF BorrowTypes, TakeConn
  <2>2. PoolHasOnce' /\ OneHolder'
    BY <1>0, <1>3, BorrowBounds DEF BorrowTypes, PoolHasOnce, OneHolder, TakeConn
  <2>3. \A d \in Borrowers : step[d] \in {"works", "disarmed"} => BorrowOf(d)' = BorrowOf(d)
    BY <1>0, <1>3 DEF BorrowTypes, TakeConn, BorrowOf
  <2>4. WatchesWork'
    BY <1>0, <1>3, <2>3 DEF BorrowTypes, WatchesWork, TakeConn
  <2>5. SeveredForItself'
    BY <1>0, <1>3, <2>3 DEF BorrowTypes, SeveredForItself, TakeConn
  <2>6. QED
    BY <2>1, <2>2, <2>4, <2>5 DEF BorrowInv
<1>4. ASSUME NEW b \in Borrowers, GiveUpWaiting(b) PROVE BorrowInv'
  <2>1. BorrowTypes' /\ PoolHasOnce' /\ OneHolder'
    BY <1>0, <1>4 DEF BorrowTypes, PoolHasOnce, OneHolder, GiveUpWaiting
  <2>2. WatchesWork' /\ SeveredForItself'
    BY <1>0, <1>4 DEF BorrowTypes, WatchesWork, SeveredForItself, GiveUpWaiting, BorrowOf
  <2>3. QED
    BY <2>1, <2>2 DEF BorrowInv
<1>5. ASSUME NEW b \in Borrowers, CheckPasses(b) PROVE BorrowInv'
  <2>1. BorrowTypes' /\ PoolHasOnce' /\ OneHolder'
    BY <1>0, <1>5 DEF BorrowTypes, PoolHasOnce, OneHolder, CheckPasses
  <2>2. \A d \in Borrowers : BorrowOf(d)' = BorrowOf(d)
    BY <1>5 DEF CheckPasses, BorrowOf
  <2>3. BorrowOf(b).by = b
    BY DEF BorrowOf
  <2>4. WatchesWork'
    BY <1>0, <1>5, <2>2, <2>3 DEF BorrowTypes, WatchesWork, CheckPasses
  <2>5. \A w \in cutOff : w.conn # connOf[b]
    BY <1>5 DEF CheckPasses, Alive, Shut, Severed
  <2>6. SeveredForItself'
    BY <1>0, <1>5, <2>2, <2>5 DEF BorrowTypes, SeveredForItself, CheckPasses
  <2>7. QED
    BY <2>1, <2>4, <2>6 DEF BorrowInv
<1>6. ASSUME NEW b \in Borrowers, CheckFails(b) PROVE BorrowInv'
  <2>0. connOf[b] \in PoolConns
    BY <1>0, <1>6 DEF BorrowTypes, CheckFails
  <2>1. BorrowTypes'
    BY <1>0, <1>6, <2>0 DEF BorrowTypes, CheckFails
  <2>2. PoolHasOnce' /\ OneHolder'
    BY <1>0, <1>6, <2>0, BorrowBounds DEF BorrowTypes, PoolHasOnce, OneHolder, CheckFails
  <2>3. \A d \in Borrowers : step[d] \in {"works", "disarmed"} => BorrowOf(d)' = BorrowOf(d)
    BY <1>0, <1>6 DEF BorrowTypes, CheckFails, BorrowOf
  <2>4. WatchesWork' /\ SeveredForItself'
    BY <1>0, <1>6, <2>3 DEF BorrowTypes, WatchesWork, SeveredForItself, CheckFails
  <2>5. QED
    BY <2>1, <2>2, <2>4 DEF BorrowInv
<1>7. ASSUME NEW c \in PoolConns, DrainCheck(c) PROVE BorrowInv'
  <2>1. BorrowTypes' /\ PoolHasOnce' /\ OneHolder'
    BY <1>0, <1>7 DEF BorrowTypes, PoolHasOnce, OneHolder, DrainCheck
  <2>2. WatchesWork' /\ SeveredForItself'
    BY <1>0, <1>7 DEF WatchesWork, SeveredForItself, DrainCheck, BorrowOf
  <2>3. QED
    BY <2>1, <2>2 DEF BorrowInv
<1>8. ASSUME NEW c \in PoolConns, Replace(c) PROVE BorrowInv'
  <2>1. BorrowTypes' /\ PoolHasOnce' /\ OneHolder'
    BY <1>0, <1>8 DEF BorrowTypes, PoolHasOnce, OneHolder, Replace
  <2>2. WatchesWork' /\ SeveredForItself'
    BY <1>0, <1>8 DEF WatchesWork, SeveredForItself, Replace, BorrowOf
  <2>3. QED
    BY <2>1, <2>2 DEF BorrowInv
<1>9. ASSUME NEW w \in armed, WatchdogFires(w) PROVE BorrowInv'
  <2>1. BorrowTypes' /\ PoolHasOnce' /\ OneHolder'
    BY <1>0, <1>9 DEF BorrowTypes, PoolHasOnce, OneHolder, WatchdogFires
  <2>2. WatchesWork' /\ SeveredForItself'
    BY <1>0, <1>9 DEF WatchesWork, SeveredForItself, WatchdogFires, BorrowOf
  <2>3. QED
    BY <2>1, <2>2 DEF BorrowInv
<1>10. ASSUME NEW w \in firing, Sever(w) PROVE BorrowInv'
  <2>1. BorrowTypes' /\ PoolHasOnce' /\ OneHolder'
    BY <1>0, <1>10 DEF BorrowTypes, PoolHasOnce, OneHolder, Sever
  <2>2. WatchesWork'
    BY <1>0, <1>10 DEF WatchesWork, Sever, BorrowOf
  <2>3. w.by \in Borrowers /\ w = BorrowOf(w.by) /\ w.conn = connOf[w.by] /\ step[w.by] = "works"
    BY <1>0, <1>10 DEF WatchesWork, BorrowOf
  <2>4. connOf[w.by] # Nobody
    BY <1>0, <2>3 DEF BorrowTypes
  <2>5. \A d \in Borrowers : connOf[d] = w.conn => w = BorrowOf(d)
    BY <1>0, <2>3, <2>4 DEF OneHolder
  <2>6. SeveredForItself'
    BY <1>0, <1>10, <2>5 DEF SeveredForItself, Sever, BorrowOf
  <2>7. QED
    BY <2>1, <2>2, <2>6 DEF BorrowInv
<1>11. ASSUME NEW b \in Borrowers, Disarm(b) PROVE BorrowInv'
  <2>1. BorrowTypes' /\ PoolHasOnce' /\ OneHolder'
    BY <1>0, <1>11 DEF BorrowTypes, PoolHasOnce, OneHolder, Disarm
  <2>2. \A d \in Borrowers : BorrowOf(d)' = BorrowOf(d)
    BY <1>11 DEF Disarm, BorrowOf
  <2>3. \A w \in armed' \cup firing' : w.by # b
    BY <1>0, <1>11 DEF WatchesWork, Disarm, MayDisarm
  <2>4. WatchesWork'
    BY <1>0, <1>11, <2>2, <2>3 DEF BorrowTypes, WatchesWork, Disarm
  <2>5. SeveredForItself'
    BY <1>0, <1>11, <2>2 DEF BorrowTypes, SeveredForItself, Disarm
  <2>6. QED
    BY <2>1, <2>4, <2>5 DEF BorrowInv
<1>12. ASSUME NEW b \in Borrowers, PutBack(b) PROVE BorrowInv'
  <2>0. connOf[b] \in PoolConns
    BY <1>0, <1>12 DEF BorrowTypes, PutBack
  <2>1. BorrowTypes'
    BY <1>0, <1>12, <2>0 DEF BorrowTypes, PutBack
  <2>2. PoolHasOnce' /\ OneHolder'
    BY <1>0, <1>12, <2>0, BorrowBounds DEF BorrowTypes, PoolHasOnce, OneHolder, PutBack
  <2>3. \A d \in Borrowers : step'[d] \in {"works", "disarmed"} => BorrowOf(d)' = BorrowOf(d)
    BY <1>0, <1>12 DEF BorrowTypes, PutBack, BorrowOf
  <2>4. WatchesWork' /\ SeveredForItself'
    BY <1>0, <1>12, <2>3 DEF BorrowTypes, WatchesWork, SeveredForItself, PutBack
  <2>5. QED
    BY <2>1, <2>2, <2>4 DEF BorrowInv
<1>13. ASSUME NEW to \in {"up", "down", "hung"}, ServerUpset(to) PROVE BorrowInv'
  BY <1>0, <1>13 DEF BorrowInv, BorrowTypes, PoolHasOnce, OneHolder, WatchesWork, SeveredForItself,
                     ServerUpset, BorrowOf
<1>14. CASE UNCHANGED borrowVars
  BY <1>0, <1>14 DEF BorrowInv, BorrowTypes, PoolHasOnce, OneHolder, WatchesWork, SeveredForItself,
                     borrowVars, BorrowOf
<1>15. QED
  BY <1>1, <1>2, <1>3, <1>4, <1>5, <1>6, <1>7, <1>8, <1>9, <1>10, <1>11, <1>12, <1>13, <1>14
     DEF BorrowNext, BorrowStep

\* A connection is in one pair of hands, and one that a watchdog severed is worked on by nobody but
\* the borrow it was severed for: for any number of threads, connections and borrows, and a server
\* that drops or hangs at any step (_guard, _Watchdog, check_connection).
THEOREM BorrowsAreSafe == BorrowInit /\ [][BorrowNext]_borrowVars => [](OneHolder /\ SeveredForItself)
<1>1. BorrowInv => OneHolder /\ SeveredForItself
  BY DEF BorrowInv
<1>2. QED
  BY <1>1, BorrowInvInit, BorrowInvHolds, PTL


-----------------------------------------------------------------------------
(* The speech-to-text server.                                               *)

SttTypes ==
  /\ sttServer \in {"off", "loading", "loaded", "warming", "ready", "stuck"}
  /\ takes \subseteq Optional /\ naming \in BOOLEAN /\ supported \subseteq Optional
  /\ modelLock \in SttRequests \cup {"none", "warmup"}
  /\ sttRequest \in [SttRequests -> {"new", "admitted", "decoded", "refused", "failed"}]
  /\ ran \in [SttRequests -> SUBSET Optional] /\ rejections \in Nat

\* The lock is the warmup's while that decodes, and a request's only once it was let in.
LockedInTime ==
  /\ modelLock = "warmup" => sttServer = "warming"
  /\ \A r \in SttRequests : modelLock = r => sttRequest[r] = "admitted"

\* A call was rejected only after the load, and then no argument is tried any more; a signature
\* that names its arguments has taught them all.
RejectionTeaches ==
  /\ sttServer \in {"off", "loading"} => rejections = 0
  /\ rejections <= 1 /\ (rejections > 0 => supported = {})
  /\ naming /\ sttServer \in {"loaded", "warming", "ready"} => supported = takes

SttInv == SttTypes /\ LockedInTime /\ RejectionTeaches /\ ServedAsAsked

\* After one more call there is still one rejection at most, and none where the arguments are named.
LEMMA CalledOnce ==
  ASSUME SttInv, NEW who, ModelCalled(who), sttServer \in {"loaded", "warming", "ready"}
  PROVE  /\ supported' \subseteq Optional /\ rejections' \in Nat /\ rejections' <= 1
         /\ rejections' > 0 => supported' = {}
         /\ naming => ~Rejects(who) /\ supported' = supported
<1>1. rejections \in 0..1
  BY DEF SttInv, SttTypes, RejectionTeaches
<1>2. CASE Rejects(who)
  <2>1. supported # {}
    BY <1>2 DEF Rejects, CallArgs
  <2>2. rejections = 0 /\ rejections' = 1 /\ supported' = {}
    BY <1>1, <1>2, <2>1 DEF SttInv, RejectionTeaches, ModelCalled
  <2>3. ~naming
    BY <1>2 DEF SttInv, RejectionTeaches, Rejects, CallArgs
  <2>4. QED
    BY <2>2, <2>3
<1>3. CASE ~Rejects(who)
  BY <1>1, <1>3 DEF SttInv, SttTypes, RejectionTeaches, ModelCalled
<1>4. QED
  BY <1>2, <1>3

LEMMA SttInvInit == SttInit => SttInv
  BY SttBounds DEF SttInit, SttInv, SttTypes, LockedInTime, RejectionTeaches, ServedAsAsked

LEMMA SttInvHolds == SttInv /\ [SttNext]_sttVars => SttInv'
<1>1. SUFFICES ASSUME SttInv, [SttNext]_sttVars PROVE SttInv'
  OBVIOUS
<1>0. SttTypes /\ LockedInTime /\ RejectionTeaches /\ ServedAsAsked
  BY <1>1 DEF SttInv
<1>2. CASE SttStarts
  BY <1>0, <1>2, SttBounds DEF SttInv, SttTypes, LockedInTime, RejectionTeaches, ServedAsAsked, Wanted, SttStarts
<1>3. CASE Load
  BY <1>0, <1>3, SttBounds DEF SttInv, SttTypes, LockedInTime, RejectionTeaches, ServedAsAsked, Wanted, Load
<1>4. CASE LoadFails
  BY <1>0, <1>4, SttBounds DEF SttInv, SttTypes, LockedInTime, RejectionTeaches, ServedAsAsked, Wanted, LoadFails
<1>5. CASE StartWarmup
  BY <1>0, <1>5, SttBounds DEF SttInv, SttTypes, LockedInTime, RejectionTeaches, ServedAsAsked, Wanted, StartWarmup
<1>6. CASE Warmed
  <2>1. sttServer = "warming"
    BY <1>0, <1>6 DEF Warmed, LockedInTime
  <2>2. /\ supported' \subseteq Optional /\ rejections' \in Nat /\ rejections' <= 1
        /\ rejections' > 0 => supported' = {}
        /\ naming => supported' = supported
    BY <1>1, <1>6, <2>1, CalledOnce DEF Warmed
  <2>3. SttTypes' /\ LockedInTime' /\ RejectionTeaches'
    BY <1>0, <1>6, <2>1, <2>2, SttBounds DEF SttTypes, LockedInTime, RejectionTeaches, Warmed
  <2>4. ServedAsAsked'
    BY <1>0, <1>6, <2>1 DEF ServedAsAsked, Wanted, Warmed
  <2>5. QED
    BY <2>3, <2>4 DEF SttInv
<1>7. CASE SttRestarts
  BY <1>0, <1>7, SttBounds DEF SttInv, SttTypes, LockedInTime, RejectionTeaches, ServedAsAsked, Wanted, SttRestarts
<1>8. ASSUME NEW r \in SttRequests, AskStt(r) PROVE SttInv'
  BY <1>0, <1>8, SttBounds DEF SttInv, SttTypes, LockedInTime, RejectionTeaches, ServedAsAsked, Wanted, AskStt
<1>9. ASSUME NEW r \in SttRequests, LockModel(r) PROVE SttInv'
  BY <1>0, <1>9, SttBounds DEF SttInv, SttTypes, LockedInTime, RejectionTeaches, ServedAsAsked, Wanted, LockModel
<1>10. ASSUME NEW r \in SttRequests, DecodeRequest(r) PROVE SttInv'
  <2>1. sttServer = "ready"
    BY <1>0, <1>10 DEF DecodeRequest, LockedInTime, ServedAsAsked
  <2>2. /\ supported' \subseteq Optional /\ rejections' \in Nat /\ rejections' <= 1
        /\ rejections' > 0 => supported' = {}
        /\ naming => ~Rejects(r) /\ supported' = supported
    BY <1>1, <1>10, <2>1, CalledOnce DEF DecodeRequest
  <2>3. SttTypes' /\ LockedInTime' /\ RejectionTeaches'
    BY <1>0, <1>10, <2>1, <2>2, SttBounds DEF SttTypes, LockedInTime, RejectionTeaches, DecodeRequest, CallArgs
  <2>4. naming => ran'[r] = Wanted(r) \cap takes
    BY <1>0, <1>10, <2>1, <2>2 DEF SttTypes, RejectionTeaches, DecodeRequest, CallArgs
  <2>5. ServedAsAsked'
    BY <1>0, <1>10, <2>1, <2>4 DEF SttTypes, ServedAsAsked, Wanted, DecodeRequest
  <2>6. QED
    BY <2>3, <2>5 DEF SttInv
<1>11. ASSUME NEW r \in SttRequests, DecodeFails(r) PROVE SttInv'
  BY <1>0, <1>11, SttBounds DEF SttInv, SttTypes, LockedInTime, RejectionTeaches, ServedAsAsked, Wanted, DecodeFails
<1>12. CASE UNCHANGED sttVars
  BY <1>0, <1>12 DEF SttInv, SttTypes, LockedInTime, RejectionTeaches, ServedAsAsked, Wanted, sttVars
<1>13. QED
  BY <1>1, <1>2, <1>3, <1>4, <1>5, <1>6, <1>7, <1>8, <1>9, <1>10, <1>11, <1>12 DEF SttNext, SttStep, SttServes

\* However a build names or rejects its optional arguments, and whenever the server restarts: one
\* process has one call rejected at most, nothing is let in before the warmup, and a build that
\* names its arguments decodes with every one that was asked for (parakeet-stt's server).
THEOREM SttIsServed == SttInit /\ [][SttNext]_sttVars => [](RejectedOnce /\ ServedAsAsked)
<1>1. SttInv => RejectedOnce /\ ServedAsAsked
  BY DEF SttInv, RejectionTeaches, RejectedOnce
<1>2. QED
  BY <1>1, SttInvInit, SttInvHolds, PTL


-----------------------------------------------------------------------------
(* The lights of the status page.                                           *)

Raws == {"ready", "not_ready", "unreachable", "misconfigured"}

StatusTypes ==
  /\ backend \in [Component -> {"ready", "not_ready", "unreachable"}]
  /\ found \in Seq(Raws) /\ Len(found) <= Len(ProbeOrder)
  /\ downSince \in [Component -> -1..Grace] /\ sinceHeard \in [Component -> 0..Grace]

\* This pass has had an answer of a component.
Answered(c) == \E i \in DOMAIN found : ProbeOrder[i] = c /\ found[i] # "unreachable"

\* A timer runs no longer than nothing was heard, but for one that the pass will stop at its end.
TimersAreHonest == \A c \in Component \ Misconfigured : Answered(c) \/ downSince[c] <= sinceHeard[c]

\* Only a component of settings that cannot work is found to be so.
FoundMisconfigured ==
  \A i \in DOMAIN found : found[i] = "misconfigured" => ProbeOrder[i] \in Misconfigured

StatusInv == StatusTypes /\ TimersAreHonest /\ FoundMisconfigured

LEMMA StatusInvInit == StatusInit => StatusInv
  BY StatusBounds DEF StatusInit, StatusInv, StatusTypes, TimersAreHonest, FoundMisconfigured

\* What the next component is found to be is one of the raw results.
LEMMA RawIsRaw ==
  ASSUME StatusTypes, FoundMisconfigured, Len(found) < Len(ProbeOrder)
  PROVE  /\ RawOf(ProbeOrder[Len(found) + 1]) \in Raws
         /\ RawOf(ProbeOrder[Len(found) + 1]) = "misconfigured" => ProbeOrder[Len(found) + 1] \in Misconfigured
<1> DEFINE c == ProbeOrder[Len(found) + 1]
<1>1. Len(found) \in Nat /\ Len(ProbeOrder) \in Nat /\ DOMAIN ProbeOrder = 1..Len(ProbeOrder)
  BY StatusBounds DEF StatusTypes
<1>2. c \in Component
  BY <1>1 DEF Component
<1>3. CASE c \in Misconfigured
  BY <1>3 DEF RawOf, Raws
<1>4. CASE c \notin Misconfigured /\ c \in Fronted
  <2>1. PICK i \in DOMAIN ProbeOrder : ProbeOrder[i] = "litellm" /\ \A j \in 1..i : ProbeOrder[j] \notin Fronted
    BY <1>4, StatusBounds
  <2>2. Gateway = i
    BY <2>1, StatusBounds DEF Gateway
  <2>3. ~(Len(found) + 1 <= i)
    BY <1>1, <1>4, <2>1
  <2>4. i \in DOMAIN found
    BY <1>1, <2>1, <2>3 DEF StatusTypes
  <2>5. found[i] \in Raws /\ found[i] # "misconfigured"
    BY <2>1, <2>4, StatusBounds DEF StatusTypes, FoundMisconfigured
  <2>6. QED
    BY <1>4, <2>2, <2>5 DEF RawOf
<1>5. CASE c \notin Misconfigured /\ c \notin Fronted
  BY <1>2, <1>5 DEF RawOf, Raws, StatusTypes
<1>6. QED
  BY <1>3, <1>4, <1>5

\* At the end of a pass its results are those of the components.
FoundOf(c) == found[CHOOSE i \in DOMAIN ProbeOrder : ProbeOrder[i] = c]
LEMMA FoundAtEnd ==
  ASSUME StatusInv, Len(found) = Len(ProbeOrder), NEW c \in Component
  PROVE  /\ FoundOf(c) \in Raws
         /\ FoundOf(c) = "misconfigured" => c \in Misconfigured
         /\ c \notin Misconfigured /\ FoundOf(c) = "unreachable" => downSince[c] <= sinceHeard[c]
<1>1. DOMAIN found = DOMAIN ProbeOrder
  BY StatusBounds DEF StatusInv, StatusTypes
<1>2. PICK i \in DOMAIN ProbeOrder : ProbeOrder[i] = c
  BY DEF Component
<1>3. (CHOOSE j \in DOMAIN ProbeOrder : ProbeOrder[j] = c) = i
  BY <1>2, StatusBounds
<1>4. FoundOf(c) = found[i]
  BY <1>3 DEF FoundOf
<1>5. FoundOf(c) \in Raws
  BY <1>1, <1>4 DEF StatusInv, StatusTypes
<1>6. ASSUME c \notin Misconfigured, found[i] = "unreachable" PROVE ~Answered(c)
  BY <1>1, <1>2, <1>6, StatusBounds DEF Answered
<1>7. QED
  BY <1>1, <1>2, <1>4, <1>5, <1>6 DEF StatusInv, TimersAreHonest, FoundMisconfigured

LEMMA StatusInvHolds == StatusInv /\ [StatusNext]_statusVars => StatusInv'
<1>1. SUFFICES ASSUME StatusInv, [StatusNext]_statusVars PROVE StatusInv'
  OBVIOUS
<1>0. StatusTypes /\ TimersAreHonest /\ FoundMisconfigured /\ Grace \in Nat
  BY <1>1, StatusBounds DEF StatusInv
<1>2. CASE StartProbing
  BY <1>0, <1>2 DEF StatusInv, StatusTypes, TimersAreHonest, FoundMisconfigured, Answered, StartProbing
<1>3. CASE Probe
  <2> DEFINE c == ProbeOrder[Len(found) + 1]
             raw == RawOf(c)
  <2>0. /\ Len(found) < Len(ProbeOrder) /\ found' = Append(found, raw)
        /\ sinceHeard' = [sinceHeard EXCEPT ![c] = IF raw = "unreachable" THEN @ ELSE 0]
        /\ UNCHANGED <<backend, downSince>>
    BY <1>3 DEF Probe
  <2>1. raw \in Raws /\ (raw = "misconfigured" => c \in Misconfigured)
    BY <1>0, <2>0, RawIsRaw
  <2> HIDE DEF raw
  <2>2. Len(found) \in Nat /\ Len(ProbeOrder) \in Nat /\ c \in Component
    BY <1>0, <2>0, StatusBounds DEF StatusTypes, Component
  <2>3. /\ found' \in Seq(Raws) /\ Len(found') = Len(found) + 1
        /\ found'[Len(found) + 1] = raw /\ \A i \in DOMAIN found : i \in DOMAIN found' /\ found'[i] = found[i]
        /\ Len(found) + 1 \in DOMAIN found'
    BY <1>0, <2>0, <2>1 DEF StatusTypes
  <2>4. StatusTypes'
    BY <1>0, <2>0, <2>2, <2>3 DEF StatusTypes
  <2>5. ASSUME NEW d \in Component \ Misconfigured PROVE Answered(d)' \/ downSince'[d] <= sinceHeard'[d]
    <3>1. CASE Answered(d)
      BY <2>3, <3>1 DEF Answered
    <3>2. CASE d = c /\ raw # "unreachable"
      BY <2>3, <3>2 DEF Answered
    <3>3. CASE ~Answered(d) /\ ~(d = c /\ raw # "unreachable")
      <4> HIDE DEF c
      <4>1. sinceHeard'[d] = sinceHeard[d]
        <5>1. CASE d = c
          BY <1>0, <2>0, <3>3, <5>1 DEF StatusTypes
        <5>2. CASE d # c
          BY <1>0, <2>0, <5>2 DEF StatusTypes
        <5>3. QED
          BY <5>1, <5>2
      <4>2. downSince[d] <= sinceHeard[d]
        BY <1>0, <3>3 DEF TimersAreHonest
      <4>3. QED
        BY <2>0, <4>1, <4>2
    <3>4. QED
      BY <3>1, <3>2, <3>3
  <2>6. FoundMisconfigured'
    <3>1. ASSUME NEW i \in DOMAIN found', found'[i] = "misconfigured" PROVE ProbeOrder[i] \in Misconfigured
      <4>1. DOMAIN found' = 1..(Len(found) + 1) /\ DOMAIN found = 1..Len(found)
        BY <1>0, <2>3 DEF StatusTypes
      <4>2. CASE i = Len(found) + 1
        BY <2>1, <2>3, <3>1, <4>2
      <4>3. CASE i # Len(found) + 1
        <5>1. i \in DOMAIN found
          BY <2>2, <4>1, <4>3
        <5>2. QED
          BY <1>0, <2>3, <3>1, <5>1 DEF FoundMisconfigured
      <4>4. QED
        BY <4>2, <4>3
    <3>2. QED
      BY <3>1 DEF FoundMisconfigured
  <2>7. QED
    BY <2>4, <2>5, <2>6 DEF StatusInv, TimersAreHonest
<1>4. CASE PassEnds
  <2>0. /\ Len(found) = Len(ProbeOrder) /\ found' = <<>> /\ UNCHANGED <<backend, sinceHeard>>
        /\ downSince' = [c \in Component |-> Timer(FoundOf(c), downSince[c])]
    BY <1>4 DEF PassEnds, FoundOf
  <2>1. ASSUME NEW c \in Component PROVE /\ downSince'[c] \in -1..Grace
                                         /\ c \notin Misconfigured => downSince'[c] <= sinceHeard'[c]
    BY <1>0, <1>1, <2>0, FoundAtEnd DEF StatusTypes, Timer
  <2>2. StatusTypes'
    BY <1>0, <2>0, <2>1, StatusBounds DEF StatusTypes
  <2>3. QED
    BY <2>0, <2>1, <2>2 DEF StatusInv, TimersAreHonest, FoundMisconfigured
<1>5. CASE StatusTick
  <2>1. StatusTypes'
    BY <1>0, <1>5 DEF StatusTypes, StatusTick
  <2>0. \A c \in Component :
          /\ downSince'[c] = IF downSince[c] \in 0..(Grace - 1) THEN downSince[c] + 1 ELSE downSince[c]
          /\ sinceHeard'[c] = IF sinceHeard[c] < Grace THEN sinceHeard[c] + 1 ELSE sinceHeard[c]
          /\ downSince[c] \in -1..Grace /\ sinceHeard[c] \in 0..Grace
    BY <1>0, <1>5 DEF StatusTypes, StatusTick
  <2>3. \A c \in Component : downSince[c] <= sinceHeard[c] => downSince'[c] <= sinceHeard'[c]
    BY <1>0, <2>0
  <2>2. TimersAreHonest' /\ FoundMisconfigured'
    BY <1>0, <1>5, <2>3 DEF TimersAreHonest, FoundMisconfigured, Answered, StatusTick
  <2>4. QED
    BY <2>1, <2>2 DEF StatusInv
<1>6. ASSUME NEW c \in Component, NEW to \in {"ready", "not_ready", "unreachable"}, BackendTurns(c, to)
      PROVE StatusInv'
  BY <1>0, <1>6 DEF StatusInv, StatusTypes, TimersAreHonest, FoundMisconfigured, Answered, BackendTurns
<1>7. CASE UNCHANGED statusVars
  BY <1>0, <1>7 DEF StatusInv, StatusTypes, TimersAreHonest, FoundMisconfigured, Answered, statusVars
<1>8. QED
  BY <1>1, <1>2, <1>3, <1>4, <1>5, <1>6, <1>7 DEF StatusNext

\* For any order of components, grace and number of changes: a component of good settings turns red
\* only if no probe got an answer of it for the whole grace window (_down_since, _apply).
THEOREM RedIsEarned == StatusInit /\ [][StatusNext]_statusVars => NoFalseRed
<1> DEFINE GoesRed == \A c \in Component \ Misconfigured : lights'[c] = "down" /\ lights[c] # "down"
                      => sinceHeard[c] = Grace
<1>1. StatusInv /\ [StatusNext]_statusVars => [GoesRed]_statusVars
  <2>1. SUFFICES ASSUME StatusInv, StatusNext, NEW c \in Component \ Misconfigured,
                        lights'[c] = "down", lights[c] # "down"
                 PROVE  sinceHeard[c] = Grace
    BY DEF GoesRed
  <2>2. PassEnds
    BY <2>1 DEF StatusNext, StartProbing, Probe, StatusTick, BackendTurns
  <2>3. Len(found) = Len(ProbeOrder) /\ lights'[c] = Light(FoundOf(c), downSince[c])
    BY <2>2 DEF PassEnds, FoundOf
  <2>4. FoundOf(c) \in Raws /\ FoundOf(c) # "misconfigured"
    BY <2>1, <2>3, FoundAtEnd
  <2>5. FoundOf(c) = "unreachable" /\ ~(Timer(FoundOf(c), downSince[c]) < Grace)
    BY <2>1, <2>3, <2>4 DEF Light, Raws
  <2>6. downSince[c] <= sinceHeard[c]
    BY <2>1, <2>3, <2>5, FoundAtEnd
  <2>7. QED
    BY <2>1, <2>5, <2>6, StatusBounds DEF StatusInv, StatusTypes, Timer
<1>2. QED
  BY <1>1, StatusInvInit, StatusInvHolds, PTL DEF NoFalseRed


-----------------------------------------------------------------------------
(* Readiness.                                                               *)

ProbeKinds == [checked : SUBSET Stores, ok : SUBSET Stores, state : {"under_way", "done", "cancelled"}]

ReadyTypes ==
  /\ probes \in Seq(ProbeKinds) /\ storeUp \subseteq Stores
  /\ asks \in [Askers -> {"new", "waits", "hung_up", "ok", "unready"}]
  /\ awaits \in [Askers -> Nat] /\ over \in [Askers -> Nat]

\* Only the last probe may be under way.
LastRuns == \A p \in DOMAIN probes : Running(p) => p = Len(probes)

\* Who asked awaits a probe that was not over yet.
AwaitsFresh == \A a \in Askers : asks[a] # "new" => awaits[a] \in DOMAIN probes /\ awaits[a] > over[a]

ReadyInv == ReadyTypes /\ LastRuns /\ AwaitsFresh

LEMMA ReadyInvInit == ReadyInit => ReadyInv
  BY DEF ReadyInit, ReadyInv, ReadyTypes, LastRuns, AwaitsFresh

\* A caller that shares a probe finds all but that one over, one that starts a probe finds all over.
LEMMA OverBefore ==
  ASSUME ReadyInv
  PROVE  Cardinality({p \in DOMAIN probes : ~Running(p)}) = IF Shared # {} THEN Len(probes) - 1 ELSE Len(probes)
<1>0. Len(probes) \in Nat /\ DOMAIN probes = 1..Len(probes)
  BY DEF ReadyInv, ReadyTypes
<1>1. CASE Shared # {}
  <2>1. {p \in DOMAIN probes : ~Running(p)} = 1..(Len(probes) - 1)
    BY <1>0, <1>1 DEF ReadyInv, LastRuns, Shared
  <2>2. Len(probes) > 0
    BY <1>0, <1>1 DEF Shared
  <2>3. Cardinality(1..(Len(probes) - 1)) = Len(probes) - 1
    BY <1>0, <2>2, FS_Interval
  <2>4. QED
    BY <1>1, <2>1, <2>3
<1>2. CASE Shared = {}
  <2>1. {p \in DOMAIN probes : ~Running(p)} = 1..Len(probes)
    BY <1>0, <1>2 DEF ReadyInv, LastRuns, Shared
  <2>2. ASSUME NEW n \in Nat PROVE Cardinality(1..n) = n
    BY FS_Interval
  <2>3. QED
    BY <1>0, <1>2, <2>1, <2>2
<1>3. QED
  BY <1>1, <1>2

LEMMA ReadyInvHolds == ReadyInv /\ [ReadyNext]_readyVars => ReadyInv'
<1>1. SUFFICES ASSUME ReadyInv, [ReadyNext]_readyVars PROVE ReadyInv'
  OBVIOUS
<1>0. ReadyTypes /\ LastRuns /\ AwaitsFresh /\ Len(probes) \in Nat /\ DOMAIN probes = 1..Len(probes)
  BY <1>1 DEF ReadyInv, ReadyTypes
<1>2. ASSUME NEW s \in Stores, StoreTurns(s) PROVE ReadyInv'
  BY <1>0, <1>2 DEF ReadyInv, ReadyTypes, LastRuns, AwaitsFresh, Running, StoreTurns
<1>3. ASSUME NEW a \in Askers, AskReady(a) PROVE ReadyInv'
  <2>1. CASE Shared # {}
    <3>1. Len(probes) > 0 /\ over' = [over EXCEPT ![a] = Len(probes) - 1] /\ probes' = probes
      BY <1>0, <1>1, <1>3, <2>1, OverBefore DEF AskReady, Shared
    <3>3. /\ awaits' = [awaits EXCEPT ![a] = Len(probes)] /\ asks' = [asks EXCEPT ![a] = "waits"]
          /\ storeUp' = storeUp
      BY <1>3, <3>1 DEF AskReady
    <3>2. ReadyTypes' /\ LastRuns'
      BY <1>0, <3>1, <3>3 DEF ReadyTypes, LastRuns, Running
    <3>4. AwaitsFresh'
      BY <1>0, <3>1, <3>3 DEF ReadyTypes, AwaitsFresh
    <3>5. QED
      BY <3>2, <3>4 DEF ReadyInv
  <2>2. CASE Shared = {}
    <3>1. over' = [over EXCEPT ![a] = Len(probes)]
      BY <1>1, <1>3, <2>2, OverBefore DEF AskReady
    <3>2. probes' = Append(probes, [checked |-> {}, ok |-> {}, state |-> "under_way"])
      BY <1>3, <2>2 DEF AskReady
    <3>3. probes' \in Seq(ProbeKinds)
      BY <1>0, <3>2 DEF ReadyTypes, ProbeKinds
    <3>4. /\ Len(probes') = Len(probes) + 1 /\ DOMAIN probes' = 1..(Len(probes) + 1)
          /\ \A p \in DOMAIN probes : probes'[p] = probes[p]
      BY <1>0, <3>2 DEF ReadyTypes
    <3>5. \A p \in DOMAIN probes : ~Running(p)
      BY <1>0, <2>2 DEF LastRuns, Shared
    <3>6. LastRuns'
      BY <1>0, <3>4, <3>5 DEF LastRuns, Running
    <3>7. ReadyTypes'
      BY <1>0, <1>3, <3>1, <3>3, <3>4 DEF ReadyTypes, AskReady
    <3>8. AwaitsFresh'
      BY <1>0, <1>3, <3>1, <3>4 DEF ReadyTypes, AwaitsFresh, AskReady
    <3>9. QED
      BY <3>6, <3>7, <3>8 DEF ReadyInv
  <2>3. QED
    BY <2>1, <2>2
<1>4. ASSUME NEW p \in DOMAIN probes, Check(p) PROVE ReadyInv'
  <2>1. PICK r \in ProbeKinds : probes' = [probes EXCEPT ![p] = r]
    <3>1. probes[p] \in ProbeKinds
      BY <1>0 DEF ReadyTypes
    <3>2. QED
      BY <1>0, <1>4, <3>1 DEF Check, ProbeKinds, ReadyTypes, Stores
  <2>2. /\ probes' \in Seq(ProbeKinds) /\ Len(probes') = Len(probes) /\ DOMAIN probes' = DOMAIN probes
        /\ \A q \in DOMAIN probes : q # p => probes'[q] = probes[q]
    BY <1>0, <2>1 DEF ReadyTypes
  <2>3. LastRuns'
    BY <1>0, <1>4, <2>2 DEF LastRuns, Running, Check
  <2>4. ReadyTypes' /\ AwaitsFresh'
    BY <1>0, <1>4, <2>2 DEF ReadyTypes, AwaitsFresh, Check
  <2>5. QED
    BY <2>3, <2>4 DEF ReadyInv
<1>5. ASSUME NEW a \in Askers, Answer(a) PROVE ReadyInv'
  BY <1>0, <1>5 DEF ReadyInv, ReadyTypes, LastRuns, AwaitsFresh, Running, Answer
<1>6. ASSUME NEW a \in Askers, HangUp(a) PROVE ReadyInv'
  BY <1>0, <1>6 DEF ReadyInv, ReadyTypes, LastRuns, AwaitsFresh, Running, HangUp, LeftRunning
<1>7. CASE UNCHANGED readyVars
  BY <1>0, <1>7 DEF ReadyInv, ReadyTypes, LastRuns, AwaitsFresh, Running, readyVars
<1>8. QED
  BY <1>1, <1>2, <1>3, <1>4, <1>5, <1>6, <1>7 DEF ReadyNext

\* However many callers of /ready come, share a probe and hang up: one thread at most is held, and
\* no answer is of a probe that was over when its caller asked (ready, probe_backends).
THEOREM AnswersAreFresh == ReadyInit /\ [][ReadyNext]_readyVars => []ReadyIsFresh
<1>1. ReadyInv => ReadyIsFresh
  <2>1. SUFFICES ASSUME ReadyInv PROVE Cardinality({p \in DOMAIN probes : Running(p)}) <= 1
    BY DEF ReadyInv, ReadyTypes, AwaitsFresh, ReadyIsFresh
  <2>2. {p \in DOMAIN probes : Running(p)} \subseteq {Len(probes)}
    BY <2>1 DEF ReadyInv, LastRuns
  <2>3. IsFiniteSet({Len(probes)}) /\ Cardinality({Len(probes)}) = 1
    BY FS_Singleton
  <2>4. QED
    BY <2>2, <2>3, FS_Subset
<1>2. QED
  BY <1>1, ReadyInvInit, ReadyInvHolds, PTL


-----------------------------------------------------------------------------
(* A capture PC's sockets.                                                  *)

\* A token that is not good now never will be again: its row was made.
TokensMade ==
  /\ \A d \in Devices : client[d] # "unpaired" => tokenRow[d] # "none"
  /\ \A c \in Conns : conn[c].at # "free" => conn[c].dev \in Devices /\ tokenRow[conn[c].dev] # "none"
  /\ \A d \in Devices : d \in aged \cup telling => tokenRow[d] # "none"

\* Only of a token that is no good is something told, and only its sockets are closed for good.
OnlyBadClose ==
  /\ \A d \in Devices : d \in telling => ~Admits(d)
  /\ "user" \in telling => ~account
  /\ \A c \in Conns : conn[c].at # "free" /\ (conn[c].closing \/ conn[c].at = "closed_1008") =>
       ~Admits(conn[c].dev)

DeviceInv == DeviceTypeOK /\ NoneUnheard /\ ExitsRightly /\ DevicesKnown /\ TokensMade /\ OnlyBadClose

CapHolds == Cardinality({d \in Devices : RowLive(d)}) <= MaxDevices

\* No cap is passed where no row comes to life.
LEMMA CapKept ==
  ASSUME CapHolds, \A d \in Devices : RowLive(d)' => RowLive(d)
  PROVE  CapHolds'
<1> DEFINE S == {d \in Devices : RowLive(d)}
           T == {d \in Devices : RowLive(d)'}
<1>1. T \in SUBSET S
  OBVIOUS
<1>2. IsFiniteSet(S)
  BY DeviceBounds, FS_Subset
<1>3. Cardinality(T) <= Cardinality(S) /\ IsFiniteSet(T)
  BY <1>1, <1>2, FS_Subset
<1>4. Cardinality(S) \in Nat /\ Cardinality(T) \in Nat
  BY <1>2, <1>3, FS_CardinalityType
<1>5. QED
  BY <1>3, <1>4, DeviceBounds DEF CapHolds

\* A pairing under the cap brings one row more.
LEMMA CapPaired ==
  ASSUME CapHolds, NEW d \in Devices, Pair(d), DeviceTypeOK
  PROVE  CapHolds'
<1> DEFINE S == {e \in Devices : RowLive(e)}
           T == {e \in Devices : RowLive(e)'}
<1>1. T \in SUBSET (S \cup {d})
  <2>1. ASSUME NEW e \in Devices, RowLive(e)', e # d PROVE RowLive(e)
    BY <2>1 DEF Pair, RowLive, DeviceTypeOK
  <2>2. QED
    BY <2>1
<1>2. IsFiniteSet(S)
  BY DeviceBounds, FS_Subset
<1>3. IsFiniteSet(S \cup {d}) /\ Cardinality(S \cup {d}) <= Cardinality(S) + 1
  <2>1. Cardinality(S) \in Nat
    BY <1>2, FS_CardinalityType
  <2>2. QED
    BY <1>2, <2>1, FS_AddElement
<1>4. Cardinality(T) <= Cardinality(S \cup {d}) /\ IsFiniteSet(T)
  BY <1>1, <1>3, FS_Subset
<1>5. Cardinality(S) \in Nat /\ Cardinality(T) \in Nat /\ Cardinality(S \cup {d}) \in Nat
  BY <1>2, <1>3, <1>4, FS_CardinalityType
<1>6. Cardinality(S) < MaxDevices
  BY DEF Pair
<1>7. Cardinality(T) <= MaxDevices
  BY <1>3, <1>4, <1>5, <1>6, DeviceBounds
<1>8. QED
  BY <1>7 DEF CapHolds

LEMMA DeviceInvInit == DeviceInit => DeviceInv
<1>1. SUFFICES ASSUME DeviceInit PROVE DeviceInv
  OBVIOUS
<1>2. {d \in Devices : RowLive(d)} = {}
  BY <1>1 DEF DeviceInit, RowLive
<1>3. DevicesKnown
  <2>1. revokers = {c \in Conns : conn[c].at \in {"checking", "open"}}
    BY <1>1 DEF DeviceInit, Free
  <2>2. Cardinality({d \in Devices : RowLive(d)}) = 0
    BY <1>2, FS_EmptySet
  <2>3. QED
    BY <2>1, <2>2, DeviceBounds DEF DevicesKnown
<1>4. DeviceTypeOK
  BY <1>1, DeviceBounds DEF DeviceInit, DeviceTypeOK, Free
<1>5. NoneUnheard /\ ExitsRightly /\ TokensMade /\ OnlyBadClose
  BY <1>1 DEF DeviceInit, NoneUnheard, ExitsRightly, TokensMade, OnlyBadClose, Free
<1>6. QED
  BY <1>3, <1>4, <1>5 DEF DeviceInv

\* Steps that move one connection and leave the tokens.
LEMMA ConnMoves ==
  ASSUME DeviceInv, NEW c \in Conns, NEW r,
         conn' = [conn EXCEPT ![c] = r],
         r \in [dev : Devices \cup {"none"}, at : Served \cup {"free", "closed_1008", "lost"}, closing : BOOLEAN],
         UNCHANGED <<account, tokenRow, aged, telling>>,
         client' \in [Devices -> {"unpaired", "off", "exited"} \cup Conns],
         netFaults' \in 0..MaxNetFaults,
         \A d \in Devices : client'[d] # "unpaired" => client[d] # "unpaired",
         \A d \in Devices : client'[d] = "exited" => ~Admits(d),
         r.at # "free" => /\ r.dev \in Devices /\ tokenRow[r.dev] # "none"
                          /\ r.closing \/ r.at = "closed_1008" => ~Admits(r.dev),
         r.at = "open" /\ ~r.closing /\ ~Admits(r.dev) =>
           r.dev \in aged \/ telling \cap {r.dev, "user"} # {},
         revokers' = IF r.at \in {"checking", "open"} THEN revokers \cup {c} ELSE revokers \ {c}
  PROVE  DeviceInv'
<1>0. DeviceTypeOK /\ NoneUnheard /\ ExitsRightly /\ DevicesKnown /\ TokensMade /\ OnlyBadClose
  BY DEF DeviceInv
<1>a. \A d : Admits(d)' = Admits(d)
  BY DEF Admits, RowLive
<1>b. conn'[c] = r /\ (\A e \in Conns : e # c => conn'[e] = conn[e]) /\ conn' \in
        [Conns -> [dev : Devices \cup {"none"}, at : Served \cup {"free", "closed_1008", "lost"}, closing : BOOLEAN]]
  BY <1>0 DEF DeviceTypeOK
<1>1. DeviceTypeOK'
  BY <1>0, <1>b DEF DeviceTypeOK
<1>2. NoneUnheard'
  BY <1>0, <1>a, <1>b DEF NoneUnheard
<1>3. ExitsRightly'
  BY <1>a DEF ExitsRightly
<1>4. DevicesKnown'
  <2>1. revokers' = {e \in Conns : conn'[e].at \in {"checking", "open"}}
    BY <1>0, <1>b DEF DevicesKnown
  <2>2. CapHolds'
    BY <1>0, CapKept DEF DevicesKnown, CapHolds, RowLive
  <2>3. QED
    BY <2>1, <2>2 DEF DevicesKnown, CapHolds
<1>5. TokensMade'
  BY <1>0, <1>b DEF TokensMade
<1>6. OnlyBadClose'
  BY <1>0, <1>a, <1>b DEF OnlyBadClose
<1>7. QED
  BY <1>1, <1>2, <1>3, <1>4, <1>5, <1>6 DEF DeviceInv

\* A socket goes to another place, and is in the registries in two of them.
GoesTo(c, to, closing) ==
  /\ conn[c].at # "free"
  /\ conn' = [conn EXCEPT ![c] = [dev |-> conn[c].dev, at |-> to, closing |-> closing]]
  /\ UNCHANGED <<account, tokenRow, aged, client, telling>>
  /\ revokers' = IF to \in {"checking", "open"} THEN revokers \cup {c} ELSE revokers \ {c}

\* What a socket's record is after the assignments to its fields.
LEMMA ClosingSet ==
  ASSUME NEW D, NEW S, NEW r \in [dev : D, at : S, closing : BOOLEAN], NEW y \in BOOLEAN
  PROVE  [r EXCEPT !.closing = y] = [dev |-> r.dev, at |-> r.at, closing |-> y]
  OBVIOUS

LEMMA SocketGoes ==
  ASSUME DeviceInv, NEW c \in Conns, NEW to \in Served \cup {"closed_1008", "lost"}, NEW closing \in BOOLEAN,
         GoesTo(c, to, closing), netFaults' \in 0..MaxNetFaults,
         closing = TRUE \/ to = "closed_1008" => ~Admits(conn[c].dev),
         to = "open" /\ closing = FALSE =>
           Admits(conn[c].dev) \/ (conn[c].at = "open" /\ conn[c].closing = FALSE)
  PROVE  DeviceInv'
<1> DEFINE Rec == [dev : Devices \cup {"none"}, at : Served \cup {"free", "closed_1008", "lost"}, closing : BOOLEAN]
           r == [dev |-> conn[c].dev, at |-> to, closing |-> closing]
<1>0. DeviceTypeOK /\ NoneUnheard /\ ExitsRightly /\ TokensMade /\ OnlyBadClose
  BY DEF DeviceInv
<1>1. conn[c].at # "free" /\ conn' = [conn EXCEPT ![c] = r] /\ UNCHANGED <<account, tokenRow, aged, client, telling>>
      /\ revokers' = IF to \in {"checking", "open"} THEN revokers \cup {c} ELSE revokers \ {c}
  BY DEF GoesTo
<1>2. conn[c].dev \in Devices /\ tokenRow[conn[c].dev] # "none"
  BY <1>0, <1>1 DEF TokensMade
<1>3. r \in Rec /\ r.at = to /\ r.closing = closing /\ r.dev = conn[c].dev
  BY <1>2
<1>4. client' \in [Devices -> {"unpaired", "off", "exited"} \cup Conns]
  BY <1>0, <1>1 DEF DeviceTypeOK
<1>5. /\ \A d \in Devices : client'[d] # "unpaired" => client[d] # "unpaired"
      /\ \A d \in Devices : client'[d] = "exited" => ~Admits(d)
  BY <1>0, <1>1 DEF ExitsRightly
<1> HIDE DEF r
<1>6. r.at # "free" => /\ r.dev \in Devices /\ tokenRow[r.dev] # "none"
                       /\ r.closing \/ r.at = "closed_1008" => ~Admits(r.dev)
  <2>1. r.closing => closing = TRUE
    BY <1>3
  <2>2. QED
    BY <1>2, <1>3, <2>1
<1>7. r.at = "open" /\ ~r.closing /\ ~Admits(r.dev) =>
        r.dev \in aged \/ telling \cap {r.dev, "user"} # {}
  <2>1. SUFFICES ASSUME r.at = "open", ~r.closing, ~Admits(r.dev)
                 PROVE  r.dev \in aged \/ telling \cap {r.dev, "user"} # {}
    OBVIOUS
  <2>2. to = "open" /\ closing = FALSE
    BY <1>3, <2>1
  <2>3. conn[c].at = "open" /\ ~conn[c].closing
    BY <1>3, <2>1, <2>2
  <2>4. QED
    BY <1>0, <1>3, <2>1, <2>3 DEF NoneUnheard
<1>8. revokers' = IF r.at \in {"checking", "open"} THEN revokers \cup {c} ELSE revokers \ {c}
  BY <1>1, <1>3
<1>9. r \in [dev : Devices \cup {"none"}, at : Served \cup {"free", "closed_1008", "lost"}, closing : BOOLEAN]
  BY <1>3
<1>10. UNCHANGED <<account, tokenRow, aged, telling>> /\ conn' = [conn EXCEPT ![c] = r]
  BY <1>1
<1> HIDE DEF Rec
<1>11. QED
  BY <1>4, <1>5, <1>6, <1>7, <1>8, <1>9, <1>10, ConnMoves

LEMMA DeviceInvHolds == DeviceInv /\ [DeviceNext]_deviceVars => DeviceInv'
<1>1. SUFFICES ASSUME DeviceInv, [DeviceNext]_deviceVars PROVE DeviceInv'
  OBVIOUS
<1>0. DeviceTypeOK /\ NoneUnheard /\ ExitsRightly /\ DevicesKnown /\ TokensMade /\ OnlyBadClose /\ CapHolds
  BY <1>1 DEF DeviceInv, DevicesKnown, CapHolds
<1> DEFINE Rec == [dev : Devices \cup {"none"}, at : Served \cup {"free", "closed_1008", "lost"}, closing : BOOLEAN]
<1>2. ASSUME NEW d \in Devices, Pair(d) PROVE DeviceInv'
  <2>1. /\ client' = [client EXCEPT ![d] = "off"] /\ client[d] = "unpaired" /\ tokenRow[d] = "none"
        /\ UNCHANGED <<account, aged, conn, revokers, telling, netFaults>>
    BY <1>2 DEF Pair
  <2>2. DeviceTypeOK'
    BY <1>0, <1>2 DEF DeviceTypeOK, Pair
  <2>3. \A e \in Devices : tokenRow[e] # "none" =>
          e # d /\ tokenRow'[e] # "none" /\ (RowLive(e)' <=> RowLive(e))
    BY <1>0, <1>2 DEF DeviceTypeOK, Pair, RowLive
  <2>4. tokenRow'[d] = "live"
    BY <1>0, <1>2 DEF DeviceTypeOK, Pair
  <2>5. TokensMade'
    BY <1>0, <2>1, <2>3, <2>4 DEF TokensMade, DeviceTypeOK
  <2>6. NoneUnheard' /\ OnlyBadClose'
    BY <1>0, <2>1, <2>3 DEF NoneUnheard, OnlyBadClose, TokensMade, Admits
  <2>7. ExitsRightly'
    BY <1>0, <2>1, <2>3 DEF ExitsRightly, TokensMade, Admits, DeviceTypeOK
  <2>8. DevicesKnown'
    BY <1>0, <1>2, <2>1, CapPaired DEF DevicesKnown, CapHolds
  <2>9. QED
    BY <2>2, <2>5, <2>6, <2>7, <2>8 DEF DeviceInv
<1>3. ASSUME NEW d \in Devices, Age(d) PROVE DeviceInv'
  <2>1. /\ aged' = aged \cup {d} /\ tokenRow[d] # "none"
        /\ UNCHANGED <<account, tokenRow, client, conn, revokers, telling, netFaults>>
    BY <1>3 DEF Age
  <2>2. \A e \in Devices : (RowLive(e)' => RowLive(e)) /\ (Admits(e)' => Admits(e))
                           /\ (e \notin aged' => Admits(e)' = Admits(e))
    BY <2>1 DEF RowLive, Admits
  <2>3. DevicesKnown'
    BY <1>0, <2>1, <2>2, CapKept DEF DevicesKnown, CapHolds
  <2>4. DeviceTypeOK' /\ TokensMade'
    BY <1>0, <2>1 DEF DeviceTypeOK, TokensMade
  <2>5. NoneUnheard' /\ ExitsRightly' /\ OnlyBadClose'
    BY <1>0, <2>1, <2>2 DEF NoneUnheard, ExitsRightly, OnlyBadClose, TokensMade
  <2>6. QED
    BY <2>3, <2>4, <2>5 DEF DeviceInv
<1>4. ASSUME NEW d \in Devices, Revoke(d) PROVE DeviceInv'
  <2>1. /\ tokenRow' = [tokenRow EXCEPT ![d] = "gone"] /\ telling' = telling \cup {d}
        /\ UNCHANGED <<account, aged, client, conn, revokers, netFaults>>
    BY <1>4 DEF Revoke
  <2>2. \A e \in Devices : /\ RowLive(e)' => RowLive(e)
                           /\ tokenRow'[e] = (IF e = d THEN "gone" ELSE tokenRow[e])
                           /\ Admits(e)' => Admits(e)
                           /\ IF e = d THEN ~Admits(e)' ELSE Admits(e)' = Admits(e)
    BY <1>0, <2>1 DEF RowLive, Admits, DeviceTypeOK
  <2>3. DevicesKnown'
    BY <1>0, <2>1, <2>2, CapKept DEF DevicesKnown, CapHolds
  <2>4. DeviceTypeOK' /\ TokensMade'
    BY <1>0, <2>1, <2>2 DEF DeviceTypeOK, TokensMade
  <2>5. ExitsRightly' /\ OnlyBadClose'
    BY <1>0, <2>1, <2>2, DeviceBounds DEF ExitsRightly, OnlyBadClose, TokensMade
  <2>6. NoneUnheard'
    BY <1>0, <2>1, <2>2 DEF NoneUnheard, TokensMade
  <2>7. QED
    BY <2>3, <2>4, <2>5, <2>6 DEF DeviceInv
<1>5. ASSUME DeleteUser PROVE DeviceInv'
  <2>1. /\ account' = FALSE /\ telling' = telling \cup {"user"}
        /\ tokenRow' = [d \in Devices |-> IF tokenRow[d] = "live" THEN "gone" ELSE tokenRow[d]]
        /\ UNCHANGED <<aged, client, conn, revokers, netFaults>>
    BY <1>5 DEF DeleteUser
  <2>2. \A e \in Devices : ~RowLive(e)' /\ ~Admits(e)' /\ (tokenRow'[e] # "none" <=> tokenRow[e] # "none")
    BY <1>0, <2>1 DEF RowLive, Admits, DeviceTypeOK
  <2>3. DevicesKnown'
    BY <1>0, <2>1, <2>2, CapKept DEF DevicesKnown, CapHolds
  <2>4. DeviceTypeOK' /\ TokensMade'
    BY <1>0, <2>1, <2>2, DeviceBounds DEF DeviceTypeOK, TokensMade
  <2>5. NoneUnheard' /\ ExitsRightly' /\ OnlyBadClose'
    BY <1>0, <2>1, <2>2 DEF NoneUnheard, ExitsRightly, OnlyBadClose, TokensMade
  <2>6. QED
    BY <2>3, <2>4, <2>5 DEF DeviceInv
<1>6. ASSUME NEW what \in Devices \cup {"user"}, Tell(what) PROVE DeviceInv'
  <2>1. /\ what \in telling /\ telling' = telling \ {what}
        /\ UNCHANGED <<account, tokenRow, aged, client, revokers, netFaults>>
        /\ conn' = [c \in Conns |-> IF c \in revokers /\ what \in {"user", conn[c].dev}
                              THEN [conn[c] EXCEPT !.closing = TRUE] ELSE conn[c]]
    BY <1>6 DEF Tell
  <2>2. \A e : RowLive(e)' = RowLive(e) /\ Admits(e)' = Admits(e)
    BY <2>1 DEF RowLive, Admits
  <2>3. ASSUME NEW c \in Conns PROVE /\ conn'[c] \in Rec /\ conn'[c].dev = conn[c].dev /\ conn'[c].at = conn[c].at
                                     /\ conn[c].closing => conn'[c].closing
                                     /\ conn[c].at = "open" /\ what \in {"user", conn[c].dev} => conn'[c].closing
                                     /\ conn'[c].closing /\ ~conn[c].closing =>
                                          conn[c].at # "free" /\ what \in {"user", conn[c].dev}
    <3>1. conn[c] \in Rec
      BY <1>0 DEF DeviceTypeOK
    <3>2. conn'[c] = IF c \in revokers /\ what \in {"user", conn[c].dev}
                     THEN [conn[c] EXCEPT !.closing = TRUE] ELSE conn[c]
      BY <2>1
    <3>3. c \in revokers <=> conn[c].at \in {"checking", "open"}
      BY <1>0 DEF DevicesKnown
    <3>4. QED
      BY <3>1, <3>2, <3>3
  <2>4. DeviceTypeOK'
    <3>1. conn' \in [Conns -> Rec]
      BY <2>1, <2>3
    <3>2. QED
      BY <1>0, <2>1, <3>1 DEF DeviceTypeOK
  <2>5. DevicesKnown'
    <3>1. revokers' = {c \in Conns : conn'[c].at \in {"checking", "open"}}
      BY <1>0, <2>1, <2>3 DEF DevicesKnown
    <3>2. QED
      BY <1>0, <2>2, <3>1, CapKept DEF DevicesKnown, CapHolds
  <2>6. TokensMade'
    BY <1>0, <2>1, <2>3 DEF TokensMade
  <2>7. ExitsRightly'
    BY <1>0, <2>1, <2>2 DEF ExitsRightly
  <2>8. OnlyBadClose'
    <3>1. ASSUME NEW c \in Conns, conn[c].at # "free", what \in {"user", conn[c].dev} PROVE ~Admits(conn[c].dev)
      BY <1>0, <2>1, <3>1 DEF OnlyBadClose, TokensMade, Admits
    <3>2. QED
      BY <1>0, <2>1, <2>2, <2>3, <3>1 DEF OnlyBadClose
  <2>9. NoneUnheard'
    <3>1. SUFFICES ASSUME NEW c \in Conns, conn'[c].at = "open", ~conn'[c].closing, ~Admits(conn'[c].dev)
                   PROVE  conn[c].dev \in aged \/ telling' \cap {conn[c].dev, "user"} # {}
      BY <2>1, <2>2, <2>3 DEF NoneUnheard
    <3>2. conn[c].at = "open" /\ ~conn[c].closing /\ what \notin {"user", conn[c].dev} /\ ~Admits(conn[c].dev)
      BY <2>3, <3>1
    <3>3. conn[c].dev \in aged \/ telling \cap {conn[c].dev, "user"} # {}
      BY <1>0, <3>2 DEF NoneUnheard
    <3>4. QED
      BY <2>1, <3>2, <3>3
  <2>10. QED
    BY <2>4, <2>5, <2>6, <2>7, <2>8, <2>9 DEF DeviceInv
<1>7. ASSUME NEW d \in Devices, HalfOpen(d) PROVE DeviceInv'
  <2>1. /\ client' = [client EXCEPT ![d] = "off"] /\ client[d] \in Conns
        /\ netFaults < MaxNetFaults /\ netFaults' = netFaults + 1
        /\ UNCHANGED <<account, tokenRow, aged, conn, revokers, telling>>
    BY <1>7 DEF HalfOpen
  <2>2. DeviceTypeOK'
    BY <1>0, <2>1, DeviceBounds DEF DeviceTypeOK
  <2>3. NoneUnheard' /\ OnlyBadClose' /\ DevicesKnown'
    BY <1>0, <2>1, CapKept DEF NoneUnheard, OnlyBadClose, DevicesKnown, CapHolds, Admits, RowLive
  <2>4. TokensMade' /\ ExitsRightly'
    BY <1>0, <2>1, DeviceBounds DEF TokensMade, ExitsRightly, DeviceTypeOK, Admits, RowLive
  <2>5. QED
    BY <2>2, <2>3, <2>4 DEF DeviceInv
<1>8. ASSUME NEW d \in Devices, NEW c \in Conns, Dial(d, c) PROVE DeviceInv'
  <2> DEFINE r == [dev |-> d, at |-> "handshake", closing |-> FALSE]
  <2>1. /\ client[d] = "off" /\ conn[c].at = "free" /\ client' = [client EXCEPT ![d] = c]
        /\ conn' = [conn EXCEPT ![c] = r]
        /\ UNCHANGED <<account, tokenRow, aged, revokers, telling, netFaults>>
    BY <1>8 DEF Dial
  <2>2. r \in Rec /\ tokenRow[d] # "none"
    BY <1>0, <2>1 DEF Served, TokensMade
  <2>3. client' \in [Devices -> {"unpaired", "off", "exited"} \cup Conns] /\ netFaults' \in 0..MaxNetFaults
    BY <1>0, <2>1 DEF DeviceTypeOK
  <2>4. \A e \in Devices : (client'[e] # "unpaired" => client[e] # "unpaired")
                           /\ (client'[e] = "exited" => ~Admits(e))
    BY <1>0, <2>1, DeviceBounds DEF DeviceTypeOK, ExitsRightly
  <2>5. c \notin revokers
    BY <1>0, <2>1 DEF DevicesKnown
  <2>6. revokers' = revokers \ {c}
    BY <2>1, <2>5
  <2>7. QED
    BY <1>1, <2>1, <2>2, <2>3, <2>4, <2>6, ConnMoves
<1>s. ASSUME NEW c \in Conns, conn[c].at # "free"
      PROVE /\ conn[c] = [dev |-> conn[c].dev, at |-> conn[c].at, closing |-> conn[c].closing]
            /\ conn[c].closing \in BOOLEAN /\ conn[c].at \in Served \cup {"closed_1008", "lost"}
            /\ conn[c].closing => ~Admits(conn[c].dev)
            /\ c \in revokers <=> conn[c].at \in {"checking", "open"}
            /\ netFaults \in 0..MaxNetFaults
  <2>1. conn[c] \in Rec
    BY <1>0 DEF DeviceTypeOK
  <2>2. QED
    BY <1>0, <1>s, <2>1 DEF DeviceTypeOK, OnlyBadClose, DevicesKnown
<1>m. ASSUME NEW c \in Conns, NEW to, conn[c].at # "free", Moves(c, to)
      PROVE conn' = [conn EXCEPT ![c] = [dev |-> conn[c].dev, at |-> to, closing |-> conn[c].closing]]
  <2>1. conn[c] = [dev |-> conn[c].dev, at |-> conn[c].at, closing |-> conn[c].closing]
    BY <1>s, <1>m
  <2>2. [conn[c] EXCEPT !.at = to] = [dev |-> conn[c].dev, at |-> to, closing |-> conn[c].closing]
    BY <2>1
  <2>3. conn' = [conn EXCEPT ![c] = [conn[c] EXCEPT !.at = to]]
    BY <1>m DEF Moves
  <2>4. QED
    BY <2>2, <2>3
<1>10. ASSUME NEW c \in Conns, Authenticate(c) PROVE DeviceInv'
  <2> DEFINE to == IF Admits(conn[c].dev) THEN "accepted" ELSE "closed_1008"
  <2>1. conn[c].at = "handshake" /\ Moves(c, to) /\ UNCHANGED <<account, tokenRow, aged, client, revokers, telling, netFaults>>
    BY <1>10 DEF Authenticate
  <2>2. to \in Served \cup {"closed_1008", "lost"} /\ to \notin {"checking", "open"}
        /\ (to = "closed_1008" => ~Admits(conn[c].dev))
    BY DEF Served
  <2>3. c \notin revokers /\ conn[c].closing \in BOOLEAN /\ (conn[c].closing = TRUE => ~Admits(conn[c].dev))
        /\ netFaults \in 0..MaxNetFaults
    BY <2>1, <1>s
  <2> HIDE DEF to
  <2>4. GoesTo(c, to, conn[c].closing)
    BY <2>1, <2>2, <2>3, <1>m DEF GoesTo
  <2>5. QED
    BY <1>1, <2>1, <2>2, <2>3, <2>4, SocketGoes
<1>11. ASSUME NEW c \in Conns, Register(c) PROVE DeviceInv'
  <2>1. /\ conn[c].at = "accepted" /\ Moves(c, "checking") /\ revokers' = revokers \cup {c}
        /\ UNCHANGED <<account, tokenRow, aged, client, telling, netFaults>>
    BY <1>11 DEF Register
  <2>2. conn[c].closing \in BOOLEAN /\ (conn[c].closing = TRUE => ~Admits(conn[c].dev))
        /\ netFaults \in 0..MaxNetFaults /\ "checking" \in Served
    BY <2>1, <1>s DEF Served
  <2>3. GoesTo(c, "checking", conn[c].closing)
    BY <2>1, <1>m DEF GoesTo
  <2>4. QED
    BY <1>1, <2>1, <2>2, <2>3, SocketGoes
<1>12. ASSUME NEW c \in Conns, Recheck(c) PROVE DeviceInv'
  <2>0. PICK cl \in BOOLEAN : cl = (conn[c].closing \/ ~StillAuthorized(conn[c].dev))
    OBVIOUS
  <2>1. /\ conn[c].at = "checking"
        /\ conn' = [conn EXCEPT ![c].at = "open", ![c].closing = cl]
        /\ UNCHANGED <<account, tokenRow, aged, client, revokers, telling, netFaults>>
    BY <1>12, <2>0 DEF Recheck
  <2>2. "open" \in Served /\ cl \in BOOLEAN /\ (cl <=> ~Admits(conn[c].dev))
    BY <1>s, <2>0, <2>1 DEF Served, StillAuthorized, Admits
  <2>3. c \in revokers /\ netFaults \in 0..MaxNetFaults
    BY <1>s, <2>1
  <2>4. conn' = [conn EXCEPT ![c] = [dev |-> conn[c].dev, at |-> "open", closing |-> cl]]
    <3>1. conn[c] \in [dev : Devices \cup {"none"}, at : Served \cup {"free", "closed_1008", "lost"}, closing : BOOLEAN]
      BY <1>0 DEF DeviceTypeOK
    <3>5. "open" \in Served \cup {"free", "closed_1008", "lost"} /\ cl \in BOOLEAN
      BY <2>2
    <3>2. [conn[c] EXCEPT !.at = "open", !.closing = cl] = [dev |-> conn[c].dev, at |-> "open", closing |-> cl]
      <4> DEFINE s == [conn[c] EXCEPT !.at = "open"]
      <4>1. s \in [dev : Devices \cup {"none"}, at : Served \cup {"free", "closed_1008", "lost"}, closing : BOOLEAN]
            /\ s.dev = conn[c].dev /\ s.at = "open"
        BY <3>1, <3>5
      <4>2. [conn[c] EXCEPT !.at = "open", !.closing = cl] = [s EXCEPT !.closing = cl]
        BY <3>1
      <4> HIDE DEF s
      <4>3. [s EXCEPT !.closing = cl] = [dev |-> s.dev, at |-> s.at, closing |-> cl]
        BY <3>5, <4>1, ClosingSet
      <4>4. QED
        BY <4>1, <4>2, <4>3
    <3>3. conn' = [conn EXCEPT ![c] = [conn[c] EXCEPT !.at = "open", !.closing = cl]]
      <4>1. conn \in [Conns -> Rec]
        BY <1>0 DEF DeviceTypeOK
      <4>2. QED
        BY <2>1, <4>1
    <3>4. QED
      BY <3>2, <3>3
  <2>5. GoesTo(c, "open", cl)
    BY <2>1, <2>3, <2>4 DEF GoesTo
  <2>6. (cl = TRUE => ~Admits(conn[c].dev)) /\ (cl = FALSE => Admits(conn[c].dev))
    BY <2>2
  <2>7. "open" \in Served \cup {"closed_1008", "lost"} /\ netFaults' \in 0..MaxNetFaults
    BY <2>1, <2>2, <2>3
  <2>8. CASE cl = TRUE
    BY <1>1, <2>5, <2>6, <2>7, <2>8, SocketGoes
  <2>9. CASE cl = FALSE
    BY <1>1, <2>5, <2>6, <2>7, <2>9, SocketGoes
  <2>10. QED
    BY <2>2, <2>8, <2>9
<1>13. ASSUME NEW c \in Conns, Expire(c) PROVE DeviceInv'
  <2>1. /\ conn[c].at \in {"checking", "open"} /\ conn[c].dev \in aged
        /\ conn' = [conn EXCEPT ![c].closing = TRUE]
        /\ UNCHANGED <<account, tokenRow, aged, client, revokers, telling, netFaults>>
    BY <1>13 DEF Expire
  <2>2. ~Admits(conn[c].dev) /\ conn[c].at \in Served /\ c \in revokers /\ netFaults \in 0..MaxNetFaults
    BY <1>s, <2>1 DEF Admits, RowLive, Served
  <2>3. conn' = [conn EXCEPT ![c] = [dev |-> conn[c].dev, at |-> conn[c].at, closing |-> TRUE]]
    <3>1. conn[c] \in [dev : Devices \cup {"none"}, at : Served \cup {"free", "closed_1008", "lost"}, closing : BOOLEAN]
      BY <1>0 DEF DeviceTypeOK
    <3>2. [conn[c] EXCEPT !.closing = TRUE] = [dev |-> conn[c].dev, at |-> conn[c].at, closing |-> TRUE]
      BY <3>1, ClosingSet
    <3>3. conn' = [conn EXCEPT ![c] = [conn[c] EXCEPT !.closing = TRUE]]
      BY <2>1
    <3>4. QED
      BY <3>2, <3>3
  <2>4. GoesTo(c, conn[c].at, TRUE)
    BY <2>1, <2>2, <2>3 DEF GoesTo
  <2>5. QED
    BY <1>1, <2>1, <2>2, <2>4, SocketGoes
<1>14. ASSUME NEW c \in Conns, CloseRevoked(c) PROVE DeviceInv'
  <2>1. /\ conn[c].at = "open" /\ conn[c].closing /\ Moves(c, "closed_1008") /\ revokers' = revokers \ {c}
        /\ UNCHANGED <<account, tokenRow, aged, client, telling, netFaults>>
    BY <1>14 DEF CloseRevoked
  <2>2. conn[c].closing \in BOOLEAN /\ ~Admits(conn[c].dev) /\ netFaults \in 0..MaxNetFaults
    BY <2>1, <1>s
  <2>3. GoesTo(c, "closed_1008", conn[c].closing)
    BY <2>1, <1>m DEF GoesTo
  <2>4. QED
    BY <1>1, <2>1, <2>2, <2>3, SocketGoes
<1>15. ASSUME NEW c \in Conns, SocketFails(c) \/ Notice(c) PROVE DeviceInv'
  <2>1. /\ conn[c].at \in Served /\ Moves(c, "lost") /\ revokers' = revokers \ {c}
        /\ UNCHANGED <<account, tokenRow, aged, client, telling>>
    BY <1>15 DEF SocketFails, Notice
  <2>2. netFaults' \in 0..MaxNetFaults
    BY <1>0, <1>15, DeviceBounds DEF SocketFails, Notice, DeviceTypeOK
  <2>3. conn[c].at # "free"
    BY <2>1 DEF Served
  <2>4. conn[c].closing \in BOOLEAN /\ (conn[c].closing = TRUE => ~Admits(conn[c].dev))
    BY <2>3, <1>s
  <2>5. GoesTo(c, "lost", conn[c].closing)
    BY <2>1, <2>3, <1>m DEF GoesTo
  <2>6. QED
    BY <1>1, <2>2, <2>4, <2>5, SocketGoes
<1>16. ASSUME RestartApi PROVE DeviceInv'
  <2>1. /\ revokers' = {} /\ telling' = {}
        /\ netFaults < MaxNetFaults /\ netFaults' = netFaults + 1
        /\ UNCHANGED <<account, tokenRow, aged, client>>
        /\ conn' = [c \in Conns |-> IF conn[c].at \in Served THEN [conn[c] EXCEPT !.at = "lost"] ELSE conn[c]]
    BY <1>16 DEF RestartApi
  <2>2. \A e : RowLive(e)' = RowLive(e) /\ Admits(e)' = Admits(e)
    BY <2>1 DEF RowLive, Admits
  <2>3. ASSUME NEW c \in Conns PROVE /\ conn'[c] \in Rec /\ conn'[c].dev = conn[c].dev
                                     /\ conn'[c].closing = conn[c].closing
                                     /\ conn'[c].at \notin {"checking", "open"}
                                     /\ conn'[c].at = "free" <=> conn[c].at = "free"
                                     /\ conn'[c].at = "closed_1008" => conn[c].at = "closed_1008"
    <3>1. conn[c] \in Rec
      BY <1>0 DEF DeviceTypeOK
    <3>2. conn'[c] = IF conn[c].at \in Served THEN [conn[c] EXCEPT !.at = "lost"] ELSE conn[c]
      BY <2>1
    <3>3. QED
      BY <3>1, <3>2 DEF Served
  <2>4. DeviceTypeOK'
    <3>1. conn' \in [Conns -> Rec]
      BY <2>1, <2>3
    <3>2. QED
      BY <1>0, <2>1, <3>1, DeviceBounds DEF DeviceTypeOK
  <2>5. DevicesKnown'
    BY <1>0, <2>1, <2>2, <2>3, CapKept DEF DevicesKnown, CapHolds
  <2>6. TokensMade' /\ ExitsRightly'
    <3>1. TokensMade'
      BY <1>0, <2>1, <2>3 DEF TokensMade
    <3>2. QED
      BY <1>0, <2>1, <2>2, <3>1 DEF ExitsRightly
  <2>7. OnlyBadClose'
    BY <1>0, <2>1, <2>2, <2>3 DEF OnlyBadClose
  <2>8. NoneUnheard'
    BY <2>3 DEF NoneUnheard
  <2>9. QED
    BY <2>4, <2>5, <2>6, <2>7, <2>8 DEF DeviceInv
<1>17. ASSUME NEW c \in Conns, ClientSees(c) PROVE DeviceInv'
  <2>1. /\ conn[c].at \in {"closed_1008", "lost"} /\ conn' = [conn EXCEPT ![c] = Free]
        /\ client' = IF client[conn[c].dev] = c
               THEN [client EXCEPT ![conn[c].dev] = IF conn[c].at = "lost" THEN "off" ELSE "exited"]
               ELSE client
        /\ UNCHANGED <<account, tokenRow, aged, revokers, telling, netFaults>>
    BY <1>17 DEF ClientSees
  <2>2. c \notin revokers /\ netFaults \in 0..MaxNetFaults
    BY <1>s, <2>1
  <2>3. client' \in [Devices -> {"unpaired", "off", "exited"} \cup Conns]
    BY <1>0, <2>1 DEF DeviceTypeOK
  <2>4. conn[c].dev \in Devices /\ (conn[c].at = "closed_1008" => ~Admits(conn[c].dev))
    BY <1>0, <2>1 DEF TokensMade, OnlyBadClose
  <2>5. \A e \in Devices : (client'[e] # "unpaired" => client[e] # "unpaired")
                           /\ (client'[e] = "exited" => ~Admits(e))
    BY <1>0, <2>1, <2>4, DeviceBounds DEF ExitsRightly, DeviceTypeOK
  <2>6. Free \in Rec /\ Free.at = "free"
    BY DEF Free
  <2>7. revokers' = revokers \ {c} /\ netFaults' \in 0..MaxNetFaults
    BY <2>1, <2>2
  <2>8. QED
    BY <1>1, <2>1, <2>3, <2>5, <2>6, <2>7, ConnMoves
<1>18. CASE UNCHANGED deviceVars
  <2>1. \A d : RowLive(d)' = RowLive(d) /\ Admits(d)' = Admits(d)
    BY <1>18 DEF deviceVars, RowLive, Admits
  <2>2. DevicesKnown'
    BY <1>0, <1>18, <2>1, CapKept DEF DevicesKnown, CapHolds, deviceVars
  <2>3. QED
    BY <1>0, <1>18, <2>1, <2>2 DEF DeviceInv, DeviceTypeOK, NoneUnheard, ExitsRightly, TokensMade, OnlyBadClose, deviceVars
<1>19. QED
  BY <1>1, <1>2, <1>3, <1>4, <1>5, <1>6, <1>7, <1>8, <1>10, <1>11, <1>12, <1>13, <1>14, <1>15, <1>16,
     <1>17, <1>18 DEF DeviceNext, SocketStep

\* However tokens are paired, aged, revoked and deleted with their user, while sockets of any number
\* of PCs handshake, drop and are half open, and the api restarts: no open socket of a bad token is
\* unheard of, no client exits over a good one, every socket is registered and the cap on a user's
\* tokens holds (ws.py, revoke_device_token, delete_user, Runner.run).
THEOREM DevicesAreSafe ==
  DeviceInit /\ [][DeviceNext]_deviceVars => [](DeviceTypeOK /\ NoneUnheard /\ ExitsRightly /\ DevicesKnown)
<1>1. DeviceInv => DeviceTypeOK /\ NoneUnheard /\ ExitsRightly /\ DevicesKnown
  BY DEF DeviceInv
<1>2. QED
  BY <1>1, DeviceInvInit, DeviceInvHolds, PTL


-----------------------------------------------------------------------------
(* Turns at the pool that parses captions.                                  *)

\* Who stands in a line, at most once, and who stands before whom.
InLine(L, u)      == \E a \in 1..Len(L) : L[a] = u
StandsOnce(L)     == \A a, b \in 1..Len(L) : L[a] = L[b] => a = b
Precedes(L, v, u) == \E a, b \in 1..Len(L) : a < b /\ L[a] = v /\ L[b] = u

LEMMA FrontOfSeq ==
  ASSUME NEW S, NEW q \in Seq(S), q # <<>>
  PROVE  /\ Len(q) \in Nat \ {0} /\ Head(q) = q[1] /\ Tail(q) \in Seq(S) /\ Len(Tail(q)) = Len(q) - 1
         /\ (\A i \in 1..(Len(q) - 1) : Tail(q)[i] = q[i + 1]) /\ (Tail(q) = <<>> <=> Len(q) = 1)
<1>1. /\ Len(q) \in Nat \ {0} /\ Head(q) = q[1] /\ Tail(q) \in Seq(S) /\ Len(Tail(q)) = Len(q) - 1
      /\ \A i \in 1..(Len(q) - 1) : Tail(q)[i] = q[i + 1]
  OBVIOUS
<1>2. Tail(q) = <<>> <=> Len(Tail(q)) = 0
  BY <1>1, EmptySeq
<1>3. QED
  BY <1>1, <1>2

\* The front of a line leaves it.
LEMMA FrontLeaves ==
  ASSUME NEW U, NEW L \in Seq(U), L # <<>>, StandsOnce(L)
  PROVE  /\ Tail(L) \in Seq(U) /\ Head(L) \in U /\ StandsOnce(Tail(L)) /\ ~InLine(Tail(L), Head(L))
         /\ InLine(L, Head(L)) /\ \A v : ~Precedes(L, v, Head(L))
         /\ \A u : u # Head(L) => (InLine(Tail(L), u) <=> InLine(L, u))
         /\ \A u, v : v # Head(L) => (Precedes(Tail(L), v, u) <=> Precedes(L, v, u))
         /\ \A u : ~Precedes(Tail(L), Head(L), u)
<1>1. /\ Len(L) \in Nat \ {0} /\ Tail(L) \in Seq(U) /\ Len(Tail(L)) = Len(L) - 1 /\ Head(L) = L[1]
      /\ Head(L) \in U
      /\ \A a \in 1..Len(Tail(L)) : Tail(L)[a] = L[a + 1]
  OBVIOUS
<1> DEFINE n == Len(L)
           M == Tail(L)
           h == Head(L)
<1>2. n \in Nat /\ 1 \in 1..n /\ Len(M) = n - 1 /\ L[1] = h /\ (\A a \in 1..(n - 1) : M[a] = L[a + 1])
  BY <1>1
<1>3. \A a, b \in 1..n : L[a] = L[b] => a = b
  BY DEF StandsOnce
<1> HIDE DEF n, M, h
<1>4. \A a \in 1..(n - 1) : a + 1 \in 1..n /\ a + 1 # 1
  BY <1>2
<1>5. \A b \in 1..n : b # 1 => b - 1 \in 1..(n - 1) /\ M[b - 1] = L[b]
  BY <1>2
<1>6. \A a, b \in 1..(n - 1) : M[a] = M[b] => a = b
  <2>1. SUFFICES ASSUME NEW a \in 1..(n - 1), NEW b \in 1..(n - 1), M[a] = M[b] PROVE a = b
    OBVIOUS
  <2>2. a + 1 = b + 1
    BY <1>2, <1>3, <1>4, <2>1
  <2>3. QED
    BY <1>2, <2>2
<1>7. \A a \in 1..(n - 1) : M[a] # h
  BY <1>2, <1>3, <1>4
<1>8. \A u : u # h => ((\E a \in 1..(n - 1) : M[a] = u) <=> (\E a \in 1..n : L[a] = u))
  <2>1. ASSUME NEW u, u # h, NEW a \in 1..(n - 1), M[a] = u PROVE \E b \in 1..n : L[b] = u
    BY <1>2, <1>4, <2>1
  <2>2. ASSUME NEW u, u # h, NEW b \in 1..n, L[b] = u PROVE \E a \in 1..(n - 1) : M[a] = u
    <3>1. b # 1
      BY <1>2, <2>2
    <3>2. QED
      BY <1>5, <2>2, <3>1
  <2>3. QED
    BY <2>1, <2>2
<1>9. ASSUME NEW u, NEW v, v # h
      PROVE  (\E a, b \in 1..(n - 1) : a < b /\ M[a] = v /\ M[b] = u) <=> (\E a, b \in 1..n : a < b /\ L[a] = v /\ L[b] = u)
  <2>1. ASSUME NEW a \in 1..(n - 1), NEW b \in 1..(n - 1), a < b, M[a] = v, M[b] = u
        PROVE  \E c, d \in 1..n : c < d /\ L[c] = v /\ L[d] = u
    <3>1. a + 1 < b + 1
      BY <1>2, <2>1
    <3>2. QED
      BY <1>2, <1>4, <2>1, <3>1
  <2>2. ASSUME NEW a \in 1..n, NEW b \in 1..n, a < b, L[a] = v, L[b] = u
        PROVE  \E c, d \in 1..(n - 1) : c < d /\ M[c] = v /\ M[d] = u
    <3>1. a # 1 /\ b # 1 /\ a - 1 < b - 1
      BY <1>2, <1>9, <2>2
    <3>2. QED
      BY <1>5, <2>2, <3>1
  <2>3. QED
    BY <2>1, <2>2
<1>10. \A v : ~\E a, b \in 1..n : a < b /\ L[a] = v /\ L[b] = h
  BY <1>2, <1>3
<1>11. /\ Len(L) = n /\ Len(M) = n - 1 /\ M = Tail(L) /\ h = Head(L) /\ L[1] = h
  BY <1>2 DEF n, M, h
<1>12. StandsOnce(M) /\ ~InLine(M, h) /\ (\A v : ~Precedes(L, v, h)) /\ (\A u : ~Precedes(M, h, u)) /\ InLine(L, h)
  BY <1>2, <1>6, <1>7, <1>10, <1>11 DEF StandsOnce, InLine, Precedes
<1>13. \A u : u # h => (InLine(M, u) <=> InLine(L, u))
  BY <1>8, <1>11 DEF InLine
<1>14. ASSUME NEW u, NEW v, v # h PROVE Precedes(M, v, u) <=> Precedes(L, v, u)
  <2>1. (\E a, b \in 1..(n - 1) : a < b /\ M[a] = v /\ M[b] = u) <=> (\E a, b \in 1..n : a < b /\ L[a] = v /\ L[b] = u)
    BY <1>9, <1>14
  <2>2. QED
    BY <1>11, <2>1 DEF Precedes
<1>15. QED
  BY <1>1, <1>11, <1>12, <1>13, <1>14

\* Somebody who is not in a line goes to the back of it.
LEMMA BackJoins ==
  ASSUME NEW U, NEW L \in Seq(U), NEW w \in U, StandsOnce(L), ~InLine(L, w)
  PROVE  /\ Append(L, w) \in Seq(U) /\ StandsOnce(Append(L, w))
         /\ InLine(Append(L, w), w) /\ \A u : u # w => (InLine(Append(L, w), u) <=> InLine(L, u))
         /\ \A u, v : u # w => (Precedes(Append(L, w), v, u) <=> Precedes(L, v, u))
<1> DEFINE n == Len(L)
           M == Append(L, w)
<1>1. /\ n \in Nat /\ M \in Seq(U) /\ Len(M) = n + 1 /\ M[n + 1] = w /\ \A a \in 1..n : M[a] = L[a]
  OBVIOUS
<1>2. (\A a, b \in 1..n : L[a] = L[b] => a = b) /\ (\A a \in 1..n : L[a] # w) /\ Len(L) = n
  BY DEF StandsOnce, InLine
<1>3. M = Append(L, w)
  OBVIOUS
<1> HIDE DEF n, M
<1>4. 1..(n + 1) = (1..n) \cup {n + 1} /\ \A a \in 1..n : a < n + 1
  BY <1>1
<1>5. StandsOnce(M)
  BY <1>1, <1>2, <1>4 DEF StandsOnce
<1>6. InLine(M, w) /\ \A u : u # w => (InLine(M, u) <=> InLine(L, u))
  BY <1>1, <1>2, <1>4 DEF InLine
<1>7. ASSUME NEW u, NEW v, u # w PROVE Precedes(M, v, u) <=> Precedes(L, v, u)
  <2>1. ASSUME NEW a \in 1..(n + 1), NEW b \in 1..(n + 1), a < b, M[a] = v, M[b] = u
        PROVE  a \in 1..n /\ b \in 1..n /\ L[a] = v /\ L[b] = u
    <3>1. b \in 1..n
      BY <1>1, <1>4, <1>7, <2>1
    <3>2. a \in 1..n
      BY <1>1, <2>1, <3>1
    <3>3. QED
      BY <1>1, <2>1, <3>1, <3>2
  <2>2. QED
    BY <1>1, <1>2, <1>4, <2>1 DEF Precedes
<1>8. QED
  BY <1>1, <1>3, <1>5, <1>6, <1>7

-----------------------------------------------------------------------------

TurnTypes ==
  /\ line \in Seq(PoolUsers) /\ queueOf \in [PoolUsers -> Seq(1..MaxJobs)]
  /\ askedBy \in [PoolUsers -> 0..MaxJobs] /\ nexts \in Nat
  /\ passed \in [TurnJobs -> [PoolUsers -> Nat]] /\ ahead \in [TurnJobs -> Nat] /\ IsFiniteSet(running)

\* A queue holds no job twice, and nothing has passed a job that is not asked for yet.
QueuesAsked ==
  \A u \in PoolUsers :
    /\ \A i \in 1..Len(queueOf[u]) : queueOf[u][i] <= askedBy[u]
    /\ \A i, k \in 1..Len(queueOf[u]) : queueOf[u][i] = queueOf[u][k] => i = k
    /\ \A n \in 1..MaxJobs : n > askedBy[u] => passed[<<u, n>>] = Unpassed

\* The line is of the users with waiting jobs.
LineServes == StandsOnce(line) /\ \A u \in PoolUsers : InLine(line, u) <=> queueOf[u] # <<>>

\* How often v may still start before the turn that u's next job takes.
Lead(v, u) == IF Precedes(line, v, u) THEN 1 ELSE 0

\* What has passed the i-th job of a queue, and what still may, is within what it found ahead.
PassedInTurn ==
  \A u \in PoolUsers : \A i \in 1..Len(queueOf[u]) : \A v \in PoolUsers \ {u} :
    passed[<<u, queueOf[u][i]>>][v] + i + Lead(v, u) <= ahead[<<u, queueOf[u][i]>>] + 2

TurnsInv == TurnTypes /\ QueuesAsked /\ LineServes /\ PassedInTurn /\ NoThreadIdles

LEMMA TurnsInvInit == TurnsInit => TurnsInv
<1>1. SUFFICES ASSUME TurnsInit PROVE TurnsInv
  OBVIOUS
<1>2. /\ line = <<>> /\ queueOf = [u \in PoolUsers |-> <<>>] /\ askedBy = [u \in PoolUsers |-> 0] /\ nexts = 0
      /\ passed = [j \in TurnJobs |-> Unpassed] /\ ahead = [j \in TurnJobs |-> 0] /\ running = {}
  BY <1>1 DEF TurnsInit
<1>3. Unpassed \in [PoolUsers -> Nat]
  BY DEF Unpassed
<1>4. TurnTypes
  BY <1>2, <1>3, TurnBounds, FS_EmptySet DEF TurnTypes
<1>5. Len(line) = 0 /\ \A u \in PoolUsers : queueOf[u] = <<>> /\ Len(queueOf[u]) = 0
  BY <1>2
<1>6. QueuesAsked
  <2>1. \A u \in PoolUsers, n \in 1..MaxJobs : passed[<<u, n>>] = Unpassed
    BY <1>2 DEF TurnJobs
  <2>2. QED
    BY <1>5, <2>1 DEF QueuesAsked
<1>7. LineServes /\ PassedInTurn /\ NoThreadIdles
  BY <1>2, <1>5 DEF LineServes, PassedInTurn, NoThreadIdles, StandsOnce, InLine
<1>8. QED
  BY <1>4, <1>6, <1>7 DEF TurnsInv

\* The jobs of the queues and the line as they are.
LEMMA TurnsKept ==
  ASSUME TurnsInv, UNCHANGED <<line, queueOf, askedBy, passed, ahead>>, nexts' \in Nat, NoThreadIdles',
         IsFiniteSet(running')
  PROVE  TurnsInv'
<1>1. TurnTypes' /\ QueuesAsked' /\ LineServes' /\ PassedInTurn'
  BY DEF TurnsInv, TurnTypes, QueuesAsked, LineServes, PassedInTurn, Lead
<1>2. QED
  BY <1>1 DEF TurnsInv

LEMMA RunKeepsTurns ==
  ASSUME TurnsInv, NEW u \in PoolUsers, Run(u)
  PROVE  TurnsInv'
<1> DEFINE new == askedBy[u] + 1
           q == queueOf[u]
<1>0. TurnTypes /\ QueuesAsked /\ LineServes /\ PassedInTurn /\ NoThreadIdles
  BY DEF TurnsInv
<1>1. /\ askedBy[u] < MaxJobs /\ askedBy' = [askedBy EXCEPT ![u] = @ + 1]
      /\ queueOf' = [queueOf EXCEPT ![u] = Append(q, new)]
      /\ line' = IF q = <<>> THEN Append(line, u) ELSE line
      /\ ahead' = [ahead EXCEPT ![<<u, new>>] = Len(q)]
      /\ nexts' = nexts + 1 /\ UNCHANGED <<running, passed>>
  BY DEF Run
<1>2. new \in 1..MaxJobs /\ <<u, new>> \in TurnJobs /\ askedBy[u] \in 0..MaxJobs /\ new > askedBy[u]
  BY <1>0, <1>1, TurnBounds DEF TurnTypes, TurnJobs
<1>3. q \in Seq(1..MaxJobs) /\ Len(q) \in Nat
  BY <1>0 DEF TurnTypes
<1>4. /\ queueOf'[u] = Append(q, new) /\ \A v \in PoolUsers : v # u => queueOf'[v] = queueOf[v]
      /\ askedBy'[u] = new /\ \A v \in PoolUsers : v # u => askedBy'[v] = askedBy[v]
  BY <1>0, <1>1 DEF TurnTypes
<1>5. /\ Len(queueOf'[u]) = Len(q) + 1 /\ queueOf'[u][Len(q) + 1] = new
      /\ \A i \in 1..Len(q) : queueOf'[u][i] = q[i] /\ q[i] \in 1..MaxJobs /\ q[i] # new
      /\ Append(q, new) \in Seq(1..MaxJobs) /\ queueOf'[u] # <<>>
  <2>4. \A i \in 1..Len(q) : q[i] \in 1..MaxJobs
    BY <1>3, ElementOfSeq
  <2>5. \A i \in 1..Len(q) : q[i] <= askedBy[u]
    BY <1>0 DEF QueuesAsked
  <2>1. \A i \in 1..Len(q) : q[i] \in 1..MaxJobs /\ q[i] <= askedBy[u]
    BY <2>4, <2>5
  <2>2. \A i \in 1..Len(q) : q[i] # new
    BY <1>2, <2>1
  <2>6. Append(q, new) \in Seq(1..MaxJobs) /\ Len(Append(q, new)) = Len(q) + 1 /\ Append(q, new)[Len(q) + 1] = new
        /\ (\A i \in 1..Len(q) : Append(q, new)[i] = q[i]) /\ Append(q, new) # <<>>
    BY <1>2, <1>3
  <2>3. QED
    BY <1>4, <2>1, <2>2, <2>6
<1>6. 1..Len(queueOf'[u]) = (1..Len(q)) \cup {Len(q) + 1}
  BY <1>3, <1>5
<1>7. line' \in Seq(PoolUsers) /\ StandsOnce(line') /\ InLine(line', u)
      /\ (\A v \in PoolUsers : v # u => (InLine(line', v) <=> InLine(line, v)))
      /\ \A v, w : w # u => (Precedes(line', v, w) <=> Precedes(line, v, w))
  <2>1. CASE q = <<>>
    <3>1. ~InLine(line, u) /\ StandsOnce(line) /\ line \in Seq(PoolUsers)
      BY <1>0, <2>1 DEF LineServes, TurnTypes
    <3>2. QED
      BY <1>1, <2>1, <3>1, BackJoins
  <2>2. CASE q # <<>>
    BY <1>0, <1>1, <2>2 DEF LineServes, TurnTypes
  <2>3. QED
    BY <2>1, <2>2
<1>8. q # <<>> => line' = line
  BY <1>1
<1>9. /\ ahead'[<<u, new>>] = Len(q)
      /\ \A j \in TurnJobs : j # <<u, new>> => ahead'[j] = ahead[j]
      /\ passed[<<u, new>>] = Unpassed
  BY <1>0, <1>1, <1>2 DEF TurnTypes, QueuesAsked
<1>10. TurnTypes'
  <2>1. queueOf' \in [PoolUsers -> Seq(1..MaxJobs)]
    BY <1>0, <1>1, <1>5 DEF TurnTypes
  <2>2. askedBy' \in [PoolUsers -> 0..MaxJobs]
    BY <1>0, <1>1, <1>2, TurnBounds DEF TurnTypes
  <2>3. ahead' \in [TurnJobs -> Nat] /\ nexts' \in Nat /\ passed' = passed /\ running' = running
    BY <1>0, <1>1, <1>2, <1>3 DEF TurnTypes
  <2>4. QED
    BY <1>0, <1>7, <2>1, <2>2, <2>3 DEF TurnTypes
<1> HIDE DEF new, q
<1>11. QueuesAsked'
  <2>1. \A v \in PoolUsers : v # u =>
          /\ \A i \in 1..Len(queueOf'[v]) : queueOf'[v][i] <= askedBy'[v]
          /\ \A i, k \in 1..Len(queueOf'[v]) : queueOf'[v][i] = queueOf'[v][k] => i = k
          /\ \A n \in 1..MaxJobs : n > askedBy'[v] => passed'[<<v, n>>] = Unpassed
    BY <1>0, <1>1, <1>4 DEF QueuesAsked
  <2>2. /\ \A i \in 1..Len(q) : q[i] <= askedBy[u]
        /\ \A i, k \in 1..Len(q) : q[i] = q[k] => i = k
        /\ \A n \in 1..MaxJobs : n > askedBy[u] => passed[<<u, n>>] = Unpassed
    BY <1>0 DEF QueuesAsked, q
  <2>3. \A i \in 1..Len(queueOf'[u]) : queueOf'[u][i] <= askedBy'[u]
    <3>1. \A i \in 1..Len(q) : q[i] \in Nat /\ q[i] <= new
      BY <1>2, <1>5, <2>2 DEF new
    <3>2. QED
      BY <1>2, <1>4, <1>5, <1>6, <3>1
  <2>4. \A i, k \in 1..Len(queueOf'[u]) : queueOf'[u][i] = queueOf'[u][k] => i = k
    BY <1>5, <1>6, <2>2
  <2>5. \A n \in 1..MaxJobs : n > askedBy'[u] => passed'[<<u, n>>] = Unpassed
    BY <1>1, <1>2, <1>4, <2>2 DEF new
  <2>6. Unpassed' = Unpassed
    BY DEF Unpassed
  <2>7. QED
    BY <2>1, <2>3, <2>4, <2>5, <2>6 DEF QueuesAsked
<1>12. LineServes'
  BY <1>0, <1>4, <1>5, <1>7 DEF LineServes
<1>13. PassedInTurn'
  <2>1. SUFFICES ASSUME NEW w \in PoolUsers, NEW i \in 1..Len(queueOf'[w]), NEW v \in PoolUsers \ {w}
                 PROVE  passed'[<<w, queueOf'[w][i]>>][v] + i + Lead(v, w)' <= ahead'[<<w, queueOf'[w][i]>>] + 2
    BY DEF PassedInTurn
  <2>2. CASE w # u
    <3>1. queueOf'[w] = queueOf[w] /\ Lead(v, w)' = Lead(v, w) /\ <<w, queueOf[w][i]>> # <<u, new>>
          /\ i \in 1..Len(queueOf[w])
      BY <1>4, <1>7, <2>1, <2>2 DEF Lead
    <3>2. <<w, queueOf[w][i]>> \in TurnJobs
      <4>1. queueOf[w] \in Seq(1..MaxJobs)
        BY <1>0 DEF TurnTypes
      <4>2. queueOf[w][i] \in 1..MaxJobs
        BY <3>1, <4>1, ElementOfSeq
      <4>3. QED
        BY <4>2 DEF TurnJobs
    <3>3. ahead'[<<w, queueOf[w][i]>>] = ahead[<<w, queueOf[w][i]>>] /\ passed' = passed
      BY <1>1, <1>9, <3>1, <3>2
    <3>4. passed[<<w, queueOf[w][i]>>][v] + i + Lead(v, w) <= ahead[<<w, queueOf[w][i]>>] + 2
      BY <1>0, <3>1 DEF PassedInTurn
    <3>5. QED
      BY <3>1, <3>3, <3>4
  <2>3. CASE w = u /\ i \in 1..Len(q)
    <3>1. queueOf'[w][i] = q[i] /\ q[i] # new /\ q[i] \in 1..MaxJobs /\ i \in 1..Len(q) /\ q # <<>>
      BY <1>3, <1>5, <2>3
    <3>2. Lead(v, w)' = Lead(v, w)
      BY <1>8, <3>1 DEF Lead
    <3>3. <<w, q[i]>> \in TurnJobs /\ <<w, q[i]>> # <<u, new>>
      BY <2>3, <3>1 DEF TurnJobs
    <3>4. ahead'[<<w, q[i]>>] = ahead[<<w, q[i]>>] /\ passed' = passed
      BY <1>1, <1>9, <3>3
    <3>5. passed[<<w, q[i]>>][v] + i + Lead(v, w) <= ahead[<<w, q[i]>>] + 2
      BY <1>0, <2>3, <3>1 DEF PassedInTurn, q
    <3>6. QED
      BY <3>1, <3>2, <3>4, <3>5
  <2>4. CASE w = u /\ i = Len(q) + 1
    <3>1. queueOf'[w][i] = new /\ passed'[<<w, new>>][v] = 0 /\ ahead'[<<w, new>>] = Len(q)
      BY <1>1, <1>5, <1>9, <2>4 DEF Unpassed
    <3>2. Lead(v, w)' \in {0, 1}
      BY DEF Lead
    <3>3. QED
      BY <1>3, <2>4, <3>1, <3>2
  <2>5. QED
    BY <1>6, <2>2, <2>3, <2>4
<1>14. NoThreadIdles'
  BY <1>0, <1>1 DEF NoThreadIdles, TurnTypes
<1>15. QED
  BY <1>10, <1>11, <1>12, <1>13, <1>14 DEF TurnsInv

LEMMA TakeTurnKeepsTurns ==
  ASSUME TurnsInv, TakeTurn
  PROVE  TurnsInv'
<1> DEFINE h == Head(line)
           q == queueOf[h]
           taken == <<h, Head(q)>>
<1>0. TurnTypes /\ QueuesAsked /\ LineServes /\ PassedInTurn /\ NoThreadIdles
  BY DEF TurnsInv
<1>1. /\ nexts > 0 /\ line # <<>> /\ line' = LineAfter(h) /\ queueOf' = [queueOf EXCEPT ![h] = Tail(q)]
      /\ ahead' = [ahead EXCEPT ![taken] = 0] /\ UNCHANGED <<askedBy, nexts>>
      /\ running' \in {running, running \cup {taken}}
  BY DEF TakeTurn
<1>2. passed' = [passed EXCEPT ![taken] = Unpassed] \/ Passes(h, taken)
  BY DEF TakeTurn
<1>3. line \in Seq(PoolUsers) /\ StandsOnce(line)
  BY <1>0 DEF TurnTypes, LineServes
<1>4. /\ Tail(line) \in Seq(PoolUsers) /\ h \in PoolUsers /\ StandsOnce(Tail(line)) /\ ~InLine(Tail(line), h)
      /\ InLine(line, h) /\ (\A v : ~Precedes(line, v, h))
      /\ (\A u : u # h => (InLine(Tail(line), u) <=> InLine(line, u)))
      /\ (\A u, v : v # h => (Precedes(Tail(line), v, u) <=> Precedes(line, v, u)))
      /\ \A u : ~Precedes(Tail(line), h, u)
  BY <1>1, <1>3, FrontLeaves
<1>5. q \in Seq(1..MaxJobs) /\ q # <<>>
  BY <1>0, <1>4 DEF TurnTypes, LineServes
<1>6. Len(q) \in Nat \ {0} /\ Head(q) = q[1] /\ Tail(q) \in Seq(1..MaxJobs) /\ Len(Tail(q)) = Len(q) - 1
      /\ (\A i \in 1..(Len(q) - 1) : Tail(q)[i] = q[i + 1]) /\ (Tail(q) = <<>> <=> Len(q) = 1)
  BY <1>5, FrontOfSeq
<1>7. \A i \in 1..Len(q) : q[i] \in 1..MaxJobs
  BY <1>5, ElementOfSeq
<1>8. taken \in TurnJobs
  BY <1>4, <1>6, <1>7 DEF TurnJobs
<1>9. queueOf'[h] = Tail(q) /\ \A u \in PoolUsers : u # h => queueOf'[u] = queueOf[u]
  BY <1>0, <1>1, <1>4 DEF TurnTypes
<1> DEFINE M == Tail(line)
<1>m. /\ M \in Seq(PoolUsers) /\ h \in PoolUsers /\ StandsOnce(M) /\ ~InLine(M, h)
      /\ (\A u : u # h => (InLine(M, u) <=> InLine(line, u)))
      /\ (\A u, v : v # h => (Precedes(M, v, u) <=> Precedes(line, v, u)))
      /\ \A u : ~Precedes(M, h, u)
  BY <1>4
<1>n. line' = IF Len(q) > 1 THEN Append(M, h) ELSE M
  BY <1>1 DEF LineAfter
<1> HIDE DEF taken, h, q, M
<1>10. /\ line' \in Seq(PoolUsers) /\ StandsOnce(line')
       /\ (InLine(line', h) <=> Len(q) > 1)
       /\ (\A u : u # h => (InLine(line', u) <=> InLine(line, u)))
       /\ (\A u, v : u # h /\ v # h => (Precedes(line', v, u) <=> Precedes(line, v, u)))
       /\ \A u : u # h => ~Precedes(line', h, u)
  <2>1. CASE Len(q) > 1
    <3>1. line' = Append(M, h)
      BY <1>n, <2>1
    <3>2. QED
      BY <1>m, <2>1, <3>1, BackJoins
  <2>2. CASE ~(Len(q) > 1)
    <3>1. line' = M
      BY <1>n, <2>2
    <3>2. QED
      BY <1>m, <2>2, <3>1
  <2>3. QED
    BY <2>1, <2>2
<1>11. ASSUME NEW u \in PoolUsers, NEW n \in 1..MaxJobs, <<u, n>> # taken
       PROVE  /\ <<u, n>> \in TurnJobs /\ ahead'[<<u, n>>] = ahead[<<u, n>>]
              /\ \A v \in PoolUsers : passed'[<<u, n>>][v] <= passed[<<u, n>>][v] + (IF v = h THEN 1 ELSE 0)
              /\ ~Waiting(<<u, n>>) => passed'[<<u, n>>] = passed[<<u, n>>]
  <2>1. <<u, n>> \in TurnJobs
    BY DEF TurnJobs
  <2>2. ahead'[<<u, n>>] = ahead[<<u, n>>] /\ passed[<<u, n>>] \in [PoolUsers -> Nat]
    BY <1>0, <1>1, <1>8, <1>11, <2>1 DEF TurnTypes
  <2>3. CASE passed' = [passed EXCEPT ![taken] = Unpassed]
    <3>1. passed'[<<u, n>>] = passed[<<u, n>>]
      BY <1>0, <1>11, <2>1, <2>3 DEF TurnTypes
    <3>2. QED
      BY <2>1, <2>2, <3>1
  <2>4. CASE Passes(h, taken)
    <3>1. passed'[<<u, n>>] = IF Waiting(<<u, n>>) THEN [passed[<<u, n>>] EXCEPT ![h] = @ + 1] ELSE passed[<<u, n>>]
      BY <1>11, <2>1, <2>4 DEF Passes
    <3>2. passed'[<<u, n>>] = passed[<<u, n>>] \/ passed'[<<u, n>>] = [passed[<<u, n>>] EXCEPT ![h] = @ + 1]
      BY <3>1
    <3>3. ASSUME NEW v \in PoolUsers, NEW f \in [PoolUsers -> Nat]
          PROVE  f[v] <= f[v] + (IF v = h THEN 1 ELSE 0)
                 /\ [f EXCEPT ![h] = @ + 1][v] <= f[v] + (IF v = h THEN 1 ELSE 0)
      OBVIOUS
    <3>4. \A v \in PoolUsers : passed'[<<u, n>>][v] <= passed[<<u, n>>][v] + (IF v = h THEN 1 ELSE 0)
      BY <2>2, <3>2, <3>3
    <3>5. QED
      BY <2>1, <2>2, <3>1, <3>4
  <2>5. QED
    BY <1>2, <2>3, <2>4 DEF taken, h, q
<1>12. passed' \in [TurnJobs -> [PoolUsers -> Nat]]
  <2>1. Unpassed \in [PoolUsers -> Nat]
    BY DEF Unpassed
  <2>2. CASE passed' = [passed EXCEPT ![taken] = Unpassed]
    BY <1>0, <2>1, <2>2 DEF TurnTypes
  <2>3. CASE Passes(h, taken)
    <3>1. \A j \in TurnJobs : [passed[j] EXCEPT ![h] = @ + 1] \in [PoolUsers -> Nat]
      <4>1. ASSUME NEW f \in [PoolUsers -> Nat] PROVE [f EXCEPT ![h] = @ + 1] \in [PoolUsers -> Nat]
        BY <1>4 DEF h
      <4>2. QED
        BY <1>0, <4>1 DEF TurnTypes
    <3>2. \A j \in TurnJobs : passed[j] \in [PoolUsers -> Nat]
      BY <1>0 DEF TurnTypes
    <3>3. QED
      BY <2>1, <2>3, <3>1, <3>2 DEF Passes
  <2>4. QED
    BY <1>2, <2>2, <2>3 DEF taken, h, q
<1>13. TurnTypes'
  <2>1. queueOf' \in [PoolUsers -> Seq(1..MaxJobs)] /\ askedBy' = askedBy /\ nexts' = nexts
    BY <1>0, <1>1, <1>6 DEF TurnTypes, h, q
  <2>2. ahead' \in [TurnJobs -> Nat]
    BY <1>0, <1>1, <1>8 DEF TurnTypes, h, q, taken
  <2>3. IsFiniteSet(running')
    <3>1. IsFiniteSet(running) /\ IsFiniteSet(running \cup {taken})
      BY <1>0, FS_AddElement DEF TurnTypes
    <3>2. QED
      BY <1>1, <3>1 DEF h, q, taken
  <2>4. QED
    BY <1>0, <1>10, <1>12, <2>1, <2>2, <2>3 DEF TurnTypes
<1>14. h \in PoolUsers /\ queueOf[h] = q /\ askedBy' = askedBy /\ Unpassed' = Unpassed /\ taken = <<h, q[1]>>
  BY <1>1, <1>4, <1>6 DEF h, q, taken, Unpassed
<1>15. /\ \A i \in 1..Len(queueOf'[h]) : i + 1 \in 1..Len(q) /\ queueOf'[h][i] = q[i + 1] /\ i \in 1..(Len(q) - 1)
  BY <1>6, <1>9
<1>16. 1 \in 1..Len(q) /\ \A i, k \in 1..Len(q) : q[i] = q[k] => i = k
  BY <1>0, <1>6, <1>14 DEF QueuesAsked
<1>17. QueuesAsked'
  <2>1. SUFFICES ASSUME NEW u \in PoolUsers
                 PROVE  /\ \A i \in 1..Len(queueOf'[u]) : queueOf'[u][i] <= askedBy[u]
                        /\ \A i, k \in 1..Len(queueOf'[u]) : queueOf'[u][i] = queueOf'[u][k] => i = k
                        /\ \A n \in 1..MaxJobs : n > askedBy[u] => passed'[<<u, n>>] = Unpassed
    BY <1>14 DEF QueuesAsked
  <2>2. /\ \A i \in 1..Len(queueOf[u]) : queueOf[u][i] <= askedBy[u]
        /\ \A i, k \in 1..Len(queueOf[u]) : queueOf[u][i] = queueOf[u][k] => i = k
        /\ \A n \in 1..MaxJobs : n > askedBy[u] => passed[<<u, n>>] = Unpassed
    BY <1>0 DEF QueuesAsked
  <2>3. ASSUME NEW i \in 1..Len(queueOf'[u]) PROVE queueOf'[u][i] <= askedBy[u]
    <3>1. CASE u = h
      <4>1. queueOf'[u][i] = q[i + 1] /\ i + 1 \in 1..Len(q)
        BY <1>15, <3>1
      <4>2. q[i + 1] <= askedBy[u]
        BY <1>14, <2>2, <3>1, <4>1
      <4>3. QED
        BY <4>1, <4>2
    <3>2. CASE u # h
      BY <1>9, <2>2, <3>2
    <3>3. QED
      BY <3>1, <3>2
  <2>4. ASSUME NEW i \in 1..Len(queueOf'[u]), NEW k \in 1..Len(queueOf'[u]), queueOf'[u][i] = queueOf'[u][k]
        PROVE  i = k
    <3>1. CASE u = h
      <4>1. i + 1 = k + 1 /\ i \in 1..(Len(q) - 1) /\ k \in 1..(Len(q) - 1)
        BY <1>15, <1>16, <2>4, <3>1
      <4>2. QED
        BY <1>6, <4>1
    <3>2. CASE u # h
      BY <1>9, <2>2, <2>4, <3>2
    <3>3. QED
      BY <3>1, <3>2
  <2>5. ASSUME NEW n \in 1..MaxJobs, n > askedBy[u] PROVE passed'[<<u, n>>] = Unpassed
    <3>1. ~Waiting(<<u, n>>)
      <4>1. askedBy[u] \in 0..MaxJobs
        BY <1>0 DEF TurnTypes
      <4>2. SUFFICES ASSUME NEW i \in 1..Len(queueOf[u]), queueOf[u][i] = n PROVE FALSE
        BY DEF Waiting
      <4>3. n <= askedBy[u]
        BY <2>2, <4>2
      <4>4. QED
        BY <2>5, <4>1, <4>3, TurnBounds
    <3>2. <<u, n>> # taken
      BY <1>14, <1>16, <3>1 DEF Waiting
    <3>3. QED
      BY <1>11, <2>2, <2>5, <3>1, <3>2
  <2>6. QED
    BY <2>3, <2>4, <2>5
<1>18. LineServes'
  <2>1. queueOf'[h] # <<>> <=> Len(q) > 1
    BY <1>6, <1>9
  <2>2. QED
    BY <1>0, <1>9, <1>10, <2>1 DEF LineServes
<1>19. PassedInTurn'
  <2>1. SUFFICES ASSUME NEW u \in PoolUsers, NEW i \in 1..Len(queueOf'[u]), NEW v \in PoolUsers \ {u}
                 PROVE  passed'[<<u, queueOf'[u][i]>>][v] + i + Lead(v, u)' <= ahead'[<<u, queueOf'[u][i]>>] + 2
    BY DEF PassedInTurn
  <2>2. CASE u = h
    <3> DEFINE n == q[i + 1]
    <3>1. queueOf'[u][i] = n /\ i + 1 \in 1..Len(q) /\ n \in 1..MaxJobs /\ i \in 1..(Len(q) - 1)
      BY <1>7, <1>15, <2>2
    <3>2. <<u, n>> # taken
      BY <1>6, <1>14, <1>16, <3>1
    <3>3. passed[<<u, n>>][v] + (i + 1) + Lead(v, u) <= ahead[<<u, n>>] + 2 /\ Lead(v, u) = 0
      BY <1>0, <1>4, <1>14, <2>2, <3>1 DEF PassedInTurn, Lead, h
    <3> HIDE DEF n
    <3>4. passed'[<<u, n>>][v] <= passed[<<u, n>>][v] + 0 /\ ahead'[<<u, n>>] = ahead[<<u, n>>] /\ <<u, n>> \in TurnJobs
      BY <1>11, <2>2, <3>1, <3>2
    <3>5. passed[<<u, n>>][v] \in Nat /\ passed'[<<u, n>>][v] \in Nat /\ ahead[<<u, n>>] \in Nat /\ i \in Nat
      BY <1>0, <1>6, <1>12, <3>1, <3>4 DEF TurnTypes
    <3>6. PICK later \in {0, 1} : later = Lead(v, u)'
      BY DEF Lead
    <3>7. passed[<<u, n>>][v] + (i + 1) <= ahead[<<u, n>>] + 2
      BY <3>3, <3>5
    <3>8. passed'[<<u, n>>][v] + i + later <= ahead'[<<u, n>>] + 2
      BY <3>4, <3>5, <3>6, <3>7, SMTT(20)
    <3>9. QED
      BY <3>1, <3>6, <3>8
  <2>3. CASE u # h
    <3> DEFINE n == queueOf[u][i]
    <3>1. queueOf'[u][i] = n /\ i \in 1..Len(queueOf[u])
      BY <1>9, <2>3
    <3>2. n \in 1..MaxJobs /\ queueOf[u] \in Seq(1..MaxJobs)
      BY <1>0, <3>1, ElementOfSeq DEF TurnTypes
    <3>3. <<u, n>> # taken
      BY <1>14, <2>3
    <3>4. passed[<<u, n>>][v] + i + Lead(v, u) <= ahead[<<u, n>>] + 2
      BY <1>0, <3>1 DEF PassedInTurn
    <3> HIDE DEF n
    <3>5. passed'[<<u, n>>][v] <= passed[<<u, n>>][v] + (IF v = h THEN 1 ELSE 0) /\ ahead'[<<u, n>>] = ahead[<<u, n>>]
          /\ <<u, n>> \in TurnJobs
      BY <1>11, <3>2, <3>3
    <3>6. passed[<<u, n>>][v] \in Nat /\ passed'[<<u, n>>][v] \in Nat /\ ahead[<<u, n>>] \in Nat /\ i \in Nat
      BY <1>0, <1>12, <3>1, <3>2, <3>5 DEF TurnTypes
    <3>7. CASE v = h
      <4>1. Lead(v, u)' = 0
        BY <1>10, <2>3, <3>7 DEF Lead
      <4>2. Lead(v, u) = 1
        <5>1. InLine(line, u)
          BY <1>0, <3>1, <3>2 DEF LineServes
        <5>2. Precedes(line, h, u)
          BY <1>1, <1>3, <2>3, <5>1 DEF Precedes, InLine, h
        <5>3. QED
          BY <3>7, <5>2 DEF Lead
      <4>3. QED
        BY <3>1, <3>4, <3>5, <3>6, <3>7, <4>1, <4>2, SMTT(20)
    <3>8. CASE v # h
      <4>1. Lead(v, u)' = Lead(v, u) /\ Lead(v, u) \in {0, 1}
        BY <1>10, <2>3, <3>8 DEF Lead
      <4>2. QED
        BY <3>1, <3>4, <3>5, <3>6, <3>8, <4>1, SMTT(20)
    <3>9. QED
      BY <3>7, <3>8
  <2>4. QED
    BY <2>2, <2>3
<1>20. NoThreadIdles'
  BY <1>1 DEF NoThreadIdles
<1>21. QED
  BY <1>13, <1>17, <1>18, <1>19, <1>20 DEF TurnsInv

LEMMA TurnsInvHolds == TurnsInv /\ [TurnsNext]_turnVars => TurnsInv'
<1>1. SUFFICES ASSUME TurnsInv, [TurnsNext]_turnVars PROVE TurnsInv'
  OBVIOUS
<1>0. NoThreadIdles /\ nexts \in Nat /\ IsFiniteSet(running) /\ Cardinality(running) \in Nat
  BY <1>1, FS_CardinalityType DEF TurnsInv, TurnTypes
<1>2. ASSUME NEW u \in PoolUsers, Run(u) PROVE TurnsInv'
  BY <1>1, <1>2, RunKeepsTurns
<1>3. ASSUME NEW j \in TurnJobs, CancelRun(j) PROVE TurnsInv'
  <2>1. NoThreadIdles' /\ nexts' \in Nat /\ IsFiniteSet(running')
    BY <1>0, <1>3 DEF CancelRun, NoThreadIdles
  <2>2. QED
    BY <1>1, <1>3, <2>1, TurnsKept DEF CancelRun
<1>4. ASSUME NEW j \in TurnJobs, JobEnds(j) PROVE TurnsInv'
  <2>1. NoThreadIdles' /\ nexts' \in Nat /\ IsFiniteSet(running')
    BY <1>0, <1>4, FS_RemoveElement DEF JobEnds, NoThreadIdles
  <2>2. QED
    BY <1>1, <1>4, <2>1, TurnsKept DEF JobEnds
<1>5. ASSUME TakeTurn PROVE TurnsInv'
  BY <1>1, <1>5, TakeTurnKeepsTurns
<1>6. ASSUME NextReturns PROVE TurnsInv'
  <2>1. NoThreadIdles' /\ nexts' \in Nat /\ IsFiniteSet(running')
    BY <1>0, <1>6, TurnBounds DEF NextReturns, NoThreadIdles
  <2>2. QED
    BY <1>1, <1>6, <2>1, TurnsKept DEF NextReturns
<1>7. ASSUME PoolShutDown \/ UNCHANGED turnVars PROVE TurnsInv'
  <2>1. NoThreadIdles' /\ nexts' \in Nat /\ IsFiniteSet(running')
    BY <1>0, <1>7 DEF PoolShutDown, NoThreadIdles, turnVars
  <2>2. QED
    BY <1>1, <1>7, <2>1, TurnsKept DEF PoolShutDown, turnVars
<1>8. QED
  BY <1>1, <1>2, <1>3, <1>4, <1>5, <1>6, <1>7 DEF TurnsNext

\* However many users ask for however many jobs, and whichever callers are cancelled and threads end
\* at once: a waiting job is passed by one job of each other user, and by one more for each job its
\* own user had before it, and no thread idles while a job waits (FairPool.run, _next, _call).
THEOREM TurnsAreTaken == TurnsInit /\ [][TurnsNext]_turnVars => [](NobodyPassedOver /\ NoThreadIdles)
<1>1. TurnsInv => NobodyPassedOver /\ NoThreadIdles
  <2>1. SUFFICES ASSUME TurnsInv, NEW u \in PoolUsers, NEW n \in 1..MaxJobs, Waiting(<<u, n>>),
                        NEW v \in PoolUsers \ {u}
                 PROVE  passed[<<u, n>>][v] <= ahead[<<u, n>>] + 1
    BY DEF NobodyPassedOver, TurnsInv, TurnJobs
  <2>2. PICK i \in 1..Len(queueOf[u]) : queueOf[u][i] = n
    BY <2>1 DEF Waiting
  <2>3. passed[<<u, n>>][v] + i + Lead(v, u) <= ahead[<<u, n>>] + 2 /\ Lead(v, u) \in {0, 1}
    BY <2>1, <2>2 DEF TurnsInv, PassedInTurn, Lead
  <2>4. passed[<<u, n>>][v] \in Nat /\ ahead[<<u, n>>] \in Nat /\ i >= 1 /\ i \in Nat
    BY <2>1, <2>2 DEF TurnsInv, TurnTypes, TurnJobs
  <2>5. QED
    BY <2>3, <2>4
<1>2. QED
  BY <1>1, TurnsInvInit, TurnsInvHolds, PTL

-----------------------------------------------------------------------------
(* Where a capture PC crops, and how often it sends.                        *)

Messages == ({"cadence"} \X BOOLEAN) \cup ({"region"} \X Panes)

\* What a client holds once it has heard all that is under way: v, if it holds `now`.
LastSays(ms, kind, v) ==
  \E i \in 1..Len(ms) : /\ ms[i][1] = kind /\ ms[i][2] = v
                        /\ \A k \in 1..Len(ms) : k > i => ms[k][1] # kind
NoneSays(ms, kind)    == \A i \in 1..Len(ms) : ms[i][1] # kind
ComesTo(ms, kind, now, v) == LastSays(ms, kind, v) \/ (NoneSays(ms, kind) /\ now = v)

\* One more message.
LEMMA OneMore ==
  ASSUME NEW M, NEW ms \in Seq(M), NEW m \in M, NEW kind, NEW now, NEW v
  PROVE  /\ m[1] = kind => ComesTo(Append(ms, m), kind, now, m[2])
         /\ m[1] # kind /\ ComesTo(ms, kind, now, v) => ComesTo(Append(ms, m), kind, now, v)
         /\ m[1] # kind /\ NoneSays(ms, kind) => NoneSays(Append(ms, m), kind)
<1> DEFINE n == Len(ms)
           grown == Append(ms, m)
<1>1. n \in Nat /\ Len(grown) = n + 1 /\ grown[n + 1] = m /\ (\A i \in 1..n : grown[i] = ms[i]) /\ n = Len(ms)
  OBVIOUS
<1> HIDE DEF n
<1>a. grown = Append(ms, m)
  OBVIOUS
<1> HIDE DEF grown
<1>2. 1..(n + 1) = (1..n) \cup {n + 1} /\ (\A i \in 1..n : i < n + 1) /\ n + 1 \in 1..(n + 1)
  BY <1>1
<1>3. ASSUME m[1] = kind PROVE LastSays(grown, kind, m[2])
  <2>1. \A k \in 1..(n + 1) : ~(k > n + 1)
    BY <1>1
  <2>2. QED
    BY <1>1, <1>2, <1>3, <2>1 DEF LastSays
<1>4. ASSUME m[1] # kind, NoneSays(ms, kind) PROVE NoneSays(grown, kind)
  BY <1>1, <1>2, <1>4 DEF NoneSays
<1>5. ASSUME m[1] # kind, LastSays(ms, kind, v) PROVE LastSays(grown, kind, v)
  <2>1. PICK i \in 1..n : ms[i][1] = kind /\ ms[i][2] = v /\ \A k \in 1..n : k > i => ms[k][1] # kind
    BY <1>1, <1>5 DEF LastSays
  <2>2. grown[i][1] = kind /\ grown[i][2] = v /\ i \in 1..(n + 1)
    BY <1>1, <1>2, <2>1
  <2>3. \A k \in 1..(n + 1) : k > i => grown[k][1] # kind
    BY <1>1, <1>2, <1>5, <2>1
  <2>4. QED
    BY <1>1, <2>2, <2>3 DEF LastSays
<1>6. QED
  BY <1>a, <1>3, <1>4, <1>5 DEF ComesTo

\* One message less.
LEMMA OneHeard ==
  ASSUME NEW M, NEW ms \in Seq(M), ms # <<>>, NEW kind, NEW now, NEW v
  PROVE  /\ Head(ms) \in M /\ Tail(ms) \in Seq(M)
         /\ Head(ms)[1] = kind /\ ComesTo(ms, kind, now, v) => ComesTo(Tail(ms), kind, Head(ms)[2], v)
         /\ Head(ms)[1] # kind /\ ComesTo(ms, kind, now, v) => ComesTo(Tail(ms), kind, now, v)
         /\ NoneSays(ms, kind) => NoneSays(Tail(ms), kind) /\ Head(ms)[1] # kind
<1> DEFINE n == Len(ms)
           rest == Tail(ms)
<1>1. /\ n \in Nat \ {0} /\ Head(ms) = ms[1] /\ rest \in Seq(M) /\ Len(rest) = n - 1 /\ Head(ms) \in M
      /\ (\A i \in 1..(n - 1) : rest[i] = ms[i + 1]) /\ n = Len(ms)
  BY FrontOfSeq
<1>a. rest = Tail(ms)
  OBVIOUS
<1> HIDE DEF n, rest
<1>2. /\ 1 \in 1..n /\ \A i \in 1..(n - 1) : i + 1 \in 1..n
      /\ \A k \in 1..n : k # 1 => k - 1 \in 1..(n - 1) /\ rest[k - 1] = ms[k]
  <2>1. \A k \in 1..n : k # 1 => k - 1 \in 1..(n - 1) /\ (k - 1) + 1 = k
    BY <1>1
  <2>2. QED
    BY <1>1, <2>1
<1>3. NoneSays(ms, kind) => NoneSays(rest, kind) /\ ms[1][1] # kind
  BY <1>1, <1>2 DEF NoneSays
<1>4. ASSUME LastSays(ms, kind, v) PROVE LastSays(rest, kind, v) \/ (NoneSays(rest, kind) /\ ms[1][1] = kind /\ ms[1][2] = v)
  <2>1. PICK i \in 1..n : ms[i][1] = kind /\ ms[i][2] = v /\ \A k \in 1..n : k > i => ms[k][1] # kind
    BY <1>1, <1>4 DEF LastSays
  <2>2. CASE i = 1
    <3>1. \A k \in 1..(n - 1) : k + 1 > 1
      BY <1>1
    <3>2. NoneSays(rest, kind)
      BY <1>1, <1>2, <2>1, <2>2, <3>1 DEF NoneSays
    <3>3. QED
      BY <2>1, <2>2, <3>2
  <2>3. CASE i # 1
    <3>1. i - 1 \in 1..(n - 1) /\ rest[i - 1] = ms[i]
      BY <1>2, <2>3
    <3>2. ASSUME NEW k \in 1..(n - 1), k > i - 1 PROVE rest[k][1] # kind
      <4>1. k + 1 > i /\ k + 1 \in 1..n
        BY <1>1, <1>2, <3>2
      <4>2. QED
        BY <1>1, <2>1, <4>1
    <3>3. LastSays(rest, kind, v)
      BY <1>1, <2>1, <3>1, <3>2 DEF LastSays
    <3>4. QED
      BY <3>3
  <2>4. QED
    BY <2>2, <2>3
<1>5. QED
  BY <1>1, <1>a, <1>3, <1>4 DEF ComesTo

\* What is sent together.
LEMMA SentTogether ==
  ASSUME NEW M, NEW ms \in Seq(M), NEW a \in M, NEW b \in M
  PROVE  /\ ms \o <<>> = ms /\ ms \o <<a>> = Append(ms, a)
         /\ ms \o (<<>> \o <<>>) = ms /\ ms \o (<<a>> \o <<>>) = Append(ms, a)
         /\ ms \o (<<>> \o <<b>>) = Append(ms, b) /\ ms \o (<<a>> \o <<b>>) = Append(Append(ms, a), b)
  OBVIOUS

LEMMA SentInTurn ==
  ASSUME NEW ms \in Seq(Messages), NEW l, NEW p \in Panes
  PROVE  ms \o (Reattached(l) \o Told(l, p)) = (ms \o Reattached(l)) \o Told(l, p)
<1>3. <<"cadence", TRUE>> \in Messages /\ <<"region", p>> \in Messages
  BY DEF Messages
<1>4. ASSUME NEW M, NEW m \in M PROVE <<m>> \in Seq(M) /\ <<>> \in Seq(M)
  OBVIOUS
<1>5. /\ <<<<"cadence", TRUE>>>> \in Seq(Messages) /\ <<<<"region", p>>>> \in Seq(Messages)
      /\ <<>> \in Seq(Messages)
  BY <1>3, <1>4
<1>1. Reattached(l) \in Seq(Messages) /\ Told(l, p) \in Seq(Messages)
  BY <1>5 DEF Reattached, Told
<1>2. QED
  BY <1>1, ConcatAssociative

-----------------------------------------------------------------------------

PaneTypes ==
  /\ PaneTypeOK /\ messages \in Seq(Messages) /\ waits \in [Links \X Kinds -> Panes \cup {NoFrame}]
  /\ cropRead \subseteq serving

\* A socket that is not made yet is told nothing, and tells nothing.
LinksInOrder ==
  /\ link <= links /\ notify <= links /\ \A l \in serving : l <= links
  /\ \A l \in Links : l > links => told[l] = 0

\* What is on its way brings the client to what the socket was told...
RegionComes ==
  link # 0 => \/ ComesTo(messages, "region", region, told[link])
              \/ NoneSays(messages, "region") /\ region = 0 /\ recut

\* ...and to the cadence of the meeting, once the tracker tells this socket.
CadenceComes ==
  link # 0 /\ ~untold => \/ notify = link /\ meeting /\ ComesTo(messages, "cadence", override, TRUE)
                         \/ ~(notify = link /\ meeting) /\ ComesTo(messages, "cadence", override, FALSE)

PaneInv == PaneTypes /\ LinksInOrder /\ RegionComes /\ CadenceComes

LEMMA PaneInvInit == PaneInit => PaneInv
<1>1. SUFFICES ASSUME PaneInit PROVE PaneInv
  OBVIOUS
<1>2. PaneTypes
  <2>1. waits \in [Links \X Kinds -> Panes \cup {NoFrame}]
    BY <1>1 DEF PaneInit
  <2>2. {titled, capturing, override, meeting, recut, untold} \subseteq BOOLEAN
    BY <1>1 DEF PaneInit
  <2>3. pane \in Panes /\ region \in Panes /\ told \in [Links -> Panes]
    BY <1>1 DEF PaneInit, Panes
  <2>4. link \in 0..MaxLinks /\ links \in 0..MaxLinks /\ notify \in 0..MaxLinks /\ serving \subseteq Links
    BY <1>1, PaneBounds DEF PaneInit
  <2>5. messages \in Seq(Messages) /\ cropRead \subseteq serving
    BY <1>1 DEF PaneInit
  <2>6. QED
    BY <2>1, <2>2, <2>3, <2>4, <2>5 DEF PaneTypes, PaneTypeOK
<1>3. LinksInOrder /\ RegionComes /\ CadenceComes
  BY <1>1 DEF PaneInit, LinksInOrder, RegionComes, CadenceComes
<1>4. QED
  BY <1>2, <1>3 DEF PaneInv

\* Steps that change nothing of what was said, told and heard.
LEMMA NothingSaid ==
  ASSUME PaneInv, PaneTypeOK', waits' \in [Links \X Kinds -> Panes \cup {NoFrame}], cropRead' \subseteq serving',
         UNCHANGED <<region, recut, override, link, links, serving, messages, told, notify, meeting, untold>>
  PROVE  PaneInv'
<1>1. PaneTypes' /\ LinksInOrder'
  BY DEF PaneInv, PaneTypes, LinksInOrder
<1>2. RegionComes' /\ CadenceComes'
  BY DEF PaneInv, RegionComes, CadenceComes
<1>3. QED
  BY <1>1, <1>2 DEF PaneInv

\* Messages of the two kinds, in turn: what they bring the client to.
LEMMA Says ==
  ASSUME NEW ms \in Seq(Messages), NEW r \in Panes, NEW w \in BOOLEAN, NEW p \in Panes, NEW b \in BOOLEAN,
         NEW q \in Panes, NEW c \in BOOLEAN
  PROVE  /\ Append(ms, <<"region", r>>) \in Seq(Messages)
         /\ Append(ms, <<"cadence", w>>) \in Seq(Messages)
         /\ ComesTo(Append(ms, <<"region", r>>), "region", p, r)
         /\ ComesTo(Append(ms, <<"cadence", w>>), "cadence", b, w)
         /\ ComesTo(ms, "region", p, q) => ComesTo(Append(ms, <<"cadence", w>>), "region", p, q)
         /\ NoneSays(ms, "region") => NoneSays(Append(ms, <<"cadence", w>>), "region")
         /\ ComesTo(ms, "cadence", b, c) => ComesTo(Append(ms, <<"region", r>>), "cadence", b, c)
<1>1. <<"region", r>> \in Messages /\ <<"region", r>>[1] = "region" /\ <<"region", r>>[2] = r
      /\ <<"region", r>>[1] # "cadence"
  BY DEF Messages
<1>2. <<"cadence", w>> \in Messages /\ <<"cadence", w>>[1] = "cadence" /\ <<"cadence", w>>[2] = w
      /\ <<"cadence", w>>[1] # "region"
  BY DEF Messages
<1>3. Append(ms, <<"region", r>>) \in Seq(Messages) /\ Append(ms, <<"cadence", w>>) \in Seq(Messages)
  BY <1>1, <1>2
<1> DEFINE mr == <<"region", r>>
           mw == <<"cadence", w>>
<1>4. /\ mr \in Messages /\ mr[1] = "region" /\ mr[2] = r /\ mr[1] # "cadence"
      /\ mw \in Messages /\ mw[1] = "cadence" /\ mw[2] = w /\ mw[1] # "region"
  BY <1>1, <1>2
<1> HIDE DEF mr, mw
<1>5. /\ ComesTo(Append(ms, mr), "region", p, r) /\ ComesTo(Append(ms, mw), "cadence", b, w)
      /\ ComesTo(ms, "region", p, q) => ComesTo(Append(ms, mw), "region", p, q)
      /\ NoneSays(ms, "region") => NoneSays(Append(ms, mw), "region")
      /\ ComesTo(ms, "cadence", b, c) => ComesTo(Append(ms, mr), "cadence", b, c)
  BY <1>4, OneMore
<1>6. QED
  BY <1>3, <1>5 DEF mr, mw

\* A frame of socket l is read, and its tracker tells that socket from now on.
LEMMA Retold ==
  ASSUME PaneInv, NEW l \in serving, Reattach(l), NEW ms,
         ms = IF l = link /\ l # 0 THEN messages \o Reattached(l) ELSE messages
  PROVE  /\ ms \in Seq(Messages) /\ untold' \in BOOLEAN /\ notify' = l /\ notify' \in 0..MaxLinks
         /\ \A p, q \in Panes : ComesTo(messages, "region", p, q) => ComesTo(ms, "region", p, q)
         /\ NoneSays(messages, "region") => NoneSays(ms, "region")
         /\ link # 0 /\ ~untold' => \/ l = link /\ meeting /\ ComesTo(ms, "cadence", override, TRUE)
                                    \/ ~(l = link /\ meeting) /\ ComesTo(ms, "cadence", override, FALSE)
<1>0. PaneTypes /\ PaneTypeOK /\ messages \in Seq(Messages) /\ CadenceComes
  BY DEF PaneInv, PaneTypes
<1>1. l \in Links /\ l \in 0..MaxLinks /\ untold \in BOOLEAN /\ override \in BOOLEAN
  BY <1>0, PaneBounds DEF PaneTypeOK, Links
<1>2. notify' = l /\ untold' = IF l # link /\ notify = link /\ link # 0 THEN TRUE ELSE untold
  BY DEF Reattach
<1>3. CASE l = link /\ l # 0 /\ notify # l /\ meeting
  <2>1. <<"cadence", TRUE>> \in Messages
    BY DEF Messages
  <2>2. ms = messages \o <<<<"cadence", TRUE>>>>
    BY <1>3 DEF Reattached
  <2> DEFINE m == <<"cadence", TRUE>>
  <2>3. m \in Messages /\ ms = messages \o <<m>>
    BY <2>1, <2>2
  <2> HIDE DEF m
  <2>4. ms = Append(messages, m)
    BY <1>0, <2>3, SentTogether
  <2>5. ms = Append(messages, <<"cadence", TRUE>>)
    BY <2>4 DEF m
  <2>6. /\ ms \in Seq(Messages) /\ ComesTo(ms, "cadence", override, TRUE)
        /\ \A p, q \in Panes : ComesTo(messages, "region", p, q) => ComesTo(ms, "region", p, q)
        /\ NoneSays(messages, "region") => NoneSays(ms, "region")
    <3>1. 0 \in Panes /\ TRUE \in BOOLEAN
      BY DEF Panes
    <3>2. QED
      BY <1>0, <1>1, <2>5, <3>1, Says
  <2>7. QED
    BY <1>1, <1>2, <1>3, <2>6
<1>4. CASE ~(l = link /\ l # 0 /\ notify # l /\ meeting)
  <2>1. ms = messages
    <3>1. CASE l = link /\ l # 0
      <4>1. ms = messages \o <<>>
        BY <1>4, <3>1 DEF Reattached
      <4>2. <<"cadence", TRUE>> \in Messages
        BY DEF Messages
      <4>3. QED
        BY <1>0, <4>1, <4>2, SentTogether
    <3>2. CASE ~(l = link /\ l # 0)
      BY <3>2
    <3>3. QED
      BY <3>1, <3>2
  <2>2. link # 0 /\ ~untold' => \/ l = link /\ meeting /\ ComesTo(messages, "cadence", override, TRUE)
                                \/ ~(l = link /\ meeting) /\ ComesTo(messages, "cadence", override, FALSE)
    <3>1. SUFFICES ASSUME link # 0, ~untold'
                   PROVE  \/ l = link /\ meeting /\ ComesTo(messages, "cadence", override, TRUE)
                          \/ ~(l = link /\ meeting) /\ ComesTo(messages, "cadence", override, FALSE)
      OBVIOUS
    <3>2. (l = link \/ notify # link) /\ ~untold
      BY <1>2, <3>1
    <3>3. \/ notify = link /\ meeting /\ ComesTo(messages, "cadence", override, TRUE)
          \/ ~(notify = link /\ meeting) /\ ComesTo(messages, "cadence", override, FALSE)
      BY <1>0, <3>1, <3>2 DEF CadenceComes
    <3>4. CASE l = link
      BY <1>4, <3>1, <3>3, <3>4
    <3>5. CASE l # link
      BY <3>2, <3>3, <3>5
    <3>6. QED
      BY <3>4, <3>5
  <2>3. QED
    BY <1>0, <1>1, <1>2, <2>1, <2>2
<1>5. QED
  BY <1>3, <1>4

\* The socket is told where the pane is.
LEMMA RegionTold ==
  ASSUME PaneTypeOK, NEW ms \in Seq(Messages), NEW more, NEW l \in Links, NEW p \in Panes,
         more = IF l = link /\ l # 0 THEN ms \o Told(l, p) ELSE ms,
         told' = [told EXCEPT ![l] = p],
         link # 0 => \/ ComesTo(ms, "region", region, told[link])
                     \/ NoneSays(ms, "region") /\ region = 0 /\ recut
  PROVE  /\ more \in Seq(Messages)
         /\ link # 0 => \/ ComesTo(more, "region", region, told'[link])
                        \/ NoneSays(more, "region") /\ region = 0 /\ recut
         /\ \A c \in BOOLEAN : ComesTo(ms, "cadence", override, c) => ComesTo(more, "cadence", override, c)
<1>1. told'[l] = p /\ region \in Panes /\ override \in BOOLEAN /\ \A k \in Links : k # l => told'[k] = told[k]
  BY DEF PaneTypeOK
<1>2. link # 0 => link \in Links
  BY PaneBounds DEF PaneTypeOK, Links
<1>3. CASE l = link /\ l # 0 /\ p # told[l]
  <2> DEFINE m == <<"region", p>>
  <2>1. m \in Messages /\ more = ms \o <<m>>
    BY <1>3 DEF Messages, Told
  <2> HIDE DEF m
  <2>2. more = Append(ms, m)
    BY <2>1, SentTogether
  <2>3. more = Append(ms, <<"region", p>>)
    BY <2>2 DEF m
  <2>4. TRUE \in BOOLEAN
    OBVIOUS
  <2>5. /\ more \in Seq(Messages) /\ ComesTo(more, "region", region, p)
        /\ \A c \in BOOLEAN : ComesTo(ms, "cadence", override, c) => ComesTo(more, "cadence", override, c)
    BY <1>1, <2>3, <2>4, Says, ZenonT(30)
  <2>6. QED
    BY <1>1, <1>3, <2>5
<1>4. CASE ~(l = link /\ l # 0 /\ p # told[l])
  <2>1. more = ms
    <3>1. CASE l = link /\ l # 0
      <4>1. more = ms \o <<>>
        BY <1>4, <3>1 DEF Told
      <4>2. <<"cadence", TRUE>> \in Messages
        BY DEF Messages
      <4>3. QED
        BY <4>1, <4>2, SentTogether
    <3>2. CASE ~(l = link /\ l # 0)
      BY <3>2
    <3>3. QED
      BY <3>1, <3>2
  <2>2. link # 0 => told'[link] = told[link]
    BY <1>1, <1>2, <1>4
  <2>3. QED
    BY <2>1, <2>2
<1>5. QED
  BY <1>3, <1>4

\* A tracker tells the socket it is bound to that a meeting began or ended.
LEMMA CadenceTold ==
  ASSUME PaneTypeOK, messages \in Seq(Messages), CadenceComes, RegionComes, NEW b \in BOOLEAN,
         SentOn(notify, <<<<"cadence", b>>>>), meeting' = b,
         UNCHANGED <<region, recut, override, link, told, notify, untold>>
  PROVE  messages' \in Seq(Messages) /\ RegionComes' /\ CadenceComes'
<1>1. /\ messages' = IF notify = link /\ notify # 0 THEN messages \o <<<<"cadence", b>>>> ELSE messages
      /\ region \in Panes /\ override \in BOOLEAN
  BY DEF SentOn, PaneTypeOK
<1>2. link # 0 => told[link] \in Panes
  BY PaneBounds DEF PaneTypeOK, Links
<1>3. CASE notify = link /\ notify # 0
  <2> DEFINE m == <<"cadence", b>>
  <2>1. m \in Messages /\ messages' = messages \o <<m>>
    BY <1>1, <1>3 DEF Messages
  <2> HIDE DEF m
  <2>2. messages' = Append(messages, m)
    BY <2>1, SentTogether
  <2>3. messages' = Append(messages, <<"cadence", b>>)
    BY <2>2 DEF m
  <2>4. 0 \in Panes
    BY DEF Panes
  <2>5. /\ messages' \in Seq(Messages) /\ ComesTo(messages', "cadence", override, b)
        /\ \A p, q \in Panes : ComesTo(messages, "region", p, q) => ComesTo(messages', "region", p, q)
        /\ NoneSays(messages, "region") => NoneSays(messages', "region")
    BY <1>1, <2>3, <2>4, Says, ZenonT(30)
  <2>6. RegionComes'
    BY <1>1, <1>2, <2>5 DEF RegionComes
  <2>7. CadenceComes'
    <3>1. CASE b = TRUE
      BY <1>3, <2>5, <3>1 DEF CadenceComes
    <3>2. CASE b = FALSE
      BY <1>3, <2>5, <3>2 DEF CadenceComes
    <3>3. QED
      BY <3>1, <3>2
  <2>8. QED
    BY <2>5, <2>6, <2>7
<1>4. CASE ~(notify = link /\ notify # 0)
  <2>1. messages' = messages
    BY <1>1, <1>4
  <2>2. RegionComes' /\ CadenceComes'
    BY <1>4, <2>1 DEF RegionComes, CadenceComes
  <2>3. QED
    BY <2>1, <2>2
<1>5. QED
  BY <1>3, <1>4

\* Only what is told and read changes: on the sockets and the client nothing does.
LEMMA OcrKeeps ==
  ASSUME PaneInv, NEW l \in serving, notify' \in {notify, l},
         UNCHANGED <<titled, pane, capturing, region, override, link, links, serving, recut>>,
         {meeting', untold'} \subseteq BOOLEAN, messages' \in Seq(Messages),
         waits' \in [Links \X Kinds -> Panes \cup {NoFrame}], cropRead' \subseteq serving,
         NEW p \in Panes, told' \in {told, [told EXCEPT ![l] = p]},
         RegionComes', CadenceComes'
  PROVE  PaneInv'
<1>0. PaneTypeOK /\ LinksInOrder /\ l \in Links /\ l \in 0..MaxLinks
  BY PaneBounds DEF PaneInv, PaneTypes, PaneTypeOK, Links
<1>1. told' \in [Links -> Panes]
  BY <1>0 DEF PaneTypeOK
<1>2. notify' \in 0..MaxLinks
  BY <1>0 DEF PaneTypeOK
<1>3. PaneTypes'
  BY <1>0, <1>1, <1>2 DEF PaneTypes, PaneTypeOK
<1>4. LinksInOrder'
  <2>1. notify' <= links /\ link <= links /\ \A k \in serving : k <= links
    BY <1>0 DEF LinksInOrder
  <2>2. ASSUME NEW k \in Links, k > links PROVE told'[k] = 0
    <3>1. k # l /\ told[k] = 0
      BY <1>0, <2>2, PaneBounds DEF LinksInOrder, PaneTypeOK, Links
    <3>2. QED
      BY <1>0, <3>1 DEF PaneTypeOK
  <2>3. QED
    BY <2>1, <2>2 DEF LinksInOrder
<1>5. QED
  BY <1>3, <1>4 DEF PaneInv

LEMMA PaneInvHolds == PaneInv /\ [PaneNext]_paneVars => PaneInv'
<1>1. SUFFICES ASSUME PaneInv, [PaneNext]_paneVars PROVE PaneInv'
  OBVIOUS
<1>0. /\ PaneTypes /\ PaneTypeOK /\ messages \in Seq(Messages) /\ cropRead \subseteq serving /\ serving \subseteq Links
      /\ waits \in [Links \X Kinds -> Panes \cup {NoFrame}]
      /\ LinksInOrder /\ RegionComes /\ CadenceComes
  BY <1>1 DEF PaneInv, PaneTypes, PaneTypeOK
<1>a. /\ {titled, capturing, override, meeting, recut, untold} \subseteq BOOLEAN /\ told \in [Links -> Panes]
      /\ region \in Panes /\ pane \in Panes /\ 0 \in Panes
      /\ link \in 0..MaxLinks /\ links \in 0..MaxLinks /\ notify \in 0..MaxLinks
      /\ link # 0 => link \in Links /\ told[link] \in Panes
  BY <1>0, PaneBounds DEF PaneTypeOK, Panes, Links
<1>2. ASSUME PaneMoves \/ Hide \/ ShowAgain \/ NoCaption \/ FullDue PROVE PaneInv'
  <2>1. /\ UNCHANGED <<region, recut, override, link, links, serving, messages, told, notify, meeting, untold, waits, cropRead, capturing>>
        /\ titled' \in BOOLEAN /\ pane' \in Panes
    BY <1>a, <1>2 DEF PaneMoves, Hide, ShowAgain, NoCaption, FullDue, clientVars, apiVars
  <2>2. PaneTypeOK'
    BY <1>0, <2>1 DEF PaneTypeOK
  <2>3. QED
    BY <1>0, <1>1, <2>1, <2>2, NothingSaid
<1>3. ASSUME SendFrames PROVE PaneInv'
  <2>1. /\ UNCHANGED <<titled, pane, capturing, region, override, link, links, serving, messages, cropRead, told, notify,
                       meeting, recut, untold>>
        /\ link # 0 /\ \E full, crop \in BOOLEAN :
             waits' = [waits EXCEPT ![<<link, "full">>] = IF full THEN pane ELSE @,
                                    ![<<link, "caption">>] = IF crop THEN 0 ELSE @]
    BY <1>3, Zenon DEF SendFrames, apiVars
  <2>2. waits' \in [Links \X Kinds -> Panes \cup {NoFrame}]
    BY <1>0, <1>a, <2>1
  <2>3. PaneTypeOK'
    BY <1>0, <2>1 DEF PaneTypeOK
  <2>4. QED
    BY <1>0, <1>1, <2>1, <2>2, <2>3, NothingSaid
<1>4. ASSUME Refresh PROVE PaneInv'
  <2>1. /\ link # 0 /\ region' = 0 /\ capturing' = titled /\ recut' = (recut \/ told[link] # 0)
        /\ UNCHANGED <<titled, pane, override, link, links, serving, messages, waits, cropRead, told, notify, meeting, untold>>
    BY <1>4 DEF Refresh, apiVars
  <2>2. PaneTypes' /\ LinksInOrder'
    BY <1>0, <1>a, <2>1 DEF PaneTypes, PaneTypeOK, LinksInOrder
  <2>3. CadenceComes'
    BY <1>0, <2>1 DEF CadenceComes
  <2>4. RegionComes'
    <3>1. CASE LastSays(messages, "region", told[link])
      BY <2>1, <3>1 DEF RegionComes, ComesTo
    <3>2. CASE NoneSays(messages, "region") /\ told[link] = 0
      BY <2>1, <3>2 DEF RegionComes, ComesTo
    <3>3. CASE NoneSays(messages, "region") /\ told[link] # 0
      BY <2>1, <3>3 DEF RegionComes
    <3>4. QED
      BY <1>0, <2>1, <3>1, <3>2, <3>3 DEF RegionComes, ComesTo
  <2>5. QED
    BY <2>2, <2>3, <2>4 DEF PaneInv
<1>5. ASSUME Connect PROVE PaneInv'
  <2>1. /\ links < MaxLinks /\ links' = links + 1 /\ link' = links + 1 /\ serving' = serving \cup {links + 1}
        /\ messages' = <<>> /\ region' = 0 /\ override' = FALSE /\ recut' = FALSE /\ untold' = FALSE
        /\ UNCHANGED <<titled, pane, capturing, waits, cropRead, told, notify, meeting>>
    BY <1>5 DEF Connect, apiVars
  <2>2. links + 1 \in Links /\ links + 1 > links /\ links + 1 \in 0..MaxLinks /\ links \in Nat
    BY <1>a, <2>1, PaneBounds DEF Links
  <2>3. told[links + 1] = 0 /\ notify # links + 1
    BY <1>0, <1>a, <2>2, PaneBounds DEF LinksInOrder
  <2>4. PaneTypes'
    <3>1. messages' \in Seq(Messages)
      BY <2>1
    <3>2. QED
      BY <1>0, <1>a, <2>1, <2>2, <3>1 DEF PaneTypes, PaneTypeOK
  <2>5. LinksInOrder'
    <3>1. \A k \in Links : k > links + 1 => k > links
      BY <2>2 DEF Links
    <3>2. \A k \in serving : k <= links + 1
      BY <1>0, <2>2 DEF LinksInOrder, Links
    <3>3. notify <= links + 1
      BY <1>0, <1>a, <2>2, PaneBounds DEF LinksInOrder
    <3>4. QED
      BY <1>0, <2>1, <2>2, <3>1, <3>2, <3>3 DEF LinksInOrder
  <2>6. Len(messages') = 0
    BY <2>1
  <2>7. NoneSays(messages', "region") /\ NoneSays(messages', "cadence")
    BY <2>6 DEF NoneSays
  <2>8. RegionComes' /\ CadenceComes'
    BY <2>1, <2>3, <2>7 DEF RegionComes, CadenceComes, ComesTo
  <2>9. QED
    BY <2>4, <2>5, <2>8 DEF PaneInv
<1>6. ASSUME Drop PROVE PaneInv'
  <2>1. /\ link' = 0 /\ messages' = <<>>
        /\ UNCHANGED <<titled, pane, capturing, region, override, links, serving, waits, cropRead, told, notify, meeting,
                       recut, untold>>
    BY <1>6 DEF Drop, clientVars, apiVars
  <2>2. messages' \in Seq(Messages) /\ link' \in 0..MaxLinks /\ link' <= links
    BY <1>a, <2>1, PaneBounds
  <2>3. PaneTypes' /\ LinksInOrder'
    BY <1>0, <2>1, <2>2 DEF PaneTypes, PaneTypeOK, LinksInOrder
  <2>4. RegionComes' /\ CadenceComes'
    BY <2>1 DEF RegionComes, CadenceComes
  <2>5. QED
    BY <2>3, <2>4 DEF PaneInv
<1>7. ASSUME Hear PROVE PaneInv'
  <2> DEFINE m == Head(messages)
  <2>1. /\ link # 0 /\ messages # <<>> /\ messages' = Tail(messages)
        /\ UNCHANGED <<titled, pane, capturing, link, links, serving, waits, cropRead, told, notify, meeting, untold>>
    BY <1>7 DEF Hear, apiVars
  <2>2. m \in Messages /\ Tail(messages) \in Seq(Messages)
    BY <1>0, <2>1, OneHeard
  <2>3. \/ m[1] = "cadence" /\ m[2] \in BOOLEAN /\ override' = m[2] /\ UNCHANGED <<region, recut>>
        \/ m[1] = "region" /\ m[2] \in Panes /\ region' = m[2] /\ recut' = FALSE /\ UNCHANGED override
    <3>1. CASE m \in {"cadence"} \X BOOLEAN
      BY <1>7, <3>1 DEF Hear
    <3>2. CASE m \in {"region"} \X Panes
      BY <1>7, <3>2 DEF Hear
    <3>3. QED
      BY <2>2, <3>1, <3>2 DEF Messages
  <2> HIDE DEF m
  <2>4. PaneTypes' /\ LinksInOrder'
    <3>1. override' \in BOOLEAN /\ region' \in Panes /\ recut' \in BOOLEAN
      BY <1>a, <2>3
    <3>2. QED
      BY <1>0, <1>a, <2>1, <2>2, <3>1 DEF PaneTypes, PaneTypeOK, LinksInOrder
  <2>5. \A kind, now, v : ComesTo(messages, kind, now, v) =>
          /\ m[1] = kind => ComesTo(messages', kind, m[2], v)
          /\ m[1] # kind => ComesTo(messages', kind, now, v)
    BY <1>0, <2>1, OneHeard DEF m
  <2>6. NoneSays(messages, "region") => NoneSays(messages', "region") /\ m[1] # "region"
    BY <1>0, <2>1, OneHeard DEF m
  <2>7. CASE m[1] = "cadence"
    <3>1. override' = m[2] /\ UNCHANGED <<region, recut>> /\ m[1] # "region"
      BY <2>3, <2>7
    <3>2. RegionComes'
      BY <1>0, <2>1, <2>5, <2>6, <3>1 DEF RegionComes
    <3>3. CadenceComes'
      BY <1>0, <2>1, <2>5, <2>7, <3>1 DEF CadenceComes
    <3>4. QED
      BY <2>4, <3>2, <3>3 DEF PaneInv
  <2>8. CASE m[1] = "region"
    <3>1. region' = m[2] /\ recut' = FALSE /\ UNCHANGED override /\ m[1] # "cadence"
      BY <2>3, <2>8
    <3>2. RegionComes'
      BY <1>0, <2>1, <2>5, <2>6, <2>8, <3>1 DEF RegionComes
    <3>3. CadenceComes'
      BY <1>0, <2>1, <2>5, <3>1 DEF CadenceComes
    <3>4. QED
      BY <2>4, <3>2, <3>3 DEF PaneInv
  <2>9. QED
    BY <2>3, <2>7, <2>8
<1>8. ASSUME NEW l \in Links, SocketEnds(l) PROVE PaneInv'
  <2>1. /\ l \in serving /\ l # link /\ serving' = serving \ {l} /\ cropRead' = cropRead \ {l}
        /\ waits' = [waits EXCEPT ![<<l, "full">>] = NoFrame, ![<<l, "caption">>] = NoFrame]
        /\ notify' = IF notify = l THEN 0 ELSE notify
        /\ told' = [told EXCEPT ![l] = 0]
        /\ UNCHANGED <<titled, pane, capturing, region, override, link, links, messages, meeting, recut, untold>>
    BY <1>8 DEF SocketEnds, Detach, clientVars
  <2>2. waits' \in [Links \X Kinds -> Panes \cup {NoFrame}]
    BY <1>0, <2>1
  <2>3. told' \in [Links -> Panes] /\ (\A k \in Links : told'[k] = IF k = l THEN 0 ELSE told[k])
    BY <1>a, <2>1
  <2>4. notify' \in 0..MaxLinks /\ 0 <= links
    BY <1>a, <2>1, PaneBounds
  <2>5. PaneTypes' /\ LinksInOrder'
    BY <1>0, <1>a, <2>1, <2>2, <2>3, <2>4 DEF PaneTypes, PaneTypeOK, LinksInOrder
  <2>6. RegionComes'
    BY <1>0, <1>a, <2>1, <2>3 DEF RegionComes
  <2>7. CadenceComes'
    <3>1. link # 0 => (notify' = link <=> notify = link)
      BY <2>1
    <3>2. QED
      BY <1>0, <2>1, <3>1 DEF CadenceComes
  <2>8. QED
    BY <2>5, <2>6, <2>7 DEF PaneInv
<1>9. ASSUME NEW l \in Links, NEW k \in Kinds, OcrFails(l, k) PROVE PaneInv'
  <2> DEFINE p == waits[<<l, k>>]
  <2>1. /\ l \in serving /\ p # NoFrame /\ waits' = [waits EXCEPT ![<<l, k>>] = NoFrame]
        /\ UNCHANGED <<titled, pane, capturing, region, override, link, links, serving, cropRead, notify, meeting, recut, untold>>
    BY <1>9 DEF OcrFails, clientVars
  <2>2. \/ SentOn(l, Told(l, p)) /\ told' = [told EXCEPT ![l] = p]
        \/ UNCHANGED <<messages, told>>
    BY <1>9 DEF OcrFails
  <2>3. p \in Panes
    BY <1>0, <2>1
  <2>4. waits' \in [Links \X Kinds -> Panes \cup {NoFrame}]
    BY <1>0, <2>1
  <2> HIDE DEF p
  <2>5. CASE SentOn(l, Told(l, p)) /\ told' = [told EXCEPT ![l] = p]
    <3>1. messages' = IF l = link /\ l # 0 THEN messages \o Told(l, p) ELSE messages
      BY <2>5 DEF SentOn
    <3>2. link # 0 => \/ ComesTo(messages, "region", region, told[link])
                      \/ NoneSays(messages, "region") /\ region = 0 /\ recut
      BY <1>0 DEF RegionComes
    <3>3. /\ messages' \in Seq(Messages)
          /\ link # 0 => \/ ComesTo(messages', "region", region, told'[link])
                         \/ NoneSays(messages', "region") /\ region = 0 /\ recut
          /\ \A c \in BOOLEAN : ComesTo(messages, "cadence", override, c) => ComesTo(messages', "cadence", override, c)
      BY <1>0, <2>3, <2>5, <3>1, <3>2, RegionTold
    <3>4. RegionComes' /\ CadenceComes'
      BY <1>0, <2>1, <3>3 DEF RegionComes, CadenceComes
    <3>5. QED
      BY <1>0, <1>1, <1>a, <2>1, <2>3, <2>4, <2>5, <3>3, <3>4, OcrKeeps
  <2>6. CASE UNCHANGED <<messages, told>>
    <3>1. RegionComes' /\ CadenceComes'
      BY <1>0, <2>1, <2>6 DEF RegionComes, CadenceComes
    <3>2. QED
      BY <1>0, <1>1, <1>a, <2>1, <2>3, <2>4, <2>6, <3>1, OcrKeeps
  <2>7. QED
    BY <2>2, <2>5, <2>6
<1>10. ASSUME NEW l \in Links, OnFull(l) PROVE PaneInv'
  <2> DEFINE p == waits[<<l, "full">>]
             ms == IF l = link /\ l # 0 THEN messages \o Reattached(l) ELSE messages
  <2>1. /\ l \in serving /\ p # NoFrame /\ waits' = [waits EXCEPT ![<<l, "full">>] = NoFrame] /\ Reattach(l)
        /\ UNCHANGED <<titled, pane, capturing, region, override, link, links, serving, cropRead, meeting, recut>>
    BY <1>10 DEF OnFull, clientVars
  <2>2. \/ SentOn(l, Reattached(l) \o Told(l, p)) /\ told' = [told EXCEPT ![l] = p]
        \/ SentOn(l, Reattached(l)) /\ UNCHANGED told
    BY <1>10 DEF OnFull
  <2>3. p \in Panes /\ waits' \in [Links \X Kinds -> Panes \cup {NoFrame}]
    BY <1>0, <2>1 DEF Kinds
  <2>4. /\ ms \in Seq(Messages) /\ untold' \in BOOLEAN /\ notify' = l
        /\ \A q, r \in Panes : ComesTo(messages, "region", q, r) => ComesTo(ms, "region", q, r)
        /\ NoneSays(messages, "region") => NoneSays(ms, "region")
        /\ link # 0 /\ ~untold' => \/ l = link /\ meeting /\ ComesTo(ms, "cadence", override, TRUE)
                                   \/ ~(l = link /\ meeting) /\ ComesTo(ms, "cadence", override, FALSE)
    BY <1>1, <2>1, Retold
  <2>5. link # 0 => \/ ComesTo(ms, "region", region, told[link])
                    \/ NoneSays(ms, "region") /\ region = 0 /\ recut
    BY <1>0, <1>a, <2>4 DEF RegionComes
  <2>6. CASE SentOn(l, Reattached(l) \o Told(l, p)) /\ told' = [told EXCEPT ![l] = p]
    <3>1. messages' = IF l = link /\ l # 0 THEN ms \o Told(l, p) ELSE ms
      BY <1>0, <2>3, <2>6, SentInTurn DEF SentOn
    <3> HIDE DEF ms, p
    <3>2. /\ messages' \in Seq(Messages)
          /\ link # 0 => \/ ComesTo(messages', "region", region, told'[link])
                         \/ NoneSays(messages', "region") /\ region = 0 /\ recut
          /\ \A c \in BOOLEAN : ComesTo(ms, "cadence", override, c) => ComesTo(messages', "cadence", override, c)
      BY <1>0, <2>3, <2>4, <2>5, <2>6, <3>1, RegionTold
    <3>3. RegionComes' /\ CadenceComes'
      BY <2>1, <2>4, <3>2 DEF RegionComes, CadenceComes
    <3>4. QED
      BY <1>0, <1>1, <1>a, <2>1, <2>3, <2>4, <2>6, <3>2, <3>3, OcrKeeps
  <2>7. CASE SentOn(l, Reattached(l)) /\ UNCHANGED told
    <3>1. messages' = ms
      BY <2>7 DEF SentOn
    <3> HIDE DEF ms, p
    <3>2. RegionComes' /\ CadenceComes'
      BY <2>1, <2>4, <2>5, <2>7, <3>1 DEF RegionComes, CadenceComes
    <3>3. QED
      BY <1>0, <1>1, <1>a, <2>1, <2>3, <2>4, <2>7, <3>1, <3>2, OcrKeeps
  <2>8. QED
    BY <2>2, <2>6, <2>7
<1>11. ASSUME NEW l \in Links, TakeCrop(l) PROVE PaneInv'
  <2> DEFINE ms == IF l = link /\ l # 0 THEN messages \o Reattached(l) ELSE messages
  <2>1. /\ l \in serving /\ waits' = [waits EXCEPT ![<<l, "caption">>] = NoFrame] /\ Reattach(l)
        /\ cropRead' = cropRead \cup {l} /\ messages' = ms
        /\ UNCHANGED <<titled, pane, capturing, region, override, link, links, serving, told, meeting, recut>>
    BY <1>11 DEF TakeCrop, clientVars, SentOn
  <2>2. waits' \in [Links \X Kinds -> Panes \cup {NoFrame}] /\ cropRead' \subseteq serving
    BY <1>0, <2>1
  <2>3. /\ ms \in Seq(Messages) /\ untold' \in BOOLEAN /\ notify' = l
        /\ \A q, r \in Panes : ComesTo(messages, "region", q, r) => ComesTo(ms, "region", q, r)
        /\ NoneSays(messages, "region") => NoneSays(ms, "region")
        /\ link # 0 /\ ~untold' => \/ l = link /\ meeting /\ ComesTo(ms, "cadence", override, TRUE)
                                   \/ ~(l = link /\ meeting) /\ ComesTo(ms, "cadence", override, FALSE)
    BY <1>1, <2>1, Retold
  <2> HIDE DEF ms
  <2>4. link # 0 => \/ ComesTo(ms, "region", region, told[link])
                    \/ NoneSays(ms, "region") /\ region = 0 /\ recut
    BY <1>0, <1>a, <2>3 DEF RegionComes
  <2>5. RegionComes' /\ CadenceComes'
    BY <2>1, <2>3, <2>4 DEF RegionComes, CadenceComes
  <2>6. QED
    BY <1>0, <1>1, <1>a, <2>1, <2>2, <2>3, <2>5, OcrKeeps
<1>12. ASSUME NEW l \in Links, OnCaption(l) PROVE PaneInv'
  <2>1. /\ l \in cropRead /\ cropRead' = cropRead \ {l}
        /\ UNCHANGED <<titled, pane, capturing, region, override, link, links, serving, waits, told, notify, recut>>
    BY <1>12 DEF OnCaption, clientVars
  <2>2. \/ UNCHANGED <<meeting, messages, untold>>
        \/ meeting' = TRUE /\ SentOn(notify, <<<<"cadence", TRUE>>>>) /\ UNCHANGED untold
        \/ meeting' = TRUE /\ untold' = TRUE /\ UNCHANGED messages
    BY <1>12 DEF OnCaption
  <2>3. l \in serving /\ cropRead' \subseteq serving
    BY <1>0, <2>1
  <2>4. RegionComes' /\ CadenceComes' /\ messages' \in Seq(Messages) /\ {meeting', untold'} \subseteq BOOLEAN
    <3>1. CASE UNCHANGED <<meeting, messages, untold>>
      BY <1>0, <1>a, <2>1, <3>1 DEF RegionComes, CadenceComes
    <3>2. CASE meeting' = TRUE /\ SentOn(notify, <<<<"cadence", TRUE>>>>) /\ UNCHANGED untold
      <4>1. messages' \in Seq(Messages) /\ RegionComes' /\ CadenceComes'
        BY <1>0, <2>1, <3>2, CadenceTold
      <4>2. QED
        BY <1>a, <3>2, <4>1
    <3>3. CASE meeting' = TRUE /\ untold' = TRUE /\ UNCHANGED messages
      BY <1>0, <2>1, <3>3 DEF RegionComes, CadenceComes
    <3>4. QED
      BY <2>2, <3>1, <3>2, <3>3
  <2>5. QED
    BY <1>0, <1>1, <1>a, <2>1, <2>3, <2>4, OcrKeeps
<1>13. ASSUME MeetingEnds PROVE PaneInv'
  <2>1. /\ meeting' = FALSE /\ SentOn(notify, <<<<"cadence", FALSE>>>>)
        /\ UNCHANGED <<titled, pane, capturing, region, override, link, links, serving, waits, cropRead, told, notify,
                       recut, untold>>
    BY <1>13 DEF MeetingEnds, clientVars
  <2>2. messages' \in Seq(Messages) /\ RegionComes' /\ CadenceComes'
    BY <1>0, <2>1, CadenceTold
  <2>3. PaneTypes' /\ LinksInOrder'
    BY <1>0, <1>a, <2>1, <2>2 DEF PaneTypes, PaneTypeOK, LinksInOrder
  <2>4. QED
    BY <2>2, <2>3 DEF PaneInv
<1>14. CASE UNCHANGED paneVars
  <2>1. PaneTypeOK' /\ UNCHANGED <<region, recut, override, link, links, serving, messages, told, notify, meeting, untold, waits, cropRead>>
    BY <1>0, <1>14 DEF paneVars, PaneTypeOK
  <2>2. QED
    BY <1>0, <1>1, <2>1, NothingSaid
<1>15. QED
  BY <1>1, <1>2, <1>3, <1>4, <1>5, <1>6, <1>7, <1>8, <1>9, <1>10, <1>11, <1>12, <1>13, <1>14
     DEF PaneNext, CropStep

\* For any number of sockets and meetings, wherever the pane moves, and whichever late frames of dead
\* sockets are read: once a client has heard all, it crops where its socket was told the pane is or
\* has forgotten it with its capture, and is on the cadence of the meeting if its window's tracker
\* tells its socket (on_message, SocketEnds's detach, on_full, tell_pane, on_caption, sweep).
THEOREM PaneIsTold == PaneInit /\ [][PaneNext]_paneVars => [](PaneTypeOK /\ RegionAsTold /\ CadenceFollows)
<1>1. PaneInv => PaneTypeOK /\ RegionAsTold /\ CadenceFollows
  <2>1. SUFFICES ASSUME PaneInv PROVE PaneTypeOK /\ RegionAsTold /\ CadenceFollows
    OBVIOUS
  <2>2. messages = <<>> => \A kind, now, v : ComesTo(messages, kind, now, v) => now = v
    <3>1. messages = <<>> => Len(messages) = 0
      OBVIOUS
    <3>2. QED
      BY <3>1 DEF ComesTo, LastSays
  <2>3. PaneTypeOK /\ RegionComes /\ CadenceComes
    BY <2>1 DEF PaneInv, PaneTypes
  <2>4. RegionAsTold
    BY <2>2, <2>3 DEF RegionAsTold, RegionComes
  <2>5. CadenceFollows
    <3>1. SUFFICES ASSUME link # 0, messages = <<>>, notify = link, ~untold PROVE override = meeting
      BY DEF CadenceFollows
    <3>2. meeting \in BOOLEAN
      BY <2>3 DEF PaneTypeOK
    <3>3. CASE meeting = TRUE
      <4>1. override = TRUE
        BY <2>2, <2>3, <3>1, <3>3 DEF CadenceComes
      <4>2. QED
        BY <3>3, <4>1
    <3>4. CASE meeting = FALSE
      <4>1. override = FALSE
        BY <2>2, <2>3, <3>1, <3>4 DEF CadenceComes
      <4>2. QED
        BY <3>4, <4>1
    <3>5. QED
      BY <3>2, <3>3, <3>4
  <2>6. QED
    BY <2>3, <2>4, <2>5
<1>2. QED
  BY <1>1, PaneInvInit, PaneInvHolds, PTL

-----------------------------------------------------------------------------
(* Reading a frame.                                                         *)

PiecesToPost == [top : Int, bottom : Int]

\* The strip that begins last before a row.
LEMMA LastStepBefore ==
  ASSUME NEW x \in Nat, NEW rows \in Nat \ {0}
  PROVE  \E k \in Nat : k * rows <= x /\ x < k * rows + rows
<1> DEFINE q == x \div rows
           r == x % rows
<1>1. q \in Int /\ r \in 0..(rows - 1) /\ x = rows * q + r
  OBVIOUS
<1> HIDE DEF q, r
<1>2. q >= 0
  BY <1>1
<1>3. q * rows = rows * q
  BY <1>1
<1>4. QED
  BY <1>1, <1>2, <1>3

LEMMA Steps ==
  ASSUME NEW m \in Nat, NEW k \in Nat, m <= k, NEW rows \in Nat \ {0}
  PROVE  m * rows <= k * rows
<1> DEFINE d == k - m
<1>1. d \in Nat /\ k = m + d
  OBVIOUS
<1> HIDE DEF d
<1>2. k * rows = m * rows + d * rows /\ d * rows >= 0
  BY <1>1
<1>3. QED
  BY <1>2

LEMMA StepIsPositive == /\ StepRows \in Nat \ {0} /\ StripOverlap \in Nat /\ StripHeight = StepRows + StripOverlap
                        /\ \A h \in FrameHeights : h \in Nat \ {0} /\ StripCount(h) \in Nat \ {0}
<1>1. StepRows \in Nat \ {0} /\ StripOverlap \in Nat /\ StripHeight = StepRows + StripOverlap
  BY OcrBounds DEF StepRows
<1>2. ASSUME NEW h \in FrameHeights PROVE h \in Nat \ {0} /\ StripCount(h) \in Nat \ {0}
  <2>1. h \in Nat \ {0} /\ StripHeight \in Nat
    BY OcrBounds
  <2>2. CASE h <= StripHeight
    BY <2>1, <2>2 DEF StripCount
  <2>3. CASE ~(h <= StripHeight)
    <3>1. h - StripHeight + StepRows - 1 \in Nat
      BY <1>1, <2>1, <2>3
    <3>2. (h - StripHeight + StepRows - 1) \div StepRows \in Nat
      BY <1>1, <3>1
    <3>3. QED
      BY <2>1, <2>3, <3>2 DEF StripCount
  <2>4. QED
    BY <2>2, <2>3
<1>3. QED
  BY <1>1, <1>2

\* A line of a frame is whole in one of its strips.
LEMMA StripsCover ==
  ASSUME NEW f, tall[f] \in FrameHeights, NEW l \in Lines(f)
  PROVE  \E i \in 1..StripCount(tall[f]) : WholeIn(Strips(tall[f])[i], f, l[1], l[2])
<1> DEFINE h == tall[f]
           n == StripCount(h)
           a == l[1]
           b == l[2]
           Top(i) == (i - 1) * StepRows
           Bottom(i) == IF i = n THEN h ELSE Top(i) + StripHeight
<1>1. h \in Nat \ {0} /\ n \in Nat \ {0} /\ StepRows \in Nat \ {0} /\ StripOverlap \in Nat
      /\ StripHeight = StepRows + StripOverlap /\ CutEdge \in Nat
  BY StepIsPositive, OcrBounds
<1>2. a \in Nat /\ b \in Nat /\ a <= b /\ b < h /\ b - a + 1 < StripOverlap - 2 * CutEdge
  BY <1>1 DEF Lines
<1>3. \A i \in 1..n : Strips(h)[i].top = Top(i) /\ Strips(h)[i].bottom = Bottom(i)
  BY DEF Strips, Piece
<1> DEFINE Whole(top, bottom) == /\ top <= a /\ b < bottom
                                 /\ top > 0 => a - top > CutEdge
                                 /\ bottom < h => bottom - 1 - b >= CutEdge
<1>4. ASSUME NEW i \in 1..n, Whole(Top(i), Bottom(i)) PROVE WholeIn(Strips(h)[i], f, a, b)
  BY <1>3, <1>4 DEF WholeIn
<1> HIDE DEF h, n, a, b
<1>5. CASE a <= CutEdge
  <2>1. 1 \in 1..n /\ Top(1) = 0
    BY <1>1
  <2>2. Bottom(1) = h \/ Bottom(1) = StripHeight
    BY <1>1, <2>1
  <2>3. Whole(0, h) /\ Whole(0, StripHeight)
    BY <1>1, <1>2, <1>5
  <2>4. Whole(Top(1), Bottom(1))
    BY <2>1, <2>2, <2>3
  <2> HIDE DEF Whole, Top, Bottom
  <2>5. QED
    BY <1>4, <2>1, <2>4 DEF h, n, a, b
<1>6. CASE a > CutEdge
  <2>1. a - CutEdge - 1 \in Nat
    BY <1>1, <1>2, <1>6
  <2>2. PICK k \in Nat : k * StepRows <= a - CutEdge - 1 /\ a - CutEdge - 1 < k * StepRows + StepRows
    BY <1>1, <2>1, LastStepBefore
  <2>3. CASE k < n
    <3> DEFINE t == k * StepRows
    <3>1. k + 1 \in 1..n /\ Top(k + 1) = t /\ t \in Nat
      <4>1. (k + 1) - 1 = k
        OBVIOUS
      <4>2. k + 1 \in 1..n
        BY <1>1, <2>3
      <4>3. k * StepRows \in Nat
        BY <1>1
      <4>4. QED
        BY <4>1, <4>2, <4>3
    <3>2. Bottom(k + 1) = h \/ Bottom(k + 1) = t + StripHeight
      BY <3>1
    <3>3. t <= a - CutEdge - 1 /\ a - CutEdge - 1 < t + StepRows
      BY <2>2
    <3> HIDE DEF t
    <3>4. Whole(t, h) /\ Whole(t, t + StripHeight)
      BY <1>1, <1>2, <1>6, <3>1, <3>3
    <3>5. Whole(Top(k + 1), Bottom(k + 1))
      BY <3>1, <3>2, <3>4
    <3> HIDE DEF Whole, Top, Bottom
    <3>6. QED
      BY <1>4, <3>1, <3>5 DEF h, n, a, b
  <2>4. CASE n <= k
    <3> DEFINE t == (n - 1) * StepRows
    <3>1. n \in 1..n /\ Top(n) = t /\ Bottom(n) = h /\ n - 1 \in Nat /\ n - 1 <= k
      BY <1>1, <2>4
    <3>2. t \in Nat /\ t <= k * StepRows
      BY <1>1, <3>1, Steps
    <3>3. t <= a - CutEdge - 1
      <4>1. k * StepRows \in Nat
        BY <1>1
      <4>2. QED
        BY <1>1, <1>2, <2>2, <3>2, <4>1
    <3> HIDE DEF t
    <3>4. Whole(t, h)
      BY <1>1, <1>2, <1>6, <3>2, <3>3
    <3>5. Whole(Top(n), Bottom(n))
      BY <3>1, <3>4
    <3> HIDE DEF Whole, Top, Bottom
    <3>6. QED
      BY <1>4, <3>1, <3>5 DEF h, n, a, b
  <2>5. QED
    BY <1>1, <2>3, <2>4
<1>7. QED
  BY <1>1, <1>2, <1>5, <1>6

\* A line that is whole in a piece is whole in one of its halves.
LEMMA HalvesCover ==
  ASSUME NEW f, tall[f] \in FrameHeights, NEW l \in Lines(f), NEW p \in PiecesToPost, WholeIn(p, f, l[1], l[2])
  PROVE  WholeIn(Halves(p)[1], f, l[1], l[2]) \/ WholeIn(Halves(p)[2], f, l[1], l[2])
<1> DEFINE mid == (p.top + p.bottom) \div 2
           half == StripOverlap \div 2
           h == tall[f]
           a == l[1]
           b == l[2]
<1>1. /\ h \in Nat \ {0} /\ CutEdge \in Nat /\ p.top \in Int /\ p.bottom \in Int
  BY StepIsPositive, OcrBounds DEF PiecesToPost
<1>2. half \in Nat /\ StripOverlap = half + half
  BY OcrBounds
<1>3. mid \in Int
  BY <1>1
<1>4. a \in Nat /\ b \in Nat /\ a <= b /\ b < h /\ b - a + 1 < StripOverlap - 2 * CutEdge
  BY <1>1 DEF Lines
<1>5. /\ p.top <= a /\ b < p.bottom
      /\ p.top > 0 => a - p.top > CutEdge
      /\ p.bottom < h => p.bottom - 1 - b >= CutEdge
  BY DEF WholeIn
<1>6. /\ Halves(p)[1].top = p.top /\ Halves(p)[1].bottom = mid + half
      /\ Halves(p)[2].top = mid - half /\ Halves(p)[2].bottom = p.bottom
  BY DEF Halves, Piece
<1> HIDE DEF mid, half, h, a, b
<1>7. CASE b <= mid + half - 1 - CutEdge
  <2>1. p.top <= a /\ b < mid + half /\ (p.top > 0 => a - p.top > CutEdge) /\ mid + half - 1 - b >= CutEdge
    BY <1>1, <1>2, <1>3, <1>4, <1>5, <1>7
  <2>2. WholeIn(Halves(p)[1], f, a, b)
    BY <1>1, <1>2, <1>3, <1>4, <1>6, <2>1 DEF WholeIn, h
  <2>3. QED
    BY <2>2 DEF a, b
<1>8. CASE b > mid + half - 1 - CutEdge
  <2>1. mid - half <= a /\ a - (mid - half) > CutEdge
    BY <1>1, <1>2, <1>3, <1>4, <1>8
  <2>2. WholeIn(Halves(p)[2], f, a, b)
    BY <1>5, <1>6, <2>1 DEF WholeIn, h
  <2>3. QED
    BY <2>2 DEF a, b
<1>9. QED
  BY <1>1, <1>2, <1>3, <1>4, <1>7, <1>8

LEMMA HalvesArePieces == ASSUME NEW p \in PiecesToPost PROVE Halves(p) \in Seq(PiecesToPost) /\ Len(Halves(p)) = 2
<1>1. (p.top + p.bottom) \div 2 \in Int /\ StripOverlap \div 2 \in Int /\ p.top \in Int /\ p.bottom \in Int
  BY OcrBounds DEF PiecesToPost
<1>2. Piece(p.top, (p.top + p.bottom) \div 2 + StripOverlap \div 2) \in PiecesToPost
      /\ Piece((p.top + p.bottom) \div 2 - StripOverlap \div 2, p.bottom) \in PiecesToPost
  BY <1>1 DEF Piece, PiecesToPost
<1>3. ASSUME NEW S, NEW x \in S, NEW y \in S PROVE <<x, y>> \in Seq(S) /\ Len(<<x, y>>) = 2
  OBVIOUS
<1>4. QED
  BY <1>2, <1>3 DEF Halves

LEMMA StripsArePieces ==
  ASSUME NEW h \in FrameHeights
  PROVE  Strips(h) \in Seq(PiecesToPost) /\ Len(Strips(h)) = StripCount(h)
<1>1. h \in Nat /\ StripCount(h) \in Nat /\ StepRows \in Nat /\ StripHeight \in Nat
  BY StepIsPositive, OcrBounds
<1>2. \A i \in 1..StripCount(h) : (i - 1) * StepRows \in Int
  BY <1>1
<1>3. \A i \in 1..StripCount(h) : Strips(h)[i] \in PiecesToPost
  BY <1>1, <1>2 DEF Strips, Piece, PiecesToPost
<1>4. DOMAIN Strips(h) = 1..StripCount(h) /\ Strips(h) = [i \in 1..StripCount(h) |-> Strips(h)[i]]
  BY DEF Strips
<1>5. QED
  BY <1>1, <1>3, <1>4, IsASeq

\* The lines of a frame that its pieces still to post, or those read, cover.
CoveredBy(f, left, read) ==
  \A l \in Lines(f) : \/ \E i \in 1..Len(left) : WholeIn(left[i], f, l[1], l[2])
                      \/ \E p \in read : IF p.missed THEN p.top <= l[2] /\ l[1] < p.bottom
                                                     ELSE WholeIn(p, f, l[1], l[2])

FrameAt(f, stage, left, read, halved, asked) ==
  /\ stage \in {"idle", "posts", "awaits", "done", "dropped"} /\ left \in Seq(PiecesToPost)
  /\ halved \in 0..MaxSplits /\ asked \in Nat
  /\ asked <= StripCount(tall[f]) + 2 * halved
  /\ stage = "idle" => asked = 0 /\ halved = 0 /\ read = {}
  /\ stage = "posts" => asked + Len(left) <= StripCount(tall[f]) + 2 * halved
  /\ stage = "awaits" => left # <<>> /\ asked + Len(left) <= StripCount(tall[f]) + 2 * halved + 1
  /\ stage = "done" => left = <<>>
  /\ stage \in {"posts", "awaits", "done"} => CoveredBy(f, left, read)

FrameRead(f) == FrameAt(f, readingOf[f], toPost[f], pieces[f], splits[f], posts[f])

PiecesRead == [top : Int, bottom : Int, missed : BOOLEAN]
OcrTypes == /\ tall \in [Frames -> FrameHeights]
            /\ readingOf \in [Frames -> {"idle", "posts", "awaits", "done", "dropped"}]
            /\ toPost \in [Frames -> Seq(PiecesToPost)] /\ pieces \in [Frames -> SUBSET PiecesRead]
            /\ splits \in [Frames -> Nat] /\ posts \in [Frames -> Nat]

OcrInv == OcrTypes /\ \A f \in Frames : FrameRead(f)

\* A piece read takes its lines over from those to post; so do its halves.
LEMMA PieceIsRead ==
  ASSUME NEW f, tall[f] \in FrameHeights, NEW left \in Seq(PiecesToPost), left # <<>>, NEW read,
         CoveredBy(f, left, read), NEW dense \in BOOLEAN
  PROVE  CoveredBy(f, Tail(left), read \cup {[top |-> Head(left).top, bottom |-> Head(left).bottom, missed |-> dense]})
<1> DEFINE p == Head(left)
           r == [top |-> p.top, bottom |-> p.bottom, missed |-> dense]
<1>1. /\ Len(left) \in Nat \ {0} /\ p = left[1] /\ Len(Tail(left)) = Len(left) - 1 /\ p \in PiecesToPost
      /\ \A i \in 1..(Len(left) - 1) : Tail(left)[i] = left[i + 1]
  BY FrontOfSeq
<1>2. SUFFICES ASSUME NEW l \in Lines(f)
               PROVE  \/ \E i \in 1..Len(Tail(left)) : WholeIn(Tail(left)[i], f, l[1], l[2])
                      \/ \E x \in read \cup {r} : IF x.missed THEN x.top <= l[2] /\ l[1] < x.bottom
                                                              ELSE WholeIn(x, f, l[1], l[2])
  BY DEF CoveredBy
<1>3. \/ \E i \in 1..Len(left) : WholeIn(left[i], f, l[1], l[2])
      \/ \E x \in read : IF x.missed THEN x.top <= l[2] /\ l[1] < x.bottom ELSE WholeIn(x, f, l[1], l[2])
  BY DEF CoveredBy
<1> HIDE DEF p
<1>4. CASE \E i \in 1..Len(left) : WholeIn(left[i], f, l[1], l[2])
  <2>1. PICK i \in 1..Len(left) : WholeIn(left[i], f, l[1], l[2])
    BY <1>4
  <2>2. CASE i = 1
    <3>1. WholeIn(p, f, l[1], l[2])
      BY <1>1, <2>1, <2>2
    <3>2. r.top = p.top /\ r.bottom = p.bottom /\ r.missed = dense
      OBVIOUS
    <3> HIDE DEF r
    <3>3. WholeIn(r, f, l[1], l[2])
      BY <3>1, <3>2 DEF WholeIn
    <3>4. r.top <= l[2] /\ l[1] < r.bottom
      <4>1. l[1] \in Int /\ l[2] \in Int /\ l[1] <= l[2]
        BY StepIsPositive DEF Lines
      <4>2. p.top \in Int /\ p.bottom \in Int
        BY <1>1 DEF PiecesToPost
      <4>3. QED
        BY <3>2, <3>3, <4>1, <4>2 DEF WholeIn
    <3>5. QED
      BY <3>3, <3>4
  <2>3. CASE i # 1
    <3>1. i - 1 \in 1..(Len(left) - 1) /\ (i - 1) + 1 = i
      BY <1>1, <2>3
    <3>2. i - 1 \in 1..Len(Tail(left)) /\ Tail(left)[i - 1] = left[i]
      BY <1>1, <3>1
    <3>3. QED
      BY <2>1, <3>2
  <2>4. QED
    BY <2>2, <2>3
<1>5. QED
  BY <1>3, <1>4

LEMMA JoinedSeqs ==
  ASSUME NEW S, NEW s \in Seq(S), NEW t \in Seq(S)
  PROVE  /\ s \o t \in Seq(S) /\ Len(s \o t) = Len(s) + Len(t)
         /\ (\A i \in 1..Len(s) : (s \o t)[i] = s[i])
         /\ \A i \in 1..Len(t) : (s \o t)[Len(s) + i] = t[i]
  OBVIOUS

LEMMA PieceIsHalved ==
  ASSUME NEW f, tall[f] \in FrameHeights, NEW left \in Seq(PiecesToPost), left # <<>>, NEW read, CoveredBy(f, left, read)
  PROVE  LET rest == Halves(Head(left)) \o Tail(left)
         IN rest \in Seq(PiecesToPost) /\ Len(rest) = Len(left) + 1 /\ CoveredBy(f, rest, read)
<1> DEFINE p == Head(left)
<1>1. /\ Len(left) \in Nat \ {0} /\ p = left[1] /\ Len(Tail(left)) = Len(left) - 1 /\ p \in PiecesToPost
      /\ Tail(left) \in Seq(PiecesToPost) /\ \A i \in 1..(Len(left) - 1) : Tail(left)[i] = left[i + 1]
  BY FrontOfSeq
<1> HIDE DEF p
<1>2. PICK hs \in Seq(PiecesToPost) : hs = Halves(p) /\ Len(hs) = 2
  BY <1>1, HalvesArePieces
<1> DEFINE rest == hs \o Tail(left)
<1>3. /\ rest \in Seq(PiecesToPost) /\ Len(rest) = Len(left) + 1 /\ rest[1] = hs[1] /\ rest[2] = hs[2]
      /\ \A i \in 1..(Len(left) - 1) : rest[2 + i] = left[i + 1]
  <2>1. /\ rest \in Seq(PiecesToPost) /\ Len(rest) = 2 + Len(Tail(left)) /\ (\A i \in 1..2 : rest[i] = hs[i])
        /\ \A i \in 1..Len(Tail(left)) : rest[2 + i] = Tail(left)[i]
    <3>1. /\ hs \o Tail(left) \in Seq(PiecesToPost) /\ Len(hs \o Tail(left)) = Len(hs) + Len(Tail(left))
          /\ (\A i \in 1..Len(hs) : (hs \o Tail(left))[i] = hs[i])
          /\ \A i \in 1..Len(Tail(left)) : (hs \o Tail(left))[Len(hs) + i] = Tail(left)[i]
      BY <1>1, <1>2, JoinedSeqs
    <3>2. QED
      BY <1>2, <3>1
  <2> HIDE DEF rest
  <2>2. 1 \in 1..2 /\ 2 \in 1..2
    OBVIOUS
  <2>3. QED
    BY <1>1, <2>1, <2>2
<1> HIDE DEF rest
<1>4. ASSUME NEW l \in Lines(f)
      PROVE  \/ \E i \in 1..Len(rest) : WholeIn(rest[i], f, l[1], l[2])
             \/ \E x \in read : IF x.missed THEN x.top <= l[2] /\ l[1] < x.bottom ELSE WholeIn(x, f, l[1], l[2])
  <2>1. CASE \E i \in 1..Len(left) : WholeIn(left[i], f, l[1], l[2])
    <3>1. PICK i \in 1..Len(left) : WholeIn(left[i], f, l[1], l[2])
      BY <2>1
    <3>2. CASE i = 1
      <4>1. WholeIn(p, f, l[1], l[2])
        BY <1>1, <3>1, <3>2
      <4>2. WholeIn(hs[1], f, l[1], l[2]) \/ WholeIn(hs[2], f, l[1], l[2])
        BY <1>1, <4>1, <1>2, HalvesCover
      <4>3. 1 \in 1..Len(rest) /\ 2 \in 1..Len(rest)
        BY <1>1, <1>3
      <4>4. QED
        BY <1>3, <4>2, <4>3
    <3>3. CASE i # 1
      <4>1. i - 1 \in 1..(Len(left) - 1) /\ (i - 1) + 1 = i /\ 2 + (i - 1) = i + 1 /\ i + 1 \in 1..(Len(left) + 1)
        BY <1>1, <3>3
      <4>2. rest[i + 1] = left[i] /\ i + 1 \in 1..Len(rest)
        BY <1>3, <4>1
      <4>3. QED
        BY <3>1, <4>2
    <3>4. QED
      BY <3>2, <3>3
  <2>2. QED
    BY <2>1 DEF CoveredBy
<1>5. QED
  BY <1>2, <1>3, <1>4 DEF CoveredBy, rest, p

\* What a step leaves of a frame; it never changes how tall one is.
LEMMA FrameKept ==
  ASSUME tall' = tall, NEW f,
         FrameAt(f, readingOf'[f], toPost'[f], pieces'[f], splits'[f], posts'[f])
  PROVE  FrameRead(f)'
  BY DEF FrameRead, FrameAt, CoveredBy, Lines, WholeIn

LEMMA OnlyOneRead ==
  ASSUME OcrInv, tall' = tall, NEW f \in Frames, OcrTypes',
         \A g \in Frames \ {f} : /\ readingOf'[g] = readingOf[g] /\ toPost'[g] = toPost[g] /\ pieces'[g] = pieces[g]
                                 /\ splits'[g] = splits[g] /\ posts'[g] = posts[g],
         FrameAt(f, readingOf'[f], toPost'[f], pieces'[f], splits'[f], posts'[f])
  PROVE  OcrInv'
<1>1. ASSUME NEW g \in Frames PROVE FrameAt(g, readingOf'[g], toPost'[g], pieces'[g], splits'[g], posts'[g])
  <2>1. CASE g = f
    BY <2>1
  <2>2. CASE g # f
    <3>1. FrameRead(g)
      BY DEF OcrInv
    <3>2. g \in Frames \ {f}
      BY <2>2
    <3>3. QED
      BY <3>1, <3>2 DEF FrameRead
  <2>3. QED
    BY <2>1, <2>2
<1>2. ASSUME NEW g \in Frames PROVE FrameRead(g)'
  BY <1>1, FrameKept
<1>3. QED
  BY <1>2 DEF OcrInv

LEMMA OcrInvInit == OcrInit => OcrInv
<1>1. SUFFICES ASSUME OcrInit PROVE OcrInv
  OBVIOUS
<1>2. OcrTypes
  <2>1. 0 \in Nat /\ <<>> \in Seq(PiecesToPost) /\ {} \in SUBSET PiecesRead
    OBVIOUS
  <2>2. QED
    BY <1>1, <2>1 DEF OcrInit, OcrTypes
<1>3. ASSUME NEW f \in Frames PROVE FrameRead(f)
  <2>1. /\ readingOf[f] = "idle" /\ toPost[f] = <<>> /\ pieces[f] = {} /\ splits[f] = 0 /\ posts[f] = 0
        /\ tall[f] \in FrameHeights
    BY <1>1 DEF OcrInit
  <2>2. StripCount(tall[f]) \in Nat /\ MaxSplits \in Nat
    BY <2>1, StepIsPositive, OcrBounds
  <2>3. <<>> \in Seq(PiecesToPost)
    OBVIOUS
  <2>4. QED
    BY <2>1, <2>2, <2>3 DEF FrameRead, FrameAt
<1>4. QED
  BY <1>2, <1>3 DEF OcrInv

LEMMA OcrInvHolds == OcrInit /\ [][OcrNext]_ocrVars => []OcrInv
<1>1. OcrInv /\ [OcrNext]_ocrVars => OcrInv'
  <2> SUFFICES ASSUME OcrInv, [OcrNext]_ocrVars PROVE OcrInv'
    OBVIOUS
  <2>a. OcrTypes /\ \A f \in Frames : FrameRead(f) /\ tall[f] \in FrameHeights
    BY DEF OcrInv, OcrTypes
  <2>b. /\ MaxSplits \in Nat
        /\ \A f \in Frames : StripCount(tall[f]) \in Nat \ {0}
    BY <2>a, StepIsPositive, OcrBounds
  <2>c. ASSUME UNCHANGED <<tall, readingOf, toPost, pieces, splits, posts>> PROVE OcrInv'
    <3>1. OcrTypes'
      BY <2>a, <2>c DEF OcrTypes
    <3>2. ASSUME NEW f \in Frames PROVE FrameRead(f)'
      <4>1. FrameAt(f, readingOf'[f], toPost'[f], pieces'[f], splits'[f], posts'[f])
        BY <2>a, <2>c DEF FrameRead
      <4>2. QED
        BY <2>c, <4>1, FrameKept
    <3>3. QED
      BY <3>1, <3>2 DEF OcrInv
  \* Who drops a read leaves the rest of it.
  <2>d. ASSUME UNCHANGED <<tall, toPost, pieces, splits, posts>>,
               readingOf' \in [Frames -> {"idle", "posts", "awaits", "done", "dropped"}],
               \A f \in Frames : readingOf'[f] \in {readingOf[f], "dropped"}
        PROVE  OcrInv'
    <3>1. OcrTypes'
      BY <2>a, <2>d DEF OcrTypes
    <3>2. ASSUME NEW f \in Frames PROVE FrameRead(f)'
      <4>1. FrameAt(f, readingOf'[f], toPost'[f], pieces'[f], splits'[f], posts'[f])
        <5>1. CASE readingOf'[f] = readingOf[f]
          BY <2>a, <2>d, <5>1 DEF FrameRead
        <5>2. CASE readingOf'[f] = "dropped"
          BY <2>a, <2>d, <5>2 DEF FrameRead, FrameAt
        <5>3. QED
          BY <2>d, <5>1, <5>2
      <4>2. QED
        BY <2>d, <4>1, FrameKept
    <3>3. QED
      BY <3>1, <3>2 DEF OcrInv
  <2>1. ASSUME NEW f \in Frames, StartRead(f) PROVE OcrInv'
    <3>1. /\ readingOf[f] = "idle" /\ readingOf' = [readingOf EXCEPT ![f] = "posts"]
          /\ toPost' = [toPost EXCEPT ![f] = Strips(tall[f])] /\ UNCHANGED <<tall, pieces, splits, posts>>
      BY <2>1 DEF StartRead
    <3>2. Strips(tall[f]) \in Seq(PiecesToPost) /\ Len(Strips(tall[f])) = StripCount(tall[f])
      BY <2>a, StripsArePieces
    <3>3. OcrTypes'
      BY <2>a, <3>1, <3>2 DEF OcrTypes
    <3>4. readingOf'[f] = "posts" /\ toPost'[f] = Strips(tall[f])
      BY <2>a, <3>1 DEF OcrTypes
    <3>5. CoveredBy(f, Strips(tall[f]), pieces[f])
      BY <2>a, <3>2, StripsCover DEF CoveredBy
    <3>6. FrameAt(f, readingOf'[f], toPost'[f], pieces'[f], splits'[f], posts'[f])
      <4>1. posts[f] = 0 /\ splits[f] = 0
        BY <2>a, <3>1 DEF FrameRead, FrameAt
      <4>2. QED
        BY <2>b, <3>1, <3>2, <3>4, <3>5, <4>1 DEF FrameAt
    <3>7. \A g \in Frames \ {f} : readingOf'[g] = readingOf[g] /\ toPost'[g] = toPost[g]
      BY <2>a, <3>1 DEF OcrTypes
    <3>8. QED
      BY <3>1, <3>3, <3>6, <3>7, OnlyOneRead
  <2>2. ASSUME NEW f \in Frames, Post(f) PROVE OcrInv'
    <3>1. /\ readingOf[f] = "posts" /\ toPost[f] # <<>> /\ posts' = [posts EXCEPT ![f] = @ + 1]
          /\ UNCHANGED <<tall, toPost, pieces, splits>>
      BY <2>2 DEF Post
    <3>2. PICK stage \in {"awaits", "dropped"} : readingOf' = [readingOf EXCEPT ![f] = stage]
      BY <2>2 DEF Post
    <3>3. OcrTypes'
      BY <2>a, <3>1, <3>2 DEF OcrTypes
    <3>4. readingOf'[f] = stage /\ posts'[f] = posts[f] + 1
      BY <2>a, <3>1, <3>2 DEF OcrTypes
    <3>5. FrameAt(f, "posts", toPost[f], pieces[f], splits[f], posts[f])
      BY <2>a, <3>1 DEF FrameRead
    <3>6. Len(toPost[f]) \in Nat \ {0} /\ posts[f] \in Nat /\ splits[f] \in Nat
      <4>1. toPost[f] \in Seq(PiecesToPost)
        BY <3>5 DEF FrameAt
      <4>2. QED
        BY <2>b, <3>1, <3>5, <4>1, FrontOfSeq DEF FrameAt
    <3>7. FrameAt(f, readingOf'[f], toPost'[f], pieces'[f], splits'[f], posts'[f])
      <4>1. /\ posts[f] + Len(toPost[f]) <= StripCount(tall[f]) + 2 * splits[f] /\ CoveredBy(f, toPost[f], pieces[f])
            /\ splits[f] \in 0..MaxSplits /\ toPost[f] \in Seq(PiecesToPost)
        BY <3>5 DEF FrameAt
      <4>2. /\ posts[f] + 1 <= StripCount(tall[f]) + 2 * splits[f]
            /\ posts[f] + 1 + Len(toPost[f]) <= StripCount(tall[f]) + 2 * splits[f] + 1 /\ posts[f] + 1 \in Nat
        <5> DEFINE c == StripCount(tall[f])
                   n == Len(toPost[f])
                   s == splits[f]
                   a == posts[f]
        <5>1. c \in Nat /\ n \in Nat \ {0} /\ s \in Nat /\ a \in Nat /\ a + n <= c + 2 * s
          BY <2>b, <3>6, <4>1
        <5> HIDE DEF c, n, s, a
        <5>2. a + 1 <= c + 2 * s /\ a + 1 + n <= c + 2 * s + 1 /\ a + 1 \in Nat
          BY <5>1
        <5>3. QED
          BY <5>2 DEF c, n, s, a
      <4>3. QED
        BY <3>1, <3>2, <3>4, <4>1, <4>2 DEF FrameAt
    <3>8. \A g \in Frames \ {f} : readingOf'[g] = readingOf[g] /\ posts'[g] = posts[g]
      BY <2>a, <3>1, <3>2 DEF OcrTypes
    <3>9. QED
      BY <3>1, <3>3, <3>7, <3>8, OnlyOneRead
  <2>3. ASSUME NEW f \in Frames, ReadEnds(f) PROVE OcrInv'
    <3>1. /\ readingOf[f] = "posts" /\ toPost[f] = <<>> /\ readingOf' = [readingOf EXCEPT ![f] = "done"]
          /\ UNCHANGED <<tall, toPost, pieces, splits, posts>>
      BY <2>3 DEF ReadEnds
    <3>2. OcrTypes'
      BY <2>a, <3>1 DEF OcrTypes
    <3>3. readingOf'[f] = "done" /\ \A g \in Frames \ {f} : readingOf'[g] = readingOf[g]
      BY <2>a, <3>1 DEF OcrTypes
    <3>4. FrameAt(f, readingOf'[f], toPost'[f], pieces'[f], splits'[f], posts'[f])
      BY <2>a, <3>1, <3>3 DEF FrameRead, FrameAt
    <3>5. QED
      BY <3>1, <3>2, <3>3, <3>4, OnlyOneRead
  <2>4. ASSUME NEW f \in Frames, readingOf[f] = "awaits", NEW dense \in BOOLEAN, ClientHas(f, dense),
               UNCHANGED <<tall, posts>>
        PROVE  OcrInv'
    <3> DEFINE p == Head(toPost[f])
    <3>1. FrameAt(f, "awaits", toPost[f], pieces[f], splits[f], posts[f])
      BY <2>a, <2>4 DEF FrameRead
    <3>2. toPost[f] \in Seq(PiecesToPost) /\ toPost[f] # <<>> /\ CoveredBy(f, toPost[f], pieces[f])
      BY <3>1 DEF FrameAt
    <3>3. /\ Len(toPost[f]) \in Nat \ {0} /\ Tail(toPost[f]) \in Seq(PiecesToPost)
          /\ Len(Tail(toPost[f])) = Len(toPost[f]) - 1 /\ p \in PiecesToPost
      BY <3>2, FrontOfSeq
    <3> HIDE DEF p
    <3>4. /\ splits[f] \in 0..MaxSplits /\ posts[f] \in Nat
          /\ posts[f] + Len(toPost[f]) <= StripCount(tall[f]) + 2 * splits[f] + 1
      BY <3>1 DEF FrameAt
    <3>5. CASE dense /\ MaySplit(f, p)
      <4>1. /\ readingOf' = [readingOf EXCEPT ![f] = "posts"] /\ toPost' = [toPost EXCEPT ![f] = Halves(p) \o Tail(@)]
            /\ splits' = [splits EXCEPT ![f] = @ + 1] /\ pieces' = [pieces EXCEPT ![f] = @]
        BY <2>4, <3>5 DEF ClientHas, p
      <4> DEFINE rest == Halves(p) \o Tail(toPost[f])
      <4>2. rest \in Seq(PiecesToPost) /\ Len(rest) = Len(toPost[f]) + 1 /\ CoveredBy(f, rest, pieces[f])
        BY <2>a, <3>2, PieceIsHalved DEF p
      <4>3. /\ readingOf'[f] = "posts" /\ toPost'[f] = rest /\ splits'[f] = splits[f] + 1 /\ pieces' = pieces
            /\ \A g \in Frames \ {f} : readingOf'[g] = readingOf[g] /\ toPost'[g] = toPost[g] /\ splits'[g] = splits[g]
        BY <2>a, <4>1 DEF OcrTypes
      <4>4. splits[f] + 1 \in 0..MaxSplits
        BY <2>b, <3>4, <3>5 DEF MaySplit
      <4>5. OcrTypes'
        <5>1. toPost' = [toPost EXCEPT ![f] = rest] /\ pieces' = pieces
          BY <2>a, <4>1, <4>3 DEF OcrTypes
        <5> HIDE DEF rest
        <5>2. splits' = [splits EXCEPT ![f] = splits[f] + 1] /\ splits[f] + 1 \in Nat
          BY <4>1, <4>4
        <5>3. QED
          <6>1. /\ toPost' \in [Frames -> Seq(PiecesToPost)]
                /\ pieces' \in [Frames -> SUBSET PiecesRead]
            BY <2>a, <4>2, <5>1 DEF OcrTypes
          <6>2. readingOf' \in [Frames -> {"idle", "posts", "awaits", "done", "dropped"}]
            BY <2>a, <4>1 DEF OcrTypes
          <6>3. splits' \in [Frames -> Nat]
            BY <2>a, <5>2 DEF OcrTypes
          <6>4. QED
            BY <2>a, <2>4, <6>1, <6>2, <6>3 DEF OcrTypes
      <4> HIDE DEF rest
      <4>6. FrameAt(f, readingOf'[f], toPost'[f], pieces'[f], splits'[f], posts'[f])
        <5>1. /\ posts[f] + Len(rest) <= StripCount(tall[f]) + 2 * (splits[f] + 1)
              /\ posts[f] <= StripCount(tall[f]) + 2 * (splits[f] + 1)
          <6> DEFINE c == StripCount(tall[f])
                     n == Len(toPost[f])
                     m == Len(rest)
                     s == splits[f]
                     a == posts[f]
          <6>1. /\ c \in Nat /\ n \in Nat \ {0} /\ s \in Nat /\ a \in Nat /\ a + n <= c + 2 * s + 1
                /\ m = n + 1
            BY <2>b, <3>3, <3>4, <4>2
          <6> HIDE DEF c, n, m, s, a
          <6>2. a + m <= c + 2 * (s + 1) /\ a <= c + 2 * (s + 1)
            BY <6>1
          <6>3. QED
            BY <6>2 DEF c, n, m, s, a
        <5>2. posts'[f] = posts[f] /\ pieces'[f] = pieces[f]
          BY <2>4, <4>3
        <5>3. QED
          BY <3>4, <4>2, <4>3, <4>4, <5>1, <5>2 DEF FrameAt
      <4>7. QED
        BY <2>4, <4>3, <4>5, <4>6, OnlyOneRead
    <3>6. CASE ~(dense /\ MaySplit(f, p))
      <4> DEFINE r == [top |-> p.top, bottom |-> p.bottom, missed |-> dense]
      <4>1. /\ readingOf' = [readingOf EXCEPT ![f] = "posts"] /\ toPost' = [toPost EXCEPT ![f] = Tail(@)]
            /\ splits' = [splits EXCEPT ![f] = @] /\ pieces' = [pieces EXCEPT ![f] = @ \cup {r}]
        BY <2>4, <3>6 DEF ClientHas, p
      <4>2. CoveredBy(f, Tail(toPost[f]), pieces[f] \cup {r})
        BY <2>a, <3>2, PieceIsRead DEF p
      <4>3. r \in PiecesRead
        BY <3>3 DEF PiecesToPost, PiecesRead
      <4> HIDE DEF r
      <4>4. /\ readingOf'[f] = "posts" /\ toPost'[f] = Tail(toPost[f]) /\ splits' = splits /\ pieces'[f] = pieces[f] \cup {r}
            /\ \A g \in Frames \ {f} : readingOf'[g] = readingOf[g] /\ toPost'[g] = toPost[g] /\ pieces'[g] = pieces[g]
        BY <2>a, <4>1 DEF OcrTypes
      <4>5. OcrTypes'
        <5>1. /\ toPost' = [toPost EXCEPT ![f] = Tail(toPost[f])] /\ pieces' = [pieces EXCEPT ![f] = pieces[f] \cup {r}]
              /\ pieces[f] \cup {r} \in SUBSET PiecesRead
          BY <2>a, <4>1, <4>3 DEF OcrTypes
        <5>2. toPost' \in [Frames -> Seq(PiecesToPost)] /\ pieces' \in [Frames -> SUBSET PiecesRead]
          BY <2>a, <3>3, <5>1 DEF OcrTypes
        <5>3. readingOf' \in [Frames -> {"idle", "posts", "awaits", "done", "dropped"}]
          BY <2>a, <4>1 DEF OcrTypes
        <5>4. QED
          BY <2>a, <2>4, <4>4, <5>2, <5>3 DEF OcrTypes
      <4>6. FrameAt(f, readingOf'[f], toPost'[f], pieces'[f], splits'[f], posts'[f])
        <5>1. posts[f] <= StripCount(tall[f]) + 2 * splits[f]
              /\ posts[f] + Len(Tail(toPost[f])) <= StripCount(tall[f]) + 2 * splits[f]
          <6> DEFINE c == StripCount(tall[f])
                     n == Len(toPost[f])
                     m == Len(Tail(toPost[f]))
                     s == splits[f]
                     a == posts[f]
          <6>1. c \in Nat /\ n \in Nat \ {0} /\ s \in Nat /\ a \in Nat /\ a + n <= c + 2 * s + 1 /\ m = n - 1
            BY <2>b, <3>3, <3>4
          <6> HIDE DEF c, n, m, s, a
          <6>2. a + m <= c + 2 * s /\ a <= c + 2 * s
            BY <6>1
          <6>3. QED
            BY <6>2 DEF c, n, m, s, a
        <5>2. QED
          BY <2>4, <3>3, <3>4, <4>2, <4>4, <5>1 DEF FrameAt
      <4>7. QED
        BY <2>4, <4>4, <4>5, <4>6, OnlyOneRead
    <3>7. QED
      BY <3>5, <3>6
  <2>5. ASSUME NEW f \in Frames, NEW stage \in {readingOf[f], "dropped"}, readingOf' = [readingOf EXCEPT ![f] = stage],
               UNCHANGED <<tall, toPost, pieces, splits, posts>>
        PROVE  OcrInv'
    <3>1. readingOf' \in [Frames -> {"idle", "posts", "awaits", "done", "dropped"}]
      BY <2>a, <2>5 DEF OcrTypes
    <3>2. \A g \in Frames : readingOf'[g] \in {readingOf[g], "dropped"}
      BY <2>a, <2>5 DEF OcrTypes
    <3>3. QED
      BY <2>d, <2>5, <3>1, <3>2
  <2>6. ASSUME NEW f \in Frames, TakeSlot(f) PROVE OcrInv'
    BY <2>c, <2>6 DEF TakeSlot
  <2>7. ASSUME NEW f \in Frames, AllBusy(f) PROVE OcrInv'
    BY <2>5, <2>7 DEF AllBusy, ReadFails
  <2>8. ASSUME NEW f \in Frames, FindBroken(f) PROVE OcrInv'
    BY <2>5, <2>8 DEF FindBroken, ReadFails
  <2>9. ASSUME NEW f \in Frames, NEW dense \in BOOLEAN, Recognise(f, dense) PROVE OcrInv'
    <3>1. CASE readingOf[f] = "awaits"
      BY <2>4, <2>9, <3>1 DEF Recognise
    <3>2. CASE readingOf[f] # "awaits"
      BY <2>c, <2>9, <3>2 DEF Recognise
    <3>3. QED
      BY <3>1, <3>2
  <2>10. ASSUME EngineDies PROVE OcrInv'
    BY <2>c, <2>10 DEF EngineDies
  <2>11. ASSUME Restarted PROVE OcrInv'
    <3>1. /\ readingOf' = [f \in Frames |-> IF readingOf[f] = "awaits" THEN "dropped" ELSE readingOf[f]]
          /\ UNCHANGED <<tall, toPost, pieces, splits, posts>>
      BY <2>11 DEF Restarted
    <3>2. readingOf' \in [Frames -> {"idle", "posts", "awaits", "done", "dropped"}]
      BY <2>a, <3>1 DEF OcrTypes
    <3>3. QED
      BY <2>d, <3>1, <3>2
  <2>12. CASE UNCHANGED ocrVars
    BY <2>c, <2>12 DEF ocrVars
  <2>13. QED
    <3>1. ASSUME NEW f \in Frames, OcrStep(f) PROVE OcrInv'
      BY <2>2, <2>3, <2>6, <2>7, <2>8, <2>9, <3>1 DEF OcrStep
    <3>2. ASSUME NEW f \in Frames, ReadTimesOut(f) PROVE OcrInv'
      BY <2>5, <3>2 DEF ReadTimesOut
    <3>3. QED
      BY <2>1, <2>10, <2>11, <2>12, <3>1, <3>2 DEF OcrNext
<1>2. QED
  BY <1>1, OcrInvInit, PTL

\* For frames of any height, cut in strips of any height and halved wherever their text is dense,
\* with engines that die and a client that may give up at any point: a frame that was read has each
\* line whole in a piece, or on rows that stayed too dense to the last; no frame costs more than
\* its strips and two requests for each halving (strips, halves, _read, recognize of the service).
THEOREM FramesAreWhole == OcrInit /\ [][OcrNext]_ocrVars => [](LinesWhole /\ PostsBounded)
<1>1. OcrInv => LinesWhole /\ PostsBounded
  <2>1. SUFFICES ASSUME OcrInv, NEW f \in Frames
                 PROVE  /\ readingOf[f] = "done" =>
                             \A l \in Lines(f) : \E p \in pieces[f] :
                               IF p.missed THEN p.top <= l[2] /\ l[1] < p.bottom ELSE WholeIn(p, f, l[1], l[2])
                        /\ posts[f] <= StripCount(tall[f]) + 2 * MaxSplits
    BY DEF LinesWhole, PostsBounded
  <2>2. /\ FrameAt(f, readingOf[f], toPost[f], pieces[f], splits[f], posts[f])
        /\ StripCount(tall[f]) \in Nat /\ MaxSplits \in Nat
    BY <2>1, StepIsPositive, OcrBounds DEF OcrInv, OcrTypes, FrameRead
  <2>3. posts[f] <= StripCount(tall[f]) + 2 * MaxSplits
    BY <2>2 DEF FrameAt
  <2>4. ASSUME readingOf[f] = "done", NEW l \in Lines(f)
        PROVE  \E p \in pieces[f] : IF p.missed THEN p.top <= l[2] /\ l[1] < p.bottom ELSE WholeIn(p, f, l[1], l[2])
    <3>1. CoveredBy(f, <<>>, pieces[f])
      BY <2>2, <2>4 DEF FrameAt
    <3>2. Len(<<>>) = 0
      OBVIOUS
    <3>3. QED
      BY <3>1, <3>2 DEF CoveredBy
  <2>5. QED
    BY <2>3, <2>4
<1>2. QED
  BY <1>1, OcrInvHolds, PTL

-----------------------------------------------------------------------------
(* The provider's signing keys.                                             *)

Stamping == {v \in Verifiers : vat[v] = "stamp"}

\* While the window is over, every refetch counted is one of a thread that has yet to stamp; a
\* filled cache stays filled.
RefetchesOwned ==
  /\ windowOver => refetches <= Cardinality(Stamping)
  /\ refetches <= Cardinality(Verifiers)
  /\ published # {} /\ \A v \in Verifiers : vat[v] = "load" => fetched[v] # {}

OidcInv == OidcTypeOK /\ RefetchesOwned

LEMMA StampingIsSmall ==
  ASSUME NEW S, S \subseteq Verifiers
  PROVE  /\ IsFiniteSet(S) /\ Cardinality(S) \in Nat
         /\ Cardinality(Verifiers) \in Nat /\ Cardinality(S) <= Cardinality(Verifiers)
BY OidcConstants, FS_Subset, FS_CardinalityType

\* A step that neither starts nor ends a stamp keeps what is counted.
LEMMA StampsKept ==
  ASSUME OidcInv, NEW v \in Verifiers, vat[v] # "stamp", NEW to \in {"idle", "missed", "fetch", "load", "lookup"},
         vat' = [vat EXCEPT ![v] = to], to = "load" => fetched'[v] # {},
         UNCHANGED <<windowOver, refetches, published>>,
         \A w \in Verifiers \ {v} : fetched'[w] = fetched[w]
  PROVE  RefetchesOwned'
<1>1. Stamping' = Stamping
  BY DEF OidcInv, OidcTypeOK, Stamping
<1>2. \A w \in Verifiers : vat'[w] = "load" => fetched'[w] # {}
  BY DEF OidcInv, OidcTypeOK, RefetchesOwned
<1>3. QED
  BY <1>1, <1>2 DEF OidcInv, RefetchesOwned

LEMMA OidcStarts == OidcInit => OidcInv
<1>1. SUFFICES ASSUME OidcInit PROVE OidcInv
  OBVIOUS
<1>2. /\ Cardinality(Stamping) \in Nat /\ Cardinality(Verifiers) \in Nat
  BY StampingIsSmall DEF Stamping
<1>3. Kids # {}
  BY <1>1 DEF OidcInit, KeySets
<1>4. (CHOOSE k \in Kids : TRUE) \in Kids
  BY <1>3
<1>5. OidcTypeOK
  BY <1>1, <1>2, <1>4, OidcConstants DEF OidcInit, OidcTypeOK, KeySets
<1>6. RefetchesOwned
  BY <1>1, <1>2 DEF OidcInit, RefetchesOwned, KeySets
<1>7. QED
  BY <1>5, <1>6 DEF OidcInv

LEMMA OidcSteps == OidcInv /\ [OidcNext]_oidcVars => OidcInv'
<1>0. ASSUME OidcInv, UNCHANGED oidcVars PROVE OidcInv'
  <2>1. OidcTypeOK'
    BY <1>0 DEF OidcInv, OidcTypeOK, oidcVars
  <2>2. Stamping' = Stamping
    BY <1>0 DEF Stamping, oidcVars
  <2>3. RefetchesOwned'
    BY <1>0, <2>2 DEF OidcInv, RefetchesOwned, oidcVars
  <2>4. QED
    BY <2>1, <2>3 DEF OidcInv
<1>1. SUFFICES ASSUME OidcInv, OidcNext PROVE OidcInv'
  BY <1>0
<1>s. Cardinality(Verifiers) \in Nat /\ Cardinality(Stamping) \in Nat
  BY StampingIsSmall DEF Stamping
<1>r. refetches \in Nat
  BY <1>1, <1>s DEF OidcInv, OidcTypeOK
<1>2. ASSUME NEW v \in Verifiers, NEW k \in Kids, AskOidc(v, k) PROVE OidcInv'
  <2>1. OidcTypeOK'
    BY <1>1, <1>2, <1>s DEF OidcInv, OidcTypeOK, AskOidc
  <2>2. PICK to \in {"missed", "lookup"} : vat' = [vat EXCEPT ![v] = to]
    BY <1>2 DEF AskOidc
  <2>3. RefetchesOwned'
    BY <1>1, <1>2, <2>2, StampsKept DEF AskOidc
  <2>4. QED
    BY <2>1, <2>3 DEF OidcInv
<1>3. ASSUME NEW v \in Verifiers, CheckWindow(v) PROVE OidcInv'
  <2>1. OidcTypeOK'
    BY <1>1, <1>3, <1>s DEF OidcInv, OidcTypeOK, CheckWindow
  <2>2. CASE ~MayRefetch
    BY <1>1, <1>3, <2>1, <2>2, StampsKept DEF CheckWindow, OidcInv
  <2>3. CASE MayRefetch
    <3>1. Stamping' = Stamping \cup {v} /\ v \notin Stamping
      BY <1>1, <1>3, <2>3 DEF OidcInv, OidcTypeOK, CheckWindow, Stamping
    <3>2. Cardinality(Stamping') = Cardinality(Stamping) + 1
      BY <3>1, StampingIsSmall, FS_AddElement DEF Stamping
    <3>3. Cardinality(Stamping') <= Cardinality(Verifiers)
      BY StampingIsSmall DEF Stamping
    <3>4. refetches' <= refetches + 1 /\ refetches' \in Nat
      BY <1>3, <1>r DEF CheckWindow
    <3>5. windowOver' => refetches' <= Cardinality(Stamping')
      BY <1>1, <1>3, <3>2, <3>4, <1>s, <1>r DEF OidcInv, RefetchesOwned, CheckWindow
    <3>6. refetches' <= Cardinality(Verifiers)
      <4>1. CASE windowOver
        BY <1>3, <4>1, <3>2, <3>3, <3>5, <3>4, <1>s DEF CheckWindow
      <4>2. CASE ~windowOver
        <5>1. refetches' = refetches
          BY <1>3, <2>3, <4>2 DEF CheckWindow, MayRefetch
        <5>2. QED
          BY <1>1, <5>1 DEF OidcInv, RefetchesOwned
      <4>3. QED
        BY <4>1, <4>2
    <3>7. published' # {} /\ \A w \in Verifiers : vat'[w] = "load" => fetched'[w] # {}
      BY <1>1, <1>3, <2>3 DEF OidcInv, OidcTypeOK, RefetchesOwned, CheckWindow
    <3>8. QED
      BY <2>1, <3>5, <3>6, <3>7 DEF OidcInv, RefetchesOwned
  <2>4. QED
    BY <2>2, <2>3
<1>4. ASSUME NEW v \in Verifiers, Stamp(v) PROVE OidcInv'
  <2>1. OidcTypeOK'
    BY <1>1, <1>4, <1>s DEF OidcInv, OidcTypeOK, Stamp, Stamped
  <2>2. RefetchesOwned'
    BY <1>1, <1>4 DEF OidcInv, OidcTypeOK, RefetchesOwned, Stamp, Stamped
  <2>3. QED
    BY <2>1, <2>2 DEF OidcInv
<1>5. ASSUME NEW v \in Verifiers, FetchAnswered(v) PROVE OidcInv'
  <2>1. OidcTypeOK'
    BY <1>1, <1>5, <1>s DEF OidcInv, OidcTypeOK, FetchAnswered, KeySets
  <2>2. fetched'[v] # {} /\ \A w \in Verifiers \ {v} : fetched'[w] = fetched[w]
    BY <1>1, <1>5 DEF OidcInv, OidcTypeOK, RefetchesOwned, FetchAnswered
  <2>3. RefetchesOwned'
    BY <1>1, <1>5, <2>2, StampsKept DEF FetchAnswered
  <2>4. QED
    BY <2>1, <2>3 DEF OidcInv
<1>6. ASSUME NEW v \in Verifiers, FetchFails(v) PROVE OidcInv'
  <2>1. OidcTypeOK'
    BY <1>1, <1>6, <1>s DEF OidcInv, OidcTypeOK, FetchFails
  <2>2. RefetchesOwned'
    BY <1>1, <1>6, StampsKept DEF FetchFails
  <2>3. QED
    BY <2>1, <2>2 DEF OidcInv
<1>7. ASSUME NEW v \in Verifiers, LoadKeys(v) PROVE OidcInv'
  <2>1. OidcTypeOK'
    BY <1>1, <1>7, <1>s DEF OidcInv, OidcTypeOK, LoadKeys
  <2>2. \A w \in Verifiers \ {v} : fetched'[w] = fetched[w]
    BY <1>1, <1>7 DEF OidcInv, OidcTypeOK, LoadKeys
  <2>3. RefetchesOwned'
    BY <1>1, <1>7, <2>2, StampsKept DEF LoadKeys
  <2>4. QED
    BY <2>1, <2>3 DEF OidcInv
<1>8. ASSUME NEW v \in Verifiers, Judged(v) PROVE OidcInv'
  <2>1. OidcTypeOK'
    BY <1>1, <1>8, <1>s DEF OidcInv, OidcTypeOK, Judged
  <2>2. RefetchesOwned'
    BY <1>1, <1>8, StampsKept DEF Judged
  <2>3. QED
    BY <2>1, <2>2 DEF OidcInv
<1>9. CASE WindowPasses
  BY <1>1, <1>9, <1>s DEF OidcInv, OidcTypeOK, RefetchesOwned, WindowPasses, Stamping
<1>10. CASE Rotate \/ ProviderFails \/ ProviderReturns
  <2>t. oidcUpsets' \in [rotations : 0..MaxRotations, outages : 0..MaxKeyOutages]
    <3>1. MaxRotations \in Nat /\ MaxKeyOutages \in Nat
      BY OidcConstants
    <3>2. oidcUpsets \in [rotations : 0..MaxRotations, outages : 0..MaxKeyOutages]
      BY <1>1 DEF OidcInv, OidcTypeOK
    <3>3. CASE Rotate
      BY <3>1, <3>2, <3>3 DEF Rotate
    <3>4. CASE ProviderFails
      BY <3>1, <3>2, <3>4 DEF ProviderFails
    <3>5. CASE ProviderReturns
      BY <3>2, <3>5 DEF ProviderReturns
    <3>6. QED
      BY <1>10, <3>3, <3>4, <3>5
  <2>1. OidcTypeOK'
    BY <1>1, <1>10, <1>s, <2>t
    DEF OidcInv, OidcTypeOK, Rotate, ProviderFails, ProviderReturns, KeySets
  <2>2. published' # {}
    BY <1>1, <1>10 DEF OidcInv, RefetchesOwned, Rotate, ProviderFails, ProviderReturns, KeySets
  <2>3. UNCHANGED <<windowOver, refetches, vat, fetched>>
    BY <1>10 DEF Rotate, ProviderFails, ProviderReturns
  <2>4. QED
    BY <1>1, <2>1, <2>2, <2>3 DEF OidcInv, RefetchesOwned, Stamping
<1>11. QED
  BY <1>1, <1>2, <1>3, <1>4, <1>5, <1>6, <1>7, <1>8, <1>9, <1>10 DEF OidcNext, VerifyStep

\* Threads that name unknown keys make a process that has keys ask for them once each and
\* interval at most (the safety half of KeysFollow).
THEOREM KeysAreSpared == OidcInit /\ [][OidcNext]_oidcVars => [](OidcTypeOK /\ RefetchesBounded)
<1>1. OidcInv => OidcTypeOK /\ RefetchesBounded
  BY DEF OidcInv, RefetchesOwned, RefetchesBounded
<1>2. QED
  BY <1>1, OidcStarts, OidcSteps, PTL

-----------------------------------------------------------------------------
(* The app's updates.                                                       *)

\* A set of numbers up to n has a greatest one.
LEMMA Greatest ==
  ASSUME NEW n \in Nat, NEW S, S \subseteq 0..n, S # {}
  PROVE  Max(S) \in S
<1> DEFINE T == {n - v : v \in S}
           R == OpToRel(<, Nat)
<1>1. T \subseteq Nat /\ T # {}
  <2>1. \A v \in S : v \in 0..n /\ n - v \in Nat
    OBVIOUS
  <2>2. QED
    BY <2>1
<1>2. IsWellFoundedOn(R, Nat)
  BY NatLessThanWellFounded
<1>3. \A x, y \in Nat : y < x => <<y, x>> \in R
  BY DEF OpToRel
<1> HIDE DEF R
<1>4. PICK x \in T : \A y \in T : <<y, x>> \notin R
  BY <1>1, <1>2, WFMin
<1>5. \A y \in T : ~(y < x)
  BY <1>1, <1>3, <1>4
<1>6. PICK v \in S : x = n - v
  BY <1>4
<1>7. \A w \in S : v >= w
  <2>1. TAKE w \in S
  <2>2. n - w \in T
    OBVIOUS
  <2>3. ~(n - w < n - v)
    BY <1>5, <1>6, <2>2
  <2>4. QED
    BY <2>3
<1>8. QED
  BY <1>7 DEF Max

\* What a check found is newer than the app; what slides out is hidden; and what is being
\* downloaded is on the banner.
FoundIsNewer == lookup.found # 0 => lookup.found > installed
LeavesHidden == leaving => banner = Hidden
ShownIsRunning == banner.kind = "downloading" => fetching # 0 /\ banner.version = fetching

UpdateInv == UpdateTypeOK /\ UpdateSafe /\ FoundIsNewer /\ LeavesHidden /\ ShownIsRunning

LEMMA UpdateBounds == MaxVersion \in Nat /\ MaxReleases \in Nat /\ MaxFailed \in Nat /\ MaxSpells \in Nat
BY UpdateAssumption

\* UpdateTypeOK, variable by variable.
UpdateTypes ==
  /\ builds \subseteq 1..MaxVersion
  /\ installed \in 0..MaxVersion /\ offer \in 0..MaxVersion
  /\ dismissed \in 0..MaxVersion /\ fetching \in 0..MaxVersion
  /\ banner \in [kind : {"hidden", "available", "downloading", "installing", "failed"}, version : 0..MaxVersion]
  /\ lookup \in [at : {"none", "asked", "fetched"}, found : 0..MaxVersion]
  /\ leaving \in BOOLEAN /\ inFront \in BOOLEAN /\ sinceCheck \in {"none", "short", "long"}
  /\ updateUpsets \in [changes : 0..MaxReleases, failed : 0..MaxFailed, spells : 0..MaxSpells]

LEMMA UpdateTyped == (UpdateTypeOK <=> UpdateTypes) /\ (UpdateTypeOK' <=> UpdateTypes')
BY DEF UpdateTypeOK, UpdateTypes, Versions

\* The newest build is 0 or a build newer than the app.
LEMMA NewestIsNewer ==
  ASSUME UpdateTypeOK
  PROVE  Newest(builds) \in 0..MaxVersion /\ (Newest(builds) # 0 => Newest(builds) > installed)
<1>0. builds \subseteq 1..MaxVersion
  BY UpdateTyped DEF UpdateTypes
<1>1. Newer(builds) \subseteq 0..MaxVersion /\ MaxVersion \in Nat
  <2>1. \A v \in 1..MaxVersion : v \in 0..MaxVersion
    OBVIOUS
  <2>2. QED
    BY <1>0, <2>1, UpdateBounds DEF Newer
<1>2. CASE Newer(builds) = {}
  BY <1>1, <1>2 DEF Newest
<1>3. CASE Newer(builds) # {}
  <2>1. Max(Newer(builds)) \in Newer(builds)
    BY <1>1, <1>3, Greatest
  <2>2. QED
    BY <1>1, <1>3, <2>1 DEF Newest, Newer
<1>4. QED
  BY <1>2, <1>3

LEMMA UpsetTyped ==
  ASSUME UpdateTypeOK
  PROVE  /\ Upset("changes", MaxReleases) => updateUpsets' \in [changes : 0..MaxReleases, failed : 0..MaxFailed, spells : 0..MaxSpells]
         /\ Upset("failed", MaxFailed) => updateUpsets' \in [changes : 0..MaxReleases, failed : 0..MaxFailed, spells : 0..MaxSpells]
         /\ Upset("spells", MaxSpells) => updateUpsets' \in [changes : 0..MaxReleases, failed : 0..MaxFailed, spells : 0..MaxSpells]
BY UpdateBounds DEF UpdateTypeOK, Upset

LEMMA UpdateStarts == UpdateInit => UpdateInv
<1>1. SUFFICES ASSUME UpdateInit PROVE UpdateInv
  OBVIOUS
<1>2. UpdateTypes
  <2>1. 0 \in 0..MaxVersion /\ 0 \in 0..MaxReleases /\ 0 \in 0..MaxFailed /\ 0 \in 0..MaxSpells
    BY UpdateBounds
  <2>2. /\ Hidden \in [kind : {"hidden", "available", "downloading", "installing", "failed"}, version : 0..MaxVersion]
        /\ NoLookup \in [at : {"none", "asked", "fetched"}, found : 0..MaxVersion]
    BY <2>1 DEF Hidden, NoLookup
  <2>3. updateUpsets \in [changes : 0..MaxReleases, failed : 0..MaxFailed, spells : 0..MaxSpells]
    BY <1>1, <2>1 DEF UpdateInit
  <2>4. QED
    BY <1>1, <2>1, <2>2, <2>3 DEF UpdateInit, UpdateTypes
<1>3. QED
  BY <1>1, <1>2, UpdateTyped
  DEF UpdateInit, UpdateInv, UpdateSafe, Hidden, Banner, NoLookup,
      OfferIsTaken, DownloadIsShown, FoundIsNewer, LeavesHidden, ShownIsRunning

LEMMA UpdateSteps == UpdateInv /\ [UpdateNext]_updateVars => UpdateInv'
<1> USE DEF UpdateInv, UpdateSafe, OfferIsTaken, DownloadIsShown, FoundIsNewer, LeavesHidden,
            ShownIsRunning
<1>0. ASSUME UpdateInv, UNCHANGED updateVars PROVE UpdateInv'
  BY <1>0, UpdateTyped
  DEF updateVars, UpdateTypes
<1>1. SUFFICES ASSUME UpdateInv, UpdateNext PROVE UpdateInv'
  BY <1>0
<1>u. MaxVersion \in Nat
  BY UpdateBounds
<1>2. CASE IntervalCheck \/ LiveTabCheck
  <2>1. UpdateTypes'
    BY <1>1, <1>2, <1>u, UpdateTyped DEF UpdateTypes, IntervalCheck, LiveTabCheck, CheckNow
  <2>2. QED
    BY <1>1, <1>2, <1>u, <2>1, UpdateTyped DEF UpdateTypes, IntervalCheck, LiveTabCheck, CheckNow
<1>3. CASE ReleasesFetched
  <2>1. UpdateTypes'
    BY <1>1, <1>3, NewestIsNewer, UpdateTyped DEF UpdateTypes, ReleasesFetched
  <2>2. QED
    BY <1>1, <1>3, NewestIsNewer, <2>1, UpdateTyped DEF UpdateTypes, ReleasesFetched
<1>4. CASE LookupFails
  <2>1. UpdateTypes'
    BY <1>1, <1>4, <1>u, UpsetTyped, UpdateTyped DEF UpdateTypes, LookupFails, NoLookup
  <2>2. QED
    BY <1>1, <1>4, <1>u, UpsetTyped, <2>1, UpdateTyped DEF UpdateTypes, LookupFails, NoLookup
<1>5. CASE CheckApplied
  <2>1. UpdateTypes'
    BY <1>1, <1>5, <1>u, UpdateTyped DEF UpdateTypes, CheckApplied, Folded, WantedBuild, NoLookup, Hidden, Banner
  <2>2. QED
    <3>1. CASE banner.kind \notin {"hidden", "available"}
      BY <1>1, <1>5, <2>1, <3>1, UpdateTyped
      DEF UpdateTypes, CheckApplied, Folded, WantedBuild, NoLookup, Hidden
    <3>2. CASE banner.kind \in {"hidden", "available"} /\ WantedBuild(lookup.found)
      <4>1. banner' = Banner("available", lookup.found) /\ offer' = lookup.found /\ fetching = 0
        BY <1>1, <1>5, <3>2, UpdateTyped DEF UpdateTypes, CheckApplied, Folded, Banner
      <4>2. banner'.kind = "available" /\ banner'.version = lookup.found /\ banner' # Hidden
        BY <4>1 DEF Banner, Hidden
      <4>3. LeavesHidden'
        BY <1>5, <4>2 DEF CheckApplied
      <4>4. lookup'.found = 0 /\ UNCHANGED <<installed, dismissed, fetching>>
        BY <1>5 DEF CheckApplied, NoLookup
      <4>5. OfferIsTaken' /\ FoundIsNewer' /\ ShownIsRunning'
        BY <1>1, <3>2, <4>1, <4>2, <4>4 DEF WantedBuild
      <4>6. DownloadIsShown'
        BY <4>1, <4>2, <4>4 DEF Banner
      <4>7. QED
        BY <2>1, <4>3, <4>5, <4>6, UpdateTyped
    <3>3. CASE banner.kind \in {"hidden", "available"} /\ ~WantedBuild(lookup.found)
      <4>1. banner' = Hidden /\ offer' = offer /\ fetching = 0
        BY <1>1, <1>5, <3>3, UpdateTyped DEF UpdateTypes, CheckApplied, Folded, Banner
      <4>2. LeavesHidden'
        BY <4>1
      <4>3. /\ lookup'.found = 0 /\ UNCHANGED <<installed, dismissed, fetching>>
            /\ banner'.kind = "hidden" /\ banner'.version = 0
        BY <1>5, <4>1 DEF CheckApplied, NoLookup, Hidden
      <4>4. OfferIsTaken' /\ FoundIsNewer' /\ ShownIsRunning'
        BY <1>1, <4>1, <4>3
      <4>5. DownloadIsShown'
        BY <4>1, <4>3
      <4>6. QED
        BY <2>1, <4>2, <4>4, <4>5, UpdateTyped
    <3>4. QED
      BY <3>1, <3>2, <3>3
<1>6. CASE Act
  <2>1. UpdateTypes'
    BY <1>1, <1>6, <1>u, UpdateTyped DEF UpdateTypes, Act, Offered, Hidden, Banner
  <2>2. QED
    BY <1>1, <1>6, <1>u, <2>1, UpdateTyped DEF UpdateTypes, Act, Offered, Hidden, Banner
<1>7. CASE Dismiss
  <2>1. UpdateTypes'
    BY <1>1, <1>7, <1>u, UpdateTyped DEF UpdateTypes, Dismiss, Offered, Hidden, Banner
  <2>2. QED
    BY <1>1, <1>7, <1>u, <2>1, UpdateTyped DEF UpdateTypes, Dismiss, Offered, Hidden, Banner
<1>8. CASE SlidOut
  <2>1. UpdateTypes'
    BY <1>1, <1>8, UpdateTyped DEF UpdateTypes, SlidOut
  <2>2. QED
    BY <1>1, <1>8, <2>1, UpdateTyped DEF UpdateTypes, SlidOut
<1>9. ASSUME NEW k \in {"installing", "failed"}, DownloadEnds(k) PROVE UpdateInv'
  <2>1. UpdateTypes'
    <3>1. Banner(k, fetching) \in [kind : {"hidden", "available", "downloading", "installing", "failed"},
                                   version : 0..MaxVersion]
      BY <1>1, UpdateTyped DEF UpdateTypes, Banner
    <3>2. UpdateTypes /\ 0 \in 0..MaxVersion
      BY <1>1, <1>u, UpdateTyped
    <3>3. /\ banner' = Banner(k, fetching) /\ fetching' = 0 /\ leaving' = FALSE
          /\ UNCHANGED <<builds, installed, offer, dismissed, lookup, sinceCheck, inFront, updateUpsets>>
      BY <1>9 DEF DownloadEnds
    <3>4. QED
      BY <3>1, <3>2, <3>3 DEF UpdateTypes
  <2>2. QED
    BY <1>1, <1>9, <1>u, <2>1, UpdateTyped DEF UpdateTypes, DownloadEnds, Hidden, Banner
<1>10. ASSUME NEW v \in Versions, Publish(v) \/ Withdraw(v) PROVE UpdateInv'
  <2>1. UpdateTypes'
    BY <1>1, <1>10, UpsetTyped, UpdateTyped DEF UpdateTypes, Publish, Withdraw, Versions
  <2>2. QED
    BY <1>1, <1>10, UpsetTyped, <2>1, UpdateTyped DEF UpdateTypes, Publish, Withdraw
<1>11. CASE TimePasses
  <2>1. UpdateTypes'
    BY <1>1, <1>11, UpdateTyped DEF UpdateTypes, TimePasses
  <2>2. QED
    BY <1>1, <1>11, <2>1, UpdateTyped DEF UpdateTypes, TimePasses
<1>12. CASE GoesBack
  <2>1. UpdateTypes'
    BY <1>1, <1>12, UpsetTyped, UpdateTyped DEF UpdateTypes, GoesBack
  <2>2. QED
    BY <1>1, <1>12, UpsetTyped, <2>1, UpdateTyped DEF UpdateTypes, GoesBack
<1>13. CASE ComesBack
  <2>1. UpdateTypes'
    BY <1>1, <1>13, <1>u, UpdateTyped DEF UpdateTypes, ComesBack
  <2>2. QED
    BY <1>1, <1>13, <1>u, <2>1, UpdateTyped DEF UpdateTypes, ComesBack
<1>14. CASE Relaunch
  <2>1. UpdateTypes'
    <3>1. installed' \in 0..MaxVersion
      BY <1>1, <1>14, UpdateTyped DEF UpdateTypes, Relaunch
    <3>2. /\ Hidden \in [kind : {"hidden", "available", "downloading", "installing", "failed"}, version : 0..MaxVersion]
          /\ 0 \in 0..MaxVersion
      BY <1>u DEF Hidden
    <3>3. QED
      BY <1>1, <1>14, <1>u, <3>1, <3>2, UpsetTyped, UpdateTyped DEF UpdateTypes, Relaunch
  <2>2. QED
    BY <1>1, <1>14, <1>u, UpsetTyped, <2>1, UpdateTyped DEF UpdateTypes, Relaunch, Hidden, Banner
<1>15. QED
  BY <1>1, <1>2, <1>3, <1>4, <1>5, <1>6, <1>7, <1>8, <1>9, <1>10, <1>11, <1>12, <1>13, <1>14 DEF UpdateNext

\* What the banner offers is what a tap downloads, and a download stays on show (the safety half
\* of UpdatesOffered).
THEOREM OffersAreTaken == UpdateInit /\ [][UpdateNext]_updateVars => [](UpdateTypeOK /\ UpdateSafe)
<1>1. UpdateInv => UpdateTypeOK /\ UpdateSafe
  BY DEF UpdateInv
<1>2. QED
  BY <1>1, UpdateStarts, UpdateSteps, PTL

-----------------------------------------------------------------------------
(* What a client shows.                                                     *)

\* A set of numbers has a least one.
LEMMA Least ==
  ASSUME NEW T, T \subseteq Nat, T # {}
  PROVE  \E x \in T : \A y \in T : x <= y
<1> DEFINE R == OpToRel(<, Nat)
<1>1. IsWellFoundedOn(R, Nat)
  BY NatLessThanWellFounded
<1>2. \A x, y \in Nat : y < x => <<y, x>> \in R
  BY DEF OpToRel
<1> HIDE DEF R
<1>3. PICK x \in T : \A y \in T : <<y, x>> \notin R
  BY <1>1, WFMin
<1>4. \A y \in T : ~(y < x)
  BY <1>2, <1>3, Zenon
<1> QED BY <1>4

LEMMA FloorIsLow == Floor \in Int /\ Floor <= 0
<1>1. MaxWaiting + 1 \in Nat /\ Ttl \in Nat
  BY ViewAssumption
<1>2. \A m, n \in Nat : m * n \in Nat
  OBVIOUS
<1>3. (MaxWaiting + 1) * Ttl \in Nat
  BY <1>1, <1>2
<1>4. QED
  BY <1>3 DEF Floor

\* A band, and the cues it shows in their order.
Bands == [active : Cues \cup {"none"}, closesIn : Floor..Ttl, waiting : Seq(Cues), released : Seq(Cues)]
LineOf(b) == b.released \o (IF b.active = "none" THEN <<>> ELSE <<b.active>>) \o b.waiting
BandNow == [active |-> active, closesIn |-> closesIn, waiting |-> waiting, released |-> released]

Once(l) == \A i, j \in DOMAIN l : l[i] = l[j] => i = j

GoodBand(b) ==
  /\ b \in Bands /\ Len(b.waiting) <= MaxWaiting /\ Len(b.released) <= MaxReleased
  /\ b.active = "none" => b.waiting = <<>>
  /\ Once(LineOf(b))

\* l is k with some cues left out.
Thins(l, k) ==
  \E f \in [1..Len(l) -> 1..Len(k)] :
    /\ \A i, j \in 1..Len(l) : i < j => f[i] < f[j]
    /\ \A i \in 1..Len(l) : l[i] = k[f[i]]

LEMMA ThinsItself ==
  ASSUME NEW l \in Seq(Cues)
  PROVE  Thins(l, l)
<1> DEFINE f == [i \in 1..Len(l) |-> i]
<1>1. f \in [1..Len(l) -> 1..Len(l)]
  OBVIOUS
<1>2. QED
  BY <1>1 DEF Thins

LEMMA ThinsOn ==
  ASSUME NEW l \in Seq(Cues), NEW k \in Seq(Cues), NEW m \in Seq(Cues), Thins(l, k), Thins(k, m)
  PROVE  Thins(l, m)
<1>1. PICK f \in [1..Len(l) -> 1..Len(k)] : /\ \A i, j \in 1..Len(l) : i < j => f[i] < f[j]
                                           /\ \A i \in 1..Len(l) : l[i] = k[f[i]]
  BY DEF Thins
<1>2. PICK g \in [1..Len(k) -> 1..Len(m)] : /\ \A i, j \in 1..Len(k) : i < j => g[i] < g[j]
                                           /\ \A i \in 1..Len(k) : k[i] = m[g[i]]
  BY DEF Thins
<1> DEFINE h == [i \in 1..Len(l) |-> g[f[i]]]
<1>3. h \in [1..Len(l) -> 1..Len(m)]
  BY <1>1, <1>2
<1>4. \A i, j \in 1..Len(l) : i < j => h[i] < h[j]
  BY <1>1, <1>2
<1>5. \A i \in 1..Len(l) : l[i] = m[h[i]]
  BY <1>1, <1>2
<1> HIDE DEF h
<1>6. QED
  BY <1>3, <1>4, <1>5 DEF Thins

LEMMA ThinnedOnce ==
  ASSUME NEW l \in Seq(Cues), NEW k \in Seq(Cues), Thins(l, k), Once(k)
  PROVE  Once(l)
<1>1. PICK f \in [1..Len(l) -> 1..Len(k)] : /\ \A i, j \in 1..Len(l) : i < j => f[i] < f[j]
                                           /\ \A i \in 1..Len(l) : l[i] = k[f[i]]
  BY DEF Thins
<1>2. DOMAIN l = 1..Len(l) /\ DOMAIN k = 1..Len(k) /\ Len(l) \in Nat /\ Len(k) \in Nat
  BY LenProperties
<1>3. ASSUME NEW i \in 1..Len(l), NEW j \in 1..Len(l), l[i] = l[j] PROVE i = j
  <2>1. f[i] = f[j]
    <3>1. f[i] \in DOMAIN k /\ f[j] \in DOMAIN k /\ k[f[i]] = k[f[j]]
      BY <1>1, <1>2, <1>3
    <3>2. QED
      BY <3>1 DEF Once
  <2>2. ~(i < j) /\ ~(j < i)
    BY <1>1, <1>2, <2>1
  <2>3. QED
    BY <1>2, <2>2
<1>4. QED
  BY <1>2, <1>3 DEF Once

\* The cues of a band, place by place.
Fills(b) == IF b.active = "none" THEN 0 ELSE 1
LEMMA LinePlaces ==
  ASSUME NEW b \in Bands
  PROVE  /\ LineOf(b) \in Seq(Cues)
         /\ Len(b.released) \in Nat /\ Len(b.waiting) \in Nat
         /\ Len(LineOf(b)) = Len(b.released) + Fills(b) + Len(b.waiting)
         /\ DOMAIN LineOf(b) = 1..Len(LineOf(b))
         /\ \A i \in 1..Len(LineOf(b)) :
              LineOf(b)[i] = IF i <= Len(b.released) THEN b.released[i]
                             ELSE IF i <= Len(b.released) + Fills(b) THEN b.active
                             ELSE b.waiting[i - (Len(b.released) + Fills(b))]
<1> DEFINE mid == IF b.active = "none" THEN <<>> ELSE <<b.active>>
           front == b.released \o mid
<1>1. b.released \in Seq(Cues) /\ b.waiting \in Seq(Cues) /\ b.active \in Cues \cup {"none"}
  BY DEF Bands
<1>2. mid \in Seq(Cues) /\ Len(mid) = Fills(b) /\ (b.active # "none" => mid[1] = b.active) /\ Fills(b) \in {0, 1}
  BY <1>1 DEF Fills
<1>r. Len(b.released) \in Nat /\ Len(b.waiting) \in Nat
  BY <1>1, LenProperties
<1>f. Fills(b) = 1 => b.active # "none"
  BY DEF Fills
<1> HIDE DEF mid
<1>3. /\ front \in Seq(Cues) /\ Len(front) = Len(b.released) + Fills(b)
      /\ \A i \in 1..Len(front) : front[i] = IF i <= Len(b.released) THEN b.released[i] ELSE mid[i - Len(b.released)]
  BY <1>1, <1>2, ConcatProperties
<1>4. \A i \in 1..Len(front) : front[i] = IF i <= Len(b.released) THEN b.released[i] ELSE b.active
  <2>1. TAKE i \in 1..Len(front)
  <2>2. CASE i <= Len(b.released)
    BY <1>3, <2>2
  <2>3. CASE ~(i <= Len(b.released))
    <3>1. i - Len(b.released) = 1 /\ Fills(b) = 1
      BY <1>r, <1>2, <1>3, <2>3
    <3>2. QED
      BY <1>2, <1>3, <1>f, <2>3, <3>1
  <2>4. QED
    BY <2>2, <2>3
<1>5. LineOf(b) = front \o b.waiting
  BY DEF LineOf, mid
<1> HIDE DEF front
<1>6. /\ LineOf(b) \in Seq(Cues) /\ Len(LineOf(b)) = Len(front) + Len(b.waiting)
      /\ \A i \in 1..Len(LineOf(b)) : LineOf(b)[i] = IF i <= Len(front) THEN front[i] ELSE b.waiting[i - Len(front)]
  <2>1. /\ front \o b.waiting \in Seq(Cues) /\ Len(front \o b.waiting) = Len(front) + Len(b.waiting)
        /\ \A i \in 1..(Len(front) + Len(b.waiting)) :
             (front \o b.waiting)[i] = IF i <= Len(front) THEN front[i] ELSE b.waiting[i - Len(front)]
    BY <1>1, <1>3, ConcatProperties
  <2>2. QED
    BY <1>5, <2>1
<1>7. QED
  <2>1. DOMAIN LineOf(b) = 1..Len(LineOf(b))
    BY <1>6, LenProperties
  <2>2. \A i \in 1..Len(LineOf(b)) :
              LineOf(b)[i] = IF i <= Len(b.released) THEN b.released[i]
                             ELSE IF i <= Len(b.released) + Fills(b) THEN b.active
                             ELSE b.waiting[i - (Len(b.released) + Fills(b))]
    BY <1>r, <1>2, <1>3, <1>4, <1>6
  <2>3. QED
    BY <1>r, <1>3, <1>6, <2>1, <2>2

\* A cue that goes to the transcript takes its place behind the others there.
LEMMA ReleasesWell ==
  ASSUME NEW b, GoodBand(b), Due(b)
  PROVE  GoodBand(Release(b)) /\ Thins(LineOf(Release(b)), LineOf(b))
<1> DEFINE nr == Len(b.released)
           nw == Len(b.waiting)
           d == IF nr = MaxReleased THEN 1 ELSE 0
           past == WithReleased(b.released, b.active)
           l == LineOf(b)
           c == Release(b)
<1>1. /\ b \in Bands /\ b.active \in Cues /\ b.active # "none" /\ b.released \in Seq(Cues) /\ b.waiting \in Seq(Cues)
      /\ nr \in Nat /\ nw \in Nat /\ nr <= MaxReleased /\ nw <= MaxWaiting /\ Once(l)
      /\ b.closesIn \in Floor..Ttl /\ b.closesIn <= 0 /\ Fills(b) = 1
  BY LinePlaces DEF GoodBand, Due, Bands, Fills
<1>2. MaxReleased \in Nat /\ MaxReleased >= 1 /\ Ttl \in Nat /\ Ttl >= 1 /\ "none" \notin Cues
  BY ViewAssumption
<1>3. /\ l \in Seq(Cues) /\ Len(l) = nr + 1 + nw /\ DOMAIN l = 1..Len(l)
      /\ \A i \in 1..Len(l) : l[i] = IF i <= nr THEN b.released[i]
                                    ELSE IF i <= nr + 1 THEN b.active ELSE b.waiting[i - (nr + 1)]
  BY <1>1, LinePlaces
<1>n. nr = Len(b.released) /\ nw = Len(b.waiting)
  OBVIOUS
<1> HIDE DEF l, nr, nw
<1>4. ~Holds(b.released, b.active)
  <2>1. SUFFICES ASSUME NEW i \in DOMAIN b.released, b.released[i] = b.active PROVE FALSE
    BY DEF Holds
  <2>2. i \in 1..nr
    BY <1>1, <1>n, <2>1, LenProperties
  <2>3. i \in 1..Len(l) /\ nr + 1 \in 1..Len(l) /\ i # nr + 1
    BY <1>1, <1>3, <2>2
  <2>4. l[i] = b.active
    BY <1>1, <1>3, <2>1, <2>2, <2>3
  <2>5. l[nr + 1] = b.active
    BY <1>1, <1>3, <2>3
  <2>6. QED
    BY <1>1, <1>3, <2>3, <2>4, <2>5 DEF Once
<1>5. /\ past \in Seq(Cues) /\ Len(past) = nr + 1 - d
      /\ \A i \in 1..Len(past) : past[i] = l[i + d]
  <2>1. CASE nr = MaxReleased
    <3> DEFINE rest == Tail(b.released)
    <3>1. b.released # << >> /\ d = 1
      <4>1. nr # 0
        BY <1>1, <1>2, <2>1
      <4>2. b.released # << >>
        BY <1>n, <4>1, EmptySeq
      <4>3. d = 1
        BY <2>1
      <4>4. QED
        BY <4>2, <4>3
    <3>2. /\ rest \in Seq(Cues) /\ Len(rest) = nr - 1
          /\ \A i \in 1..Len(rest) : rest[i] = b.released[i + 1]
      BY <1>1, <1>n, <3>1, HeadTailProperties
    <3>3. past = Append(rest, b.active)
      BY <1>4, <1>n, <2>1 DEF WithReleased, past
    <3> HIDE DEF rest
    <3>4. /\ Append(rest, b.active) \in Seq(Cues) /\ Len(Append(rest, b.active)) = nr
          /\ \A i \in 1..Len(rest) : Append(rest, b.active)[i] = rest[i]
          /\ Append(rest, b.active)[nr] = b.active
      BY <1>1, <1>n, <3>2, AppendProperties
    <3> HIDE DEF past
    <3>5. ASSUME NEW i \in 1..nr PROVE past[i] = l[i + 1]
      <4>1. i + 1 \in 1..Len(l)
        BY <1>1, <1>3
      <4>2. CASE i = nr
        BY <1>1, <1>3, <3>3, <3>4, <4>1, <4>2
      <4>3. CASE i # nr
        <5>1. i \in 1..Len(rest) /\ i + 1 <= nr
          BY <1>1, <3>2, <4>3
        <5>2. QED
          BY <1>1, <1>3, <3>2, <3>3, <3>4, <4>1, <5>1
      <4>4. QED
        BY <4>2, <4>3
    <3>6. QED
      BY <1>1, <3>1, <3>3, <3>4, <3>5
  <2>2. CASE nr # MaxReleased
    <3>1. past = Append(b.released, b.active) /\ d = 0
      BY <1>4, <1>n, <2>2 DEF WithReleased, past, d
    <3>2. /\ Append(b.released, b.active) \in Seq(Cues) /\ Len(Append(b.released, b.active)) = nr + 1
          /\ \A i \in 1..nr : Append(b.released, b.active)[i] = b.released[i]
          /\ Append(b.released, b.active)[nr + 1] = b.active
      BY <1>1, <1>n, AppendProperties
    <3> HIDE DEF past
    <3>3. ASSUME NEW i \in 1..nr + 1 PROVE past[i] = l[i]
      <4>1. i \in 1..Len(l)
        BY <1>1, <1>3
      <4>2. CASE i = nr + 1
        BY <1>1, <1>3, <3>1, <3>2, <4>1, <4>2
      <4>3. CASE i # nr + 1
        <5>1. i \in 1..nr
          BY <1>1, <4>3
        <5>2. QED
          BY <1>1, <1>3, <3>1, <3>2, <4>1, <5>1
      <4>4. QED
        BY <4>2, <4>3
    <3>4. QED
      BY <1>1, <3>1, <3>2, <3>3
  <2>3. QED
    BY <2>1, <2>2
<1>6. d \in {0, 1} /\ nr + 1 - d <= MaxReleased /\ nr + 1 - d \in Nat
  BY <1>1, <1>2 DEF d
<1> HIDE DEF past, d
<1>7. /\ c \in Bands /\ c.released = past /\ Len(c.waiting) <= MaxWaiting
      /\ c.active = "none" => c.waiting = <<>>
      /\ Fills(c) + Len(c.waiting) = nw /\ Fills(c) \in {0, 1} /\ Len(c.waiting) \in Nat
      /\ Fills(c) = 1 => c.active = b.waiting[1]
      /\ \A i \in 1..Len(c.waiting) : c.waiting[i] = b.waiting[i + 1]
  <2>1. CASE b.waiting = << >>
    <3>1. c = [active |-> "none", closesIn |-> 0, waiting |-> << >>, released |-> past]
      BY <2>1 DEF Release, past
    <3>2. nw = 0 /\ << >> \in Seq(Cues) /\ Len(<< >>) = 0
      BY <2>1, <1>n, EmptySeq
    <3>3. 0 \in Floor..Ttl
      BY <1>2, FloorIsLow
    <3>4. QED
      BY <1>1, <1>5, <3>1, <3>2, <3>3 DEF Bands, Fills
  <2>2. CASE b.waiting # << >>
    <3>1. c = [active |-> Head(b.waiting), closesIn |-> b.closesIn + Ttl, waiting |-> Tail(b.waiting), released |-> past]
      BY <2>2 DEF Release, NextWindow, past
    <3>2. /\ Head(b.waiting) \in Cues /\ Tail(b.waiting) \in Seq(Cues) /\ Len(Tail(b.waiting)) = nw - 1
          /\ Head(b.waiting) = b.waiting[1] /\ \A i \in 1..Len(Tail(b.waiting)) : Tail(b.waiting)[i] = b.waiting[i + 1]
          /\ nw # 0
      BY <1>1, <1>n, <2>2, HeadTailProperties, EmptySeq
    <3>3. b.closesIn + Ttl \in Floor..Ttl
      BY <1>1, <1>2, FloorIsLow
    <3>4. c \in Bands
      BY <1>5, <3>1, <3>2, <3>3 DEF Bands
    <3>5. c.active # "none" /\ Fills(c) = 1
      BY <1>2, <3>1, <3>2 DEF Fills
    <3>6. c.released = past /\ c.active = b.waiting[1] /\ c.waiting = Tail(b.waiting)
      BY <3>1, <3>2
    <3> HIDE DEF c
    <3>7. Len(c.waiting) = nw - 1 /\ Len(c.waiting) \in Nat /\ nw - 1 <= MaxWaiting
      BY <1>1, <1>2, <3>2, <3>6, LenProperties, ViewAssumption
    <3>8. QED
      BY <1>1, <3>2, <3>4, <3>5, <3>6, <3>7
  <2>3. QED
    BY <2>1, <2>2
<1> HIDE DEF c
<1>8. /\ LineOf(c) \in Seq(Cues) /\ Len(LineOf(c)) = Len(l) - d /\ DOMAIN LineOf(c) = 1..Len(LineOf(c))
      /\ \A i \in 1..Len(LineOf(c)) : LineOf(c)[i] = l[i + d]
  <2>1. /\ LineOf(c) \in Seq(Cues) /\ Len(LineOf(c)) = (nr + 1 - d) + Fills(c) + Len(c.waiting)
        /\ DOMAIN LineOf(c) = 1..Len(LineOf(c))
        /\ \A i \in 1..Len(LineOf(c)) :
              LineOf(c)[i] = IF i <= nr + 1 - d THEN past[i]
                             ELSE IF i <= (nr + 1 - d) + Fills(c) THEN c.active
                             ELSE c.waiting[i - ((nr + 1 - d) + Fills(c))]
    BY <1>5, <1>7, LinePlaces
  <2>2. Len(LineOf(c)) = Len(l) - d
    <3>1. Fills(c) \in Int /\ Len(c.waiting) \in Int /\ d \in Int /\ nr \in Int /\ nw \in Int
      BY <1>1, <1>6, <1>7
    <3>2. Len(LineOf(c)) = (nr + 1 - d) + Fills(c) + Len(c.waiting) /\ Len(l) = nr + 1 + nw
      BY <1>3, <2>1
    <3>3. Fills(c) + Len(c.waiting) = nw
      BY <1>7
    <3> DEFINE f == Fills(c)
               g == Len(c.waiting)
               m == Len(LineOf(c))
               n == Len(l)
    <3>4. /\ f \in Int /\ g \in Int /\ d \in Int /\ nr \in Int /\ nw = f + g
          /\ m = (nr + 1 - d) + f + g /\ n = nr + 1 + nw
      BY <3>1, <3>2, <3>3
    <3> HIDE DEF f, g, m, n
    <3>5. m = n - d
      BY <3>4
    <3>6. QED
      BY <3>5 DEF m, n
  <2>3. ASSUME NEW i \in 1..Len(LineOf(c)) PROVE LineOf(c)[i] = l[i + d]
    <3>1. i \in Nat /\ i + d \in 1..Len(l)
      BY <1>1, <1>3, <1>6, <2>2
    <3>2. CASE i <= nr + 1 - d
      <4>1. i \in 1..Len(past)
        BY <1>5, <1>6, <3>1, <3>2
      <4>2. QED
        BY <1>5, <2>1, <3>2, <4>1
    <3>3. CASE ~(i <= nr + 1 - d)
      <4> DEFINE j == (i + d) - (nr + 1)
      <4>1. l[i + d] = b.waiting[j] /\ j \in Nat /\ j >= 1
        BY <1>1, <1>3, <1>6, <3>1, <3>3
      <4>2. CASE i <= (nr + 1 - d) + Fills(c)
        <5>1. Fills(c) = 1 /\ j = 1
          BY <1>1, <1>6, <1>7, <3>1, <3>3, <4>2
        <5>2. QED
          BY <1>7, <2>1, <3>3, <4>1, <4>2, <5>1
      <4>3. CASE ~(i <= (nr + 1 - d) + Fills(c))
        <5> DEFINE k == i - ((nr + 1 - d) + Fills(c))
        <5>1. LineOf(c)[i] = c.waiting[k]
          BY <2>1, <3>3, <4>3
        <5>2. Fills(c) = 1 /\ k \in 1..Len(c.waiting) /\ j = k + 1
          <6>1. k \in 1..Len(c.waiting)
            BY <1>1, <1>6, <1>7, <2>1, <3>1, <4>3
          <6>2. Fills(c) = 1
            <7>1. Fills(c) = 0 => c.waiting = <<>>
              BY <1>7 DEF Fills
            <7>2. Len(<<>>) = 0
              BY EmptySeq
            <7>3. QED
              BY <1>7, <6>1, <7>1, <7>2
          <6>3. QED
            BY <1>1, <1>6, <3>1, <6>1, <6>2
        <5>3. QED
          BY <1>7, <4>1, <5>1, <5>2
      <4>4. QED
        BY <4>2, <4>3
    <3>4. QED
      BY <3>2, <3>3
  <2>4. QED
    BY <2>1, <2>2, <2>3
<1>9. Thins(LineOf(c), l)
  <2> DEFINE f == [i \in 1..Len(LineOf(c)) |-> i + d]
  <2>1. f \in [1..Len(LineOf(c)) -> 1..Len(l)]
    BY <1>1, <1>3, <1>6, <1>8
  <2>2. \A i, j \in 1..Len(LineOf(c)) : i < j => f[i] < f[j]
    BY <1>6
  <2>3. \A i \in 1..Len(LineOf(c)) : LineOf(c)[i] = l[f[i]]
    BY <1>8
  <2> HIDE DEF f
  <2>4. QED
    BY <2>1, <2>2, <2>3 DEF Thins
<1>10. Once(LineOf(c))
  BY <1>1, <1>3, <1>8, <1>9, ThinnedOnce
<1>11. QED
  BY <1>5, <1>6, <1>7, <1>9, <1>10 DEF GoodBand, c, l


\* The rounds of advanceCues.
Round(b) == IF Due(b) THEN Release(b) ELSE b
IsRounds(f, k) == f = [n \in 0..k |-> IF n = 0 THEN BandNow ELSE Round(f[n - 1])]

LEMMA RoundsAre ==
  ASSUME NEW k \in Nat
  PROVE  \E f : IsRounds(f, k)
<1> DEFINE T == {m \in Nat : ~\E f : IsRounds(f, m)}
<1>1. SUFFICES ASSUME T # {} PROVE FALSE
  OBVIOUS
<1>2. PICK x \in T : \A y \in T : x <= y
  <2>1. T \subseteq Nat
    OBVIOUS
  <2> HIDE DEF T
  <2>2. QED
    BY <1>1, <2>1, Least
<1>3. x # 0
  <2> DEFINE f == [n \in 0..0 |-> BandNow]
  <2>1. f = [n \in 0..0 |-> IF n = 0 THEN BandNow ELSE Round(f[n - 1])]
    OBVIOUS
  <2>2. IsRounds(f, 0)
    BY <2>1 DEF IsRounds
  <2>3. QED
    BY <2>2
<1>4. x \in Nat /\ x - 1 \in Nat /\ ~(x <= x - 1)
  BY <1>3
<1>5. PICK g : IsRounds(g, x - 1)
  BY <1>2, <1>4
<1> DEFINE h == [n \in 0..x |-> IF n = x THEN Round(g[x - 1]) ELSE g[n]]
<1>6. \A n \in 0..x - 1 : g[n] = IF n = 0 THEN BandNow ELSE Round(g[n - 1])
  <2>1. g = [n \in 0..x - 1 |-> IF n = 0 THEN BandNow ELSE Round(g[n - 1])]
    BY <1>5 DEF IsRounds
  <2> DEFINE r == [n \in 0..x - 1 |-> IF n = 0 THEN BandNow ELSE Round(g[n - 1])]
  <2>2. \A n \in 0..x - 1 : r[n] = IF n = 0 THEN BandNow ELSE Round(g[n - 1])
    OBVIOUS
  <2>3. g = r
    BY <2>1
  <2> HIDE DEF r
  <2>4. QED
    BY <2>2, <2>3
<1>7. ASSUME NEW n \in 0..x PROVE h[n] = IF n = 0 THEN BandNow ELSE Round(h[n - 1])
  <2>1. CASE n = x
    <3>1. h[n] = Round(g[x - 1]) /\ n # 0
      BY <1>3, <2>1
    <3>2. x - 1 \in 0..x /\ x - 1 # x
      BY <1>4
    <3>3. h[x - 1] = g[x - 1]
      BY <3>2
    <3>4. QED
      BY <2>1, <3>1, <3>3
  <2>2. CASE n # x
    <3>1. n \in 0..x - 1 /\ h[n] = g[n]
      BY <1>4, <2>2
    <3>2. n # 0 => n - 1 \in 0..x /\ n - 1 # x
      BY <1>4
    <3>3. n # 0 => h[n - 1] = g[n - 1]
      BY <3>2
    <3>4. QED
      BY <1>6, <3>1, <3>3
  <2>3. QED
    BY <2>1, <2>2
<1>8. h = [n \in 0..x |-> IF n = 0 THEN BandNow ELSE Round(h[n - 1])]
  <2> DEFINE r == [n \in 0..x |-> IF n = 0 THEN BandNow ELSE Round(h[n - 1])]
  <2>1. \A n \in 0..x : r[n] = h[n]
    BY <1>7
  <2>2. h = [n \in 0..x |-> h[n]]
    OBVIOUS
  <2>3. r = [n \in 0..x |-> r[n]]
    OBVIOUS
  <2> HIDE DEF r, h
  <2>4. h = r
    BY <2>1, <2>2, <2>3
  <2>5. QED
    BY <2>4 DEF r
<1> HIDE DEF h
<1>9. IsRounds(h, x)
  BY <1>8 DEF IsRounds
<1>10. QED
  BY <1>2, <1>9

\* What advanceCues returns is the band after MaxWaiting + 1 rounds.
LEMMA AdvancedIs ==
  \E f : /\ Advanced = f[MaxWaiting + 1]
         /\ f[0] = BandNow
         /\ \A n \in 1..MaxWaiting + 1 : f[n] = Round(f[n - 1])
<1> DEFINE N == MaxWaiting + 1
           f == CHOOSE f : f = [n \in 0..N |-> IF n = 0 THEN BandNow ELSE Round(f[n - 1])]
<1>1. Advanced = f[N]
  BY DEF Advanced, Round, BandNow
<1>2. N \in Nat
  BY ViewAssumption
<1> HIDE DEF N
<1>3. \E g : g = [n \in 0..N |-> IF n = 0 THEN BandNow ELSE Round(g[n - 1])]
  BY <1>2, RoundsAre DEF IsRounds
<1>4. f = [n \in 0..N |-> IF n = 0 THEN BandNow ELSE Round(f[n - 1])]
  BY <1>3
<1> HIDE DEF f
<1> DEFINE r == [n \in 0..N |-> IF n = 0 THEN BandNow ELSE Round(f[n - 1])]
<1>5. \A n \in 0..N : r[n] = IF n = 0 THEN BandNow ELSE Round(f[n - 1])
  OBVIOUS
<1>6. f = r
  BY <1>4
<1> HIDE DEF r
<1>7. \A n \in 0..N : f[n] = IF n = 0 THEN BandNow ELSE Round(f[n - 1])
  BY <1>5, <1>6
<1>8. f[0] = BandNow /\ \A n \in 1..N : f[n] = Round(f[n - 1])
  BY <1>2, <1>7
<1>9. QED
  BY <1>1, <1>8 DEF N

LEMMA AdvancesWell ==
  ASSUME GoodBand(BandNow)
  PROVE  /\ GoodBand(Advanced) /\ Thins(LineOf(Advanced), LineOf(BandNow))
         /\ BandNow.active = "none" => Advanced = BandNow
<1> DEFINE N == MaxWaiting + 1
           Fine(b) == /\ GoodBand(b) /\ Thins(LineOf(b), LineOf(BandNow))
                      /\ BandNow.active = "none" => b = BandNow
<1>1. PICK f : /\ Advanced = f[N] /\ f[0] = BandNow
               /\ \A n \in 1..N : f[n] = Round(f[n - 1])
  BY AdvancedIs
<1>2. N \in Nat
  BY ViewAssumption
<1> HIDE DEF N
<1> DEFINE T == {n \in 0..N : ~Fine(f[n])}
<1>3. ASSUME T # {} PROVE FALSE
  <2>1. PICK x \in T : \A y \in T : x <= y
    <3>1. T \subseteq Nat
      BY <1>2
    <3> HIDE DEF T
    <3>2. QED
      BY <1>3, <3>1, Least
  <2>2. x \in 0..N /\ ~Fine(f[x])
    BY <2>1
  <2>3. Fine(f[0])
    <3>1. LineOf(BandNow) \in Seq(Cues)
      BY LinePlaces DEF GoodBand
    <3>2. QED
      BY <1>1, <3>1, ThinsItself
  <2>4. x \in 1..N /\ x - 1 \in 0..N /\ ~(x <= x - 1)
    <3>1. x # 0
      BY <2>2, <2>3
    <3>2. QED
      BY <1>2, <2>2, <3>1
  <2>5. Fine(f[x - 1])
    BY <2>1, <2>4
  <2> DEFINE b == f[x - 1]
  <2>6. f[x] = Round(b)
    BY <1>1, <2>4
  <2> HIDE DEF b
  <2>7. Fine(b)
    BY <2>5 DEF b
  <2>8. CASE Due(b)
    <3>1. f[x] = Release(b) /\ GoodBand(Release(b)) /\ Thins(LineOf(Release(b)), LineOf(b))
      BY <2>6, <2>7, <2>8, ReleasesWell DEF Round
    <3>2. Thins(LineOf(Release(b)), LineOf(BandNow))
      <4>1. LineOf(Release(b)) \in Seq(Cues) /\ LineOf(b) \in Seq(Cues) /\ LineOf(BandNow) \in Seq(Cues)
        BY <2>7, <3>1, LinePlaces DEF GoodBand
      <4>2. QED
        BY <2>7, <3>1, <4>1, ThinsOn
    <3>3. BandNow.active # "none"
      BY <2>7, <2>8 DEF Due
    <3>4. QED
      BY <2>2, <3>1, <3>2, <3>3
  <2>9. CASE ~Due(b)
    BY <2>2, <2>6, <2>7, <2>9 DEF Round
  <2>10. QED
    BY <2>8, <2>9
<1>4. Fine(f[N])
  BY <1>2, <1>3
<1>5. QED
  BY <1>1, <1>4

\* A new cue is behind all others.
LEMMA PlacesWell ==
  ASSUME NEW b, GoodBand(b), NEW c \in Cues, ~Holds(LineOf(b), c)
  PROVE  /\ GoodBand(Placed(b, c))
         /\ Append(LineOf(b), c) \in Seq(Cues)
         /\ Thins(LineOf(Placed(b, c)), Append(LineOf(b), c))
<1> DEFINE nr == Len(b.released)
           nw == Len(b.waiting)
           l == LineOf(b)
           k == Append(l, c)
           p == Placed(b, c)
<1>1. /\ b \in Bands /\ b.active \in Cues \cup {"none"} /\ b.released \in Seq(Cues) /\ b.waiting \in Seq(Cues)
      /\ nr \in Nat /\ nw \in Nat /\ nr <= MaxReleased /\ nw <= MaxWaiting /\ Once(l)
      /\ b.closesIn \in Floor..Ttl /\ Fills(b) \in {0, 1}
      /\ Fills(b) = 0 <=> b.active = "none"
      /\ b.active = "none" => b.waiting = <<>>
  BY LinePlaces DEF GoodBand, Bands, Fills
<1>2. MaxWaiting \in Nat /\ MaxWaiting >= 1 /\ Ttl \in Nat /\ Ttl >= 1 /\ "none" \notin Cues
  BY ViewAssumption
<1>3. /\ l \in Seq(Cues) /\ Len(l) = nr + Fills(b) + nw /\ DOMAIN l = 1..Len(l)
      /\ \A i \in 1..Len(l) : l[i] = IF i <= nr THEN b.released[i]
                                    ELSE IF i <= nr + Fills(b) THEN b.active ELSE b.waiting[i - (nr + Fills(b))]
  BY <1>1, LinePlaces
<1>n. nr = Len(b.released) /\ nw = Len(b.waiting)
  OBVIOUS
<1> HIDE DEF nr, nw
<1>h. ~Holds(l, c)
  OBVIOUS
<1> HIDE DEF l
<1>4. /\ k \in Seq(Cues) /\ Len(k) = Len(l) + 1 /\ DOMAIN k = 1..Len(k)
      /\ \A i \in 1..Len(l) : k[i] = l[i]
      /\ k[Len(l) + 1] = c
  BY <1>3, AppendProperties, LenProperties
<1> HIDE DEF k
<1>5. Once(k)
  <2>1. Len(l) \in Nat
    BY <1>3, LenProperties
  <2>2. \A i \in 1..Len(l) : l[i] # c
    BY <1>3, <1>h DEF Holds
  <2>3. \A i \in 1..Len(k) : i \in 1..Len(l) \/ i = Len(l) + 1
    BY <1>4, <2>1
  <2>4. \A i, j \in 1..Len(l) : l[i] = l[j] => i = j
    BY <1>1, <1>3 DEF Once
  <2>5. ASSUME NEW i \in 1..Len(k), NEW j \in 1..Len(k), k[i] = k[j] PROVE i = j
    <3>1. CASE i \in 1..Len(l) /\ j \in 1..Len(l)
      BY <1>4, <2>4, <2>5, <3>1
    <3>2. CASE i \in 1..Len(l) /\ j = Len(l) + 1
      BY <1>4, <2>2, <2>5, <3>2
    <3>3. CASE i = Len(l) + 1 /\ j \in 1..Len(l)
      BY <1>4, <2>2, <2>5, <3>3
    <3>4. QED
      BY <2>3, <3>1, <3>2, <3>3
  <2>6. QED
    BY <1>4, <2>5 DEF Once
<1>6. CASE b.active = "none"
  <2>1. /\ p \in Bands /\ p.active = c /\ p.waiting = <<>> /\ p.released = b.released
    <3>1. p = [b EXCEPT !.active = c, !.closesIn = Ttl]
      BY <1>6 DEF Placed
    <3>2. Ttl \in Floor..Ttl
      BY <1>2, FloorIsLow
    <3> HIDE DEF p
    <3>3. QED
      BY <1>1, <1>6, <3>1, <3>2 DEF Bands
  <2> HIDE DEF p
  <2>2. Fills(p) = 1 /\ Len(p.waiting) = 0 /\ Fills(b) = 0 /\ nw = 0
    BY <1>1, <1>2, <1>6, <1>n, <2>1, EmptySeq DEF Fills
  <2>3. /\ LineOf(p) \in Seq(Cues) /\ Len(LineOf(p)) = nr + 1 /\ DOMAIN LineOf(p) = 1..nr + 1
        /\ \A i \in 1..nr + 1 : LineOf(p)[i] = IF i <= nr THEN b.released[i] ELSE c
    <3>1. /\ LineOf(p) \in Seq(Cues)
          /\ Len(LineOf(p)) = nr + Fills(p) + Len(p.waiting)
          /\ DOMAIN LineOf(p) = 1..Len(LineOf(p))
          /\ \A i \in 1..Len(LineOf(p)) :
              LineOf(p)[i] = IF i <= nr THEN b.released[i]
                             ELSE IF i <= nr + Fills(p) THEN p.active
                             ELSE p.waiting[i - (nr + Fills(p))]
      BY <1>n, <2>1, LinePlaces
    <3>2. QED
      BY <1>1, <2>1, <2>2, <3>1
  <2>4. Len(l) = nr /\ Len(k) = nr + 1
    BY <1>1, <1>3, <1>4, <2>2
  <2>5. ASSUME NEW i \in 1..nr + 1 PROVE LineOf(p)[i] = k[i]
    <3>1. CASE i = nr + 1
      BY <1>1, <1>4, <2>3, <2>4, <3>1
    <3>2. CASE i # nr + 1
      <4>1. i \in 1..nr
        BY <1>1, <3>2
      <4>2. k[i] = l[i] /\ i \in 1..Len(l) /\ i <= nr /\ i \in 1..nr + 1
        BY <1>1, <1>4, <2>4, <4>1
      <4>3. l[i] = b.released[i]
        BY <1>3, <4>2
      <4>4. LineOf(p)[i] = b.released[i]
        BY <2>3, <4>2
      <4>5. QED
        BY <4>2, <4>3, <4>4
    <3>3. QED
      BY <3>1, <3>2
  <2> DEFINE f == [i \in 1..Len(LineOf(p)) |-> i]
  <2>6. f \in [1..Len(LineOf(p)) -> 1..Len(k)]
    BY <2>3, <2>4
  <2>7. \A i, j \in 1..Len(LineOf(p)) : i < j => f[i] < f[j]
    OBVIOUS
  <2>8. \A i \in 1..Len(LineOf(p)) : LineOf(p)[i] = k[f[i]]
    BY <2>3, <2>5
  <2> HIDE DEF f
  <2>9. Thins(LineOf(p), k)
    BY <2>6, <2>7, <2>8 DEF Thins
  <2>10. Once(LineOf(p))
    BY <1>4, <1>5, <2>3, <2>9, ThinnedOnce
  <2>11. GoodBand(p)
    BY <1>1, <1>2, <1>n, <2>1, <2>2, <2>10 DEF GoodBand
  <2>12. QED
    BY <1>4, <2>9, <2>11 DEF k, l, p
<1>7. CASE b.active # "none"
  <2> DEFINE d == IF nw = MaxWaiting THEN 1 ELSE 0
             queue == WithWaiting(b.waiting, c)
  <2>1. /\ queue \in Seq(Cues) /\ Len(queue) = nw + 1 - d /\ d \in {0, 1} /\ nw + 1 - d <= MaxWaiting
        /\ \A i \in 1..nw - d : queue[i] = b.waiting[i + d]
        /\ queue[nw + 1 - d] = c
    <3>1. CASE nw = MaxWaiting
      <4> DEFINE rest == Tail(b.waiting)
      <4>1. b.waiting # << >>
        <5>1. nw # 0
          BY <1>1, <1>2, <3>1
        <5>2. QED
          BY <1>n, <5>1, EmptySeq
      <4>2. d = 1
        BY <3>1
      <4>3. /\ rest \in Seq(Cues) /\ Len(rest) = nw - 1
            /\ \A i \in 1..Len(rest) : rest[i] = b.waiting[i + 1]
        BY <1>1, <1>n, <4>1, HeadTailProperties
      <4>4. queue = Append(rest, c)
        BY <1>n, <3>1 DEF WithWaiting
      <4> HIDE DEF rest, queue, d
      <4>5. /\ queue \in Seq(Cues) /\ Len(queue) = nw
            /\ \A i \in 1..Len(rest) : queue[i] = rest[i]
            /\ queue[nw] = c
        BY <1>1, <4>3, <4>4, AppendProperties
      <4>6. QED
        BY <1>1, <3>1, <4>2, <4>3, <4>5
    <3>2. CASE nw # MaxWaiting
      <4>1. d = 0 /\ queue = Append(b.waiting, c)
        BY <1>n, <3>2 DEF WithWaiting
      <4> HIDE DEF queue, d
      <4>2. /\ queue \in Seq(Cues) /\ Len(queue) = nw + 1
            /\ \A i \in 1..nw : queue[i] = b.waiting[i]
            /\ queue[nw + 1] = c
        BY <1>1, <1>n, <4>1, AppendProperties
      <4>3. QED
        BY <1>1, <1>2, <3>2, <4>1, <4>2
    <3>3. QED
      BY <3>1, <3>2
  <2> HIDE DEF queue, d
  <2>2. p \in Bands /\ p.active = b.active /\ p.waiting = queue /\ p.released = b.released /\ Fills(p) = 1 /\ Fills(b) = 1
    <3>1. p = [b EXCEPT !.waiting = queue]
      BY <1>7 DEF Placed, queue
    <3> HIDE DEF p
    <3>2. p \in Bands /\ p.active = b.active /\ p.waiting = queue /\ p.released = b.released
      BY <1>1, <2>1, <3>1 DEF Bands
    <3>3. QED
      BY <1>7, <3>2 DEF Fills
  <2> HIDE DEF p
  <2>3. /\ LineOf(p) \in Seq(Cues)
        /\ Len(LineOf(p)) = nr + 1 + (nw + 1 - d)
        /\ DOMAIN LineOf(p) = 1..Len(LineOf(p))
        /\ \A i \in 1..Len(LineOf(p)) :
              LineOf(p)[i] = IF i <= nr THEN b.released[i]
                             ELSE IF i <= nr + 1 THEN b.active
                             ELSE queue[i - (nr + 1)]
    BY <1>n, <2>1, <2>2, LinePlaces
  <2>4. Len(l) = nr + 1 + nw /\ Len(k) = nr + nw + 2
    BY <1>1, <1>3, <1>4, <2>2
  <2> DEFINE f == [i \in 1..Len(LineOf(p)) |-> IF i <= nr + 1 THEN i ELSE i + d]
  <2>5. f \in [1..Len(LineOf(p)) -> 1..Len(k)]
    BY <1>1, <2>1, <2>3, <2>4
  <2>6. \A i, j \in 1..Len(LineOf(p)) : i < j => f[i] < f[j]
    BY <1>1, <2>1
  <2>7. ASSUME NEW i \in 1..Len(LineOf(p)) PROVE LineOf(p)[i] = k[f[i]]
    <3>1. i \in Nat /\ i >= 1 /\ i <= nr + 1 + (nw + 1 - d) /\ d \in Nat
      BY <1>1, <2>1, <2>3
    <3>2. CASE i <= nr + 1
      <4>1. i \in 1..Len(l) /\ f[i] = i
        BY <1>1, <2>4, <3>1, <3>2
      <4>2. QED
        BY <1>1, <1>3, <1>4, <2>2, <2>3, <3>2, <4>1
    <3>3. CASE ~(i <= nr + 1)
      <4> DEFINE j == i - (nr + 1)
      <4>1. LineOf(p)[i] = queue[j] /\ f[i] = i + d /\ j \in Nat /\ j >= 1 /\ i + d = j + d + (nr + 1)
        BY <1>1, <2>3, <3>1, <3>3
      <4> HIDE DEF f
      <4>2. CASE j = nw + 1 - d
        <5>1. i + d = Len(l) + 1
          BY <1>1, <2>4, <3>1, <4>1, <4>2
        <5>2. QED
          BY <1>4, <2>1, <4>1, <4>2, <5>1
      <4>3. CASE j # nw + 1 - d
        <5>1. j \in 1..nw - d /\ i + d \in 1..Len(l) /\ ~(i + d <= nr + 1) /\ (i + d) - (nr + 1) = j + d
          BY <1>1, <2>4, <3>1, <3>3, <4>1, <4>3
        <5>2. l[i + d] = b.waiting[j + d]
          BY <1>1, <1>3, <2>2, <5>1
        <5>3. queue[j] = b.waiting[j + d]
          BY <2>1, <5>1
        <5>4. QED
          BY <1>4, <4>1, <5>1, <5>2, <5>3
      <4>4. QED
        BY <4>2, <4>3
    <3>4. QED
      BY <3>2, <3>3
  <2> HIDE DEF f
  <2>8. Thins(LineOf(p), k)
    BY <2>5, <2>6, <2>7 DEF Thins
  <2>9. Once(LineOf(p))
    BY <1>4, <1>5, <2>3, <2>8, ThinnedOnce
  <2>10. GoodBand(p)
    BY <1>1, <1>7, <1>n, <2>1, <2>2, <2>9 DEF GoodBand
  <2>11. QED
    BY <1>4, <2>8, <2>10 DEF k, l, p
<1>8. QED
  BY <1>6, <1>7


\* Where a turn is among the turns held, and that cues are shown by them in their order.
PlaceOf(turns, t) == IF Holds(turns, t) THEN CHOOSE i \in DOMAIN turns : turns[i] = t ELSE 0
Follows(l, turns, by) ==
  \A i, j \in DOMAIN l :
    /\ i < j => PlaceOf(turns, by[l[i]]) <= PlaceOf(turns, by[l[j]])
    /\ by[l[i]] # "none" => Holds(turns, by[l[i]])

LEMMA ThinnedFollows ==
  ASSUME NEW l \in Seq(Cues), NEW k \in Seq(Cues), Thins(l, k), NEW turns, NEW by, Follows(k, turns, by)
  PROVE  Follows(l, turns, by)
<1>1. PICK f \in [1..Len(l) -> 1..Len(k)] : /\ \A i, j \in 1..Len(l) : i < j => f[i] < f[j]
                                           /\ \A i \in 1..Len(l) : l[i] = k[f[i]]
  BY DEF Thins
<1>2. DOMAIN l = 1..Len(l) /\ DOMAIN k = 1..Len(k)
  BY LenProperties
<1>3. ASSUME NEW i \in 1..Len(l), NEW j \in 1..Len(l)
      PROVE  /\ i < j => PlaceOf(turns, by[l[i]]) <= PlaceOf(turns, by[l[j]])
             /\ by[l[i]] # "none" => Holds(turns, by[l[i]])
  <2>1. f[i] \in DOMAIN k /\ f[j] \in DOMAIN k /\ l[i] = k[f[i]] /\ l[j] = k[f[j]] /\ (i < j => f[i] < f[j])
    BY <1>1, <1>2
  <2>2. /\ f[i] < f[j] => PlaceOf(turns, by[k[f[i]]]) <= PlaceOf(turns, by[k[f[j]]])
        /\ by[k[f[i]]] # "none" => Holds(turns, by[k[f[i]]])
    BY <2>1 DEF Follows
  <2>3. QED
    BY <2>1, <2>2
<1>4. QED
  BY <1>2, <1>3 DEF Follows

\* A turn that is held once is where it is.
LEMMA PlaceIs ==
  ASSUME NEW turns \in Seq(Turns), Once(turns), NEW i \in DOMAIN turns
  PROVE  PlaceOf(turns, turns[i]) = i
<1>1. Holds(turns, turns[i])
  BY DEF Holds
<1> DEFINE j == CHOOSE j \in DOMAIN turns : turns[j] = turns[i]
<1>2. j \in DOMAIN turns /\ turns[j] = turns[i]
  OBVIOUS
<1>3. j = i
  BY <1>2 DEF Once
<1>4. QED
  BY <1>1, <1>3 DEF PlaceOf

LEMMA PlaceIsLow ==
  ASSUME NEW turns \in Seq(Turns), Once(turns), NEW t
  PROVE  PlaceOf(turns, t) \in 0..Len(turns)
<1>1. Len(turns) \in Nat /\ DOMAIN turns = 1..Len(turns)
  BY LenProperties
<1>2. CASE Holds(turns, t)
  <2>1. PICK i \in DOMAIN turns : turns[i] = t
    BY <1>2 DEF Holds
  <2>2. PlaceOf(turns, t) = i
    BY <2>1, PlaceIs
  <2>3. QED
    BY <1>1, <2>1, <2>2
<1>3. CASE ~Holds(turns, t)
  BY <1>1, <1>3 DEF PlaceOf
<1>4. QED
  BY <1>2, <1>3

\* A new turn moves none.
LEMMA TurnsGrow ==
  ASSUME NEW turns \in Seq(Turns), Once(turns), NEW t \in Turns, ~Holds(turns, t)
  PROVE  /\ Append(turns, t) \in Seq(Turns) /\ Once(Append(turns, t))
         /\ \A s : s # t => PlaceOf(Append(turns, t), s) = PlaceOf(turns, s)
         /\ \A s : Holds(turns, s) => Holds(Append(turns, t), s)
<1> DEFINE more == Append(turns, t)
<1>1. /\ more \in Seq(Turns) /\ Len(more) = Len(turns) + 1 /\ Len(turns) \in Nat
      /\ DOMAIN more = 1..Len(turns) + 1 /\ DOMAIN turns = 1..Len(turns)
      /\ \A i \in 1..Len(turns) : more[i] = turns[i]
      /\ more[Len(turns) + 1] = t
  BY AppendProperties, LenProperties
<1> HIDE DEF more
<1>2. \A i \in 1..Len(turns) : turns[i] # t
  BY <1>1 DEF Holds
<1>3. \A i \in 1..Len(turns) + 1 : i \in 1..Len(turns) \/ i = Len(turns) + 1
  BY <1>1
<1>4. Once(more)
  <2>1. ASSUME NEW i \in 1..Len(turns) + 1, NEW j \in 1..Len(turns) + 1, more[i] = more[j] PROVE i = j
    <3>1. CASE i \in 1..Len(turns) /\ j \in 1..Len(turns)
      <4>1. turns[i] = turns[j]
        BY <1>1, <2>1, <3>1
      <4>2. QED
        BY <1>1, <3>1, <4>1 DEF Once
    <3>2. CASE i \in 1..Len(turns) /\ j = Len(turns) + 1
      BY <1>1, <1>2, <2>1, <3>2
    <3>3. CASE i = Len(turns) + 1 /\ j \in 1..Len(turns)
      BY <1>1, <1>2, <2>1, <3>3
    <3>4. QED
      BY <1>3, <3>1, <3>2, <3>3
  <2>2. QED
    BY <1>1, <2>1 DEF Once
<1>5. ASSUME NEW s, Holds(turns, s) PROVE Holds(more, s)
  <2>1. PICK i \in DOMAIN turns : turns[i] = s
    BY <1>5 DEF Holds
  <2>2. i \in DOMAIN more /\ more[i] = s
    BY <1>1, <2>1
  <2>3. QED
    BY <2>2 DEF Holds
<1>6. ASSUME NEW s, s # t PROVE PlaceOf(more, s) = PlaceOf(turns, s)
  <2>1. CASE Holds(turns, s)
    <3>1. PICK i \in DOMAIN turns : turns[i] = s
      BY <2>1 DEF Holds
    <3>2. i \in DOMAIN more /\ more[i] = s
      BY <1>1, <3>1
    <3>3. PlaceOf(turns, s) = i
      BY <3>1, PlaceIs
    <3>4. PlaceOf(more, s) = i
      BY <1>1, <1>4, <3>2, PlaceIs
    <3>5. QED
      BY <3>3, <3>4
  <2>2. CASE ~Holds(turns, s)
    <3>1. ~Holds(more, s)
      <4>1. SUFFICES ASSUME NEW i \in DOMAIN more, more[i] = s PROVE FALSE
        BY DEF Holds
      <4>2. i \in 1..Len(turns)
        BY <1>1, <1>3, <1>6, <4>1
      <4>3. i \in DOMAIN turns /\ turns[i] = s
        BY <1>1, <4>1, <4>2
      <4>4. QED
        BY <2>2, <4>3 DEF Holds
    <3>2. QED
      BY <2>2, <3>1 DEF PlaceOf
  <2>3. QED
    BY <2>1, <2>2
<1>7. QED
  BY <1>1, <1>4, <1>5, <1>6 DEF more

\* The cues still follow their turns when a new turn comes.
LEMMA FollowsOn ==
  ASSUME NEW l, NEW turns \in Seq(Turns), Once(turns), NEW t \in Turns, ~Holds(turns, t),
         NEW by, Follows(l, turns, by)
  PROVE  Follows(l, Append(turns, t), by)
<1>1. /\ \A s : s # t => PlaceOf(Append(turns, t), s) = PlaceOf(turns, s)
      /\ \A s : Holds(turns, s) => Holds(Append(turns, t), s)
  BY TurnsGrow
<1>2. ASSUME NEW i \in DOMAIN l PROVE by[l[i]] # t
  <2>1. by[l[i]] # "none" => Holds(turns, by[l[i]])
    BY DEF Follows
  <2>2. QED
    BY <2>1, ViewAssumption
<1>3. ASSUME NEW i \in DOMAIN l, NEW j \in DOMAIN l
      PROVE  /\ i < j => PlaceOf(Append(turns, t), by[l[i]]) <= PlaceOf(Append(turns, t), by[l[j]])
             /\ by[l[i]] # "none" => Holds(Append(turns, t), by[l[i]])
  <2>1. /\ i < j => PlaceOf(turns, by[l[i]]) <= PlaceOf(turns, by[l[j]])
        /\ by[l[i]] # "none" => Holds(turns, by[l[i]])
    BY DEF Follows
  <2>2. by[l[i]] # t /\ by[l[j]] # t
    BY <1>2
  <2>3. QED
    BY <1>1, <2>1, <2>2
<1>4. QED
  BY <1>3 DEF Follows

\* A new cue follows the last turn, which no cue is after.
LastTurn(turns) == IF turns = <<>> THEN "none" ELSE turns[Len(turns)]
LEMMA CueFollows ==
  ASSUME NEW l \in Seq(Cues), NEW c \in Cues, ~Holds(l, c), NEW turns \in Seq(Turns), Once(turns),
         NEW by \in [Cues -> Turns \cup {"none"}], Follows(l, turns, by)
  PROVE  Follows(Append(l, c), turns, [by EXCEPT ![c] = LastTurn(turns)])
<1> DEFINE k == Append(l, c)
           put == [by EXCEPT ![c] = LastTurn(turns)]
<1>1. /\ Len(l) \in Nat /\ DOMAIN k = 1..Len(l) + 1 /\ DOMAIN l = 1..Len(l)
      /\ \A i \in 1..Len(l) : k[i] = l[i] /\ l[i] \in Cues
      /\ k[Len(l) + 1] = c
  BY AppendProperties, LenProperties, ElementOfSeq
<1>2. \A i \in 1..Len(l) : l[i] # c
  BY <1>1 DEF Holds
<1>3. \A i \in 1..Len(l) + 1 : i \in 1..Len(l) \/ i = Len(l) + 1
  BY <1>1
<1> HIDE DEF k
<1>4. \A i \in 1..Len(l) : put[k[i]] = by[l[i]]
  BY <1>1, <1>2
<1>5. put[k[Len(l) + 1]] = LastTurn(turns)
  BY <1>1
<1> HIDE DEF put
<1>6. /\ PlaceOf(turns, LastTurn(turns)) = Len(turns) /\ Len(turns) \in Nat
      /\ LastTurn(turns) # "none" => Holds(turns, LastTurn(turns))
  <2>1. Len(turns) \in Nat /\ DOMAIN turns = 1..Len(turns)
    BY LenProperties
  <2>2. CASE turns = <<>>
    <3>1. LastTurn(turns) = "none" /\ Len(turns) = 0
      BY <2>2, EmptySeq DEF LastTurn
    <3>2. ~Holds(turns, LastTurn(turns))
      BY <2>1, <3>1 DEF Holds
    <3>3. QED
      BY <3>1, <3>2 DEF PlaceOf
  <2>3. CASE turns # <<>>
    <3>1. Len(turns) # 0
      BY <2>3, EmptySeq
    <3>2. Len(turns) \in DOMAIN turns /\ LastTurn(turns) = turns[Len(turns)]
      BY <2>1, <2>3, <3>1 DEF LastTurn
    <3>3. PlaceOf(turns, LastTurn(turns)) = Len(turns)
      BY <3>2, PlaceIs
    <3>4. Holds(turns, LastTurn(turns))
      BY <3>2 DEF Holds
    <3>5. QED
      BY <2>1, <3>3, <3>4
  <2>4. QED
    BY <2>2, <2>3
<1>7. ASSUME NEW i \in 1..Len(l) + 1, NEW j \in 1..Len(l) + 1
      PROVE  /\ i < j => PlaceOf(turns, put[k[i]]) <= PlaceOf(turns, put[k[j]])
             /\ put[k[i]] # "none" => Holds(turns, put[k[i]])
  <2>1. CASE i \in 1..Len(l) /\ j \in 1..Len(l)
    <3>1. /\ i < j => PlaceOf(turns, by[l[i]]) <= PlaceOf(turns, by[l[j]])
          /\ by[l[i]] # "none" => Holds(turns, by[l[i]])
      BY <1>1, <2>1 DEF Follows
    <3>2. QED
      BY <1>4, <2>1, <3>1
  <2>2. CASE i \in 1..Len(l) /\ j = Len(l) + 1
    <3>1. by[l[i]] # "none" => Holds(turns, by[l[i]])
      BY <1>1, <2>2 DEF Follows
    <3>2. PlaceOf(turns, by[l[i]]) <= Len(turns)
      BY <1>6, PlaceIsLow
    <3>3. QED
      BY <1>4, <1>5, <1>6, <2>2, <3>1, <3>2
  <2>3. CASE i = Len(l) + 1
    <3>1. ~(i < j)
      BY <1>1, <2>3
    <3>2. QED
      BY <1>5, <1>6, <2>3, <3>1
  <2>4. QED
    BY <1>3, <2>1, <2>2, <2>3
<1>8. Follows(k, turns, put)
  BY <1>1, <1>7 DEF Follows
<1>9. QED
  BY <1>8 DEF k, put

\* What holds of every song's lines.
LEMMA LyricsShown == LyricsInView
<1>1. MaxLyrics \in Nat
  BY ViewAssumption
<1>2. ASSUME NEW n \in 0..MaxLyrics, NEW index \in -1..n-1
      PROVE  /\ 0 <= WindowStart(n, index) /\ WindowEnd(n, index) <= n
             /\ WindowEnd(n, index) - WindowStart(n, index) = AtMost(n, WindowSize)
             /\ index >= 0 => /\ WindowStart(n, index) + CurrentRow(n, index) = index
                              /\ WindowStart(n, index) <= AtLeast(index - LinesBefore, 0)
                              /\ WindowEnd(n, index) >= AtMost(index + 1 + LinesAfter, n)
  BY <1>1 DEF WindowStart, WindowEnd, CurrentRow, AtLeast, AtMost, WindowSize, LinesBefore, LinesAfter
<1>3. QED
  BY <1>2 DEF LyricsInView


ViewIInv == ViewTypeOK /\ ViewSafe /\ Once(segments)

LEMMA BandIsGood ==
  ASSUME ViewIInv
  PROVE  /\ GoodBand(BandNow) /\ Line = LineOf(BandNow) /\ Line \in Seq(Cues)
         /\ Follows(Line, segments, after)
         /\ BandNow.active = active /\ BandNow.waiting = waiting
<1>1. Line = LineOf(BandNow) /\ BandNow.active = active /\ BandNow.waiting = waiting
  BY DEF Line, LineOf, BandNow
<1>2. BandNow \in Bands
  BY DEF ViewIInv, ViewSafe, ViewTypeOK, BandNow, Bands
<1>3. Once(LineOf(BandNow))
  BY <1>1 DEF ViewIInv, ViewSafe, NoCueTwice, Once
<1>4. GoodBand(BandNow)
  BY <1>2, <1>3 DEF ViewIInv, ViewSafe, ViewTypeOK, BandIsTimed, BandNow, GoodBand
<1>5. Follows(Line, segments, after)
  BY DEF ViewIInv, ViewSafe, CuesInOrder, Position, PlaceOf, Follows
<1>6. Line \in Seq(Cues)
  BY <1>1, <1>2, LinePlaces
<1>7. QED
  BY <1>1, <1>4, <1>5, <1>6

\* The band that is shown is the one that was computed, its timer with it.
LEMMA BandIsShown ==
  ASSUME NEW b, GoodBand(b), Shows(b)
  PROVE  /\ active' \in Cues \cup {"none"} /\ closesIn' \in Floor..Ttl
         /\ waiting' \in Seq(Cues) /\ Len(waiting') <= MaxWaiting
         /\ released' \in Seq(Cues) /\ Len(released') <= MaxReleased
         /\ timerIn' \in [armed : BOOLEAN, at : Floor..Ttl]
         /\ active' = b.active /\ waiting' = b.waiting
         /\ Line' = LineOf(b) /\ NoCueTwice' /\ BandIsTimed'
<1>1. /\ active' = b.active /\ closesIn' = b.closesIn /\ waiting' = b.waiting /\ released' = b.released
      /\ timerIn' = TimerFor(b)
  BY DEF Shows
<1>2. /\ b.active \in Cues \cup {"none"} /\ b.closesIn \in Floor..Ttl /\ b.waiting \in Seq(Cues)
      /\ b.released \in Seq(Cues) /\ Len(b.waiting) <= MaxWaiting /\ Len(b.released) <= MaxReleased
      /\ b.active = "none" => b.waiting = <<>>
  BY DEF GoodBand, Bands
<1>3. 0 \in Floor..Ttl
  BY FloorIsLow, ViewAssumption
<1>4. timerIn' \in [armed : BOOLEAN, at : Floor..Ttl]
  BY <1>1, <1>2, <1>3 DEF TimerFor, NoTimer, Armed
<1>5. Line' = LineOf(b)
  BY <1>1 DEF Line, LineOf
<1>6. NoCueTwice'
  BY <1>5 DEF NoCueTwice, GoodBand, Once
<1>7. BandIsTimed'
  BY <1>1, <1>2 DEF BandIsTimed, TimerFor
<1>8. QED
  BY <1>1, <1>2, <1>4, <1>5, <1>6, <1>7

LEMMA FollowedNext ==
  ASSUME Follows(Line, segments, after)'
  PROVE  CuesInOrder'
BY DEF CuesInOrder, Position, PlaceOf, Follows

LEMMA ViewStarts == ViewInit => ViewIInv
<1>1. SUFFICES ASSUME ViewInit PROVE ViewIInv
  OBVIOUS
<1>2. 0 \in Floor..Ttl
  BY FloorIsLow, ViewAssumption
<1>3. << >> \in Seq(Turns) /\ << >> \in Seq(Cues) /\ Len(<< >>) = 0 /\ DOMAIN << >> = {}
  BY EmptySeq
<1>4. ViewTypeOK
  <2>1. after \in [Cues -> Turns \cup {"none"}]
    BY <1>1 DEF ViewInit
  <2>2. opening \in 0..MaxOpening /\ Len(waiting) <= MaxWaiting /\ Len(released) <= MaxReleased
    BY <1>1, <1>3, ViewAssumption DEF ViewInit
  <2>3. timerIn \in [armed : BOOLEAN, at : Floor..Ttl]
    BY <1>1, <1>2 DEF ViewInit, NoTimer
  <2>4. QED
    BY <1>1, <1>2, <1>3, <2>1, <2>2, <2>3 DEF ViewInit, ViewTypeOK
<1>5. Line = <<>>
  <2>1. << >> \o << >> = << >>
    BY <1>3, ConcatEmptySeq
  <2>2. Line = (<< >> \o << >>) \o << >>
    BY <1>1 DEF ViewInit, Line
  <2>3. QED
    BY <2>1, <2>2
<1>6. NoCueTwice /\ CuesInOrder
  BY <1>3, <1>5 DEF NoCueTwice, CuesInOrder
<1>7. BandIsTimed /\ StoppedIsQuiet
  BY <1>1 DEF ViewInit, BandIsTimed, StoppedIsQuiet
<1>8. Once(segments)
  BY <1>1, <1>3 DEF ViewInit, Once
<1>9. QED
  BY <1>4, <1>6, <1>7, <1>8, LyricsShown DEF ViewIInv, ViewSafe

LEMMA ViewKept == ViewIInv /\ [ViewNext]_viewVars => ViewIInv'
<1>1. SUFFICES ASSUME ViewIInv, [ViewNext]_viewVars PROVE ViewIInv'
  OBVIOUS
<1>2. /\ ViewTypeOK /\ NoCueTwice /\ CuesInOrder /\ BandIsTimed /\ StoppedIsQuiet /\ Once(segments)
  BY <1>1 DEF ViewIInv, ViewSafe
<1>3. LyricsInView'
  BY LyricsShown DEF LyricsInView
<1>4. 0 \in Floor..Ttl
  BY FloorIsLow, ViewAssumption
\* A step that leaves the turns and the cues in their places.
<1>5. ASSUME UNCHANGED <<segments, after, bandVars>>
      PROVE  NoCueTwice' /\ CuesInOrder' /\ BandIsTimed' /\ Once(segments)'
  <2>1. Line' = Line
    BY <1>5 DEF Line, bandVars
  <2>2. NoCueTwice'
    BY <1>2, <2>1 DEF NoCueTwice
  <2>3. Follows(Line', segments', after')
    <3>1. Follows(Line, segments, after)
      BY <1>1, BandIsGood
    <3>2. QED
      BY <1>5, <2>1, <3>1
  <2>4. BandIsTimed' /\ Once(segments)'
    BY <1>2, <1>5 DEF BandIsTimed, bandVars
  <2>5. QED
    BY <2>2, <2>3, <2>4, FollowedNext
<1>6. CASE UNCHANGED viewVars
  <2>1. UNCHANGED <<segments, after, bandVars>>
    BY <1>6 DEF viewVars, bandVars
  <2>2. ViewTypeOK' /\ StoppedIsQuiet'
    BY <1>2, <1>6 DEF viewVars, bandVars, ViewTypeOK, StoppedIsQuiet
  <2>3. QED
    BY <1>3, <1>5, <2>1, <2>2 DEF ViewIInv, ViewSafe
<1>7. CASE BeginStart
  <2>1. UNCHANGED <<segments, after, bandVars>>
    BY <1>7 DEF BeginStart, bandVars
  <2>2. ViewTypeOK' /\ StoppedIsQuiet'
    BY <1>2, <1>7, ViewAssumption DEF BeginStart, bandVars, ViewTypeOK, StoppedIsQuiet
  <2>3. QED
    BY <1>3, <1>5, <2>1, <2>2 DEF ViewIInv, ViewSafe
<1>8. CASE Denied
  <2>1. UNCHANGED <<segments, after, bandVars>>
    BY <1>8 DEF Denied, bandVars
  <2>2. ViewTypeOK' /\ StoppedIsQuiet'
    BY <1>2, <1>8, ViewAssumption DEF Denied, bandVars, ViewTypeOK, StoppedIsQuiet
  <2>3. QED
    BY <1>3, <1>5, <2>1, <2>2 DEF ViewIInv, ViewSafe
<1>9. CASE StartView
  <2>1. /\ segments' = <<>> /\ active' = "none" /\ waiting' = <<>> /\ released' = <<>> /\ closesIn' = 0
        /\ heard' = TRUE /\ isRunning' = TRUE /\ timerIn' = timerIn /\ partial' = FALSE /\ song' = FALSE
        /\ after' = [c \in Cues |-> "none"] /\ opening' = opening - 1 /\ opening > 0
    BY <1>9 DEF StartView, Cleared
  <2>2. << >> \in Seq(Turns) /\ << >> \in Seq(Cues) /\ Len(<< >>) = 0 /\ DOMAIN << >> = {}
    BY EmptySeq
  <2>3. ViewTypeOK'
    <3>1. after' \in [Cues -> Turns \cup {"none"}]
      BY <2>1
    <3>2. opening' \in 0..MaxOpening /\ Len(waiting') <= MaxWaiting /\ Len(released') <= MaxReleased
      BY <1>2, <2>1, <2>2, ViewAssumption DEF ViewTypeOK
    <3>3. QED
      BY <1>2, <1>4, <2>1, <2>2, <3>1, <3>2 DEF ViewTypeOK
  <2>4. Line' = <<>>
    BY <2>1, <2>2, ConcatEmptySeq DEF Line
  <2>5. NoCueTwice' /\ CuesInOrder'
    BY <2>2, <2>4 DEF NoCueTwice, CuesInOrder
  <2>6. BandIsTimed' /\ StoppedIsQuiet'
    BY <2>1 DEF BandIsTimed, StoppedIsQuiet
  <2>7. Once(segments)'
    BY <2>1, <2>2 DEF Once
  <2>8. QED
    BY <1>3, <2>3, <2>5, <2>6, <2>7 DEF ViewIInv, ViewSafe
<1>10. CASE StopView
  <2>1. /\ segments' = segments /\ active' = "none" /\ waiting' = <<>> /\ released' = released /\ closesIn' = 0
        /\ heard' \in {FALSE, heard} /\ isRunning' = FALSE /\ timerIn' = NoTimer
        /\ partial' = FALSE /\ song' = FALSE /\ after' = after /\ opening' = opening
    BY <1>10 DEF StopView, Emptied
  <2>2. << >> \in Seq(Turns) /\ << >> \in Seq(Cues) /\ Len(<< >>) = 0 /\ DOMAIN << >> = {}
    BY EmptySeq
  <2>3. ViewTypeOK'
    <3>1. timerIn' \in [armed : BOOLEAN, at : Floor..Ttl]
      BY <1>4, <2>1 DEF NoTimer
    <3>2. Len(waiting') <= MaxWaiting
      BY <2>1, <2>2, ViewAssumption
    <3>3. heard' \in BOOLEAN /\ released' \in Seq(Cues) /\ Len(released') <= MaxReleased
      BY <1>2, <2>1 DEF ViewTypeOK
    <3>4. QED
      BY <1>2, <1>4, <2>1, <2>2, <3>1, <3>2, <3>3 DEF ViewTypeOK
  <2>4. BandIsTimed' /\ StoppedIsQuiet'
    BY <2>1 DEF BandIsTimed, StoppedIsQuiet
  <2>5. /\ Line' = released /\ Line' \in Seq(Cues) /\ Line \in Seq(Cues) /\ Thins(Line', Line)
    <3>1. released \in Seq(Cues) /\ Len(released) \in Nat
      BY <1>2, LenProperties DEF ViewTypeOK
    <3>2. Line' = released
      BY <2>1, <3>1, ConcatEmptySeq DEF Line
    <3>3. BandNow \in Bands /\ Line = LineOf(BandNow) /\ BandNow.released = released
      BY <1>1, BandIsGood DEF GoodBand, BandNow
    <3>4. /\ Line \in Seq(Cues) /\ Len(Line) = Len(released) + Fills(BandNow) + Len(BandNow.waiting)
          /\ Len(BandNow.waiting) \in Nat
          /\ \A i \in 1..Len(Line) : i <= Len(released) => Line[i] = released[i]
      BY <3>3, LinePlaces
    <3>5. Fills(BandNow) \in {0, 1}
      BY DEF Fills
    <3> DEFINE f == [i \in 1..Len(released) |-> i]
    <3>6. f \in [1..Len(released) -> 1..Len(Line)]
      BY <3>1, <3>4, <3>5
    <3>7. \A i, j \in 1..Len(released) : i < j => f[i] < f[j]
      OBVIOUS
    <3>8. \A i \in 1..Len(released) : released[i] = Line[f[i]]
      BY <3>1, <3>4, <3>6
    <3> HIDE DEF f
    <3>9. Thins(released, Line)
      BY <3>6, <3>7, <3>8 DEF Thins
    <3>10. QED
      BY <3>1, <3>2, <3>4, <3>9
  <2>6. NoCueTwice'
    <3>1. Once(Line)
      BY <1>2 DEF NoCueTwice, Once
    <3>2. Once(Line')
      BY <2>5, <3>1, ThinnedOnce
    <3>3. QED
      BY <3>2 DEF Once, NoCueTwice
  <2>7. CuesInOrder'
    <3>1. Follows(Line', segments, after)
      BY <1>1, <2>5, BandIsGood, ThinnedFollows
    <3>2. Follows(Line', segments', after')
      BY <2>1, <3>1
    <3>3. QED
      BY <3>2, FollowedNext
  <2>8. Once(segments)'
    BY <1>2, <2>1
  <2>9. QED
    BY <1>3, <2>3, <2>4, <2>6, <2>7, <2>8 DEF ViewIInv, ViewSafe
<1>11. CASE TogglePause
  <2>1. UNCHANGED <<segments, after, bandVars>>
    BY <1>11 DEF TogglePause, bandVars
  <2>2. ViewTypeOK' /\ StoppedIsQuiet'
    BY <1>2, <1>11 DEF TogglePause, bandVars, ViewTypeOK, StoppedIsQuiet
  <2>3. QED
    BY <1>3, <1>5, <2>1, <2>2 DEF ViewIInv, ViewSafe
<1>12. CASE Partial
  <2>1. UNCHANGED <<segments, after, bandVars>>
    BY <1>12 DEF Partial, bandVars
  <2>2. ViewTypeOK' /\ StoppedIsQuiet'
    BY <1>2, <1>12 DEF Partial, bandVars, ViewTypeOK, StoppedIsQuiet
  <2>3. QED
    BY <1>3, <1>5, <2>1, <2>2 DEF ViewIInv, ViewSafe
<1>13. CASE Ready
  <2>1. UNCHANGED <<segments, after, bandVars>>
    BY <1>13 DEF Ready, bandVars
  <2>2. ViewTypeOK' /\ StoppedIsQuiet'
    BY <1>2, <1>13 DEF Ready, bandVars, ViewTypeOK, StoppedIsQuiet
  <2>3. QED
    BY <1>3, <1>5, <2>1, <2>2 DEF ViewIInv, ViewSafe
<1>14. CASE SongStarts \/ SongStops
  <2>1. UNCHANGED <<segments, after, bandVars>>
    BY <1>14 DEF SongStarts, SongStops, bandVars
  <2>2. ViewTypeOK' /\ StoppedIsQuiet'
    BY <1>2, <1>14 DEF SongStarts, SongStops, bandVars, ViewTypeOK, StoppedIsQuiet
  <2>3. QED
    BY <1>3, <1>5, <2>1, <2>2 DEF ViewIInv, ViewSafe
<1>15. ASSUME NEW t \in Turns, Final(t) PROVE ViewIInv'
  <2>1. /\ ~Holds(segments, t) /\ segments' = Append(segments, t) /\ partial' = FALSE /\ heard
        /\ UNCHANGED <<isRunning, opening, heard, song, active, closesIn, waiting, released, after, timerIn>>
    BY <1>15 DEF Final, bandVars
  <2>2. segments \in Seq(Turns)
    BY <1>2 DEF ViewTypeOK
  <2>3. Append(segments, t) \in Seq(Turns) /\ Once(Append(segments, t))
    BY <1>2, <2>1, <2>2, TurnsGrow
  <2>4. ViewTypeOK' /\ StoppedIsQuiet' /\ BandIsTimed'
    BY <1>2, <2>1, <2>3 DEF ViewTypeOK, StoppedIsQuiet, BandIsTimed
  <2>5. Line' = Line
    BY <2>1 DEF Line
  <2>6. NoCueTwice'
    BY <1>2, <2>5 DEF NoCueTwice
  <2>7. Follows(Line, Append(segments, t), after)
    BY <1>1, <1>2, <2>1, <2>2, BandIsGood, FollowsOn
  <2>8. Follows(Line', segments', after')
    BY <2>1, <2>5, <2>7
  <2>9. Once(segments)'
    BY <2>1, <2>3
  <2>10. QED
    BY <1>3, <2>4, <2>6, <2>8, <2>9, FollowedNext DEF ViewIInv, ViewSafe
<1>16. ASSUME NEW c \in Cues, CueArrives(c) PROVE ViewIInv'
  <2> DEFINE b == Advanced
  <2>1. /\ heard /\ ~Shown(c) /\ Shows(Placed(b, c))
        /\ after' = [after EXCEPT ![c] = LastTurn(segments)]
        /\ UNCHANGED <<isRunning, opening, heard, segments, partial, song>>
    BY <1>16 DEF CueArrives, LastTurn
  <2>2. /\ GoodBand(BandNow) /\ Line = LineOf(BandNow) /\ Line \in Seq(Cues)
        /\ Follows(Line, segments, after)
    BY <1>1, BandIsGood
  <2>3. GoodBand(b) /\ Thins(LineOf(b), Line)
    BY <2>2, AdvancesWell
  <2> HIDE DEF b
  <2>4. LineOf(b) \in Seq(Cues)
    BY <2>3, LinePlaces DEF GoodBand
  <2>5. ~Holds(Line, c)
    <3>1. SUFFICES ASSUME NEW i \in DOMAIN Line, Line[i] = c PROVE FALSE
      BY DEF Holds
    <3>2. /\ BandNow \in Bands /\ BandNow.released = released /\ BandNow.active = active /\ BandNow.waiting = waiting
      BY <2>2 DEF GoodBand, BandNow
    <3>3. /\ Len(released) \in Nat /\ Len(waiting) \in Nat
          /\ Len(Line) = Len(released) + Fills(BandNow) + Len(waiting)
          /\ DOMAIN Line = 1..Len(Line)
          /\ \A n \in 1..Len(Line) :
               Line[n] = IF n <= Len(released) THEN released[n]
                         ELSE IF n <= Len(released) + Fills(BandNow) THEN active
                         ELSE waiting[n - (Len(released) + Fills(BandNow))]
      BY <2>2, <3>2, LinePlaces
    <3>4. Fills(BandNow) \in {0, 1}
      BY DEF Fills
    <3>5. DOMAIN released = 1..Len(released) /\ DOMAIN waiting = 1..Len(waiting)
      BY <1>2, LenProperties DEF ViewTypeOK
    <3>6. CASE i <= Len(released)
      <4>1. i \in DOMAIN released /\ released[i] = c
        BY <3>1, <3>3, <3>5, <3>6
      <4>2. QED
        BY <2>1, <4>1 DEF Shown, Holds
    <3>7. CASE ~(i <= Len(released)) /\ i <= Len(released) + Fills(BandNow)
      BY <2>1, <3>1, <3>3, <3>7 DEF Shown
    <3>8. CASE ~(i <= Len(released)) /\ ~(i <= Len(released) + Fills(BandNow))
      <4> DEFINE n == i - (Len(released) + Fills(BandNow))
      <4>1. n \in DOMAIN waiting
        BY <3>3, <3>4, <3>5, <3>8
      <4>2. waiting[n] = c
        BY <3>1, <3>3, <3>8
      <4>3. QED
        BY <2>1, <4>1, <4>2 DEF Shown, Holds
    <3>9. QED
      BY <3>6, <3>7, <3>8
  <2>6. ~Holds(LineOf(b), c)
    <3>1. SUFFICES ASSUME NEW i \in DOMAIN LineOf(b), LineOf(b)[i] = c PROVE FALSE
      BY DEF Holds
    <3>2. PICK f \in [1..Len(LineOf(b)) -> 1..Len(Line)] : \A n \in 1..Len(LineOf(b)) : LineOf(b)[n] = Line[f[n]]
      BY <2>3 DEF Thins
    <3>3. DOMAIN LineOf(b) = 1..Len(LineOf(b)) /\ DOMAIN Line = 1..Len(Line)
      BY <2>2, <2>4, LenProperties
    <3>4. f[i] \in DOMAIN Line /\ Line[f[i]] = c
      BY <3>1, <3>2, <3>3
    <3>5. QED
      BY <2>5, <3>4 DEF Holds
  <2>7. /\ GoodBand(Placed(b, c)) /\ Append(LineOf(b), c) \in Seq(Cues)
        /\ Thins(LineOf(Placed(b, c)), Append(LineOf(b), c))
    BY <2>3, <2>6, PlacesWell
  <2> DEFINE p == Placed(b, c)
  <2>8. /\ active' \in Cues \cup {"none"} /\ closesIn' \in Floor..Ttl
        /\ waiting' \in Seq(Cues) /\ Len(waiting') <= MaxWaiting
        /\ released' \in Seq(Cues) /\ Len(released') <= MaxReleased
        /\ timerIn' \in [armed : BOOLEAN, at : Floor..Ttl]
        /\ Line' = LineOf(p) /\ NoCueTwice' /\ BandIsTimed'
    BY <2>1, <2>7, BandIsShown
  <2> HIDE DEF p
  <2>9. LastTurn(segments) \in Turns \cup {"none"}
    <3>1. segments \in Seq(Turns)
      BY <1>2 DEF ViewTypeOK
    <3>2. CASE segments = <<>>
      BY <3>2 DEF LastTurn
    <3>3. CASE segments # <<>>
      <4>1. Len(segments) \in 1..Len(segments)
        BY <3>1, <3>3, EmptySeq, LenProperties
      <4>2. segments[Len(segments)] \in Turns
        BY <3>1, <4>1, ElementOfSeq
      <4>3. QED
        BY <3>3, <4>2 DEF LastTurn
    <3>4. QED
      BY <3>2, <3>3
  <2>10. ViewTypeOK'
    BY <1>2, <2>1, <2>8, <2>9 DEF ViewTypeOK
  <2>11. StoppedIsQuiet'
    BY <2>1 DEF StoppedIsQuiet
  <2>12. CuesInOrder'
    <3>1. segments \in Seq(Turns) /\ after \in [Cues -> Turns \cup {"none"}]
      BY <1>2 DEF ViewTypeOK
    <3>2. Follows(LineOf(b), segments, after)
      BY <2>2, <2>3, <2>4, ThinnedFollows
    <3>3. Follows(Append(LineOf(b), c), segments, after')
      BY <1>2, <2>1, <2>4, <2>6, <3>1, <3>2, CueFollows
    <3>4. LineOf(p) \in Seq(Cues)
      BY <2>7, LinePlaces DEF GoodBand, p
    <3>5. Follows(LineOf(p), segments, after')
      BY <2>7, <3>3, <3>4, ThinnedFollows DEF p
    <3>6. Follows(Line', segments', after')
      BY <2>1, <2>8, <3>5
    <3>7. QED
      BY <3>6, FollowedNext
  <2>13. Once(segments)'
    BY <1>2, <2>1
  <2>14. QED
    BY <1>3, <2>8, <2>10, <2>11, <2>12, <2>13 DEF ViewIInv, ViewSafe
<1>17. ASSUME Tick PROVE ViewIInv'
  <2> DEFINE b == Advanced
  <2>1. Shows(b) /\ UNCHANGED <<isRunning, opening, heard, segments, partial, song, after>>
    BY <1>17 DEF Tick
  <2>2. /\ GoodBand(BandNow) /\ Line = LineOf(BandNow) /\ Line \in Seq(Cues)
        /\ Follows(Line, segments, after) /\ BandNow.active = active /\ BandNow.waiting = waiting
    BY <1>1, BandIsGood
  <2>3. GoodBand(b) /\ Thins(LineOf(b), Line) /\ (active = "none" => b = BandNow)
    BY <2>2, AdvancesWell
  <2> HIDE DEF b
  <2>4. /\ active' \in Cues \cup {"none"} /\ closesIn' \in Floor..Ttl
        /\ waiting' \in Seq(Cues) /\ Len(waiting') <= MaxWaiting
        /\ released' \in Seq(Cues) /\ Len(released') <= MaxReleased
        /\ timerIn' \in [armed : BOOLEAN, at : Floor..Ttl]
        /\ active' = b.active /\ waiting' = b.waiting
        /\ Line' = LineOf(b) /\ NoCueTwice' /\ BandIsTimed'
    BY <2>1, <2>3, BandIsShown
  <2>5. ViewTypeOK'
    BY <1>2, <2>1, <2>4 DEF ViewTypeOK
  <2>6. StoppedIsQuiet'
    BY <1>2, <2>1, <2>2, <2>3, <2>4 DEF StoppedIsQuiet
  <2>7. CuesInOrder'
    <3>1. LineOf(b) \in Seq(Cues)
      BY <2>3, LinePlaces DEF GoodBand
    <3>2. Follows(LineOf(b), segments, after)
      BY <2>2, <2>3, <3>1, ThinnedFollows
    <3>3. Follows(Line', segments', after')
      BY <2>1, <2>4, <3>2
    <3>4. QED
      BY <3>3, FollowedNext
  <2>8. Once(segments)'
    BY <1>2, <2>1
  <2>9. QED
    BY <1>3, <2>4, <2>5, <2>6, <2>7, <2>8 DEF ViewIInv, ViewSafe
<1>18. CASE TimerFires \/ Foreground
  BY <1>17, <1>18 DEF TimerFires, Foreground
<1>19. CASE ViewElapse
  <2>1. /\ closesIn' = IF active = "none" THEN 0 ELSE Later(closesIn)
        /\ timerIn' = IF timerIn.armed THEN Armed(Later(timerIn.at)) ELSE NoTimer
        /\ UNCHANGED <<isRunning, opening, heard, segments, partial, song, active, waiting, released, after>>
    BY <1>19 DEF ViewElapse
  <2>2. ASSUME NEW t \in Floor..Ttl PROVE Later(t) \in Floor..Ttl
    BY FloorIsLow, ViewAssumption DEF Later
  <2>3. closesIn \in Floor..Ttl /\ timerIn \in [armed : BOOLEAN, at : Floor..Ttl]
    BY <1>2 DEF ViewTypeOK
  <2>4. closesIn' \in Floor..Ttl
    BY <1>4, <2>1, <2>2, <2>3
  <2>5. timerIn' \in [armed : BOOLEAN, at : Floor..Ttl]
    <3>1. timerIn.at \in Floor..Ttl
      BY <2>3
    <3>2. Later(timerIn.at) \in Floor..Ttl
      BY <2>2, <3>1
    <3>3. QED
      BY <1>4, <2>1, <3>2 DEF Armed, NoTimer
  <2>6. ViewTypeOK' /\ StoppedIsQuiet'
    BY <1>2, <2>1, <2>4, <2>5 DEF ViewTypeOK, StoppedIsQuiet
  <2>7. BandIsTimed'
    <3>1. active = "none" => waiting' = <<>>
      BY <1>2, <2>1 DEF BandIsTimed
    <3>2. CASE active # "none"
      <4>1. timerIn.armed /\ timerIn.at = closesIn
        BY <1>2, <3>2 DEF BandIsTimed, Armed
      <4>2. timerIn' = Armed(Later(closesIn)) /\ closesIn' = Later(closesIn)
        BY <2>1, <3>2, <4>1
      <4>3. QED
        BY <2>1, <3>2, <4>2 DEF BandIsTimed
    <3>3. CASE active = "none"
      BY <2>1, <3>1, <3>3 DEF BandIsTimed
    <3>4. QED
      BY <3>2, <3>3
  <2>8. Line' = Line
    BY <2>1 DEF Line
  <2>9. NoCueTwice' /\ CuesInOrder' /\ Once(segments)'
    BY <1>2, <2>1, <2>8 DEF NoCueTwice, CuesInOrder, Position
  <2>10. QED
    BY <1>3, <2>6, <2>7, <2>9 DEF ViewIInv, ViewSafe
<1>20. QED
  BY <1>1, <1>6, <1>7, <1>8, <1>9, <1>10, <1>11, <1>12, <1>13, <1>14, <1>15, <1>16, <1>18, <1>19 DEF ViewNext

\* What a capture client shows: a cue is in one place at a time, the transcript and the band keep
\* the order in which the cues came, each after its turn, a cue in the band has its timer armed,
\* and a stopped session shows nothing live.
THEOREM CuesAreOrdered == ViewInit /\ [][ViewNext]_viewVars => [](ViewTypeOK /\ ViewSafe)
<1>1. ViewInit => ViewIInv
  BY ViewStarts
<1>2. ViewIInv /\ [ViewNext]_viewVars => ViewIInv'
  BY ViewKept
<1>3. ViewIInv => ViewTypeOK /\ ViewSafe
  BY DEF ViewIInv
<1>4. QED
  BY <1>1, <1>2, <1>3, PTL
=============================================================================
