------------------------ MODULE RecordingAudioProofs ------------------------
(***************************************************************************)
(* Theorems about Recording's two stores, for every value of its bounds:    *)
(* all the audio heard is kept and lies where the transcript has it         *)
(* (AudioKept), a settled row is ready and its audio linked                 *)
(* (SettledRowIsReady), and a deleted recording leaves no audio behind      *)
(* (NoOrphanAudio).  None of them is inductive.  Three invariants stand     *)
(* behind them:                                                             *)
(*                                                                         *)
(*   ControlInv   what a teardown relies on: a sitting is ordered behind    *)
(*                one that was live and has closed, its first retain says   *)
(*                truly whether its audio is stored, and _closing names the *)
(*                last sitting that was live;                               *)
(*   SettlingInv  whoever left the row live has left somebody else to       *)
(*                finish it, and stored audio that is not linked is owed by *)
(*                a sitting that is not done;                               *)
(*   AudioInv     audio not yet stored belongs to a sitting every later one *)
(*                waits for.  So when a retain writes, all before it is     *)
(*                stored and nothing after it, and the end of the WAV is    *)
(*                where the sitting's own timeline continues.               *)
(***************************************************************************)
EXTENDS RecordingProofs

USE DEF OrNone, None

-----------------------------------------------------------------------------
(* What a teardown relies on, whatever fails.                               *)

NotBegun == {"none", "offset", "open"}

\* A sitting hears, and is shut down, only once it is live.
HeardWhileLive ==
  \A s \in Sittings : pc[s] \in NotBegun \/ failed[s] => heard[s] = 0 /\ stopping # s

\* The sitting that shutdown closed is the last one.
LastStops ==
  stopping # None => /\ Closed(stopping) /\ closing \in {None, stopping}
                     /\ \A s \in Sittings : s > stopping => pc[s] = "none"

SomethingFailed == diskFaults # 0 \/ writeFaults # 0

\* What a sitting's first retain says: that it is over, that its audio is stored, or that
\* something failed.
FirstRetains ==
  \A s \in Sittings :
    /\ firstRetain[s] = "pending" <=> pc[s] \in NotBegun \cup {"live", "first"}
    /\ firstRetain[s] = "stored" => priorTeardown[s] = None
                                    /\ (kept[s] = heard[s] \/ stopping = s)
    /\ firstRetain[s] = "failed" => SomethingFailed

\* A sitting is ordered behind one that was live and is closed, first by its first retain,
\* then by its teardown, and until then stores nothing.
Priors ==
  \A s \in Sittings :
    /\ pc[s] \in NotBegun \cup {"live", "first"} => priorRetain[s] = priorTeardown[s]
    /\ pc[s] \notin NotBegun \cup {"live", "first"} => priorRetain[s] = None
    /\ priorTeardown[s] # None =>
         /\ priorTeardown[s] < s /\ Closed(priorTeardown[s]) /\ ~failed[priorTeardown[s]]
         /\ pc[s] \in {"open", "live", "first", "drain"} /\ ~failed[s]
         /\ kept[s] = 0 /\ retain[s] \in {"idle", "begin"}

\* The sitting in _closing was the last to be live: who starts after it takes its timeline.
ClosingLast ==
  closing # None =>
    /\ Closed(closing) /\ ~failed[closing]
    /\ \A s \in Sittings : s > closing =>
         /\ pc[s] # "offset"
         /\ pc[s] \notin {"none", "live"} => TimelineEnd(s) <= TimelineEnd(closing)

\* Only a delete removes the row, and only then is a WAV an orphan.
DeletesCounted ==
  deletes = 0 => row.status # "deleted" /\ deleting = "no" /\ \A s \in Sittings : retain[s] # "drop"

\* A sitting that heard has its row: create() and reopen() only ever return one.
RowThere == \A s \in Sittings : created[s] = "opened" => row.status # "absent"

\* A retain in flight, or the key it owes, is for audio that was heard, and for all of it but
\* what shutdown's socket still sends.
Buffers ==
  \A s \in Sittings :
    /\ keyPending[s] \/ retain[s] \in {"put", "link", "drop"} => heard[s] > 0
    /\ retain[s] = "put" => kept[s] < taken[s] /\ (taken[s] = heard[s] \/ stopping = s)
    /\ retain[s] \in {"link", "drop"} => kept[s] = heard[s] \/ stopping = s

ControlInv == HeardWhileLive /\ LastStops /\ FirstRetains /\ Priors /\ ClosingLast
              /\ DeletesCounted /\ RowThere /\ Buffers

\* Nothing has begun.
LEMMA InitControl == Init => ControlInv
BY BoundsAssumption
   DEF Init, ControlInv, HeardWhileLive, LastStops, FirstRetains, Priors, ClosingLast,
       DeletesCounted, RowThere, Buffers, SomethingFailed, NotBegun, Closed, Sittings

\* The steps that start a sitting keep it.
LEMMA StartingKeepsControl ==
  ASSUME TypeOK, OwnershipInv, ControlInv, NEW s \in Sittings,
         (s = 1 /\ StartFresh) \/ StartResume(s) \/ ReadOffset(s) \/ OpenRow(s) \/ OpenFault(s)
         \/ Ready(s) \/ StartFails(s)
  PROVE  ControlInv'
<1>. USE DEF ControlInv, TypeOK, NotBegun
<1>0. s \in Nat /\ s # 0 /\ \A r \in Sittings : r \in Nat /\ r # 0
  BY BoundsAssumption DEF Sittings
<1>1. CASE (s = 1 /\ StartFresh) \/ StartResume(s)
  <2>1. /\ MayStart(s) /\ pc[s] = "none" /\ stopping = None
        /\ \A r \in Sittings : r < s => Closed(r)
    BY <1>1, StartsAlone DEF StartFresh, StartResume, MayStart
  <2>2. /\ pc' \in {[pc EXCEPT ![s] = "open"], [pc EXCEPT ![s] = "offset"]}
        /\ \/ (closing = None \/ s = 1) /\ UNCHANGED <<priorRetain, priorTeardown, offset>>
           \/ /\ closing # None
              /\ priorRetain' = [priorRetain EXCEPT ![s] = closing]
              /\ priorTeardown' = [priorTeardown EXCEPT ![s] = closing]
              /\ offset' = [offset EXCEPT ![s] = TimelineEnd(closing)]
              /\ pc' = [pc EXCEPT ![s] = "open"]
        /\ UNCHANGED <<row, failed, heard, kept, retainVars, closing, deleteVars, faultVars, stopping>>
    BY <1>1 DEF StartFresh, StartResume, audioVars, orderVars
  <2>3. HeardWhileLive' /\ LastStops' /\ DeletesCounted' /\ Buffers'
    BY <2>1, <2>2 DEF HeardWhileLive, LastStops, DeletesCounted, Buffers, retainVars, deleteVars, LifeOK
  <2>9. RowThere'
    BY <1>1, <2>2 DEF RowThere, StartFresh, StartResume, LifeOK
  <2>4. FirstRetains'
    <3>1. firstRetain[s] = "pending"
      BY <2>1 DEF FirstRetains
    <3>2. ASSUME NEW r \in Sittings, r # s PROVE pc'[r] = pc[r] /\ priorTeardown'[r] = priorTeardown[r]
      BY <2>2, <3>2 DEF LifeOK, OrderOK
    <3>3. pc'[s] \in {"open", "offset"} /\ UNCHANGED <<firstRetain, kept, heard, stopping, diskFaults, writeFaults>>
      BY <2>2 DEF retainVars, faultVars, LifeOK
    <3>. QED  BY <3>1, <3>2, <3>3 DEF FirstRetains, SomethingFailed
  <2>5. closing # None => closing \in Sittings /\ closing < s /\ Closed(closing) /\ ~failed[closing]
    BY <1>0, <2>1 DEF ClosingLast, Closed, OrderOK, OwnershipInv, Sequential
  <2>6. \A r \in Sittings : Closed(r)' <=> Closed(r)
    BY <2>1, <2>2 DEF Closed, LifeOK
  <2>7. Priors'
    <3>3. ASSUME NEW r \in Sittings, r # s, priorTeardown[r] # None PROVE priorTeardown[r] \in Sittings
      BY <3>3 DEF OrderOK
    <3>1. ASSUME NEW r \in Sittings, r # s PROVE pc'[r] = pc[r] /\ priorRetain'[r] = priorRetain[r] /\ priorTeardown'[r] = priorTeardown[r]
      BY <2>2, <3>1 DEF LifeOK, OrderOK
    <3>2. heard[s] = 0 /\ kept[s] = 0
      BY <2>1 DEF HeardWhileLive, AudioOK
    <3>4. retain[s] = "idle" /\ ~failed[s]
      BY <2>1 DEF OwnershipInv, StepsInOrder, Closed
    <3>5. priorTeardown[s] = None /\ priorRetain[s] = None
      BY <2>1 DEF Priors
    <3>6. ASSUME NEW r \in Sittings
          PROVE /\ pc'[r] \in NotBegun \cup {"live", "first"} => priorRetain'[r] = priorTeardown'[r]
                /\ pc'[r] \notin NotBegun \cup {"live", "first"} => priorRetain'[r] = None
      BY <2>1, <2>2, <2>5, <3>1, <3>5 DEF Priors, LifeOK, OrderOK
    <3>7. ASSUME NEW r \in Sittings, priorTeardown'[r] # None
          PROVE /\ priorTeardown'[r] < r /\ Closed(priorTeardown[r])' /\ ~failed'[priorTeardown'[r]]
                /\ pc'[r] \in {"open", "live", "first", "drain"} /\ ~failed'[r]
                /\ kept'[r] = 0 /\ retain'[r] \in {"idle", "begin"}
      <4>1. CASE r = s
        BY <2>1, <2>2, <2>5, <2>6, <3>2, <3>4, <3>5, <3>7, <4>1 DEF retainVars, LifeOK, OrderOK
      <4>2. CASE r # s
        BY <2>1, <2>2, <2>6, <3>1, <3>3, <3>7, <4>2 DEF Priors, retainVars
      <4>. QED  BY <4>1, <4>2
    <3>. QED  BY <3>6, <3>7 DEF Priors
  <2>8. ClosingLast'
    <3>. SUFFICES ASSUME closing # None PROVE ClosingLast'
      BY <2>2 DEF ClosingLast
    <3>1. heard[s] = 0 /\ offset[closing] \in Nat /\ heard[closing] \in Nat
      BY <2>1, <2>5 DEF HeardWhileLive, AudioOK
    <3>2. /\ pc'[s] = "open" /\ offset'[s] = offset[closing] + heard[closing]
          /\ \A r \in Sittings \ {s} : pc'[r] = pc[r] /\ offset'[r] = offset[r]
      <4>1. closing < s /\ closing # None /\ closing \in Nat
        BY <1>0, <2>5
      <4>2. pc' = [pc EXCEPT ![s] = "open"] /\ offset' = [offset EXCEPT ![s] = TimelineEnd(closing)]
        BY <2>2, <4>1
      <4>. QED  BY <4>2 DEF TimelineEnd, LifeOK, AudioOK
    <3>. QED  BY <2>2, <2>5, <2>6, <3>1, <3>2 DEF ClosingLast, TimelineEnd
  <2>. QED  BY <2>3, <2>4, <2>7, <2>8, <2>9
<1>2. CASE ReadOffset(s) \/ OpenRow(s) \/ OpenFault(s) \/ Ready(s)
  <2>1. /\ UNCHANGED <<failed, heard, kept, retainVars, priorRetain, priorTeardown, closing, deleteVars,
                       stopping, diskFaults, writeFaults>>
        /\ row'.status = row.status \/ row'.status = "live"
    BY <1>2 DEF ReadOffset, OpenRow, OpenFault, Ready, Opened, audioVars, orderVars, faultVars, StoresOK, Row
  <2>2. /\ \A r \in Sittings \ {s} : pc'[r] = pc[r] /\ offset'[r] = offset[r]
        /\ \/ pc'[s] = pc[s] /\ offset'[s] = offset[s]
           \/ pc[s] = "open" /\ pc'[s] = "live" /\ offset'[s] = offset[s]
           \/ pc[s] = "offset" /\ pc'[s] = "open"
    BY <1>2 DEF ReadOffset, OpenRow, OpenFault, Ready, LifeOK, AudioOK, lifeVars, audioVars
  <2>3. \A r \in Sittings : (Closed(r)' <=> Closed(r)) /\ (pc'[r] = "none" <=> pc[r] = "none")
    BY <2>2 DEF Closed
  <2>4. \A r \in Sittings : pc'[r] \in NotBegun => pc[r] \in NotBegun
    BY <2>2
  <2>5. HeardWhileLive' /\ Buffers'
    BY <2>1, <2>4 DEF HeardWhileLive, Buffers, retainVars
  <2>6. LastStops' /\ DeletesCounted'
    BY <2>1, <2>3 DEF LastStops, DeletesCounted, OrderOK, retainVars, deleteVars
  <2>7. FirstRetains'
    BY <2>1, <2>2 DEF FirstRetains, SomethingFailed, retainVars
  <2>8. Priors'
    <3>1. ASSUME NEW r \in Sittings, priorTeardown[r] # None PROVE priorTeardown[r] \in Sittings
      BY <3>1 DEF OrderOK
    <3>. QED  BY <2>1, <2>2, <2>3, <3>1 DEF Priors, retainVars
  <2>9. ClosingLast'
    <3>1. closing # None => closing \in Sittings /\ (pc[s] \in NotBegun => closing # s)
      BY DEF ClosingLast, OrderOK, Closed
    <3>. QED  BY <2>1, <2>2, <2>3, <3>1 DEF ClosingLast, TimelineEnd
  <2>10. RowThere'
    <3>1. OpenRow(s) => row'.status # "absent"
      <4>1. created[s] = "running" => pc[s] # "none"
        BY DEF OwnershipInv, StepsInOrder
      <4>. QED  BY <1>0, <4>1 DEF OpenRow, Opened, RowExists, StoresOK, Row, OwnershipInv, RowKnown
    <3>2. ~OpenRow(s) => \A r \in Sittings : created'[r] = "opened" => created[r] = "opened"
      BY <1>2 DEF ReadOffset, OpenFault, Ready, LifeOK
    <3>3. row'.status = "absent" => row.status = "absent"
      BY <2>1
    <3>. QED  BY <3>1, <3>2, <3>3 DEF RowThere
  <2>. QED  BY <2>5, <2>6, <2>7, <2>8, <2>9, <2>10
<1>3. CASE StartFails(s)
  <2>. USE <1>3 DEF StartFails
  <2>1. /\ \A r \in Sittings \ {s} : pc'[r] = pc[r] /\ failed'[r] = failed[r] /\ retain'[r] = retain[r]
                                     /\ priorRetain'[r] = priorRetain[r] /\ priorTeardown'[r] = priorTeardown[r]
        /\ pc[s] \in NotBegun /\ pc'[s] = "first" /\ failed'[s] /\ retain'[s] = "begin"
        /\ priorRetain'[s] = None /\ priorTeardown'[s] = None
    BY DEF LifeOK, OrderOK, RetainOK
  <2>2. \A r \in Sittings : Closed(r) => Closed(r)' /\ r # s
    BY <2>1 DEF Closed
  <2>3. HeardWhileLive' /\ Buffers'
    BY <2>1 DEF HeardWhileLive, Buffers, audioVars
  <2>8. RowThere'
    BY DEF RowThere
  <2>4. LastStops' /\ DeletesCounted'
    BY <2>1, <2>2 DEF LastStops, DeletesCounted, deleteVars, OrderOK
  <2>5. FirstRetains'
    BY <2>1 DEF FirstRetains, SomethingFailed, audioVars, faultVars
  <2>6. Priors'
    <3>1. ASSUME NEW r \in Sittings, priorTeardown[r] # None PROVE priorTeardown[r] \in Sittings
      BY <3>1 DEF OrderOK
    <3>. QED  BY <2>1, <2>2, <3>1 DEF Priors, audioVars
  <2>7. ClosingLast'
    BY <2>1, <2>2 DEF ClosingLast, TimelineEnd, audioVars, OrderOK
  <2>. QED  BY <2>3, <2>4, <2>5, <2>6, <2>7, <2>8
<1>. QED  BY <1>1, <1>2, <1>3

\* So do audio, a close and a shutdown.
LEMMA LivingKeepsControl ==
  ASSUME TypeOK, OwnershipInv, ControlInv, NEW s \in Sittings, Hear(s) \/ Close(s) \/ Shutdown(s)
  PROVE  ControlInv'
<1>. USE DEF ControlInv, TypeOK, NotBegun
<1>0. s \in Nat /\ s # 0 /\ \A r \in Sittings : r \in Nat /\ r # 0
  BY BoundsAssumption DEF Sittings
<1>1. CASE Hear(s)
  <2>. USE <1>1 DEF Hear, lifeVars, retainVars, orderVars, deleteVars, faultVars
  <2>1. /\ pc[s] = "live" \/ (stopping = s /\ Closed(s))
        /\ heard'[s] = heard[s] + 1 /\ heard[s] \in Nat /\ kept[s] \in Nat
        /\ \A r \in Sittings \ {s} : heard'[r] = heard[r]
    BY <1>0 DEF AudioOK, LastStops
  <2>2. HeardWhileLive'
    BY <2>1 DEF HeardWhileLive, OwnershipInv, StepsInOrder, Closed
  <2>3. LastStops' /\ DeletesCounted' /\ RowThere' /\ Priors'
    BY DEF LastStops, DeletesCounted, RowThere, Priors, Closed
  <2>4. FirstRetains'
    BY <2>1 DEF FirstRetains, SomethingFailed
  <2>5. ClosingLast'
    <3>. SUFFICES ASSUME closing # None PROVE ClosingLast'
      BY DEF ClosingLast
    <3>1. closing \in Sittings /\ Closed(closing)
      BY DEF ClosingLast, OrderOK
    <3>2. CASE closing = s
      <4>1. stopping = s
        BY <2>1, <3>1, <3>2 DEF Closed
      <4>2. \A r \in Sittings : r > s => pc[r] = "none"
        BY <1>0, <4>1 DEF LastStops
      <4>. QED  BY <3>2, <4>2 DEF ClosingLast, Closed
    <3>3. CASE closing # s
      <4>1. pc[s] = "live"
        BY <1>0, <2>1, <3>1, <3>3 DEF LastStops
      <4>. QED  BY <2>1, <3>1, <3>3, <4>1 DEF ClosingLast, TimelineEnd, Closed
    <3>. QED  BY <3>2, <3>3
  <2>6. Buffers'
    BY <2>1 DEF Buffers, OwnershipInv, StepsInOrder
  <2>. QED  BY <2>2, <2>3, <2>4, <2>5, <2>6
<1>2. CASE Close(s) \/ Shutdown(s)
  <2>1. /\ \A r \in Sittings \ {s} : pc'[r] = pc[r] /\ retain'[r] = retain[r]
        /\ pc[s] = "live" /\ pc'[s] = "first" /\ retain[s] = "idle" /\ retain'[s] = "begin" /\ closing' = s
        /\ stopping' = stopping \/ (stopping = None /\ stopping' = s)
        /\ UNCHANGED <<row, created, failed, audioVars, existing, taken, keyPending, firstRetain,
                       priorRetain, priorTeardown, deleteVars, faultVars>>
    BY <1>2 DEF Close, Shutdown, CloseLive, LifeOK, RetainOK, OwnershipInv, StepsInOrder
  <2>2. /\ \A r \in Sittings : Closed(r) => Closed(r)' /\ r # s
        /\ \A r \in Sittings : r > s => pc[r] = "none"
        /\ ~failed[s]
    BY <1>0, <2>1 DEF Closed, OwnershipInv, Sequential, StepsInOrder
  <2>3. HeardWhileLive' /\ DeletesCounted' /\ RowThere'
    BY <2>1, <2>2 DEF HeardWhileLive, DeletesCounted, RowThere, audioVars, deleteVars
  <2>4. LastStops'
    <3>1. stopping = None
      <4>. SUFFICES ASSUME stopping # None PROVE FALSE
        OBVIOUS
      <4>1. stopping \in Sittings /\ Closed(stopping) /\ ~(s > stopping)
        BY <2>1 DEF LastStops, OrderOK
      <4>. QED  BY <1>0, <2>1, <2>2, <4>1 DEF Closed
    <3>. QED  BY <1>0, <2>1, <2>2, <3>1 DEF LastStops, Closed
  <2>5. FirstRetains'
    BY <1>0, <2>1 DEF FirstRetains, SomethingFailed, audioVars, faultVars, OrderOK
  <2>6. Priors'
    <3>1. ASSUME NEW r \in Sittings, priorTeardown[r] # None PROVE priorTeardown[r] \in Sittings
      BY <3>1 DEF OrderOK
    <3>. QED  BY <2>1, <2>2, <3>1 DEF Priors, audioVars
  <2>7. ClosingLast'
    BY <2>1, <2>2 DEF ClosingLast, Closed
  <2>8. Buffers'
    BY <1>0, <2>1 DEF Buffers, audioVars
  <2>. QED  BY <2>3, <2>4, <2>5, <2>6, <2>7, <2>8
<1>. QED  BY <1>1, <1>2

\* A step of a teardown or a retry, however the retain or the finalize it makes ends.
LEMMA TeardownKeepsControl ==
  ASSUME TypeOK, OwnershipInv, ControlInv, NEW s \in Sittings,
         Storing(s) \/ Finalizing(s) \/ Faulting(s)
  PROVE  ControlInv'
<1>. USE DEF ControlInv, TypeOK, NotBegun
<1>0. s \in Nat /\ s # 0 /\ \A r \in Sittings : r \in Nat /\ r # 0
  BY BoundsAssumption DEF Sittings
<1>1. TeardownMove(s)
  BY StoringMoves, FinalizingMoves DEF Storing, Finalizing, Faulting
<1>2. UNCHANGED <<heard, offset, stopping, deleting, deletes>>
  BY DEF Storing, Finalizing, Faulting, AwaitPriorRetain, RetainNothing, RetainRead, RetainWrite, LinkKey,
         DropOrphan, RetainFault, LinkFault, Persist, AwaitCreate, Finalize, Finish, Retry, FinalizeFault,
         audioVars, deleteVars
<1>3. /\ \A r \in Sittings : Closed(r)' <=> Closed(r)
      /\ \A r \in Sittings \ {s} : pc'[r] = pc[r]
      /\ pc[s] \notin NotBegun \cup {"live"} /\ pc'[s] \notin NotBegun \cup {"live"}
  BY <1>1 DEF TeardownMove, Closed
<1>4. closing' = closing \/ closing' = None
  BY DEF Storing, Finalizing, Faulting, AwaitPriorRetain, RetainNothing, RetainRead, RetainWrite, LinkKey,
         DropOrphan, RetainFault, LinkFault, Persist, AwaitCreate, Finalize, Finish, Retry, FinalizeFault,
         Leave, orderVars
<1>5. HeardWhileLive' /\ LastStops' /\ RowThere'
  <2>1. HeardWhileLive' BY <1>1, <1>2, <1>3 DEF HeardWhileLive, TeardownMove
  <2>2. LastStops' BY <1>2, <1>3, <1>4 DEF LastStops, OrderOK
  <2>3. RowThere' BY <1>1 DEF RowThere, TeardownMove
  <2>. QED  BY <2>1, <2>2, <2>3
<1>6. ClosingLast'
  BY <1>1, <1>2, <1>3, <1>4 DEF ClosingLast, TimelineEnd, TeardownMove, OrderOK
<1>7. ASSUME NEW r \in Sittings, priorTeardown[r] # None PROVE priorTeardown[r] \in Sittings
  BY <1>7 DEF OrderOK
<1>8. ASSUME Retaining(s) \/ retain[s] \in {"put", "link", "drop"}
      PROVE  /\ priorTeardown[s] = None /\ priorRetain[s] = None
             /\ pc[s] \in {"first", "persist"} /\ retain[s] # "idle"
  BY <1>8 DEF Priors, Retaining, OwnershipInv, StepsInOrder
\* What is left once each action's own variables are known.
<1>9. ASSUME UNCHANGED kept \/ priorTeardown[s] = None,
             priorTeardown' = [priorTeardown EXCEPT ![s] = None] \/ UNCHANGED priorTeardown,
             priorRetain' = [priorRetain EXCEPT ![s] = None] \/ UNCHANGED priorRetain,
             \A r \in Sittings \ {s} : kept'[r] = kept[r],
             pc[s] = "first" /\ pc'[s] # "first" => priorRetain'[s] = None,
             pc'[s] = "first" => pc[s] = "first",
             pc'[s] = "first" => priorRetain'[s] = priorTeardown'[s],
             priorTeardown'[s] # None => pc'[s] \in {"first", "drain"} /\ retain'[s] \in {"idle", "begin"}
      PROVE  Priors'
  <2>1. /\ pc'[s] = "first" => priorRetain'[s] = priorTeardown'[s]
        /\ pc'[s] # "first" => priorRetain'[s] = None
    BY <1>3, <1>9 DEF Priors, OrderOK
  <2>2. ASSUME priorTeardown'[s] # None
        PROVE  /\ priorTeardown'[s] = priorTeardown[s] /\ kept'[s] = 0 /\ ~failed'[s]
    BY <1>1, <1>9, <2>2 DEF Priors, OrderOK, TeardownMove
  <2>. QED  BY <1>1, <1>3, <1>7, <1>9, <2>1, <2>2 DEF Priors, TeardownMove, OrderOK
<1>10. ASSUME NEW ok \in BOOLEAN, RetainEnds(s, ok), Retaining(s) \/ retain[s] \in {"put", "link", "drop"},
              ok => kept[s] = heard[s] \/ stopping = s,
              ~ok \/ SomethingFailed => SomethingFailed',
              keyPending'[s] => keyPending[s], \A r \in Sittings \ {s} : keyPending'[r] = keyPending[r],
              row'.status = row.status, UNCHANGED <<kept, priorRetain, priorTeardown>>
       PROVE  ControlInv'
  <2>. USE <1>10 DEF RetainEnds
  <2>1. priorTeardown[s] = None /\ priorRetain[s] = None /\ pc[s] \in {"first", "persist"}
    BY <1>8
  <2>2. /\ \A r \in Sittings \ {s} : /\ firstRetain'[r] = firstRetain[r] /\ retain'[r] = retain[r]
                                     /\ taken'[r] = taken[r]
        /\ retain'[s] = "idle"
        /\ \/ pc[s] = "first" /\ pc'[s] = "drain" /\ firstRetain'[s] = IF ok THEN "stored" ELSE "failed"
           \/ pc[s] = "persist" /\ pc'[s] = "create" /\ firstRetain'[s] = firstRetain[s]
    BY <2>1 DEF LifeOK, RetainOK, AudioOK
  <2>3. FirstRetains'
    <3>1. ASSUME NEW r \in Sittings
          PROVE  /\ firstRetain'[r] = "pending" <=> pc'[r] \in NotBegun \cup {"live", "first"}
                 /\ firstRetain'[r] = "stored" => priorTeardown[r] = None /\ (kept[r] = heard[r] \/ stopping = r)
                 /\ firstRetain'[r] = "failed" => SomethingFailed \/ ~ok
      <4>1. CASE r = s
        BY <1>3, <2>1, <2>2, <4>1 DEF FirstRetains, SomethingFailed
      <4>2. CASE r # s
        BY <1>3, <2>2, <4>2 DEF FirstRetains, SomethingFailed
      <4>. QED  BY <4>1, <4>2
    <3>. QED  BY <1>2, <3>1 DEF FirstRetains
  <2>4. Priors'
    BY <1>9, <2>1, <2>2
  <2>5. DeletesCounted' /\ Buffers'
    BY <1>2, <2>2 DEF DeletesCounted, Buffers
  <2>. QED  BY <1>5, <1>6, <2>3, <2>4, <2>5
<1>11. CASE RetainNothing(s)
  <2>1. /\ RetainEnds(s, TRUE) /\ Retaining(s) /\ kept[s] = heard[s]
        /\ UNCHANGED <<row, keyPending, kept, priorRetain, priorTeardown, diskFaults, writeFaults>>
    BY <1>11 DEF RetainNothing, audioVars, orderVars, faultVars
  <2>. QED  BY <1>10, <2>1 DEF SomethingFailed
<1>12. CASE RetainFault(s)
  <2>1. /\ Retaining(s) \/ retain[s] \in {"put", "link", "drop"}
        /\ RetainEnds(s, FALSE) /\ diskFaults' = diskFaults + 1
        /\ UNCHANGED <<row, keyPending, kept, priorRetain, priorTeardown, writeFaults>>
    BY <1>12 DEF RetainFault, audioVars, orderVars
  <2>2. SomethingFailed'
    BY <2>1 DEF SomethingFailed, CountsOK
  <2>. QED  BY <1>10, <2>1, <2>2
<1>13. CASE LinkFault(s)
  <2>1. /\ Retaining(s) \/ retain[s] \in {"put", "link", "drop"}
        /\ RetainEnds(s, FALSE) /\ writeFaults' = writeFaults + 1
        /\ UNCHANGED <<row, keyPending, kept, priorRetain, priorTeardown, diskFaults>>
    BY <1>13 DEF LinkFault, Linking, audioVars, orderVars
  <2>2. SomethingFailed'
    BY <2>1 DEF SomethingFailed, CountsOK
  <2>. QED  BY <1>10, <2>1, <2>2
<1>14. CASE DropOrphan(s)
  <2>1. /\ retain[s] = "drop" /\ RetainEnds(s, TRUE) /\ (kept[s] = heard[s] \/ stopping = s)
        /\ UNCHANGED <<row, keyPending, kept, priorRetain, priorTeardown, diskFaults, writeFaults>>
    BY <1>14 DEF DropOrphan, Buffers, audioVars, orderVars, faultVars
  <2>. QED  BY <1>10, <2>1 DEF SomethingFailed
<1>15. CASE LinkKey(s)
  <2>. USE <1>15 DEF LinkKey
  <2>1. retain[s] \in {"begin", "link"} /\ (kept[s] = heard[s] \/ stopping = s) /\ heard[s] > 0
    BY DEF Linking, Retaining, Buffers
  <2>2. Retaining(s) \/ retain[s] \in {"put", "link", "drop"}
    BY DEF Linking
  <2>3. CASE ~RowGone(s)
    <3>1. /\ RetainEnds(s, TRUE) /\ row'.status = row.status
          /\ UNCHANGED <<kept, priorRetain, priorTeardown, diskFaults, writeFaults>>
      BY <2>3 DEF audioVars, orderVars, faultVars, StoresOK, Row
    <3>2. ~keyPending'[s] /\ \A r \in Sittings \ {s} : keyPending'[r] = keyPending[r]
      BY DEF RetainOK
    <3>. QED  BY <1>10, <2>1, <2>2, <3>1, <3>2 DEF SomethingFailed
  <2>4. CASE RowGone(s)
    <3>1. deletes # 0
      <4>1. created[s] = "opened"
        BY <2>1 DEF HeardWhileLive, OwnershipInv, StepsInOrder, Closed
      <4>. QED  BY <2>4, <4>1 DEF RowGone, RowExists, RowThere, DeletesCounted, StoresOK, Row
    <3>2. /\ \A r \in Sittings \ {s} : retain'[r] = retain[r] /\ keyPending'[r] = keyPending[r]
          /\ retain'[s] = "drop" /\ ~keyPending'[s]
          /\ UNCHANGED <<pc, taken, kept, firstRetain, priorRetain, priorTeardown, deletes, diskFaults, writeFaults>>
      BY <2>4 DEF RetainOK, audioVars, orderVars, deleteVars, faultVars
    <3>3. FirstRetains' /\ DeletesCounted'
      BY <1>2, <3>1, <3>2 DEF FirstRetains, SomethingFailed, DeletesCounted
    <3>4. Priors'
      BY <1>8, <1>9, <2>2, <3>2
    <3>5. Buffers'
      BY <1>2, <2>1, <3>2 DEF Buffers
    <3>. QED  BY <1>5, <1>6, <3>3, <3>4, <3>5
  <2>. QED  BY <2>3, <2>4
<1>16. CASE RetainRead(s)
  <2>. USE <1>16 DEF RetainRead, lifeVars, audioVars, orderVars, deleteVars, faultVars
  <2>1. /\ \A r \in Sittings \ {s} : retain'[r] = retain[r] /\ taken'[r] = taken[r]
        /\ retain'[s] = "put" /\ taken'[s] = heard[s] /\ heard[s] > kept[s] /\ kept[s] \in Nat /\ heard[s] \in Nat
    BY DEF RetainOK, AudioOK
  <2>2. FirstRetains' /\ DeletesCounted'
    BY <2>1 DEF FirstRetains, SomethingFailed, DeletesCounted
  <2>3. Priors'
    BY <1>8, <1>9
  <2>4. Buffers'
    BY <2>1 DEF Buffers
  <2>. QED  BY <1>5, <1>6, <2>2, <2>3, <2>4
<1>17. CASE RetainWrite(s)
  <2>. USE <1>17 DEF RetainWrite, lifeVars, orderVars, deleteVars, faultVars, TrimTo
  <2>1. /\ \A r \in Sittings \ {s} : retain'[r] = retain[r] /\ taken'[r] = taken[r] /\ kept'[r] = kept[r]
                                     /\ keyPending'[r] = keyPending[r]
        /\ retain'[s] = "link" /\ kept'[s] = taken[s]
    BY DEF RetainOK, AudioOK
  <2>2. FirstRetains'
    <3>1. firstRetain[s] = "stored" => taken[s] = heard[s] \/ stopping = s
      BY DEF Buffers
    <3>. QED  BY <1>2, <2>1, <3>1 DEF FirstRetains, SomethingFailed
  <2>3. DeletesCounted'
    BY <2>1 DEF DeletesCounted
  <2>4. Priors'
    BY <1>8, <1>9, <2>1
  <2>5. Buffers'
    BY <1>2, <2>1 DEF Buffers
  <2>. QED  BY <1>5, <1>6, <2>2, <2>3, <2>4, <2>5
<1>18. CASE AwaitPriorRetain(s)
  <2>. USE <1>18 DEF AwaitPriorRetain, audioVars, faultVars, deleteVars
  <2>1. /\ pc[s] = "first" /\ priorRetain[s] # None /\ priorRetain[s] \in Sittings
        /\ priorRetain'[s] = None
        /\ firstRetain[priorRetain[s]] \in {"stored", "failed"}
    BY DEF OrderOK, RetainOK
  <2>2. CASE firstRetain[priorRetain[s]] = "stored"
    <3>1. priorTeardown'[s] = None /\ \A r \in Sittings \ {s} : priorTeardown'[r] = priorTeardown[r]
      BY <2>2 DEF OrderOK
    <3>2. FirstRetains'
      BY <1>2, <2>2, <3>1 DEF FirstRetains, SomethingFailed
    <3>3. DeletesCounted' /\ Buffers'
      BY <2>2 DEF DeletesCounted, Buffers
    <3>4. Priors'
      <4>1. UNCHANGED <<kept, pc>>
        BY <2>2
      <4>. QED  BY <1>9, <2>1, <2>2, <3>1, <4>1
    <3>. QED  BY <1>5, <1>6, <3>2, <3>3, <3>4
  <2>3. CASE firstRetain[priorRetain[s]] # "stored"
    <3>1. /\ \A r \in Sittings \ {s} : /\ firstRetain'[r] = firstRetain[r] /\ retain'[r] = retain[r]
                                       /\ taken'[r] = taken[r]
          /\ retain'[s] = "idle" /\ pc'[s] = "drain" /\ firstRetain'[s] = "failed"
          /\ UNCHANGED priorTeardown
      BY <2>1, <2>3 DEF RetainEnds, LifeOK, RetainOK, AudioOK
    <3>2. SomethingFailed
      BY <2>1, <2>3 DEF FirstRetains
    <3>3. FirstRetains'
      BY <1>2, <1>3, <3>1, <3>2 DEF FirstRetains, SomethingFailed
    <3>4. DeletesCounted' /\ Buffers'
      BY <3>1 DEF DeletesCounted, Buffers
    <3>5. Priors'
      BY <1>9, <2>1, <3>1
    <3>. QED  BY <1>5, <1>6, <3>3, <3>4, <3>5
  <2>. QED  BY <2>2, <2>3
<1>19. CASE Finalizing(s) \/ FinalizeFault(s)
  <2>. USE <1>19 DEF Finalizing, FinalizeFault, Persist, AwaitCreate, Finalize, Finish, Retry, Leave
  <2>1. /\ pc[s] \notin {"first", "persist"} /\ pc'[s] # "first" /\ retain[s] = "idle" /\ retain'[s] \in {"idle", "begin"}
        /\ \A r \in Sittings \ {s} : retain'[r] = retain[r]
    BY DEF LifeOK, RetainOK, OwnershipInv, StepsInOrder, retainVars
  <2>2. /\ UNCHANGED <<kept, taken, firstRetain, keyPending, priorRetain>>
        /\ \A r \in Sittings \ {s} : priorTeardown'[r] = priorTeardown[r]
        /\ IF pc[s] = "drain" THEN priorTeardown'[s] = None ELSE UNCHANGED priorTeardown
        /\ pc'[s] # "drain"
    BY DEF retainVars, audioVars, OrderOK, LifeOK
  <2>3. SomethingFailed => SomethingFailed'
    BY DEF SomethingFailed, faultVars, CountsOK
  <2>4. FirstRetains'
    <3>. HIDE <1>19
    <3>. QED  BY <1>2, <1>3, <2>1, <2>2, <2>3 DEF FirstRetains
  <2>5. DeletesCounted' /\ Buffers'
    BY <1>1, <1>2, <2>1, <2>2 DEF DeletesCounted, Buffers, TeardownMove
  <2>6. Priors'
    <3>1. pc[s] # "drain" => priorTeardown[s] = None
      BY <1>3, <2>1 DEF Priors
    <3>2. priorTeardown' = [priorTeardown EXCEPT ![s] = None] \/ UNCHANGED priorTeardown
      OBVIOUS
    <3>3. priorTeardown'[s] = None
      BY <2>2, <3>1
    <3>. HIDE <1>19
    <3>. QED  BY <1>9, <2>1, <2>2, <3>2, <3>3
  <2>. QED  BY <1>5, <1>6, <2>4, <2>5, <2>6
<1>. QED  BY <1>11, <1>12, <1>13, <1>14, <1>15, <1>16, <1>17, <1>18, <1>19 DEF Storing, Faulting

\* A step of a History delete.
LEMMA DeletingKeepsControl ==
  ASSUME TypeOK, ControlInv, Deleting
  PROVE  ControlInv'
<1>. USE DEF ControlInv, TypeOK, Deleting, DeleteAudio, DeleteRow, DeleteFault, DeleteAudioAgain,
             lifeVars, audioVars, retainVars, orderVars, faultVars
<1>1. HeardWhileLive' /\ LastStops' /\ Priors' /\ ClosingLast' /\ Buffers'
  BY DEF HeardWhileLive, LastStops, Priors, ClosingLast, Buffers, Closed, TimelineEnd
<1>2. FirstRetains'
  BY DEF FirstRetains, SomethingFailed, CountsOK
<1>3. DeletesCounted'
  BY DEF DeletesCounted, CountsOK
<1>4. RowThere'
  BY DEF RowThere, StoresOK, Row
<1>. QED  BY <1>1, <1>2, <1>3, <1>4

\* ControlInv, over every behaviour.
LEMMA ControlHolds == Spec => []ControlInv
<1>1. TypeOK /\ OwnershipInv /\ ControlInv /\ [Next]_vars => ControlInv'
  <2>. SUFFICES ASSUME TypeOK, OwnershipInv, ControlInv, [Next]_vars PROVE ControlInv'
    OBVIOUS
  <2>1. CASE UNCHANGED vars
    BY <2>1 DEF vars, lifeVars, audioVars, retainVars, orderVars, deleteVars, faultVars, ControlInv,
                HeardWhileLive, LastStops, FirstRetains, SomethingFailed, Priors, ClosingLast,
                DeletesCounted, RowThere, Buffers, Closed, TimelineEnd
  <2>2. CASE Next
    BY <2>1, <2>2, StartingKeepsControl, LivingKeepsControl, TeardownKeepsControl, DeletingKeepsControl
       DEF Next, Starting, Rest
  <2>. QED  BY <2>1, <2>2
<1>. QED  BY InitControl, <1>1, TypeCorrect, OwnershipHolds, PTL DEF Spec

-----------------------------------------------------------------------------
(* Once everything has ended, the row is ready and its audio is linked, or   *)
(* both are gone.                                                            *)

\* create() is the first to write the row, and nothing is stored before; a delete finds it.
RowFirst ==
  /\ created[1] \in {"none", "running"} => row.status = "absent"
  /\ row.status = "absent" => wav = <<>>
  /\ deleting = "row" => RowExists

\* The row's token names the last sitting that opened it, whether or not its call raised.
TokenOpened ==
  /\ row.token # None => created[row.token] \in {"opened", "error"}
  /\ \A s \in Sittings : created[s] = "opened" => s <= row.token

\* Somebody whose finish() the row will match is still to make it.
Responsible(s) == created[s] # "none" /\ pc[s] # "done" /\ (created[s] = "opened" => row.token = s)
LiveIsFinished == row.status = "live" => \E s \in Sittings : Responsible(s)

\* While the audio store works, a sitting that owes a key does not finish.
KeyHeld ==
  diskFaults = 0 =>
    \A s \in Sittings :
      keyPending[s] => /\ pc[s] \in {"first", "drain", "persist", "create", "finalize", "deferred"}
                       /\ pc[s] \in {"create", "finalize"} => retainOutage[s]
                       /\ retain[s] # "drop"

\* Stored audio is linked to its row, or a sitting owes the link; of a deleted recording, it is
\* about to be removed.
StoredIsOwed ==
  diskFaults = 0 /\ wav # <<>> =>
    /\ row.status = "deleted" => deleting = "again" \/ \E s \in Sittings : keyPending[s] \/ retain[s] = "drop"
    /\ RowExists => row.linked \/ \E s \in Sittings : keyPending[s]

SettlingInv == RowFirst /\ TokenOpened /\ LiveIsFinished /\ KeyHeld /\ StoredIsOwed

\* A step of a start, audio, a close or a shutdown: only the create() thread touches the row.
LEMMA StartingKeepsSettling ==
  ASSUME TypeOK, OwnershipInv, ControlInv, SettlingInv, NEW s \in Sittings,
         (s = 1 /\ StartFresh) \/ StartResume(s) \/ ReadOffset(s) \/ OpenRow(s) \/ OpenFault(s)
         \/ Ready(s) \/ StartFails(s) \/ Hear(s) \/ Close(s) \/ Shutdown(s)
  PROVE  SettlingInv'
<1>. USE DEF SettlingInv, TypeOK
<1>0. s \in Nat /\ s # 0 /\ 1 \in Sittings /\ \A r \in Sittings : r \in Nat /\ r # 0
  BY BoundsAssumption DEF Sittings
<1>. USE DEF StartFresh, StartResume, ReadOffset, OpenRow, OpenFault, Ready, StartFails, Hear, Close,
             Shutdown, CloseLive
<1>1. /\ UNCHANGED <<wav, keyPending, retainOutage, deleting, diskFaults>>
      /\ row'.linked = row.linked
      /\ \A r \in Sittings \ {s} : pc'[r] = pc[r] /\ created'[r] = created[r] /\ retain'[r] = retain[r]
      /\ retain'[s] = "drop" <=> retain[s] = "drop"
      /\ pc'[s] # pc[s] => pc[s] \in {"none", "offset", "open", "live"}
      /\ pc'[s] # "done" \/ pc'[s] = pc[s]
  <2>1. UNCHANGED <<wav, keyPending, retainOutage, deleting, diskFaults>>
    BY DEF retainVars, deleteVars, faultVars
  <2>2. row'.linked = row.linked
    BY DEF Opened, StoresOK, Row
  <2>3. \A r \in Sittings \ {s} : pc'[r] = pc[r] /\ created'[r] = created[r] /\ retain'[r] = retain[r]
    BY DEF lifeVars, retainVars, LifeOK, RetainOK
  <2>4. retain[s] = "drop" => pc[s] \in {"first", "persist"}
    BY DEF OwnershipInv, StepsInOrder
  <2>5. pc'[s] # pc[s] => pc[s] \in {"none", "offset", "open", "live"} /\ pc'[s] # "done"
    BY DEF MayStart, lifeVars, LifeOK
  <2>6. retain'[s] # retain[s] => pc[s] \in {"none", "offset", "open", "live"} /\ retain'[s] = "begin"
    BY DEF MayStart, retainVars, RetainOK
  <2>. QED  BY <2>1, <2>2, <2>3, <2>4, <2>5, <2>6
<1>. HIDE DEF StartFresh, StartResume, ReadOffset, OpenRow, OpenFault, Ready, StartFails, Hear, Close,
             Shutdown, CloseLive
<1>2. KeyHeld'
  <2>1. diskFaults = 0 /\ keyPending[s] => pc'[s] = pc[s]
    BY <1>1 DEF KeyHeld
  <2>. QED  BY <1>1, <2>1 DEF KeyHeld
<1>3. CASE UNCHANGED row /\ (created'[s] = created[s] \/ (created[s] = "none" /\ created'[s] = "running"))
  <2>1. RowFirst' /\ StoredIsOwed'
    BY <1>0, <1>1, <1>3 DEF RowFirst, StoredIsOwed, RowExists, StoresOK, Row
  <2>2. TokenOpened'
    BY <1>1, <1>3 DEF TokenOpened, StoresOK, Row
  <2>3. LiveIsFinished'
    <3>1. ASSUME NEW r \in Sittings, Responsible(r) PROVE Responsible(r)'
      BY <1>1, <1>3, <3>1 DEF Responsible
    <3>. QED  BY <1>3, <3>1 DEF LiveIsFinished
  <2>. QED  BY <1>2, <2>1, <2>2, <2>3
<1>4. CASE OpenRow(s) \/ OpenFault(s)
  <2>1. /\ created[s] = "running" /\ pc[s] # "done" /\ pc'[s] # "done"
        /\ \A r \in Sittings : created[r] = "opened" => r < s
        /\ row.token # s
        /\ s = 1 => row.status = "absent"
    BY <1>0, <1>1, <1>4, OpensLast DEF OpenRow, OpenFault, TokenOpened, RowFirst, OwnershipInv, StepsInOrder,
       TeardownDone
  <2>2. \/ /\ row'.status = "live" /\ row'.token = s /\ (s = 1 \/ RowExists)
           /\ created'[s] \in {"opened", "error"}
        \/ row' = row /\ created'[s] = "error"
        \/ row' = row /\ created'[s] = "gone" /\ ~RowExists /\ s # 1
    BY <1>4, <2>1 DEF OpenRow, OpenFault, Opened, StoresOK, Row, LifeOK
  <2>3. RowFirst'
    <3>1. created'[1] \in {"none", "running"} => s # 1 /\ row.status = "absent"
      BY <1>0, <1>1, <2>2 DEF RowFirst
    <3>. QED  BY <1>1, <2>2, <3>1 DEF RowFirst, RowExists
  <2>4. TokenOpened'
    <3>1. row'.token # None => created'[row'.token] \in {"opened", "error"}
      BY <1>1, <2>1, <2>2 DEF TokenOpened, StoresOK, Row
    <3>2. \A r \in Sittings : created'[r] = "opened" => r <= row'.token
      BY <1>0, <1>1, <2>1, <2>2 DEF TokenOpened, StoresOK, Row
    <3>. QED  BY <3>1, <3>2 DEF TokenOpened
  <2>5. LiveIsFinished'
    <3>1. CASE created'[s] = "gone"
      <4>1. row'.status # "live"
        BY <2>2, <3>1 DEF RowExists
      <4>. QED  BY <4>1 DEF LiveIsFinished
    <3>2. CASE created'[s] # "gone"
      <4>1. Responsible(s)'
        BY <2>1, <2>2, <3>2 DEF Responsible, StoresOK, Row
      <4>. QED  BY <4>1 DEF LiveIsFinished
    <3>. QED  BY <3>1, <3>2
  <2>6. StoredIsOwed'
    BY <1>1, <2>1, <2>2 DEF StoredIsOwed, RowFirst, RowExists, StoresOK, Row
  <2>. QED  BY <1>2, <2>3, <2>4, <2>5, <2>6
<1>5. ASSUME ~(OpenRow(s) \/ OpenFault(s))
      PROVE  UNCHANGED row /\ (created'[s] = created[s] \/ (created[s] = "none" /\ created'[s] = "running"))
  <2>1. UNCHANGED row
    BY <1>5 DEF StartFresh, StartResume, ReadOffset, Ready, StartFails, Hear, Close, Shutdown, CloseLive
  <2>2. pc[s] \in {"none", "offset"} => created[s] = "none"
    BY DEF OwnershipInv, StepsInOrder
  <2>3. CASE (s = 1 /\ StartFresh) \/ StartResume(s) \/ ReadOffset(s)
    <3>1. pc[s] \in {"none", "offset"}
      BY <2>3 DEF StartFresh, StartResume, ReadOffset, MayStart
    <3>2. created' = [created EXCEPT ![s] = "running"] \/ UNCHANGED created
      BY <2>3 DEF StartFresh, StartResume, ReadOffset
    <3>3. created'[s] = created[s] \/ created'[s] = "running"
      BY <3>2 DEF LifeOK
    <3>. QED  BY <2>1, <2>2, <3>1, <3>3
  <2>4. CASE Ready(s) \/ StartFails(s) \/ Hear(s) \/ Close(s) \/ Shutdown(s)
    <3>1. UNCHANGED created
      BY <2>4 DEF Ready, StartFails, Hear, Close, Shutdown, CloseLive, lifeVars
    <3>. QED  BY <2>1, <3>1
  <2>. QED  BY <1>5, <2>3, <2>4
<1>. QED  BY <1>3, <1>4, <1>5

\* While the audio store works, a teardown links what it stored, drops it or still owes it.
LEMMA TeardownKeepsOwed ==
  ASSUME TypeOK, OwnershipInv, ControlInv, SettlingInv, NEW s \in Sittings,
         Storing(s) \/ Finalizing(s) \/ LinkFault(s) \/ FinalizeFault(s),
         diskFaults = 0, UNCHANGED diskFaults
  PROVE  KeyHeld' /\ StoredIsOwed'
<1>. USE DEF SettlingInv, TypeOK
<1>1. keyPending[s] \/ retain[s] \in {"put", "link", "drop"} => created[s] = "opened"
  BY DEF ControlInv, Buffers, HeardWhileLive, NotBegun, OwnershipInv, StepsInOrder, Closed
<1>2. retain[s] # "idle" => pc[s] \in {"first", "persist"}
  BY DEF OwnershipInv, StepsInOrder
<1>3. /\ \A r \in Sittings \ {s} : /\ pc'[r] = pc[r] /\ retain'[r] = retain[r]
                                   /\ keyPending'[r] = keyPending[r] /\ retainOutage'[r] = retainOutage[r]
      /\ UNCHANGED deleting
  <2>1. TeardownMove(s)
    BY StoringMoves, FinalizingMoves DEF Storing, Finalizing
  <2>2. \A r \in Sittings \ {s} : keyPending'[r] = keyPending[r] /\ retainOutage'[r] = retainOutage[r]
    BY DEF Storing, Finalizing, AwaitPriorRetain, RetainNothing, RetainRead, RetainWrite, LinkKey, DropOrphan,
           LinkFault, Persist, AwaitCreate, Finalize, Finish, Retry, FinalizeFault, retainVars, RetainOK
  <2>3. UNCHANGED deleting
    BY DEF Storing, Finalizing, AwaitPriorRetain, RetainNothing, RetainRead, RetainWrite, LinkKey, DropOrphan,
           LinkFault, Persist, AwaitCreate, Finalize, Finish, Retry, FinalizeFault, deleteVars
  <2>. QED  BY <2>1, <2>2, <2>3 DEF TeardownMove
<1>4. KeyHeld'
  <2>. SUFFICES ASSUME keyPending'[s]
                PROVE  /\ pc'[s] \in {"first", "drain", "persist", "create", "finalize", "deferred"}
                       /\ pc'[s] \in {"create", "finalize"} => retainOutage'[s]
                       /\ retain'[s] # "drop"
    BY <1>3 DEF KeyHeld
  <2>. USE DEF RetainOK, LifeOK, KeyHeld
  <2>1. CASE AwaitPriorRetain(s) \/ RetainNothing(s) \/ RetainRead(s)
    BY <2>1, <1>2 DEF AwaitPriorRetain, RetainNothing, RetainRead, Retaining, RetainEnds, lifeVars
  <2>2. CASE RetainWrite(s)
    BY <2>2, <1>2 DEF RetainWrite, lifeVars
  <2>3. CASE LinkKey(s) \/ DropOrphan(s)
    BY <2>3 DEF LinkKey, DropOrphan
  <2>4. CASE LinkFault(s)
    BY <2>4, <1>2 DEF LinkFault, Linking, Retaining, RetainEnds
  <2>5. CASE Persist(s) \/ Retry(s)
    BY <2>5 DEF Persist, Retry
  <2>6. CASE AwaitCreate(s)
    BY <2>6, <1>1, <1>2 DEF AwaitCreate, Leave, retainVars
  <2>7. CASE Finalize(s)
    BY <2>7, <1>2 DEF Finalize, HeldBack, Leave, retainVars
  <2>8. CASE Finish(s) \/ FinalizeFault(s)
    BY <2>8, <1>2 DEF Finish, FinalizeFault, Leave, retainVars
  <2>. QED  BY <2>1, <2>2, <2>3, <2>4, <2>5, <2>6, <2>7, <2>8 DEF Storing, Finalizing
<1>5. StoredIsOwed'
  <2>1. CASE RetainWrite(s)
    <3>1. keyPending'[s]
      BY <2>1 DEF RetainWrite, RetainOK
    <3>. QED  BY <3>1 DEF StoredIsOwed
  <2>2. CASE LinkKey(s)
    <3>1. retain[s] = "link" \/ keyPending[s]
      BY <2>2 DEF LinkKey, Linking
    <3>2. CASE RowExists
      <4>1. row'.linked /\ row'.status = row.status
        BY <2>2, <3>2 DEF LinkKey, RowGone, StoresOK, Row
      <4>. QED  BY <3>2, <4>1 DEF StoredIsOwed, RowExists
    <3>3. CASE ~RowExists
      <4>1. retain'[s] = "drop" /\ UNCHANGED row
        BY <1>1, <2>2, <3>1, <3>3 DEF LinkKey, RowGone, RetainOK
      <4>. QED  BY <3>3, <4>1 DEF StoredIsOwed, RowExists
    <3>. QED  BY <3>2, <3>3
  <2>3. CASE DropOrphan(s)
    BY <2>3 DEF DropOrphan, StoredIsOwed
  <2>4. CASE ~RetainWrite(s) /\ ~LinkKey(s) /\ ~DropOrphan(s)
    <3>1. UNCHANGED <<wav, keyPending>> /\ row'.linked = row.linked /\ (retain[s] = "drop" => retain'[s] = "drop")
      <4>1. UNCHANGED <<wav, keyPending>>
        BY <2>4 DEF Storing, Finalizing, AwaitPriorRetain, RetainNothing, RetainRead,
           LinkFault, Persist, AwaitCreate, Finalize, Finish, Retry, FinalizeFault, retainVars
      <4>2. row'.linked = row.linked
        BY <2>4 DEF Storing, Finalizing, AwaitPriorRetain, RetainNothing, RetainRead,
           LinkFault, Persist, AwaitCreate, Finalize, Finish, Retry, FinalizeFault, StoresOK, Row
      <4>3. retain[s] = "drop" => retain'[s] = "drop"
        <5>1. retain[s] = "drop" => ~AwaitPriorRetain(s)
          BY <1>2 DEF AwaitPriorRetain, ControlInv, Priors
        <5>. QED
          BY <2>4, <1>2, <5>1 DEF Storing, Finalizing, RetainNothing, RetainRead, Retaining, Linking,
             LinkFault, Persist, AwaitCreate, Finalize, Finish, Retry, FinalizeFault, retainVars, RetainEnds
      <4>. QED  BY <4>1, <4>2, <4>3
    <3>2. row'.status = row.status \/ (RowExists /\ row'.status = "ready")
      BY <2>4, StoringMoves, FinalizingMoves DEF Storing, Finalizing, TeardownMove
    <3>. QED  BY <1>3, <3>1, <3>2 DEF StoredIsOwed, RowExists
  <2>. QED  BY <2>1, <2>2, <2>3, <2>4
<1>. QED  BY <1>4, <1>5

\* A teardown leaves the row live only if it is for somebody else to finish.
LEMMA TeardownKeepsSettling ==
  ASSUME TypeOK, OwnershipInv, ControlInv, SettlingInv, NEW s \in Sittings,
         Storing(s) \/ Finalizing(s) \/ Faulting(s)
  PROVE  SettlingInv'
<1>. USE DEF SettlingInv, TypeOK
<1>0. s \in Nat /\ s # 0 /\ 1 \in Sittings /\ \A r \in Sittings : r \in Nat /\ r # 0
  BY BoundsAssumption DEF Sittings
<1>1. TeardownMove(s)
  BY StoringMoves, FinalizingMoves DEF Storing, Finalizing, Faulting
<1>2. /\ UNCHANGED created /\ row'.token = row.token
      /\ row'.status = row.status \/ (RowExists /\ row'.status = "ready")
      /\ \A r \in Sittings \ {s} : pc'[r] = pc[r] /\ retain'[r] = retain[r]
  BY <1>1 DEF TeardownMove, RowExists
<1>3. keyPending[s] \/ retain[s] \in {"put", "link", "drop"} => created[s] = "opened"
  BY DEF ControlInv, Buffers, HeardWhileLive, NotBegun, OwnershipInv, StepsInOrder, Closed
<1>4. RowFirst'
  <2>1. wav' = wav \/ retain[s] = "put" \/ wav' = <<>>
    BY DEF Storing, Finalizing, Faulting, AwaitPriorRetain, RetainNothing, RetainRead, RetainWrite, LinkKey,
         DropOrphan, RetainFault, LinkFault, Persist, AwaitCreate, Finalize, Finish, Retry, FinalizeFault
  <2>2. retain[s] = "put" => row.status # "absent"
    BY <1>3 DEF ControlInv, RowThere
  <2>3. UNCHANGED deleting
    BY DEF Storing, Finalizing, Faulting, AwaitPriorRetain, RetainNothing, RetainRead, RetainWrite, LinkKey,
         DropOrphan, RetainFault, LinkFault, Persist, AwaitCreate, Finalize, Finish, Retry, FinalizeFault, deleteVars
  <2>. QED  BY <1>0, <1>2, <2>1, <2>2, <2>3 DEF RowFirst, RowExists
<1>5. TokenOpened'
  BY <1>2 DEF TokenOpened
<1>6. LiveIsFinished'
  <2>. SUFFICES ASSUME row'.status = "live", \A r \in Sittings : ~Responsible(r)' PROVE FALSE
    BY DEF LiveIsFinished
  <2>1. row.status = "live" /\ Responsible(s)
    <3>1. row.status = "live"
      BY <1>2
    <3>2. PICK r \in Sittings : Responsible(r)
      BY <3>1 DEF LiveIsFinished
    <3>3. r = s
      BY <1>2, <3>2 DEF Responsible
    <3>. QED  BY <3>1, <3>2, <3>3
  <2>2. pc'[s] = "done" /\ pc[s] # "done" /\ created[s] # "none" /\ OwnsRow(s)
    BY <1>2, <2>1 DEF Responsible, OwnsRow
  <2>3. CASE Finish(s)
    BY <2>1, <2>2, <2>3 DEF Finish, RowExists, StoresOK, Row
  <2>4. CASE Finalize(s)
    <3>1. PICK t \in Sittings : created[t] # "none" /\ ~Closed(t)
      BY <2>2, <2>4 DEF Finalize, Leave, ResumedLive, LifeOK
    <3>2. Closed(s)
      BY <1>1 DEF TeardownMove
    <3>3. pc[t] # "none" /\ t > s
      BY <1>0, <3>1, <3>2 DEF OwnershipInv, StepsInOrder, Sequential, Closed
    <3>4. ~Responsible(t)
      BY <1>2, <3>1, <3>2 DEF Responsible
    <3>5. created[t] = "opened" /\ row.token # t
      BY <3>1, <3>4 DEF Responsible, Closed
    <3>6. row.token \in Sittings /\ row.token > t /\ created[row.token] # "none"
      <4>1. t <= row.token
        BY <3>1, <3>5 DEF TokenOpened
      <4>2. row.token \in OrNone
        BY DEF StoresOK, Row
      <4>3. row.token \in Sittings /\ row.token > t
        <5>1. t \in Nat /\ t # 0 /\ row.token \in Nat /\ row.token # t
          <6>1. t \in Nat /\ t # 0
            BY <1>0, <3>1
          <6>2. row.token \in Nat
            BY <4>2, BoundsAssumption DEF Sittings
          <6>. QED  BY <3>5, <6>1, <6>2
        <5>2. row.token > t
          BY <4>1, <5>1
        <5>. QED  BY <4>2, <5>1, <5>2
      <4>4. created[row.token] \in {"opened", "error"}
        BY <1>0, <4>3 DEF TokenOpened
      <4>. QED  BY <4>3, <4>4
    <3>7. pc[row.token] # "none"
      BY <3>6 DEF OwnershipInv, StepsInOrder
    <3>. QED  BY <1>0, <3>1, <3>6, <3>7 DEF OwnershipInv, Sequential
  <2>5. CASE AwaitCreate(s)
    BY <2>2, <2>5 DEF AwaitCreate, LifeOK
  <2>6. ~(Finish(s) \/ Finalize(s) \/ AwaitCreate(s)) => pc'[s] = pc[s] \/ pc'[s] # "done"
    BY DEF Storing, Finalizing, Faulting, AwaitPriorRetain, RetainNothing, RetainRead, RetainWrite, LinkKey,
         DropOrphan, RetainFault, LinkFault, Persist, Retry, FinalizeFault, RetainEnds, Leave, lifeVars, LifeOK
  <2>. QED  BY <2>2, <2>3, <2>4, <2>5, <2>6
<1>7. CASE diskFaults' # 0
  <2>1. KeyHeld' /\ StoredIsOwed'
    BY <1>7 DEF KeyHeld, StoredIsOwed
  <2>. QED  BY <1>4, <1>5, <1>6, <2>1
<1>8. CASE diskFaults' = 0
  <2>1. diskFaults' = diskFaults \/ (RetainFault(s) /\ diskFaults' # 0)
    <3>1. Storing(s) \/ Finalizing(s) \/ LinkFault(s) \/ FinalizeFault(s) => UNCHANGED diskFaults
      BY DEF Storing, Finalizing, AwaitPriorRetain, RetainNothing, RetainRead, RetainWrite, LinkKey,
             DropOrphan, LinkFault, Persist, AwaitCreate, Finalize, Finish, Retry, FinalizeFault, faultVars
    <3>2. RetainFault(s) => diskFaults' # 0
      BY DEF RetainFault, CountsOK
    <3>. QED  BY <3>1, <3>2 DEF Faulting
  <2>3. ~RetainFault(s)
    <3>. SUFFICES ASSUME RetainFault(s) PROVE FALSE
      OBVIOUS
    <3>1. diskFaults' = diskFaults + 1
      BY DEF RetainFault
    <3>2. diskFaults \in Nat
      BY DEF CountsOK
    <3>. QED  BY <1>8, <3>1, <3>2
  <2>2. Storing(s) \/ Finalizing(s) \/ LinkFault(s) \/ FinalizeFault(s)
    BY <2>3 DEF Faulting
  <2>. QED  BY <1>4, <1>5, <1>6, <1>8, <2>1, <2>2, TeardownKeepsOwed
<1>. QED  BY <1>7, <1>8

\* A step of a History delete.
LEMMA DeletingKeepsSettling ==
  ASSUME TypeOK, SettlingInv, Deleting
  PROVE  SettlingInv'
<1>. USE DEF SettlingInv, TypeOK, Deleting, DeleteAudio, DeleteRow, DeleteFault, DeleteAudioAgain
<1>1. UNCHANGED <<created, pc, retain, keyPending, retainOutage, diskFaults>>
  BY DEF lifeVars, retainVars, faultVars
<1>2. row'.token = row.token /\ row'.linked = row.linked
      /\ (row'.status = row.status \/ (row'.status = "deleted" /\ deleting = "row" /\ deleting' = "again"))
  BY DEF StoresOK, Row
<1>3. RowFirst'
  BY <1>1, <1>2 DEF RowFirst, RowExists
<1>4. TokenOpened' /\ KeyHeld'
  BY <1>1, <1>2 DEF TokenOpened, KeyHeld
<1>5. LiveIsFinished'
  BY <1>1, <1>2 DEF LiveIsFinished, Responsible
<1>6. StoredIsOwed'
  BY <1>1, <1>2 DEF StoredIsOwed, RowFirst, RowExists
<1>. QED  BY <1>3, <1>4, <1>5, <1>6

\* SettlingInv, over every behaviour.
LEMMA SettlingHolds == Spec => []SettlingInv
<1>1. Init => SettlingInv
  BY BoundsAssumption DEF Init, SettlingInv, RowFirst, TokenOpened, LiveIsFinished, KeyHeld, StoredIsOwed,
                          RowExists, Sittings
<1>2. TypeOK /\ OwnershipInv /\ ControlInv /\ SettlingInv /\ [Next]_vars => SettlingInv'
  <2>. SUFFICES ASSUME TypeOK, OwnershipInv, ControlInv, SettlingInv, [Next]_vars PROVE SettlingInv'
    OBVIOUS
  <2>1. CASE UNCHANGED vars
    BY <2>1 DEF vars, lifeVars, retainVars, deleteVars, faultVars, SettlingInv, RowFirst, TokenOpened,
                LiveIsFinished, KeyHeld, StoredIsOwed, Responsible, RowExists
  <2>2. CASE Next
    BY <2>1, <2>2, StartingKeepsSettling, TeardownKeepsSettling, DeletingKeepsSettling
       DEF Next, Starting, Rest
  <2>. QED  BY <2>1, <2>2
<1>. QED  BY <1>1, <1>2, TypeCorrect, OwnershipHolds, ControlHolds, PTL DEF Spec

\* Whatever the order in which sittings, retries and deletes end, nobody leaves the row to another
\* that left it too, and while the audio store works the stored audio is linked to its row.
THEOREM RowSettles == Spec => []SettledRowIsReady
<1>1. TypeOK /\ OwnershipInv /\ SettlingInv => SettledRowIsReady
  <2>. SUFFICES ASSUME TypeOK, OwnershipInv, SettlingInv, Settled, RowExists, diskFaults = 0
                PROVE  row.status = "ready" /\ (wav # <<>> => row.linked)
    BY DEF SettledRowIsReady
  <2>1. row.status # "live"
    BY DEF SettlingInv, LiveIsFinished, Responsible, Settled, OwnershipInv, StepsInOrder
  <2>2. \A s \in Sittings : ~keyPending[s]
    BY DEF SettlingInv, KeyHeld, Settled
  <2>. QED  BY <2>1, <2>2 DEF RowExists, SettlingInv, StoredIsOwed
<1>. QED  BY <1>1, TypeCorrect, OwnershipHolds, SettlingHolds, PTL

\* Wherever a delete's steps fall among the retains of the sittings, the audio they store goes with
\* the row, while the audio store works.
THEOREM NoOrphanIsLeft == Spec => []NoOrphanAudio
<1>1. TypeOK /\ OwnershipInv /\ SettlingInv => NoOrphanAudio
  <2>. SUFFICES ASSUME TypeOK, OwnershipInv, SettlingInv, Settled, row.status = "deleted", diskFaults = 0,
                       wav # <<>>
                PROVE  FALSE
    BY DEF NoOrphanAudio
  <2>1. \A s \in Sittings : ~keyPending[s]
    BY DEF SettlingInv, KeyHeld, Settled
  <2>2. \A s \in Sittings : retain[s] # "drop"
    BY DEF OwnershipInv, StepsInOrder, Settled
  <2>. QED  BY <2>1, <2>2 DEF SettlingInv, StoredIsOwed, Settled
<1>. QED  BY <1>1, TypeCorrect, OwnershipHolds, SettlingHolds, PTL

-----------------------------------------------------------------------------
(* Where the stored audio lies, and what is still in a buffer.               *)

\* No more faults than a sitting's two attempts at storing can take, and no delete.
Spared == deletes = 0 /\ FaultsSpared

\* The sitting has audio it has not stored, other than what arrives during a shutdown.
Unkept(s) == kept[s] < heard[s] /\ stopping # s

\* The retry loop holds a sitting only between its retain and its finish.
RetriedLate == retrying # None => pc[retrying] \in {"persist", "create", "finalize", "finish"}

\* A buffer is stored before its sitting's finalize, and before that of any later one: who starts
\* meanwhile is ordered behind it, and none asks the store where the audio ends.
UnkeptInTurn ==
  \A s \in Sittings : Unkept(s) =>
    /\ pc[s] \in {"live", "first", "drain", "persist"} /\ retrying # s
    /\ Closed(s) => closing # None /\ s <= closing
    /\ \A t \in Sittings : t > s =>
         /\ pc[t] # "offset"
         /\ created[t] # "none" /\ ~failed[t] => s <= priorTeardown[t]

\* Between a retain's read and its write nobody else writes.
PutIsLatest == \A s \in Sittings : retain[s] = "put" => existing[s] = wav

OnTimeline ==
  \A p \in DOMAIN wav : wav[p][2] \in 1..kept[wav[p][1]] /\ p = offset[wav[p][1]] + wav[p][2]

KeptIsStored ==
  \A s \in Sittings : \A i \in 1..kept[s] : offset[s] + i \in DOMAIN wav /\ wav[offset[s] + i] = <<s, i>>

\* Each sitting's timeline begins where the last of the earlier ones that heard anything ends.
BeginsAtEnd(s) ==
  /\ \A r \in Sittings : r < s => TimelineEnd(r) <= offset[s]
  /\ offset[s] = 0 \/ \E r \in Sittings : r < s /\ heard[r] > 0 /\ TimelineEnd(r) = offset[s]

Offsets == \A s \in Sittings : IF created[s] = "none" THEN offset[s] = 0 ELSE BeginsAtEnd(s)

StoredInv == UnkeptInTurn /\ PutIsLatest /\ OnTimeline /\ KeptIsStored /\ Offsets

AudioInv == RetriedLate /\ (Spared => StoredInv)

\* The chunks a retain appends, one by one.
LEMMA ChunksAre ==
  ASSUME NEW s \in Sittings, NEW from \in Nat, NEW to \in Nat, from < to
  PROVE  /\ ChunksOf(s, from, to) \in Seq(Chunk)
         /\ Len(ChunksOf(s, from, to)) = to - from
         /\ \A i \in 1..(to - from) : ChunksOf(s, from, to)[i] = <<s, from + i>>
BY ChunksType, SMT DEF ChunksOf

\* Once a sitting waits for nobody, every earlier one has stored what it heard.
LEMMA KeptBefore ==
  ASSUME TypeOK, ControlInv, UnkeptInTurn, NEW s \in Sittings, pc[s] # "none",
         pc[s] = "offset" \/ (created[s] # "none" /\ ~failed[s] /\ priorTeardown[s] = None),
         NEW r \in Sittings, r < s
  PROVE  kept[r] = heard[r]
<1>. SUFFICES ASSUME kept[r] # heard[r] PROVE FALSE
  OBVIOUS
<1>1. r \in Nat /\ r # 0
  BY BoundsAssumption DEF Sittings
<1>2. kept[r] < heard[r]
  BY DEF TypeOK, AudioOK
<1>3. stopping # r
  BY <1>1 DEF ControlInv, LastStops
<1>. QED  BY <1>1, <1>2, <1>3 DEF UnkeptInTurn, Unkept

\* And a sitting that has something to store is followed by none that has stored anything.
LEMMA NoneAfter ==
  ASSUME TypeOK, OwnershipInv, ControlInv, UnkeptInTurn, NEW s \in Sittings, kept[s] < heard[s],
         NEW u \in Sittings, s < u
  PROVE  kept[u] = 0 /\ retain[u] # "put"
<1>1. s \in Nat /\ s # 0
  BY BoundsAssumption DEF Sittings
<1>2. heard[u] = 0 => kept[u] = 0 /\ retain[u] # "put"
  BY DEF ControlInv, Buffers, TypeOK, AudioOK
<1>3. CASE stopping = s
  BY <1>1, <1>2, <1>3 DEF ControlInv, LastStops, HeardWhileLive, NotBegun
<1>4. CASE created[u] = "none" \/ failed[u]
  <2>1. pc[u] \in NotBegun \/ failed[u]
    BY <1>4 DEF OwnershipInv, StepsInOrder, Closed, NotBegun, TypeOK, LifeOK, Pc
  <2>. QED  BY <1>2, <2>1 DEF ControlInv, HeardWhileLive
<1>5. CASE stopping # s /\ created[u] # "none" /\ ~failed[u]
  <2>1. priorTeardown[u] # None
    BY <1>1, <1>5 DEF UnkeptInTurn, Unkept
  <2>. QED  BY <2>1 DEF ControlInv, Priors
<1>. QED  BY <1>3, <1>4, <1>5

\* Where the stored audio ends.
LEMMA StoredEnds ==
  ASSUME TypeOK, OwnershipInv, ControlInv, OnTimeline, KeptIsStored, Offsets, NEW s \in Sittings,
         \A r \in Sittings : r < s => kept[r] = heard[r],
         \A u \in Sittings : s < u => kept[u] = 0
  PROVE  /\ \A r \in Sittings : r < s => TimelineEnd(r) <= Len(wav)
         /\ \/ Len(wav) = 0
            \/ kept[s] > 0 /\ Len(wav) = offset[s] + kept[s]
            \/ \E r \in Sittings : r < s /\ heard[r] > 0 /\ TimelineEnd(r) = Len(wav)
<1>. USE DEF TypeOK
<1>0. \A r \in Sittings : r \in Nat /\ r # 0
  BY BoundsAssumption DEF Sittings
<1>1. /\ wav \in Seq(Chunk) /\ Len(wav) \in Nat /\ DOMAIN wav = 1..Len(wav)
      /\ \A r \in Sittings : offset[r] \in Nat /\ heard[r] \in Nat /\ kept[r] \in Nat
  BY DEF StoresOK, AudioOK
<1>2. ASSUME NEW r \in Sittings, kept[r] > 0 PROVE offset[r] + kept[r] \in 1..Len(wav)
  BY <1>1, <1>2 DEF KeptIsStored
<1>3. ASSUME NEW r \in Sittings, r < s, heard[r] > 0 PROVE TimelineEnd(r) <= Len(wav)
  BY <1>1, <1>2, <1>3 DEF TimelineEnd
<1>4. ASSUME NEW r \in Sittings, r < s PROVE TimelineEnd(r) <= Len(wav)
  <2>1. CASE heard[r] > 0
    BY <1>3, <1>4, <2>1
  <2>2. CASE heard[r] = 0 /\ offset[r] = 0
    BY <1>1, <2>2 DEF TimelineEnd
  <2>3. CASE heard[r] = 0 /\ offset[r] # 0
    <3>1. PICK q \in Sittings : q < r /\ heard[q] > 0 /\ TimelineEnd(q) = offset[r]
      BY <2>3 DEF Offsets, BeginsAtEnd
    <3>2. TimelineEnd(q) <= Len(wav)
      BY <1>0, <1>3, <1>4, <3>1
    <3>. QED  BY <1>1, <2>3, <3>1, <3>2 DEF TimelineEnd
  <2>. QED  BY <1>1, <2>1, <2>2, <2>3
<1>5. ASSUME Len(wav) # 0
      PROVE  \/ kept[s] > 0 /\ Len(wav) = offset[s] + kept[s]
             \/ \E r \in Sittings : r < s /\ heard[r] > 0 /\ TimelineEnd(r) = Len(wav)
  <2>. DEFINE q == wav[Len(wav)][1]
              i == wav[Len(wav)][2]
  <2>1. Len(wav) \in 1..Len(wav) /\ q \in Sittings /\ i \in Nat
    BY <1>1, <1>5 DEF Chunk
  <2>2. i \in 1..kept[q] /\ Len(wav) = offset[q] + i
    BY <1>1, <2>1 DEF OnTimeline
  <2>. HIDE DEF q, i
  <2>3. kept[q] > 0 /\ Len(wav) = offset[q] + kept[q]
    <3>1. kept[q] > 0
      BY <1>1, <2>1, <2>2
    <3>2. offset[q] + kept[q] <= Len(wav)
      BY <1>1, <1>2, <2>1, <3>1
    <3>. QED  BY <1>1, <2>1, <2>2, <3>1, <3>2
  <2>4. q <= s
    BY <1>0, <2>1, <2>3
  <2>5. CASE q = s
    BY <2>3, <2>5
  <2>6. CASE q < s
    BY <1>1, <2>1, <2>3, <2>6 DEF TimelineEnd
  <2>. QED  BY <1>0, <2>1, <2>4, <2>5, <2>6
<1>. QED  BY <1>4, <1>5

\* A retain writes behind what is stored, where its sitting's timeline says.
LEMMA PutAtEnd ==
  ASSUME TypeOK, OwnershipInv, ControlInv, StoredInv, NEW s \in Sittings, retain[s] = "put"
  PROVE  /\ Len(wav) = offset[s] + kept[s]
         /\ \A u \in Sittings : u # s => retain[u] # "put"
<1>. USE DEF TypeOK, StoredInv
<1>0. \A r \in Sittings : r \in Nat /\ r # 0
  BY BoundsAssumption DEF Sittings
<1>1. ASSUME NEW u \in Sittings, retain[u] = "put"
      PROVE  /\ kept[u] < heard[u] /\ pc[u] # "none" /\ created[u] # "none" /\ ~failed[u]
             /\ priorTeardown[u] = None
  <2>1. kept[u] < taken[u] /\ taken[u] <= heard[u] /\ heard[u] > 0 /\ pc[u] \in {"first", "persist"}
    BY <1>1 DEF ControlInv, Buffers, AudioOK, OwnershipInv, StepsInOrder
  <2>2. kept[u] < heard[u]
    BY <2>1 DEF AudioOK
  <2>3. ~failed[u]
    BY <2>1 DEF ControlInv, HeardWhileLive
  <2>4. created[u] # "none"
    BY <2>1, <2>3 DEF OwnershipInv, StepsInOrder, Closed
  <2>5. priorTeardown[u] = None
    BY <1>1 DEF ControlInv, Priors
  <2>. QED  BY <2>1, <2>2, <2>3, <2>4, <2>5
<1>2. \A r \in Sittings : r < s => kept[r] = heard[r]
  BY <1>1, KeptBefore
<1>3. \A u \in Sittings : s < u => kept[u] = 0 /\ retain[u] # "put"
  BY <1>1, NoneAfter
<1>4. \A r \in Sittings : r < s => retain[r] # "put"
  BY <1>1, <1>2 DEF AudioOK
<1>5. /\ \A r \in Sittings : r < s => TimelineEnd(r) <= Len(wav)
      /\ \/ Len(wav) = 0
         \/ kept[s] > 0 /\ Len(wav) = offset[s] + kept[s]
         \/ \E r \in Sittings : r < s /\ heard[r] > 0 /\ TimelineEnd(r) = Len(wav)
  BY <1>2, <1>3, StoredEnds
<1>6. /\ BeginsAtEnd(s) /\ Len(wav) \in Nat
      /\ offset[s] \in Nat /\ kept[s] \in Nat /\ \A r \in Sittings : TimelineEnd(r) \in Nat
  <2>1. BeginsAtEnd(s)
    BY <1>1 DEF Offsets
  <2>2. Len(wav) \in Nat
    BY DEF StoresOK
  <2>3. offset[s] \in Nat /\ kept[s] \in Nat /\ \A r \in Sittings : TimelineEnd(r) \in Nat
    BY DEF AudioOK, TimelineEnd
  <2>. QED  BY <2>1, <2>2, <2>3
<1>7. Len(wav) = offset[s] + kept[s]
  <2>1. CASE kept[s] > 0
    <3>1. offset[s] + kept[s] <= Len(wav)
      BY <1>6, <2>1 DEF KeptIsStored, StoresOK
    <3>2. \A r \in Sittings : r < s => TimelineEnd(r) <= offset[s]
      BY <1>6 DEF BeginsAtEnd
    <3>. QED  BY <1>5, <1>6, <2>1, <3>1, <3>2
  <2>2. CASE kept[s] = 0
    <3>1. offset[s] <= Len(wav)
      BY <1>5, <1>6 DEF BeginsAtEnd
    <3>2. Len(wav) <= offset[s]
      BY <1>5, <1>6, <2>2 DEF BeginsAtEnd
    <3>. QED  BY <1>6, <2>2, <3>1, <3>2
  <2>. QED  BY <1>6, <2>1, <2>2
<1>. QED  BY <1>0, <1>3, <1>4, <1>7

\* Nobody starts while a sitting is open.
LEMMA NobodyAfter ==
  ASSUME TypeOK, OwnershipInv, ControlInv, NEW s \in Sittings, ~Closed(s), NEW u \in Sittings, s < u
  PROVE  pc[u] = "none" /\ created[u] = "none" /\ heard[u] = 0 /\ ~Unkept(u)
<1>1. pc[u] = "none"
  BY DEF OwnershipInv, Sequential
<1>2. created[u] = "none" /\ heard[u] = 0
  BY <1>1 DEF OwnershipInv, StepsInOrder, ControlInv, HeardWhileLive, NotBegun
<1>. QED  BY <1>1, <1>2 DEF Unkept, TypeOK, AudioOK

\* What no step before a teardown touches.
StartingSpares(s) ==
  /\ UNCHANGED <<wav, kept, existing, retrying>>
  /\ Spared' => Spared
  /\ \A r \in Sittings \ {s} : /\ pc'[r] = pc[r] /\ created'[r] = created[r] /\ failed'[r] = failed[r]
                               /\ offset'[r] = offset[r] /\ heard'[r] = heard[r]
                               /\ priorTeardown'[r] = priorTeardown[r]
  /\ \A r \in Sittings : retain'[r] = "put" => retain[r] = "put"
  /\ pc'[s] = pc[s] \/ pc[s] \in NotBegun \cup {"live"}
  /\ offset'[s] = offset[s] \/ heard[s] = 0

\* Every step before a teardown does no more.
LEMMA StartingSpared ==
  ASSUME TypeOK, OwnershipInv, ControlInv, NEW s \in Sittings,
         (s = 1 /\ StartFresh) \/ StartResume(s) \/ ReadOffset(s) \/ OpenRow(s) \/ OpenFault(s)
         \/ Ready(s) \/ StartFails(s) \/ Hear(s) \/ Close(s) \/ Shutdown(s)
  PROVE  StartingSpares(s)
<1>. USE DEF TypeOK, StartFresh, StartResume, ReadOffset, OpenRow, OpenFault, Ready, StartFails, Hear, Close,
             Shutdown, CloseLive
<1>1. UNCHANGED <<wav, kept, existing, retrying, deletes, diskFaults, writeFaults>>
  BY DEF audioVars, retainVars, orderVars, deleteVars, faultVars
<1>2. Spared' => Spared
  BY <1>1 DEF Spared, FaultsSpared
<1>3. \A r \in Sittings \ {s} : pc'[r] = pc[r] /\ created'[r] = created[r] /\ failed'[r] = failed[r]
  BY DEF lifeVars, LifeOK
<1>4. \A r \in Sittings \ {s} : offset'[r] = offset[r] /\ heard'[r] = heard[r]
  BY DEF audioVars, AudioOK
<1>5. \A r \in Sittings \ {s} : priorTeardown'[r] = priorTeardown[r]
  BY DEF orderVars, OrderOK
<1>6. \A r \in Sittings : retain'[r] = "put" => retain[r] = "put"
  BY DEF retainVars, RetainOK
<1>7. pc'[s] = pc[s] \/ pc[s] \in NotBegun \cup {"live"}
  BY DEF lifeVars, LifeOK, MayStart, NotBegun
<1>8. offset'[s] = offset[s] \/ heard[s] = 0
  <2>1. offset'[s] = offset[s] \/ pc[s] \in NotBegun
    BY DEF audioVars, AudioOK, MayStart, NotBegun
  <2>. QED  BY <2>1 DEF ControlInv, HeardWhileLive
<1>. QED  BY <1>1, <1>2, <1>3, <1>4, <1>5, <1>6, <1>7, <1>8 DEF StartingSpares

\* So it leaves what is stored where it was.
LEMMA StartingKeepsStored ==
  ASSUME TypeOK, OwnershipInv, ControlInv, AudioInv, NEW s \in Sittings, StartingSpares(s)
  PROVE  RetriedLate' /\ (Spared' => StoredInv /\ PutIsLatest' /\ OnTimeline' /\ KeptIsStored')
<1>. USE DEF StartingSpares, TypeOK
<1>1. RetriedLate'
  BY DEF AudioInv, RetriedLate, NotBegun, OrderOK
<1>. SUFFICES ASSUME Spared' PROVE StoredInv /\ PutIsLatest' /\ OnTimeline' /\ KeptIsStored'
  BY <1>1
<1>2. StoredInv
  BY DEF AudioInv
<1>3. PutIsLatest'
  BY <1>2 DEF StoredInv, PutIsLatest
<1>4. \A r \in Sittings : kept[r] # 0 => offset'[r] = offset[r]
  BY DEF AudioOK
<1>5. \A p \in DOMAIN wav : wav[p][1] \in Sittings
  BY DEF StoresOK, Chunk
<1>6. OnTimeline'
  BY <1>2, <1>4, <1>5 DEF StoredInv, OnTimeline
<1>7. KeptIsStored'
  <2>1. kept' = kept /\ wav' = wav /\ \A r \in Sittings : kept[r] \in Nat
    BY DEF AudioOK
  <2>2. ASSUME NEW r \in Sittings, NEW i \in 1..kept[r]
        PROVE  offset'[r] + i \in DOMAIN wav /\ wav[offset'[r] + i] = <<r, i>>
    <3>1. kept[r] # 0
      BY <2>1
    <3>2. offset'[r] = offset[r]
      BY <1>4, <3>1
    <3>3. offset[r] + i \in DOMAIN wav /\ wav[offset[r] + i] = <<r, i>>
      BY <1>2 DEF StoredInv, KeptIsStored
    <3>. QED  BY <3>2, <3>3
  <2>. QED  BY <2>1, <2>2 DEF KeptIsStored
<1>. QED  BY <1>2, <1>3, <1>6, <1>7

\* A sitting that does not begin or end its recording here.
LEMMA AdvanceKeepsAudio ==
  ASSUME TypeOK, OwnershipInv, ControlInv, AudioInv, NEW s \in Sittings, StartingSpares(s),
         UNCHANGED <<offset, heard, closing, stopping>>,
         created'[s] = "none" <=> created[s] = "none",
         pc'[s] = pc[s] \/ (pc'[s] # "offset" /\ heard[s] = 0),
         failed'[s] \/ (failed'[s] = failed[s] /\ priorTeardown'[s] = priorTeardown[s])
  PROVE  AudioInv'
<1>. SUFFICES ASSUME Spared' PROVE UnkeptInTurn' /\ Offsets'
  BY StartingKeepsStored DEF AudioInv, StoredInv
<1>. USE DEF StartingSpares, TypeOK
<1>1. StoredInv
  BY DEF AudioInv
<1>2. Offsets'
  <2>1. \A r \in Sittings : BeginsAtEnd(r)' <=> BeginsAtEnd(r)
    BY DEF BeginsAtEnd, TimelineEnd
  <2>2. \A r \in Sittings : created'[r] = "none" <=> created[r] = "none"
    OBVIOUS
  <2>. QED  BY <1>1, <2>1, <2>2 DEF StoredInv, Offsets
<1>3. UnkeptInTurn'
  <2>. SUFFICES ASSUME NEW r \in Sittings, Unkept(r)'
                PROVE  /\ pc'[r] \in {"live", "first", "drain", "persist"} /\ retrying' # r
                       /\ Closed(r)' => closing' # None /\ r <= closing'
                       /\ \A t \in Sittings : t > r =>
                            /\ pc'[t] # "offset"
                            /\ created'[t] # "none" /\ ~failed'[t] => r <= priorTeardown'[t]
    BY DEF UnkeptInTurn
  <2>1. Unkept(r) /\ heard[r] # 0
    BY DEF Unkept, AudioOK
  <2>2. pc'[r] = pc[r] /\ (Closed(r)' <=> Closed(r))
    BY <2>1 DEF Closed
  <2>3. \A t \in Sittings : t > r =>
            /\ pc'[t] # "offset"
            /\ created'[t] # "none" /\ ~failed'[t] => r <= priorTeardown'[t]
    BY <1>1, <2>1 DEF StoredInv, UnkeptInTurn
  <2>. QED  BY <1>1, <2>1, <2>2, <2>3 DEF StoredInv, UnkeptInTurn
<1>. QED  BY <1>2, <1>3

\* The first sitting: nothing has been heard yet.
LEMMA StartFreshKeepsAudio ==
  ASSUME TypeOK, OwnershipInv, ControlInv, AudioInv, 1 \in Sittings, StartFresh
  PROVE  AudioInv'
<1>1. StartingSpares(1)
  BY StartingSpared
<1>. SUFFICES ASSUME Spared' PROVE UnkeptInTurn' /\ Offsets'
  BY <1>1, StartingKeepsStored DEF AudioInv, StoredInv
<1>. USE DEF TypeOK
<1>0. \A r \in Sittings : r \in Nat /\ r >= 1
  BY BoundsAssumption DEF Sittings
<1>2. ~Closed(1) /\ heard[1] = 0 /\ created[1] = "none"
  BY DEF StartFresh, MayStart, Closed, ControlInv, HeardWhileLive, NotBegun, OwnershipInv, StepsInOrder
<1>3. \A r \in Sittings : heard[r] = 0 /\ (r # 1 => created[r] = "none")
  BY <1>0, <1>2, NobodyAfter
<1>4. UNCHANGED <<offset, heard, kept>>
  BY DEF StartFresh, audioVars
<1>5. UnkeptInTurn'
  BY <1>3, <1>4 DEF UnkeptInTurn, Unkept, AudioOK
<1>6. Offsets'
  <2>1. Offsets
    BY <1>1 DEF StartingSpares, AudioInv, StoredInv
  <2>2. \A r \in Sittings : offset'[r] = 0
    BY <1>2, <1>3, <1>4, <2>1 DEF Offsets
  <2>3. BeginsAtEnd(1)'
    BY <1>0, <2>2 DEF BeginsAtEnd
  <2>4. \A r \in Sittings : r # 1 => created'[r] = "none"
    BY <1>1, <1>3 DEF StartingSpares
  <2>. QED  BY <2>2, <2>3, <2>4 DEF Offsets
<1>. QED  BY <1>5, <1>6

\* A cold resume: it waits for the sitting in _closing, or finds all that was heard stored.
LEMMA StartResumeKeepsAudio ==
  ASSUME TypeOK, OwnershipInv, ControlInv, AudioInv, NEW s \in Sittings, StartResume(s)
  PROVE  AudioInv'
<1>1. StartingSpares(s)
  BY StartingSpared
<1>. SUFFICES ASSUME Spared' PROVE UnkeptInTurn' /\ Offsets'
  BY <1>1, StartingKeepsStored DEF AudioInv, StoredInv
<1>. USE DEF TypeOK
<1>0. (\A r \in Sittings : r \in Nat /\ r >= 1) /\ 1..(s - 1) = {r \in Sittings : r < s}
  BY BoundsAssumption DEF Sittings
<1>2. StoredInv
  BY <1>1 DEF StartingSpares, AudioInv
<1>3. /\ pc[s] = "none" /\ ~Closed(s) /\ heard[s] = 0 /\ created[s] = "none"
      /\ \A r \in Sittings : r < s => Closed(r)
  BY <1>0 DEF StartResume, MayStart, Closed, ControlInv, HeardWhileLive, NotBegun, OwnershipInv, StepsInOrder
<1>4. UNCHANGED <<heard, kept, closing, stopping, retrying>>
  BY DEF StartResume
<1>5. CASE closing = None
  <2>1. \A r \in Sittings : ~Unkept(r)
    <3>1. \A r \in Sittings : r < s => ~Unkept(r)
      BY <1>2, <1>3, <1>5 DEF StoredInv, UnkeptInTurn
    <3>2. ~Unkept(s)
      BY <1>3 DEF Unkept, AudioOK
    <3>. QED  BY <1>0, <1>3, <3>1, <3>2, NobodyAfter
  <2>2. UnkeptInTurn'
    BY <1>4, <2>1 DEF UnkeptInTurn, Unkept
  <2>3. UNCHANGED <<created, offset>>
    BY <1>5 DEF StartResume
  <2>4. Offsets'
    BY <1>2, <1>4, <2>3 DEF StoredInv, Offsets, BeginsAtEnd, TimelineEnd
  <2>. QED  BY <2>2, <2>4
<1>6. CASE closing # None
  <2>0. /\ offset' = [offset EXCEPT ![s] = TimelineEnd(closing)]
        /\ priorTeardown' = [priorTeardown EXCEPT ![s] = closing]
        /\ pc' = [pc EXCEPT ![s] = "open"]
    BY <1>6 DEF StartResume
  <2>1. offset'[s] = TimelineEnd(closing) /\ priorTeardown'[s] = closing /\ pc'[s] = "open"
    BY <2>0 DEF AudioOK, OrderOK, LifeOK
  <2>2. /\ closing \in Sittings /\ closing < s /\ Closed(closing) /\ ~failed[closing]
        /\ created[closing] # "none"
    <3>1. closing \in Sittings /\ Closed(closing) /\ ~failed[closing]
      BY <1>6 DEF ControlInv, ClosingLast, OrderOK
    <3>2. created[closing] # "none" /\ pc[closing] # "none"
      BY <3>1 DEF OwnershipInv, StepsInOrder, Closed
    <3>. QED  BY <1>0, <1>3, <3>1, <3>2, NobodyAfter
  <2>3. UnkeptInTurn'
    <3>. SUFFICES ASSUME NEW r \in Sittings, Unkept(r)'
                  PROVE  /\ pc'[r] \in {"live", "first", "drain", "persist"} /\ retrying' # r
                         /\ Closed(r)' => closing' # None /\ r <= closing'
                         /\ \A t \in Sittings : t > r =>
                              /\ pc'[t] # "offset"
                              /\ created'[t] # "none" /\ ~failed'[t] => r <= priorTeardown'[t]
      BY DEF UnkeptInTurn
    <3>1. Unkept(r) /\ r < s
      <4>1. Unkept(r)
        BY <1>4 DEF Unkept
      <4>2. r # s
        BY <1>3, <4>1 DEF Unkept, AudioOK
      <4>. QED  BY <1>0, <1>3, <4>1, <4>2, NobodyAfter
    <3>2. pc'[r] = pc[r] /\ (Closed(r)' <=> Closed(r)) /\ Closed(r)
      BY <1>1, <1>3, <3>1, <1>0 DEF StartingSpares, Closed
    <3>3. r <= closing /\ pc[r] \in {"live", "first", "drain", "persist"} /\ retrying # r
      BY <1>2, <3>1, <3>2 DEF StoredInv, UnkeptInTurn
    <3>4. \A t \in Sittings : t > r =>
              /\ pc'[t] # "offset"
              /\ created'[t] # "none" /\ ~failed'[t] => r <= priorTeardown'[t]
      BY <1>1, <1>2, <2>1, <3>1, <3>3 DEF StoredInv, UnkeptInTurn, StartingSpares
    <3>. QED  BY <1>4, <1>6, <3>2, <3>3, <3>4
  <2>4. Offsets'
    <3>1. \A r \in Sittings \ {s} : offset'[r] = offset[r] /\ TimelineEnd(r)' = TimelineEnd(r)
      BY <1>1 DEF StartingSpares, TimelineEnd
    <3>2. ASSUME NEW r \in Sittings, created[r] # "none" PROVE BeginsAtEnd(r)'
      <4>1. r < s
        BY <1>0, <1>3, <3>2, NobodyAfter
      <4>2. BeginsAtEnd(r)
        BY <1>2, <3>2 DEF StoredInv, Offsets
      <4>. QED  BY <1>0, <1>4, <3>1, <4>1, <4>2 DEF BeginsAtEnd
    <3>3. BeginsAtEnd(s)'
      <4>1. BeginsAtEnd(closing) /\ offset[closing] \in Nat /\ heard[closing] \in Nat
        BY <1>2, <2>2 DEF StoredInv, Offsets, AudioOK
      <4>2. ASSUME NEW r \in Sittings, r < s PROVE TimelineEnd(r) <= TimelineEnd(closing)
        <5>0. offset[r] \in Nat /\ heard[r] \in Nat
          BY DEF AudioOK
        <5>1. CASE r < closing
          BY <4>1, <5>0, <5>1 DEF BeginsAtEnd, TimelineEnd
        <5>2. CASE r = closing
          BY <4>1, <5>2 DEF TimelineEnd
        <5>3. CASE r > closing
          BY <1>3, <1>6, <4>2, <5>3 DEF ControlInv, ClosingLast, Closed
        <5>. QED  BY <1>0, <2>2, <5>1, <5>2, <5>3
      <4>3. \/ TimelineEnd(closing) = 0
            \/ \E r \in Sittings : r < s /\ heard[r] > 0 /\ TimelineEnd(r) = TimelineEnd(closing)
        <5>1. CASE heard[closing] > 0
          BY <2>2, <5>1
        <5>2. CASE heard[closing] = 0
          <6>1. TimelineEnd(closing) = offset[closing]
            BY <4>1, <5>2 DEF TimelineEnd
          <6>2. CASE offset[closing] = 0
            BY <6>1, <6>2
          <6>3. CASE \E r \in Sittings : r < closing /\ heard[r] > 0 /\ TimelineEnd(r) = offset[closing]
            BY <1>0, <2>2, <6>1, <6>3
          <6>. QED  BY <4>1, <6>2, <6>3 DEF BeginsAtEnd
        <5>. QED  BY <4>1, <5>1, <5>2
      <4>. QED  BY <1>0, <1>4, <2>1, <3>1, <4>2, <4>3 DEF BeginsAtEnd
    <3>4. \A r \in Sittings \ {s} : created'[r] = created[r]
      BY <1>1 DEF StartingSpares
    <3>5. created'[s] # "none"
      BY <1>6 DEF StartResume, LifeOK
    <3>6. \A r \in Sittings \ {s} : created[r] = "none" => offset'[r] = 0
      BY <1>2, <3>1 DEF StoredInv, Offsets
    <3>. QED  BY <3>2, <3>3, <3>4, <3>5, <3>6 DEF Offsets
  <2>. QED  BY <2>3, <2>4
<1>. QED  BY <1>5, <1>6

\* The store is asked where the audio ends only once all of it is there.
LEMMA ReadOffsetKeepsAudio ==
  ASSUME TypeOK, OwnershipInv, ControlInv, AudioInv, NEW s \in Sittings, ReadOffset(s)
  PROVE  AudioInv'
<1>1. StartingSpares(s)
  BY StartingSpared
<1>. SUFFICES ASSUME Spared' PROVE UnkeptInTurn' /\ Offsets'
  BY <1>1, StartingKeepsStored DEF AudioInv, StoredInv
<1>. USE DEF TypeOK
<1>0. (\A r \in Sittings : r \in Nat /\ r >= 1) /\ 1..(s - 1) = {r \in Sittings : r < s}
  BY BoundsAssumption DEF Sittings
<1>2. StoredInv
  BY <1>1 DEF StartingSpares, AudioInv
<1>3. pc[s] = "offset" /\ ~Closed(s) /\ heard[s] = 0 /\ kept[s] = 0 /\ created[s] = "none"
  BY DEF ReadOffset, Closed, ControlInv, HeardWhileLive, NotBegun, OwnershipInv, StepsInOrder, AudioOK
<1>4. UNCHANGED <<wav, heard, kept, stopping>>
  BY DEF ReadOffset
<1>5. \A r \in Sittings : r < s => kept[r] = heard[r]
  BY <1>2, <1>3, KeptBefore DEF StoredInv
<1>6. \A u \in Sittings : s < u => created[u] = "none" /\ heard[u] = 0 /\ kept[u] = 0
  BY <1>3, NobodyAfter DEF AudioOK
<1>7. UnkeptInTurn'
  <2>1. \A r \in Sittings : kept[r] = heard[r]
    BY <1>0, <1>3, <1>5, <1>6
  <2>. QED  BY <1>4, <2>1 DEF UnkeptInTurn, Unkept, AudioOK
<1>8. Offsets'
  <2>1. \A r \in Sittings \ {s} : offset'[r] = offset[r] /\ TimelineEnd(r)' = TimelineEnd(r)
    BY <1>1 DEF StartingSpares, TimelineEnd
  <2>2. ASSUME NEW r \in Sittings, created[r] # "none" PROVE BeginsAtEnd(r)'
    <3>1. r < s
      BY <1>0, <1>3, <1>6, <2>2
    <3>2. BeginsAtEnd(r)
      BY <1>2, <2>2 DEF StoredInv, Offsets
    <3>. QED  BY <1>0, <1>4, <2>1, <3>1, <3>2 DEF BeginsAtEnd
  <2>3. /\ \A r \in Sittings : r < s => TimelineEnd(r) <= Len(wav)
        /\ \/ Len(wav) = 0
           \/ \E r \in Sittings : r < s /\ heard[r] > 0 /\ TimelineEnd(r) = Len(wav)
    BY <1>2, <1>3, <1>5, <1>6, StoredEnds DEF StoredInv
  <2>4. Len(wav) \in Nat /\ (Len(wav) = 0 <=> wav = <<>>)
    BY DEF StoresOK
  <2>5. offset'[s] = Len(wav)
    <3>1. PICK o \in Nat \cap (0..(MaxSittings * MaxChunks)) :
            /\ IF wav # <<>> THEN o = Len(wav)
               ELSE o = 0 \/ (RowExists /\ \E r \in 1..(s - 1) : o <= TimelineEnd(r))
            /\ offset' = [offset EXCEPT ![s] = o]
      BY DEF ReadOffset
    <3>2. offset'[s] = o
      BY <3>1 DEF AudioOK
    <3>3. CASE wav = <<>>
      <4>1. ASSUME NEW r \in 1..(s - 1), o <= TimelineEnd(r) PROVE o = 0
        <5>1. TimelineEnd(r) <= 0
          BY <1>0, <2>3, <2>4, <3>3
        <5>2. TimelineEnd(r) \in Nat
          BY <1>0 DEF TimelineEnd, AudioOK
        <5>. QED  BY <4>1, <5>1, <5>2
      <4>2. o = 0
        BY <3>1, <3>3, <4>1
      <4>. QED  BY <2>4, <3>2, <3>3, <4>2
    <3>. QED  BY <3>1, <3>2, <3>3
  <2>6. BeginsAtEnd(s)'
    BY <1>0, <1>4, <2>1, <2>3, <2>4, <2>5 DEF BeginsAtEnd
  <2>7. \A r \in Sittings \ {s} : created'[r] = created[r]
    BY <1>1 DEF StartingSpares
  <2>8. created'[s] # "none"
    BY DEF ReadOffset, LifeOK
  <2>9. \A r \in Sittings \ {s} : created[r] = "none" => offset'[r] = 0
    BY <1>2, <2>1 DEF StoredInv, Offsets
  <2>. QED  BY <2>2, <2>6, <2>7, <2>8, <2>9 DEF Offsets
<1>. QED  BY <1>7, <1>8

\* Audio extends the timeline of the last sitting.
LEMMA HearKeepsAudio ==
  ASSUME TypeOK, OwnershipInv, ControlInv, AudioInv, NEW s \in Sittings, Hear(s)
  PROVE  AudioInv'
<1>1. StartingSpares(s)
  BY StartingSpared
<1>. SUFFICES ASSUME Spared' PROVE UnkeptInTurn' /\ Offsets'
  BY <1>1, StartingKeepsStored DEF AudioInv, StoredInv
<1>. USE DEF TypeOK
<1>0. \A r \in Sittings : r \in Nat /\ r >= 1
  BY BoundsAssumption DEF Sittings
<1>2. StoredInv
  BY <1>1 DEF StartingSpares, AudioInv
<1>3. /\ UNCHANGED <<kept, stopping, retrying, closing, pc, created, failed, offset, priorTeardown>>
      /\ \A r \in Sittings \ {s} : heard'[r] = heard[r]
  BY DEF Hear, lifeVars, orderVars, AudioOK
<1>4. pc[s] = "live" \/ stopping = s
  BY DEF Hear
<1>5. \A u \in Sittings : s < u => pc[u] = "none" /\ created[u] = "none"
  <2>1. CASE pc[s] = "live"
    BY <2>1, NobodyAfter DEF Closed
  <2>2. CASE stopping = s
    BY <1>0, <2>2 DEF ControlInv, LastStops, OwnershipInv, StepsInOrder
  <2>. QED  BY <1>4, <2>1, <2>2
<1>6. UnkeptInTurn'
  <2>. SUFFICES ASSUME NEW r \in Sittings, Unkept(r)'
                PROVE  /\ pc[r] \in {"live", "first", "drain", "persist"} /\ retrying # r
                       /\ Closed(r) => closing # None /\ r <= closing
                       /\ \A t \in Sittings : t > r =>
                            /\ pc[t] # "offset"
                            /\ created[t] # "none" /\ ~failed[t] => r <= priorTeardown[t]
    BY <1>3 DEF UnkeptInTurn, Closed
  <2>1. CASE r # s
    <3>1. Unkept(r)
      BY <1>3, <2>1 DEF Unkept
    <3>. QED  BY <1>2, <3>1 DEF StoredInv, UnkeptInTurn
  <2>2. CASE r = s
    <3>1. pc[s] = "live" /\ ~Closed(s)
      BY <1>3, <1>4, <2>2 DEF Unkept, Closed
    <3>. QED  BY <1>0, <1>5, <2>2, <3>1 DEF OwnershipInv, StepsInOrder
  <2>. QED  BY <2>1, <2>2
<1>7. Offsets'
  <2>1. \A r \in Sittings \ {s} : TimelineEnd(r)' = TimelineEnd(r)
    BY <1>3 DEF TimelineEnd
  <2>2. ASSUME NEW r \in Sittings, created[r] # "none" PROVE BeginsAtEnd(r)'
    <3>1. r <= s
      BY <1>0, <1>5, <2>2
    <3>2. BeginsAtEnd(r)
      BY <1>2, <2>2 DEF StoredInv, Offsets
    <3>. QED  BY <1>0, <1>3, <2>1, <3>1, <3>2 DEF BeginsAtEnd
  <2>. QED  BY <1>2, <1>3, <2>2 DEF StoredInv, Offsets
<1>. QED  BY <1>6, <1>7

\* A close or a shutdown: the sitting enters _closing.
LEMMA CloseKeepsAudio ==
  ASSUME TypeOK, OwnershipInv, ControlInv, AudioInv, NEW s \in Sittings, Close(s) \/ Shutdown(s)
  PROVE  AudioInv'
<1>1. StartingSpares(s)
  BY StartingSpared
<1>. SUFFICES ASSUME Spared' PROVE UnkeptInTurn' /\ Offsets'
  BY <1>1, StartingKeepsStored DEF AudioInv, StoredInv
<1>. USE DEF TypeOK
<1>0. \A r \in Sittings : r \in Nat /\ r >= 1
  BY BoundsAssumption DEF Sittings
<1>2. StoredInv
  BY <1>1 DEF StartingSpares, AudioInv
<1>3. /\ UNCHANGED <<heard, kept, retrying, created, failed, offset, priorTeardown>>
      /\ closing' = s /\ pc[s] = "live" /\ pc'[s] = "first"
      /\ stopping' = stopping \/ stopping = None
  BY DEF Close, Shutdown, CloseLive, audioVars, LifeOK
<1>4. ~Closed(s)
  BY <1>3 DEF Closed
<1>5. Offsets'
  BY <1>2, <1>3 DEF StoredInv, Offsets, BeginsAtEnd, TimelineEnd
<1>6. UnkeptInTurn'
  <2>. SUFFICES ASSUME NEW r \in Sittings, Unkept(r)'
                PROVE  /\ pc'[r] \in {"live", "first", "drain", "persist"} /\ retrying' # r
                       /\ Closed(r)' => closing' # None /\ r <= closing'
                       /\ \A t \in Sittings : t > r =>
                            /\ pc'[t] # "offset"
                            /\ created'[t] # "none" /\ ~failed'[t] => r <= priorTeardown'[t]
    BY DEF UnkeptInTurn
  <2>1. Unkept(r)
    BY <1>0, <1>3 DEF Unkept
  <2>2. r <= s
    BY <1>0, <1>4, <2>1, NobodyAfter
  <2>3. /\ pc[r] \in {"live", "first", "drain", "persist"} /\ retrying # r
        /\ \A t \in Sittings : t > r => /\ pc[t] # "offset"
                                        /\ created[t] # "none" /\ ~failed[t] => r <= priorTeardown[t]
    BY <1>2, <2>1 DEF StoredInv, UnkeptInTurn
  <2>4. pc'[r] \in {"live", "first", "drain", "persist"}
    BY <1>1, <1>3, <2>3 DEF StartingSpares
  <2>5. \A t \in Sittings : t > r => pc'[t] # "offset"
    BY <1>1, <1>3, <2>3 DEF StartingSpares
  <2>. QED  BY <1>0, <1>3, <2>2, <2>3, <2>4, <2>5
<1>. QED  BY <1>5, <1>6

\* Every step before a teardown.
LEMMA StartingKeepsAudio ==
  ASSUME TypeOK, OwnershipInv, ControlInv, AudioInv, NEW s \in Sittings,
         (s = 1 /\ StartFresh) \/ StartResume(s) \/ ReadOffset(s) \/ OpenRow(s) \/ OpenFault(s)
         \/ Ready(s) \/ StartFails(s) \/ Hear(s) \/ Close(s) \/ Shutdown(s)
  PROVE  AudioInv'
<1>1. CASE OpenRow(s) \/ OpenFault(s)
  <2>1. UNCHANGED <<offset, heard, closing, stopping, pc, failed, priorTeardown>>
    BY <1>1 DEF OpenRow, OpenFault, audioVars, orderVars
  <2>2. created[s] # "none" /\ created'[s] # "none"
    BY <1>1 DEF OpenRow, OpenFault, TypeOK, LifeOK
  <2>. QED  BY <2>1, <2>2, StartingSpared, AdvanceKeepsAudio
<1>2. CASE Ready(s)
  <2>1. UNCHANGED <<offset, heard, closing, stopping, created, failed, priorTeardown>>
    BY <1>2 DEF Ready, audioVars, orderVars
  <2>2. pc'[s] # "offset" /\ heard[s] = 0
    BY <1>2 DEF Ready, TypeOK, LifeOK, ControlInv, HeardWhileLive, NotBegun
  <2>. QED  BY <2>1, <2>2, StartingSpared, AdvanceKeepsAudio
<1>3. CASE StartFails(s)
  <2>1. UNCHANGED <<offset, heard, closing, stopping, created>> /\ failed'[s]
    BY <1>3 DEF StartFails, audioVars, TypeOK, LifeOK
  <2>2. pc'[s] # "offset" /\ heard[s] = 0
    BY <1>3 DEF StartFails, TypeOK, LifeOK, ControlInv, HeardWhileLive, NotBegun
  <2>. QED  BY <2>1, <2>2, StartingSpared, AdvanceKeepsAudio
<1>. QED
  BY <1>1, <1>2, <1>3, StartFreshKeepsAudio, StartResumeKeepsAudio, ReadOffsetKeepsAudio, HearKeepsAudio,
     CloseKeepsAudio

\* What a teardown's step does, whichever it is.
TeardownSpares(s) ==
  /\ UNCHANGED <<created, failed, offset, heard, stopping>>
  /\ Spared' => Spared
  /\ \A r \in Sittings \ {s} : kept'[r] = kept[r] /\ existing'[r] = existing[r]
                               /\ priorTeardown'[r] = priorTeardown[r]

\* Every step of a teardown or a retry does no more.
LEMMA TeardownSpared ==
  ASSUME TypeOK, NEW s \in Sittings, Storing(s) \/ Finalizing(s) \/ Faulting(s)
  PROVE  TeardownSpares(s)
<1>. USE DEF TypeOK, Storing, Finalizing, Faulting, AwaitPriorRetain, RetainNothing, RetainRead, RetainWrite,
             LinkKey, DropOrphan, RetainFault, LinkFault, Persist, AwaitCreate, Finalize, Finish, Retry,
             FinalizeFault
<1>1. UNCHANGED <<created, failed, offset, heard, stopping, deletes>>
  <2>1. UNCHANGED <<created, failed>>
    BY DEF lifeVars
  <2>2. UNCHANGED <<offset, heard>>
    BY DEF audioVars
  <2>3. UNCHANGED <<stopping, deletes>>
    BY DEF deleteVars
  <2>. QED  BY <2>1, <2>2, <2>3
<1>2. /\ diskFaults' = diskFaults \/ diskFaults' = diskFaults + 1
      /\ writeFaults' = writeFaults \/ writeFaults' = writeFaults + 1
  BY DEF faultVars
<1>3. Spared' => Spared
  BY <1>1, <1>2 DEF Spared, FaultsSpared, CountsOK
<1>4. \A r \in Sittings \ {s} : kept'[r] = kept[r]
  BY DEF audioVars, AudioOK
<1>5. \A r \in Sittings \ {s} : existing'[r] = existing[r]
  BY DEF retainVars, RetainEnds, AudioOK
<1>6. \A r \in Sittings \ {s} : priorTeardown'[r] = priorTeardown[r]
  BY DEF orderVars, OrderOK
<1>. QED  BY <1>1, <1>3, <1>4, <1>5, <1>6 DEF TeardownSpares

\* Whoever a sitting was ordered behind has stored all it heard by the time it waits no longer.
LEMMA PriorsAreKept ==
  ASSUME TypeOK, OwnershipInv, ControlInv, RetriedLate, UnkeptInTurn, NEW s \in Sittings,
         \/ AwaitPriorRetain(s) /\ firstRetain[priorRetain[s]] = "stored"
         \/ Persist(s),
         created[s] # "none", ~failed[s], NEW r \in Sittings, r < s, Unkept(r)
  PROVE  FALSE
<1>. USE DEF TypeOK
<1>0. \A u \in Sittings : u \in Nat /\ u >= 1
  BY BoundsAssumption DEF Sittings
<1>. DEFINE q == priorTeardown[s]
<1>1. r <= q /\ q \in Sittings /\ q < s /\ Closed(q) /\ ~failed[q]
  BY <1>0 DEF UnkeptInTurn, OrderOK, ControlInv, Priors
<1>. HIDE DEF q
<1>2. created[q] # "none"
  BY <1>1 DEF OwnershipInv, StepsInOrder
<1>3. r # q => priorTeardown[q] # None
  BY <1>0, <1>1, <1>2 DEF UnkeptInTurn
<1>4. CASE Persist(s)
  <2>1. TeardownDone(q)
    BY <1>0, <1>1, <1>4 DEF Persist, q
  <2>2. pc[q] \in {"done", "deferred"} \/ (retrying = q /\ pc[q] \in {"persist", "create", "finalize", "finish"})
    BY <1>0, <1>1, <2>1 DEF TeardownDone, Unfinalized, RetriedLate
  <2>3. CASE r = q
    BY <2>2, <2>3 DEF UnkeptInTurn
  <2>4. CASE r # q
    BY <1>1, <1>3, <2>2, <2>4 DEF ControlInv, Priors
  <2>. QED  BY <2>3, <2>4
<1>5. CASE AwaitPriorRetain(s) /\ firstRetain[priorRetain[s]] = "stored"
  <2>1. priorRetain[s] = q /\ pc[s] # "none"
    BY <1>5 DEF AwaitPriorRetain, ControlInv, Priors, q
  <2>2. priorTeardown[q] = None /\ (kept[q] = heard[q] \/ stopping = q)
    BY <1>1, <1>5, <2>1 DEF ControlInv, FirstRetains
  <2>3. stopping # q
    BY <1>0, <1>1, <2>1 DEF ControlInv, LastStops
  <2>4. r = q
    BY <1>3, <2>2
  <2>. QED  BY <2>2, <2>3, <2>4 DEF Unkept, AudioOK
<1>. QED  BY <1>4, <1>5

\* A sitting leaves its turn only once its buffer is empty, and its place behind a prior one only once that one's is.
LEMMA TeardownKeepsTurn ==
  ASSUME TypeOK, OwnershipInv, ControlInv, AudioInv, NEW s \in Sittings,
         Storing(s) \/ Finalizing(s) \/ Faulting(s), Spared'
  PROVE  UnkeptInTurn'
<1>. USE DEF TypeOK
<1>0. \A u \in Sittings : u \in Nat /\ u >= 1
  BY BoundsAssumption DEF Sittings
<1>1. TeardownMove(s) /\ TeardownSpares(s)
  BY TeardownSpared, StoringMoves, FinalizingMoves DEF Storing, Finalizing, Faulting
<1>2. Spared /\ StoredInv /\ UnkeptInTurn /\ RetriedLate
  BY <1>1 DEF TeardownSpares, AudioInv, StoredInv
<1>3. ASSUME Unkept(s)'
      PROVE  Unkept(s) /\ pc'[s] \in {"first", "drain", "persist"} /\ retrying' # s
  <2>1. ~RetainWrite(s)
    <3>. SUFFICES ASSUME RetainWrite(s) PROVE FALSE
      OBVIOUS
    <3>1. kept'[s] = taken[s] /\ retain[s] = "put" /\ UNCHANGED <<heard, stopping>>
      BY DEF RetainWrite, TrimTo, AudioOK
    <3>2. taken[s] = heard[s] \/ stopping = s
      BY <3>1 DEF ControlInv, Buffers
    <3>. QED  BY <1>3, <3>1, <3>2 DEF Unkept, AudioOK
  <2>2. kept'[s] = kept[s]
    BY <2>1 DEF Storing, Finalizing, Faulting, AwaitPriorRetain, RetainNothing, RetainRead, LinkKey, DropOrphan,
                RetainFault, LinkFault, Persist, AwaitCreate, Finalize, Finish, Retry, FinalizeFault, audioVars
  <2>3. Unkept(s) /\ kept[s] # heard[s] /\ stopping # s
    BY <1>1, <1>3, <2>2 DEF Unkept, TeardownSpares, AudioOK
  <2>4. pc[s] \in {"live", "first", "drain", "persist"} /\ retrying # s /\ retain[s] \notin {"link", "drop"}
    BY <1>2, <2>3 DEF UnkeptInTurn, ControlInv, Buffers
  <2>5. ~RetainNothing(s) /\ ~LinkKey(s) /\ ~LinkFault(s) /\ ~DropOrphan(s) /\ ~AwaitCreate(s)
        /\ ~Finalize(s) /\ ~Finish(s) /\ ~Retry(s) /\ ~FinalizeFault(s)
    BY <2>3, <2>4 DEF RetainNothing, LinkKey, LinkFault, Linking, DropOrphan, AwaitCreate, Finalize, Finish,
                      Retry, FinalizeFault
  <2>6. RetainFault(s) => pc[s] = "first"
    <3>. SUFFICES ASSUME RetainFault(s), pc[s] # "first" PROVE FALSE
      OBVIOUS
    <3>1. pc[s] = "persist"
      BY DEF RetainFault, Retaining, OwnershipInv, StepsInOrder
    <3>2. diskFaults' = diskFaults + 1 /\ writeFaults' = writeFaults
      BY DEF RetainFault
    <3>3. ~SomethingFailed
      BY <3>2 DEF Spared, FaultsSpared, SomethingFailed, CountsOK
    <3>4. firstRetain[s] = "stored"
      BY <3>1, <3>3 DEF ControlInv, FirstRetains, NotBegun, RetainOK
    <3>. QED  BY <2>3, <3>4 DEF ControlInv, FirstRetains
  <2>7. CASE AwaitPriorRetain(s) \/ RetainFault(s)
    BY <2>3, <2>4, <2>6, <2>7 DEF AwaitPriorRetain, RetainFault, RetainEnds, LifeOK, orderVars
  <2>8. CASE RetainRead(s)
    BY <2>3, <2>4, <2>8 DEF RetainRead, Retaining, OwnershipInv, StepsInOrder, lifeVars, orderVars
  <2>9. CASE Persist(s)
    BY <2>3, <2>4, <2>9 DEF Persist, LifeOK
  <2>. QED  BY <2>1, <2>3, <2>5, <2>7, <2>8, <2>9 DEF Storing, Finalizing, Faulting
<1>. SUFFICES ASSUME NEW r \in Sittings, Unkept(r)'
              PROVE  /\ pc'[r] \in {"live", "first", "drain", "persist"} /\ retrying' # r
                     /\ Closed(r)' => closing' # None /\ r <= closing'
                     /\ \A t \in Sittings : t > r =>
                          /\ pc'[t] # "offset"
                          /\ created'[t] # "none" /\ ~failed'[t] => r <= priorTeardown'[t]
  BY DEF UnkeptInTurn
<1>4. Unkept(r)
  BY <1>1, <1>3 DEF TeardownSpares, Unkept
<1>5. /\ pc[r] \in {"live", "first", "drain", "persist"} /\ retrying # r
      /\ Closed(r) => closing # None /\ r <= closing
      /\ \A t \in Sittings : t > r => /\ pc[t] # "offset"
                                      /\ created[t] # "none" /\ ~failed[t] => r <= priorTeardown[t]
  BY <1>2, <1>4 DEF UnkeptInTurn
<1>6. pc'[r] \in {"live", "first", "drain", "persist"} /\ retrying' # r
  BY <1>1, <1>3, <1>5 DEF TeardownMove
<1>7. Closed(r)' => closing' # None /\ r <= closing'
  <2>. SUFFICES ASSUME Closed(r)' PROVE closing' # None /\ r <= closing'
    OBVIOUS
  <2>1. Closed(r)
    BY <1>1 DEF TeardownMove, Closed
  <2>2. closing' = closing \/ (closing = s /\ pc[s] \in {"create", "finalize", "finish"})
    BY DEF Storing, Finalizing, Faulting, AwaitPriorRetain, RetainNothing, RetainRead, RetainWrite, LinkKey,
           DropOrphan, RetainFault, LinkFault, Persist, AwaitCreate, Finalize, Finish, Retry, FinalizeFault,
           Leave, orderVars
  <2>3. CASE closing = s /\ pc[s] \in {"create", "finalize", "finish"}
    <3>1. r < s
      BY <1>0, <1>5, <2>1, <2>3
    <3>2. ~failed[s] /\ created[s] # "none"
      BY <1>0, <2>3 DEF ControlInv, ClosingLast, OwnershipInv, StepsInOrder, Closed
    <3>3. priorTeardown[s] # None
      BY <1>0, <1>5, <3>1, <3>2
    <3>. QED  BY <2>3, <3>3 DEF ControlInv, Priors
  <2>. QED  BY <1>5, <2>1, <2>2, <2>3
<1>8. ASSUME NEW t \in Sittings, t > r
      PROVE  /\ pc'[t] # "offset"
             /\ created'[t] # "none" /\ ~failed'[t] => r <= priorTeardown'[t]
  <2>1. CASE t # s
    BY <1>1, <1>5, <1>8, <2>1 DEF TeardownMove, TeardownSpares
  <2>2. CASE t = s
    <3>1. pc'[t] # "offset" /\ UNCHANGED <<created, failed>>
      BY <1>1, <2>2 DEF TeardownMove, TeardownSpares, Closed
    <3>2. priorTeardown'[s] = priorTeardown[s] \/ Persist(s)
          \/ (AwaitPriorRetain(s) /\ firstRetain[priorRetain[s]] = "stored")
      BY DEF Storing, Finalizing, Faulting, AwaitPriorRetain, RetainNothing, RetainRead, RetainWrite, LinkKey,
             DropOrphan, RetainFault, LinkFault, AwaitCreate, Finalize, Finish, Retry, FinalizeFault, orderVars
    <3>3. created[s] # "none" /\ ~failed[s] => priorTeardown'[s] = priorTeardown[s]
      BY <1>2, <1>4, <1>8, <2>2, <3>2, PriorsAreKept
    <3>. QED  BY <1>5, <1>8, <2>2, <3>1, <3>3
  <2>. QED  BY <2>1, <2>2
<1>. QED  BY <1>6, <1>7, <1>8

\* AudioStore.put: the buffer lands behind what is stored.
LEMMA WriteKeepsStored ==
  ASSUME TypeOK, OwnershipInv, ControlInv, StoredInv, NEW s \in Sittings, RetainWrite(s)
  PROVE  PutIsLatest' /\ OnTimeline' /\ KeptIsStored'
<1>. USE DEF TypeOK
<1>1. /\ Len(wav) = offset[s] + kept[s]
      /\ \A u \in Sittings : u # s => retain[u] # "put"
  BY PutAtEnd DEF RetainWrite
<1>2. kept[s] < taken[s] /\ existing[s] = wav
  BY DEF RetainWrite, ControlInv, Buffers, StoredInv, PutIsLatest
<1>3. /\ wav \in Seq(Chunk) /\ Len(wav) \in Nat /\ DOMAIN wav = 1..Len(wav) /\ taken[s] \in Nat
      /\ \A r \in Sittings : offset[r] \in Nat /\ kept[r] \in Nat
  BY DEF StoresOK, AudioOK
<1>. DEFINE new == ChunksOf(s, kept[s], taken[s])
<1>4. /\ new \in Seq(Chunk) /\ Len(new) = taken[s] - kept[s]
      /\ \A i \in 1..(taken[s] - kept[s]) : new[i] = <<s, kept[s] + i>>
  BY <1>2, <1>3, ChunksAre
<1>5. wav' = wav \o new /\ UNCHANGED offset
  BY <1>2 DEF RetainWrite
<1>. HIDE DEF new
<1>6. /\ DOMAIN wav' = 1..(offset[s] + taken[s])
      /\ \A p \in 1..Len(wav) : wav'[p] = wav[p]
      /\ \A p \in (Len(wav) + 1)..(offset[s] + taken[s]) : wav'[p] = <<s, p - offset[s]>>
  <2>1. Len(wav') = offset[s] + taken[s] /\ DOMAIN wav' = 1..Len(wav')
    <3>1. wav' \in Seq(Chunk) /\ Len(wav') = Len(wav) + Len(new)
      <4>1. wav \in Seq(Chunk) /\ new \in Seq(Chunk)
        BY <1>3, <1>4
      <4>2. wav \o new \in Seq(Chunk) /\ Len(wav \o new) = Len(wav) + Len(new)
        BY <4>1
      <4>. QED  BY <1>5, <4>2
    <3>2. Len(wav) + Len(new) = offset[s] + taken[s]
      BY <1>1, <1>2, <1>3, <1>4
    <3>. QED  BY <3>1, <3>2
  <2>2. \A p \in 1..Len(wav) : wav'[p] = wav[p]
    BY <1>3, <1>4, <1>5
  <2>3. ASSUME NEW p \in (Len(wav) + 1)..(offset[s] + taken[s]) PROVE wav'[p] = <<s, p - offset[s]>>
    <3>1. p - Len(wav) \in 1..(taken[s] - kept[s]) /\ p \in 1..(Len(wav) + Len(new)) /\ p > Len(wav)
      <4> DEFINE w == Len(wav)
                 n == Len(new)
                 o == offset[s]
                 k == kept[s]
                 t == taken[s]
      <4>1. w \in Nat /\ o \in Nat /\ k \in Nat /\ t \in Nat /\ w = o + k /\ k < t /\ n = t - k
        BY <1>1, <1>2, <1>3, <1>4
      <4>2. p \in (w + 1)..(o + t)
        OBVIOUS
      <4>. HIDE DEF w, n, o, k, t
      <4>3. p - w \in 1..(t - k) /\ p \in 1..(w + n) /\ p > w
        BY <4>1, <4>2
      <4>. QED  BY <4>3 DEF w, n, o, k, t
    <3>2. wav'[p] = new[p - Len(wav)]
      BY <1>3, <1>4, <1>5, <3>1
    <3>3. kept[s] + (p - Len(wav)) = p - offset[s]
      BY <1>1, <1>3, <3>1, SMTT(30)
    <3>. QED  BY <1>4, <3>1, <3>2, <3>3
  <2>. QED  BY <2>1, <2>2, <2>3
<1>7. kept'[s] = taken[s] /\ \A r \in Sittings \ {s} : kept'[r] = kept[r]
  BY DEF RetainWrite, TrimTo, AudioOK
<1>8. PutIsLatest'
  <2>1. retain'[s] = "link" /\ \A u \in Sittings \ {s} : retain'[u] = retain[u]
    BY DEF RetainWrite, RetainOK
  <2>. QED  BY <1>1, <2>1 DEF PutIsLatest
<1>9. OnTimeline'
  <2>. SUFFICES ASSUME NEW p \in DOMAIN wav'
                PROVE  wav'[p][2] \in 1..kept'[wav'[p][1]] /\ p = offset[wav'[p][1]] + wav'[p][2]
    BY <1>5 DEF OnTimeline
  <2>1. CASE p \in 1..Len(wav)
    <3>1. wav'[p] = wav[p] /\ wav[p][1] \in Sittings
      BY <1>3, <1>6, <2>1 DEF Chunk
    <3>2. wav[p][2] \in 1..kept[wav[p][1]] /\ p = offset[wav[p][1]] + wav[p][2]
      BY <1>3, <2>1 DEF StoredInv, OnTimeline
    <3>3. kept[wav[p][1]] <= kept'[wav[p][1]] /\ kept'[wav[p][1]] \in Nat
      BY <1>2, <1>3, <1>7, <3>1
    <3>. QED  BY <1>3, <3>1, <3>2, <3>3
  <2>2. CASE p \notin 1..Len(wav)
    <3>1. wav'[p] = <<s, p - offset[s]>> /\ p > Len(wav) /\ p <= offset[s] + taken[s] /\ p \in Nat
      BY <1>1, <1>3, <1>6, <2>2
    <3>2. wav'[p][1] = s /\ wav'[p][2] = p - offset[s]
      BY <3>1
    <3>3. p - offset[s] \in 1..taken[s] /\ p = offset[s] + (p - offset[s])
      BY <1>1, <1>3, <3>1
    <3>. QED  BY <1>7, <3>2, <3>3
  <2>. QED  BY <2>1, <2>2
<1>10. KeptIsStored'
  <2>. SUFFICES ASSUME NEW r \in Sittings, NEW i \in 1..kept'[r]
                PROVE  offset[r] + i \in DOMAIN wav' /\ wav'[offset[r] + i] = <<r, i>>
    BY <1>5 DEF KeptIsStored
  <2>1. CASE i \in 1..kept[r]
    <3>1. offset[r] + i \in 1..Len(wav) /\ wav[offset[r] + i] = <<r, i>>
      BY <1>3, <2>1 DEF StoredInv, KeptIsStored
    <3>. QED  BY <1>1, <1>2, <1>3, <1>6, <3>1
  <2>2. CASE i \notin 1..kept[r]
    <3>1. r = s /\ i \in (kept[s] + 1)..taken[s]
      BY <1>3, <1>7, <2>2
    <3>2. offset[s] + i \in (Len(wav) + 1)..(offset[s] + taken[s]) /\ (offset[s] + i) - offset[s] = i
          /\ offset[s] + i \in 1..(offset[s] + taken[s])
      BY <1>1, <1>3, <3>1, SMTT(30)
    <3>3. wav'[offset[s] + i] = <<s, (offset[s] + i) - offset[s]>>
      BY <1>6, <3>2
    <3>. QED  BY <1>6, <3>1, <3>2, <3>3
  <2>. QED  BY <2>1, <2>2
<1>. QED  BY <1>8, <1>9, <1>10

\* Every step of a teardown or a retry.
LEMMA TeardownKeepsAudio ==
  ASSUME TypeOK, OwnershipInv, ControlInv, AudioInv, NEW s \in Sittings,
         Storing(s) \/ Finalizing(s) \/ Faulting(s)
  PROVE  AudioInv'
<1>. USE DEF TypeOK
<1>1. TeardownMove(s) /\ TeardownSpares(s)
  BY TeardownSpared, StoringMoves, FinalizingMoves DEF Storing, Finalizing, Faulting
<1>2. RetriedLate'
  <2>1. retrying' # s /\ retrying' # None => retrying' = retrying /\ pc'[retrying] = pc[retrying]
    BY <1>1 DEF Storing, Finalizing, Faulting, AwaitPriorRetain, RetainNothing, RetainRead, RetainWrite, LinkKey,
           DropOrphan, RetainFault, LinkFault, Persist, AwaitCreate, Finalize, Finish, Retry, FinalizeFault,
           Leave, orderVars, TeardownMove, OrderOK
  <2>2. retrying' = s => pc'[s] \in {"persist", "create", "finalize", "finish"}
    <3>. SUFFICES ASSUME retrying' = s, ~Retry(s)
                  PROVE  pc'[s] \in {"persist", "create", "finalize", "finish"}
      BY DEF Retry, LifeOK
    <3>1. retrying = s /\ s # None
      <4>1. s # None
        BY BoundsAssumption DEF Sittings
      <4>2. retrying' = retrying \/ retrying' = None
        BY DEF Storing, Finalizing, Faulting, AwaitPriorRetain, RetainNothing, RetainRead, RetainWrite, LinkKey,
               DropOrphan, RetainFault, LinkFault, Persist, AwaitCreate, Finalize, Finish, FinalizeFault,
               Leave, orderVars
      <4>. QED  BY <4>1, <4>2
    <3>2. pc[s] \in {"persist", "create", "finalize", "finish"}
      BY <3>1 DEF AudioInv, RetriedLate
    <3>3. CASE Storing(s) \/ RetainFault(s) \/ LinkFault(s)
      BY <3>2, <3>3 DEF Storing, AwaitPriorRetain, RetainNothing, RetainRead, RetainWrite, LinkKey,
           DropOrphan, RetainFault, LinkFault, RetainEnds, lifeVars, LifeOK
    <3>4. CASE Persist(s) \/ AwaitCreate(s) \/ Finalize(s) \/ Finish(s) \/ FinalizeFault(s)
      BY <3>1, <3>4, BoundsAssumption DEF Persist, AwaitCreate, Finalize, Finish, FinalizeFault, Leave, LifeOK, Sittings
    <3>. QED  BY <3>3, <3>4 DEF Finalizing, Faulting
  <2>. QED  BY <1>1, <2>1, <2>2 DEF AudioInv, RetriedLate, TeardownMove, OrderOK
<1>. SUFFICES ASSUME Spared' PROVE StoredInv'
  BY <1>2 DEF AudioInv
<1>3. Spared /\ StoredInv
  BY <1>1 DEF AudioInv, TeardownSpares
<1>4. UnkeptInTurn'
  BY TeardownKeepsTurn
<1>5. Offsets'
  BY <1>1, <1>3 DEF StoredInv, Offsets, BeginsAtEnd, TimelineEnd, TeardownSpares
<1>6. PutIsLatest' /\ OnTimeline' /\ KeptIsStored'
  <2>1. CASE RetainWrite(s)
    BY <1>3, <2>1, WriteKeepsStored
  <2>2. CASE ~RetainWrite(s)
    <3>1. ~DropOrphan(s)
      BY <1>3 DEF DropOrphan, Spared, ControlInv, DeletesCounted
    <3>2. UNCHANGED <<wav, kept>>
      BY <2>2, <3>1 DEF Storing, Finalizing, Faulting, AwaitPriorRetain, RetainNothing, RetainRead, LinkKey,
         RetainFault, LinkFault, Persist, AwaitCreate, Finalize, Finish, Retry, FinalizeFault, audioVars
    <3>3. OnTimeline' /\ KeptIsStored'
      BY <1>1, <1>3, <3>2 DEF StoredInv, OnTimeline, KeptIsStored, TeardownSpares
    <3>4. retain'[s] = "put" => existing'[s] = wav
      <4>1. CASE RetainRead(s)
        BY <4>1 DEF RetainRead, AudioOK
      <4>2. CASE ~RetainRead(s)
        <5>1. retain'[s] = "put" => retain[s] = "put" /\ existing'[s] = existing[s]
          BY <2>2, <3>1, <4>2 DEF Storing, Finalizing, Faulting, AwaitPriorRetain, RetainNothing, LinkKey,
             RetainFault, LinkFault, Persist, AwaitCreate, Finalize, Finish, Retry, FinalizeFault, RetainEnds,
             retainVars, RetainOK
        <5>. QED  BY <1>3, <5>1 DEF StoredInv, PutIsLatest
      <4>. QED  BY <4>1, <4>2
    <3>5. PutIsLatest'
      BY <1>1, <1>3, <3>2, <3>4 DEF StoredInv, PutIsLatest, TeardownMove, TeardownSpares
    <3>. QED  BY <3>3, <3>5
  <2>. QED  BY <2>1, <2>2
<1>. QED  BY <1>4, <1>5, <1>6 DEF StoredInv

\* AudioInv, over every behaviour.
LEMMA AudioHolds == Spec => []AudioInv
<1>1. Init => AudioInv
  <2>. SUFFICES ASSUME Init PROVE AudioInv
    OBVIOUS
  <2>. USE DEF Init
  <2>1. RetriedLate /\ UnkeptInTurn /\ PutIsLatest
    BY DEF RetriedLate, UnkeptInTurn, Unkept, PutIsLatest
  <2>2. OnTimeline /\ KeptIsStored /\ Offsets
    BY DEF OnTimeline, KeptIsStored, Offsets
  <2>. QED  BY <2>1, <2>2 DEF AudioInv, StoredInv
<1>2. TypeOK /\ OwnershipInv /\ ControlInv /\ AudioInv /\ [Next]_vars => AudioInv'
  <2>. SUFFICES ASSUME TypeOK, OwnershipInv, ControlInv, AudioInv, [Next]_vars PROVE AudioInv'
    OBVIOUS
  <2>1. CASE UNCHANGED vars
    BY <2>1 DEF vars, lifeVars, audioVars, retainVars, orderVars, deleteVars, faultVars, AudioInv, RetriedLate,
                Spared, FaultsSpared, StoredInv, UnkeptInTurn, Unkept, PutIsLatest, OnTimeline, KeptIsStored,
                Offsets, BeginsAtEnd, TimelineEnd, Closed
  <2>2. CASE Deleting
    <3>1. RetriedLate'
      BY <2>2 DEF Deleting, DeleteAudio, DeleteRow, DeleteFault, DeleteAudioAgain, lifeVars, orderVars, AudioInv,
                  RetriedLate
    <3>2. ~Spared'
      BY <2>2 DEF Deleting, DeleteAudio, DeleteRow, DeleteFault, DeleteAudioAgain, Spared, ControlInv,
                  DeletesCounted, TypeOK, CountsOK
    <3>. QED  BY <3>1, <3>2 DEF AudioInv
  <2>3. CASE Next
    BY <2>1, <2>2, <2>3, StartingKeepsAudio, TeardownKeepsAudio DEF Next, Starting, Rest
  <2>. QED  BY <2>1, <2>3
<1>. QED  BY <1>1, <1>2, TypeCorrect, OwnershipHolds, ControlHolds, PTL DEF Spec

\* Through any order of closes, resumes, retains, retries and outages, all the audio heard is kept,
\* each chunk where the transcript has it, when no more fails than a sitting can take.
THEOREM AudioIsKept == Spec => []AudioKept
<1>1. TypeOK /\ OwnershipInv /\ ControlInv /\ AudioInv => AudioKept
  <2>. SUFFICES ASSUME TypeOK, OwnershipInv, ControlInv, AudioInv PROVE AudioKept
    OBVIOUS
  <2>. USE DEF TypeOK
  <2>1. Spared => StoredInv
    BY DEF AudioInv
  <2>2. AudioOnTimeline
    BY <2>1 DEF Spared, StoredInv, OnTimeline, AudioOnTimeline
  <2>3. FaultsSpared => StoredStays
    BY <2>1 DEF Spared, StoredInv, KeptIsStored, StoredStays
  <2>4. Spared /\ Settled => \A s \in Sittings : stopping # s => kept[s] = heard[s]
    <3>. SUFFICES ASSUME Spared, Settled, NEW s \in Sittings, stopping # s, kept[s] # heard[s] PROVE FALSE
      OBVIOUS
    <3>1. Unkept(s)
      BY DEF Unkept, AudioOK
    <3>2. pc[s] \in {"live", "first", "drain", "persist"}
      BY <2>1, <3>1 DEF StoredInv, UnkeptInTurn
    <3>. QED  BY <3>2 DEF Settled
  <2>. QED  BY <2>2, <2>3, <2>4 DEF AudioKept, NothingLost, Spared
<1>. QED  BY <1>1, TypeCorrect, OwnershipHolds, ControlHolds, AudioHolds, PTL
=============================================================================
