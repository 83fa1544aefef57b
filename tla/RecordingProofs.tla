-------------------------- MODULE RecordingProofs --------------------------
(***************************************************************************)
(* Theorems about Recording, for every value of its bounds: the type        *)
(* invariant, that a row is never shown ready while a sitting that opened   *)
(* it is still recording, and that Recording implements the safety part of  *)
(* Conversation for any number of sittings, chunks, write and disk faults   *)
(* and deletes, as long as no create() or reopen() raises: every step of a  *)
(* sitting, of the retry loop or of a delete is a step of Conversation, or  *)
(* changes nothing it shows.                                                *)
(***************************************************************************)
EXTENDS Recording, TLAPS

USE DEF OrNone, None

LEMMA ChunksType ==
  ASSUME NEW s \in Sittings, NEW from \in Nat, NEW to \in Nat
  PROVE  ChunksOf(s, from, to) \in Seq(Chunk)
<1>1. CASE to <= from
  <2>1. ChunksOf(s, from, to) = [i \in 1..0 |-> <<s, from + i>>]
    BY <1>1, SMT DEF ChunksOf, Sittings
  <2>. QED  BY <2>1, SMT DEF Chunk
<1>2. CASE from < to
  BY <1>2, SMT DEF ChunksOf, Chunk
<1>. QED  BY <1>1, <1>2

\* What every step keeps, for the steps that leave a group of variables alone.
LEMMA TypeUnchanged ==
  /\ StoresOK /\ UNCHANGED <<row, wav>> => StoresOK'
  /\ LifeOK /\ UNCHANGED lifeVars => LifeOK'
  /\ AudioOK /\ UNCHANGED audioVars /\ UNCHANGED <<existing, taken>> => AudioOK'
  /\ RetainOK /\ UNCHANGED retainVars => RetainOK'
  /\ OrderOK /\ UNCHANGED orderVars /\ UNCHANGED stopping => OrderOK'
  /\ CountsOK /\ UNCHANGED deleteVars /\ UNCHANGED faultVars => CountsOK'
BY DEF StoresOK, LifeOK, AudioOK, RetainOK, OrderOK, CountsOK, lifeVars, audioVars, retainVars,
       orderVars, deleteVars, faultVars

LEMMA RetainEndsAudio ==
  ASSUME AudioOK, UNCHANGED audioVars, NEW s \in Sittings, NEW ok \in BOOLEAN, RetainEnds(s, ok)
  PROVE  AudioOK'
BY DEF AudioOK, audioVars, RetainEnds

\* The type invariant of the module, over every behaviour and for every bound.
THEOREM TypeCorrect == Spec => []TypeOK
<1>1. Init => TypeOK
  BY DEF Init, TypeOK, StoresOK, LifeOK, AudioOK, RetainOK, OrderOK, CountsOK, Row, Pc, Chunk

<1>2. TypeOK /\ [Next]_vars => TypeOK'
  <2>. SUFFICES ASSUME TypeOK, [Next]_vars
                PROVE  TypeOK'
    OBVIOUS
  <2>. USE DEF TypeOK
  <2>1. CASE StartFresh
    <3>1. LifeOK'
      BY <2>1 DEF StartFresh, MayStart, LifeOK, Pc, lifeVars
    <3>. QED
      BY <2>1, <3>1, TypeUnchanged DEF StartFresh, MayStart, audioVars, retainVars, orderVars, deleteVars, faultVars
  <2>2. ASSUME NEW s \in Sittings, StartResume(s) PROVE TypeOK'
    <3>1. LifeOK'
      BY <2>2 DEF StartResume, MayStart, TimelineEnd, LifeOK, Pc, lifeVars
    <3>2. AudioOK'
      <4>1. offset' \in [Sittings -> Nat]
        <5>1. CASE closing = None
          BY <2>2, <5>1 DEF StartResume, AudioOK
        <5>2. CASE closing # None
          <6>1. closing \in Sittings
            BY <5>2, Zenon DEF OrderOK
          <6>2. TimelineEnd(closing) \in Nat
            BY <6>1 DEF AudioOK, TimelineEnd
          <6>. QED  BY <2>2, <5>2, <6>2 DEF StartResume, AudioOK
        <5>. QED  BY <5>1, <5>2
      <4>2. UNCHANGED <<heard, kept, existing, taken>>
        BY <2>2 DEF StartResume, retainVars
      <4>. QED  BY <4>1, <4>2 DEF AudioOK
    <3>3. OrderOK'
      BY <2>2 DEF StartResume, MayStart, TimelineEnd, OrderOK, orderVars
    <3>. QED
      BY <2>2, <3>1, <3>2, <3>3, TypeUnchanged DEF StartResume, MayStart, TimelineEnd, retainVars, deleteVars, faultVars
  <2>3. ASSUME NEW s \in Sittings, ReadOffset(s) PROVE TypeOK'
    <3>1. LifeOK'
      BY <2>3 DEF ReadOffset, LifeOK, Pc, lifeVars
    <3>2. AudioOK'
      BY <2>3 DEF ReadOffset, AudioOK, audioVars, retainVars
    <3>. QED
      BY <2>3, <3>1, <3>2, TypeUnchanged DEF ReadOffset, retainVars, orderVars, deleteVars, faultVars
  <2>4. ASSUME NEW s \in Sittings, OpenRow(s) PROVE TypeOK'
    <3>1. StoresOK'
      BY <2>4 DEF OpenRow, Opened, StoresOK, Row
    <3>2. LifeOK'
      BY <2>4 DEF OpenRow, Opened, LifeOK, Pc, lifeVars
    <3>. QED
      BY <2>4, <3>1, <3>2, TypeUnchanged DEF OpenRow, Opened, audioVars, retainVars, orderVars, deleteVars, faultVars
  <2>5. ASSUME NEW s \in Sittings, OpenFault(s) PROVE TypeOK'
    <3>1. StoresOK'
      BY <2>5 DEF OpenFault, Opened, StoresOK, Row
    <3>2. LifeOK'
      BY <2>5 DEF OpenFault, Opened, LifeOK, Pc, lifeVars
    <3>3. CountsOK'
      BY <2>5 DEF OpenFault, Opened, CountsOK, deleteVars, faultVars
    <3>. QED
      BY <2>5, <3>1, <3>2, <3>3, TypeUnchanged DEF OpenFault, Opened, audioVars, retainVars, orderVars
  <2>6. ASSUME NEW s \in Sittings, Ready(s) PROVE TypeOK'
    <3>1. LifeOK'
      BY <2>6 DEF Ready, LifeOK, Pc, lifeVars
    <3>. QED
      BY <2>6, <3>1, TypeUnchanged DEF Ready, audioVars, retainVars, orderVars, deleteVars, faultVars
  <2>7. ASSUME NEW s \in Sittings, StartFails(s) PROVE TypeOK'
    <3>1. LifeOK'
      BY <2>7 DEF StartFails, LifeOK, Pc, lifeVars
    <3>2. RetainOK'
      BY <2>7 DEF StartFails, RetainOK, retainVars
    <3>3. OrderOK'
      BY <2>7 DEF StartFails, OrderOK, orderVars
    <3>. QED
      BY <2>7, <3>1, <3>2, <3>3, TypeUnchanged DEF StartFails, audioVars, deleteVars, faultVars, retainVars
  <2>8. ASSUME NEW s \in Sittings, Hear(s) PROVE TypeOK'
    <3>1. AudioOK'
      BY <2>8 DEF Hear, AudioOK, audioVars, retainVars
    <3>. QED
      BY <2>8, <3>1, TypeUnchanged DEF Hear, lifeVars, retainVars, orderVars, deleteVars, faultVars
  <2>9. ASSUME NEW s \in Sittings, Close(s) PROVE TypeOK'
    <3>1. LifeOK'
      BY <2>9 DEF Close, CloseLive, LifeOK, Pc, lifeVars
    <3>2. RetainOK'
      BY <2>9 DEF Close, CloseLive, RetainOK, retainVars
    <3>3. OrderOK'
      BY <2>9 DEF Close, CloseLive, OrderOK, orderVars
    <3>. QED
      BY <2>9, <3>1, <3>2, <3>3, TypeUnchanged DEF Close, CloseLive, audioVars, deleteVars, faultVars, retainVars
  <2>10. ASSUME NEW s \in Sittings, Shutdown(s) PROVE TypeOK'
    <3>1. LifeOK'
      BY <2>10 DEF Shutdown, CloseLive, LifeOK, Pc, lifeVars
    <3>2. RetainOK'
      BY <2>10 DEF Shutdown, CloseLive, RetainOK, retainVars
    <3>3. OrderOK'
      BY <2>10 DEF Shutdown, CloseLive, OrderOK, orderVars
    <3>. QED
      BY <2>10, <3>1, <3>2, <3>3, TypeUnchanged DEF Shutdown, CloseLive, audioVars, deleteVars, faultVars, retainVars
  <2>11. ASSUME NEW s \in Sittings, AwaitPriorRetain(s) PROVE TypeOK'
    <3>1. LifeOK'
      BY <2>11 DEF AwaitPriorRetain, RetainEnds, LifeOK, Pc, lifeVars
    <3>2. AudioOK'
      <4>1. UNCHANGED <<audioVars, existing, taken>> \/ (UNCHANGED audioVars /\ RetainEnds(s, FALSE))
        BY <2>11 DEF AwaitPriorRetain
      <4>. QED  BY <4>1, RetainEndsAudio, TypeUnchanged
    <3>3. RetainOK'
      BY <2>11 DEF AwaitPriorRetain, RetainEnds, RetainOK, retainVars
    <3>4. OrderOK'
      BY <2>11 DEF AwaitPriorRetain, RetainEnds, OrderOK, orderVars
    <3>. QED
      BY <2>11, <3>1, <3>2, <3>3, <3>4, TypeUnchanged DEF AwaitPriorRetain, RetainEnds, deleteVars, faultVars
  <2>12. ASSUME NEW s \in Sittings, RetainNothing(s) PROVE TypeOK'
    <3>1. LifeOK'
      BY <2>12 DEF RetainNothing, RetainEnds, LifeOK, Pc, lifeVars
    <3>2. AudioOK'
      BY <2>12, RetainEndsAudio DEF RetainNothing
    <3>3. RetainOK'
      BY <2>12 DEF RetainNothing, RetainEnds, RetainOK, retainVars
    <3>. QED
      BY <2>12, <3>1, <3>2, <3>3, TypeUnchanged DEF RetainNothing, RetainEnds, orderVars, deleteVars, faultVars
  <2>13. ASSUME NEW s \in Sittings, RetainRead(s) PROVE TypeOK'
    <3>1. AudioOK'
      BY <2>13 DEF RetainRead, AudioOK, audioVars, retainVars, StoresOK
    <3>2. RetainOK'
      BY <2>13 DEF RetainRead, RetainOK, retainVars
    <3>. QED
      BY <2>13, <3>1, <3>2, TypeUnchanged DEF RetainRead, lifeVars, orderVars, deleteVars, faultVars
  <2>14. ASSUME NEW s \in Sittings, RetainWrite(s) PROVE TypeOK'
    <3>1. StoresOK'
      BY <2>14, ChunksType DEF RetainWrite, TrimTo, StoresOK, AudioOK, Row, audioVars
    <3>2. AudioOK'
      BY <2>14 DEF RetainWrite, TrimTo, AudioOK, audioVars, retainVars
    <3>3. RetainOK'
      BY <2>14 DEF RetainWrite, TrimTo, RetainOK, retainVars
    <3>. QED
      BY <2>14, <3>1, <3>2, <3>3, TypeUnchanged DEF RetainWrite, TrimTo, lifeVars, orderVars, deleteVars, faultVars
  <2>15. ASSUME NEW s \in Sittings, LinkKey(s) PROVE TypeOK'
    <3>1. StoresOK'
      BY <2>15 DEF LinkKey, RetainEnds, StoresOK, Row
    <3>2. LifeOK'
      BY <2>15 DEF LinkKey, RetainEnds, LifeOK, Pc, lifeVars
    <3>3. AudioOK'
      <4>1. UNCHANGED <<audioVars, existing, taken>> \/ (UNCHANGED audioVars /\ RetainEnds(s, TRUE))
        BY <2>15 DEF LinkKey
      <4>. QED  BY <4>1, RetainEndsAudio, TypeUnchanged
    <3>4. RetainOK'
      BY <2>15 DEF LinkKey, RetainEnds, RetainOK, retainVars
    <3>. QED
      BY <2>15, <3>1, <3>2, <3>3, <3>4, TypeUnchanged DEF LinkKey, RetainEnds, orderVars, deleteVars, faultVars
  <2>16. ASSUME NEW s \in Sittings, DropOrphan(s) PROVE TypeOK'
    <3>1. StoresOK'
      BY <2>16 DEF DropOrphan, RetainEnds, StoresOK, Row
    <3>2. LifeOK'
      BY <2>16 DEF DropOrphan, RetainEnds, LifeOK, Pc, lifeVars
    <3>3. AudioOK'
      BY <2>16, RetainEndsAudio DEF DropOrphan
    <3>4. RetainOK'
      BY <2>16 DEF DropOrphan, RetainEnds, RetainOK, retainVars
    <3>. QED
      BY <2>16, <3>1, <3>2, <3>3, <3>4, TypeUnchanged DEF DropOrphan, RetainEnds, orderVars, deleteVars, faultVars
  <2>17. ASSUME NEW s \in Sittings, Persist(s) PROVE TypeOK'
    <3>1. LifeOK'
      BY <2>17 DEF Persist, LifeOK, Pc, lifeVars
    <3>2. RetainOK'
      BY <2>17 DEF Persist, RetainOK, retainVars
    <3>3. OrderOK'
      BY <2>17 DEF Persist, OrderOK, orderVars
    <3>. QED
      BY <2>17, <3>1, <3>2, <3>3, TypeUnchanged DEF Persist, audioVars, deleteVars, faultVars, retainVars
  <2>18. ASSUME NEW s \in Sittings, AwaitCreate(s) PROVE TypeOK'
    <3>1. LifeOK'
      BY <2>18 DEF AwaitCreate, Leave, LifeOK, Pc, lifeVars
    <3>2. OrderOK'
      BY <2>18 DEF AwaitCreate, Leave, OrderOK, orderVars
    <3>. QED
      BY <2>18, <3>1, <3>2, TypeUnchanged DEF AwaitCreate, Leave, audioVars, retainVars, deleteVars, faultVars
  <2>19. ASSUME NEW s \in Sittings, Finalize(s) PROVE TypeOK'
    <3>1. LifeOK'
      BY <2>19 DEF Finalize, Leave, LifeOK, Pc, lifeVars
    <3>2. OrderOK'
      BY <2>19 DEF Finalize, Leave, OrderOK, orderVars
    <3>. QED
      BY <2>19, <3>1, <3>2, TypeUnchanged DEF Finalize, Leave, audioVars, retainVars, deleteVars, faultVars
  <2>20. ASSUME NEW s \in Sittings, Finish(s) PROVE TypeOK'
    <3>1. StoresOK'
      BY <2>20 DEF Finish, Leave, StoresOK, Row
    <3>2. LifeOK'
      BY <2>20 DEF Finish, Leave, LifeOK, Pc, lifeVars
    <3>3. OrderOK'
      BY <2>20 DEF Finish, Leave, OrderOK, orderVars
    <3>. QED
      BY <2>20, <3>1, <3>2, <3>3, TypeUnchanged DEF Finish, Leave, audioVars, retainVars, deleteVars, faultVars
  <2>21. ASSUME NEW s \in Sittings, Retry(s) PROVE TypeOK'
    <3>1. LifeOK'
      BY <2>21 DEF Retry, LifeOK, Pc, lifeVars
    <3>2. RetainOK'
      BY <2>21 DEF Retry, RetainOK, retainVars
    <3>3. OrderOK'
      BY <2>21 DEF Retry, OrderOK, orderVars
    <3>. QED
      BY <2>21, <3>1, <3>2, <3>3, TypeUnchanged DEF Retry, audioVars, deleteVars, faultVars, retainVars
  <2>22. ASSUME NEW s \in Sittings, RetainFault(s) PROVE TypeOK'
    <3>1. LifeOK'
      BY <2>22 DEF RetainFault, RetainEnds, LifeOK, Pc, lifeVars
    <3>2. AudioOK'
      BY <2>22, RetainEndsAudio DEF RetainFault
    <3>3. RetainOK'
      BY <2>22 DEF RetainFault, RetainEnds, RetainOK, retainVars
    <3>4. CountsOK'
      BY <2>22 DEF RetainFault, RetainEnds, CountsOK, deleteVars, faultVars
    <3>. QED
      BY <2>22, <3>1, <3>2, <3>3, <3>4, TypeUnchanged DEF RetainFault, RetainEnds, orderVars
  <2>23. ASSUME NEW s \in Sittings, LinkFault(s) PROVE TypeOK'
    <3>1. LifeOK'
      BY <2>23 DEF LinkFault, RetainEnds, LifeOK, Pc, lifeVars
    <3>2. AudioOK'
      BY <2>23, RetainEndsAudio DEF LinkFault
    <3>3. RetainOK'
      BY <2>23 DEF LinkFault, RetainEnds, RetainOK, retainVars
    <3>4. CountsOK'
      BY <2>23 DEF LinkFault, RetainEnds, CountsOK, deleteVars, faultVars
    <3>. QED
      BY <2>23, <3>1, <3>2, <3>3, <3>4, TypeUnchanged DEF LinkFault, RetainEnds, orderVars
  <2>24. ASSUME NEW s \in Sittings, FinalizeFault(s) PROVE TypeOK'
    <3>1. LifeOK'
      BY <2>24 DEF FinalizeFault, Leave, LifeOK, Pc, lifeVars
    <3>2. OrderOK'
      BY <2>24 DEF FinalizeFault, Leave, OrderOK, orderVars
    <3>3. CountsOK'
      BY <2>24 DEF FinalizeFault, Leave, CountsOK, deleteVars, faultVars
    <3>. QED
      BY <2>24, <3>1, <3>2, <3>3, TypeUnchanged DEF FinalizeFault, Leave, audioVars, retainVars
  <2>25. CASE DeleteAudio
    <3>1. StoresOK'
      BY <2>25 DEF DeleteAudio, StoresOK, Row
    <3>2. CountsOK'
      BY <2>25 DEF DeleteAudio, CountsOK, deleteVars, faultVars
    <3>. QED
      BY <2>25, <3>1, <3>2, TypeUnchanged DEF DeleteAudio, lifeVars, audioVars, retainVars, orderVars
  <2>26. CASE DeleteRow
    <3>1. StoresOK'
      BY <2>26 DEF DeleteRow, StoresOK, Row
    <3>2. CountsOK'
      BY <2>26 DEF DeleteRow, CountsOK, deleteVars, faultVars
    <3>. QED
      BY <2>26, <3>1, <3>2, TypeUnchanged DEF DeleteRow, lifeVars, audioVars, retainVars, orderVars
  <2>27. CASE DeleteFault
    <3>1. CountsOK'
      BY <2>27 DEF DeleteFault, CountsOK, deleteVars, faultVars
    <3>. QED
      BY <2>27, <3>1, TypeUnchanged DEF DeleteFault, lifeVars, audioVars, retainVars, orderVars
  <2>28. CASE DeleteAudioAgain
    <3>1. StoresOK'
      BY <2>28 DEF DeleteAudioAgain, StoresOK, Row
    <3>2. CountsOK'
      BY <2>28 DEF DeleteAudioAgain, CountsOK, deleteVars, faultVars
    <3>. QED
      BY <2>28, <3>1, <3>2, TypeUnchanged DEF DeleteAudioAgain, lifeVars, audioVars, retainVars, orderVars
  <2>29. CASE UNCHANGED vars
    BY <2>29, TypeUnchanged DEF vars, retainVars
  <2>. QED
    BY <2>1, <2>2, <2>3, <2>4, <2>5, <2>6, <2>7, <2>8, <2>9, <2>10,
       <2>11, <2>12, <2>13, <2>14, <2>15, <2>16, <2>17, <2>18, <2>19, <2>20,
       <2>21, <2>22, <2>23, <2>24, <2>25, <2>26, <2>27, <2>28, <2>29
    DEF Next, Starting, Storing, Finalizing, Faulting, Deleting, Rest
<1>. QED  BY <1>1, <1>2, PTL DEF Spec

-----------------------------------------------------------------------------
\* A step of sitting s inside its teardown or its retry: only its own pc, retain and claim on
\* the retry loop move, and the row's status at most becomes ready, by its own finish().
TeardownMove(s) ==
  /\ \A r \in Sittings \ {s} : /\ pc'[r] = pc[r] /\ retain'[r] = retain[r]
                               /\ retrying' = r => retrying = r
  /\ UNCHANGED <<created, failed, openFaults>>
  /\ Closed(s) /\ Closed(s)'
  /\ retain'[s] # "idle" => pc'[s] \in {"first", "persist"}
  /\ pc'[s] \in {"finalize", "finish"} => created[s] \notin {"none", "running"}
  /\ TeardownDone(s)' => created[s] # "running"
  /\ row'.token = row.token
  /\ \/ row'.status = row.status
     \/ row'.status = "ready" /\ RowExists /\ OwnsRow(s) /\ pc[s] = "finish"

\* The invariant survives every such step; that finish() closes no other sitting's row is here.
LEMMA TeardownMoveKeepsInv ==
  ASSUME TypeOK, OwnershipInv, NEW s \in Sittings, TeardownMove(s)
  PROVE  OwnershipInv'
<1>. USE DEF OwnershipInv, TeardownMove
<1>1. \A r \in Sittings : (Closed(r)' <=> Closed(r)) /\ (pc'[r] = "none" <=> pc[r] = "none")
  BY DEF Closed
<1>2. Sequential'
  BY <1>1 DEF Sequential
<1>3. StepsInOrder'
  BY <1>1 DEF StepsInOrder, TeardownDone, Unfinalized, Closed
<1>4. RowKnown'
  BY <1>1 DEF RowKnown, RowExists
<1>5. TokenIsLastOpener'
  BY DEF TokenIsLastOpener
<1>6. ReadyMeansNobodyRecording'
  <2>. SUFFICES ASSUME openFaults = 0, row'.status = "ready",
                       NEW r \in Sittings, Recording(r)'
                PROVE  FALSE
    BY DEF ReadyMeansNobodyRecording
  <2>1. Recording(r)
    BY <1>1 DEF Recording, Closed
  <2>2. CASE row'.status = row.status
    BY <2>1, <2>2 DEF ReadyMeansNobodyRecording
  <2>3. CASE RowExists /\ OwnsRow(s) /\ pc[s] = "finish"
    <3>1. created[s] = "opened"
      BY <2>3 DEF StepsInOrder, RowKnown, RowExists, TokenIsLastOpener, TypeOK, LifeOK
    <3>2. row.token = s
      BY <2>3, <3>1 DEF OwnsRow
    <3>3. r <= s /\ r # s
      BY <2>1, <2>3, <3>2 DEF TokenIsLastOpener, Recording
    <3>4. Closed(r)
      BY <2>3, <3>3 DEF Sequential, Sittings
    <3>. QED  BY <2>1, <3>4 DEF Recording, Closed
  <2>. QED  BY <2>2, <2>3
<1>. QED  BY <1>2, <1>3, <1>4, <1>5, <1>6

\* The steps of a teardown are such steps.
LEMMA StoringMoves ==
  ASSUME TypeOK, OwnershipInv, NEW s \in Sittings,
         \/ AwaitPriorRetain(s) \/ RetainNothing(s) \/ RetainFault(s) \/ LinkKey(s)
         \/ LinkFault(s) \/ DropOrphan(s) \/ RetainRead(s) \/ RetainWrite(s)
  PROVE  TeardownMove(s)
<1>. USE DEF TypeOK, StoresOK, LifeOK, RetainOK, OwnershipInv, StepsInOrder, TeardownMove, Row,
             orderVars, lifeVars
<1>1. ASSUME AwaitPriorRetain(s) PROVE TeardownMove(s)
  BY <1>1 DEF AwaitPriorRetain, RetainEnds, Closed, TeardownDone, Unfinalized, faultVars
<1>2. ASSUME NEW ok \in BOOLEAN, RetainEnds(s, ok), retain[s] # "idle",
             UNCHANGED <<created, failed, openFaults, retrying>>,
             row'.token = row.token, row'.status = row.status
      PROVE TeardownMove(s)
  BY <1>2 DEF RetainEnds, Closed, TeardownDone, Unfinalized
<1>3. ASSUME RetainNothing(s) PROVE TeardownMove(s)
  BY <1>2, <1>3 DEF RetainNothing, Retaining, faultVars
<1>4. ASSUME RetainFault(s) PROVE TeardownMove(s)
  BY <1>2, <1>4 DEF RetainFault, Retaining
<1>5. ASSUME LinkKey(s) PROVE TeardownMove(s)
  <2>1. retain[s] # "idle"
    BY <1>5 DEF LinkKey, Linking, Retaining
  <2>2. row'.token = row.token /\ row'.status = row.status
    BY <1>5, ZenonT(30) DEF LinkKey
  <2>3. CASE RowGone(s)
    BY <1>5, <2>1, <2>2, <2>3 DEF LinkKey, Closed, TeardownDone, Unfinalized, faultVars
  <2>4. CASE ~RowGone(s)
    BY <1>2, <1>5, <2>1, <2>2, <2>4 DEF LinkKey, faultVars
  <2>. QED  BY <2>3, <2>4
<1>6. ASSUME LinkFault(s) PROVE TeardownMove(s)
  BY <1>2, <1>6 DEF LinkFault, Linking, Retaining
<1>7. ASSUME DropOrphan(s) PROVE TeardownMove(s)
  BY <1>2, <1>7 DEF DropOrphan, faultVars
<1>8. ASSUME RetainRead(s) PROVE TeardownMove(s)
  BY <1>8 DEF RetainRead, Retaining, Closed, TeardownDone, Unfinalized, faultVars
<1>9. ASSUME RetainWrite(s) PROVE TeardownMove(s)
  BY <1>9 DEF RetainWrite, Closed, TeardownDone, Unfinalized, faultVars
<1>. QED  BY <1>1, <1>3, <1>4, <1>5, <1>6, <1>7, <1>8, <1>9

LEMMA FinalizingMoves ==
  ASSUME TypeOK, OwnershipInv, NEW s \in Sittings,
         Persist(s) \/ AwaitCreate(s) \/ Finalize(s) \/ Finish(s) \/ Retry(s) \/ FinalizeFault(s)
  PROVE  TeardownMove(s)
<1>. USE DEF TypeOK, StoresOK, LifeOK, RetainOK, OwnershipInv, StepsInOrder, TeardownMove, Row,
             retainVars, faultVars, Closed, TeardownDone, Unfinalized
<1>1. ASSUME Persist(s) PROVE TeardownMove(s)
  BY <1>1 DEF Persist
<1>2. ASSUME AwaitCreate(s) PROVE TeardownMove(s)
  <2>1. pc[s] = "create" /\ retain[s] = "idle" /\ created[s] # "running"
    BY <1>2 DEF AwaitCreate, CreateOver
  <2>2. CASE created[s] = "none"
    <3>1. /\ pc' = [pc EXCEPT ![s] = "done"]
          /\ retrying' = IF retrying = s THEN None ELSE retrying
          /\ UNCHANGED <<row, created, failed, openFaults, retain>>
      BY <1>2, <2>2 DEF AwaitCreate, Leave
    <3>. HIDE <1>2
    <3>2. /\ \A r \in Sittings \ {s} : /\ pc'[r] = pc[r] /\ retain'[r] = retain[r]
                                        /\ retrying' = r => retrying = r
          /\ pc'[s] = "done" /\ retain'[s] = "idle"
      <4>1. pc \in [Sittings -> Pc] /\ \A r \in Sittings : r # None
        BY DEF Sittings, None
      <4>. HIDE DEF TypeOK, StoresOK, LifeOK, RetainOK, OwnershipInv, StepsInOrder, TeardownMove
      <4>. QED  BY <2>1, <3>1, <4>1
    <3>. QED  BY <2>1, <3>1, <3>2
  <2>3. CASE created[s] # "none"
    BY <1>2, <2>1, <2>3 DEF AwaitCreate
  <2>. QED  BY <2>2, <2>3
<1>3. ASSUME Finalize(s) PROVE TeardownMove(s)
  BY <1>3 DEF Finalize, Leave
<1>4. ASSUME Finish(s) PROVE TeardownMove(s)
  <2>1. /\ row'.token = row.token
        /\ \/ row'.status = row.status
           \/ row'.status = "ready" /\ RowExists /\ OwnsRow(s) /\ pc[s] = "finish"
    BY <1>4 DEF Finish
  <2>2. /\ pc[s] = "finish" /\ retain[s] = "idle" /\ created[s] # "running"
        /\ pc' = [pc EXCEPT ![s] = "done"]
        /\ retrying' = IF retrying = s THEN None ELSE retrying
        /\ UNCHANGED <<created, failed, openFaults, retain>>
    BY <1>4 DEF Finish, Leave
  <2>. HIDE <1>4
  <2>3. /\ \A r \in Sittings \ {s} : /\ pc'[r] = pc[r] /\ retain'[r] = retain[r]
                                      /\ retrying' = r => retrying = r
        /\ pc'[s] = "done" /\ retain'[s] = "idle"
    BY <2>2
  <2>. QED
    BY <2>1, <2>2, <2>3
<1>5. ASSUME Retry(s) PROVE TeardownMove(s)
  BY <1>5 DEF Retry
<1>6. ASSUME FinalizeFault(s) PROVE TeardownMove(s)
  BY <1>6 DEF FinalizeFault, Leave
<1>. QED  BY <1>1, <1>2, <1>3, <1>4, <1>5, <1>6

-----------------------------------------------------------------------------
\* A sitting starts with every earlier one closed and its create() over.
LEMMA StartsAlone ==
  ASSUME TypeOK, OwnershipInv, NEW s \in Sittings, MayStart(s)
  PROVE  /\ pc[s] = "none" /\ created[s] = "none"
         /\ \A r \in Sittings : r < s => Closed(r) /\ created[r] # "running"
<1>1. pc[s] = "none" /\ created[s] = "none"
  BY DEF MayStart, OwnershipInv, StepsInOrder
<1>2. ASSUME NEW r \in Sittings, r < s PROVE Closed(r) /\ created[r] # "running"
  <2>1. Closed(r) /\ (failed[r] => TeardownDone(r))
    BY <1>2 DEF MayStart, Sittings
  <2>. QED  BY <2>1 DEF OwnershipInv, StepsInOrder
<1>. QED  BY <1>1, <1>2

\* While a sitting's create() runs, no later one has started.
LEMMA OpensLast ==
  ASSUME TypeOK, OwnershipInv, NEW s \in Sittings, created[s] = "running"
  PROVE  /\ pc[s] \notin {"none", "offset", "live"}
         /\ \A r \in Sittings : r > s => pc[r] = "none" /\ created[r] = "none"
<1>1. pc[s] \notin {"none", "offset", "live"}
  BY DEF OwnershipInv, StepsInOrder
<1>2. ASSUME NEW r \in Sittings, r > s PROVE pc[r] = "none" /\ created[r] = "none"
  <2>1. s < r
    BY <1>2 DEF Sittings
  <2>2. pc[r] = "none"
    BY <2>1 DEF OwnershipInv, Sequential
  <2>. QED  BY <2>2 DEF OwnershipInv, StepsInOrder
<1>. QED  BY <1>1, <1>2

\* Sitting s's create() thread starts, or its offset is still to be found: nothing else moves.
LEMMA StartStepKeepsInv ==
  ASSUME TypeOK, OwnershipInv, NEW s \in Sittings, NEW p \in {"offset", "open"},
         pc[s] \in {"none", "offset"},
         \A r \in Sittings : r < s => Closed(r) /\ created[r] # "running",
         s > 1 => row.status # "absent",
         pc' = [pc EXCEPT ![s] = p],
         created' = [created EXCEPT ![s] = IF p = "open" THEN "running" ELSE "none"],
         UNCHANGED <<row, failed, retain, retrying, openFaults>>
  PROVE  OwnershipInv'
<1>. USE DEF TypeOK, LifeOK, OwnershipInv
<1>1. created[s] = "none" /\ ~Closed(s)
  BY DEF StepsInOrder, Closed
<1>2. \A r \in Sittings \ {s} : pc'[r] = pc[r] /\ created'[r] = created[r]
                                /\ (Closed(r)' <=> Closed(r))
  BY DEF Closed
<1>3. Sequential'
  <2>. SUFFICES ASSUME NEW r \in Sittings, NEW q \in Sittings, r < q, pc'[q] # "none"
                PROVE  Closed(r)' /\ created'[r] # "running"
    BY DEF Sequential
  <2>0. r # q
    BY DEF Sittings
  <2>1. CASE q = s
    BY <1>2, <2>0, <2>1
  <2>2. CASE q # s
    <3>1. Closed(r) /\ created[r] # "running"
      BY <1>2, <2>2 DEF Sequential
    <3>2. r # s
      BY <1>1, <3>1
    <3>. QED  BY <1>2, <3>1, <3>2
  <2>. QED  BY <2>1, <2>2
<1>4. StepsInOrder'
  <2>. SUFFICES ASSUME NEW r \in Sittings
                PROVE /\ retain'[r] # "idle" => pc'[r] \in {"first", "persist"}
                      /\ pc'[r] \in {"none", "offset"} => created'[r] = "none"
                      /\ pc'[r] \in {"finalize", "finish"} => created'[r] # "none"
                      /\ pc'[r] \in {"finalize", "finish"} \/ TeardownDone(r)' => created'[r] # "running"
                      /\ ~Closed(r)' => ~failed'[r] /\ retrying' # r
                      /\ pc'[r] = "live" \/ (Closed(r)' /\ ~failed'[r]) => created'[r] = "opened"
    BY DEF StepsInOrder
  <2>1. CASE r = s
    BY <1>1, <2>1 DEF StepsInOrder, Closed, TeardownDone, Unfinalized
  <2>2. CASE r # s
    BY <1>2, <2>2 DEF StepsInOrder, TeardownDone, Unfinalized
  <2>. QED  BY <2>1, <2>2
<1>5. RowKnown'
  BY <1>2 DEF RowKnown
<1>6. TokenIsLastOpener'
  <2>. SUFFICES ASSUME openFaults = 0
                PROVE /\ \A r \in Sittings : created'[r] # "error"
                      /\ row.token # None => created'[row.token] = "opened"
                      /\ \A r \in Sittings : created'[r] = "opened" => r <= row.token
    BY DEF TokenIsLastOpener
  <2>1. row.token # None => row.token \in Sittings /\ row.token # s
    BY <1>1 DEF TokenIsLastOpener, StoresOK, Row
  <2>. QED  BY <1>2, <2>1 DEF TokenIsLastOpener
<1>7. ReadyMeansNobodyRecording'
  BY <1>2 DEF ReadyMeansNobodyRecording, Recording
<1>. QED  BY <1>3, <1>4, <1>5, <1>6, <1>7

LEMMA StartingKeepsInv ==
  ASSUME TypeOK, OwnershipInv, NEW s \in Sittings,
         (s = 1 /\ StartFresh) \/ StartResume(s) \/ ReadOffset(s)
  PROVE  OwnershipInv'
<1>1. CASE s = 1 /\ StartFresh
  <2>1. MayStart(s)
    BY <1>1 DEF StartFresh
  <2>2. /\ pc' = [pc EXCEPT ![s] = "open"]
        /\ created' = [created EXCEPT ![s] = IF "open" = "open" THEN "running" ELSE "none"]
        /\ UNCHANGED <<row, failed, retain, retrying, openFaults>>
    BY <1>1 DEF StartFresh, retainVars, orderVars, faultVars
  <2>3. ~(s > 1)
    BY <1>1
  <2>. QED  BY <2>1, <2>2, <2>3, StartsAlone, StartStepKeepsInv
<1>2. CASE StartResume(s)
  <2>1. MayStart(s) /\ RowExists
    BY <1>2 DEF StartResume, MayStart
  <2>2. CASE closing # None
    BY <1>2, <2>1, <2>2, StartsAlone, StartStepKeepsInv
    DEF StartResume, RowExists, retainVars, faultVars
  <2>3. CASE closing = None
    <3>1. created[s] = "none"
      BY <2>1, StartsAlone
    <3>2. created' = [created EXCEPT ![s] = "none"]
      BY <1>2, <2>3, <3>1 DEF StartResume, TypeOK, LifeOK
    <3>. QED
      BY <1>2, <2>1, <2>3, <3>2, StartsAlone, StartStepKeepsInv
      DEF StartResume, RowExists, retainVars, faultVars
  <2>. QED  BY <2>2, <2>3
<1>3. CASE ReadOffset(s)
  <2>1. pc[s] = "offset"
    BY <1>3 DEF ReadOffset
  <2>2. \A r \in Sittings : r < s => Closed(r) /\ created[r] # "running"
    BY <2>1 DEF OwnershipInv, Sequential
  <2>3. s > 1 => row.status # "absent"
    BY <2>1 DEF OwnershipInv, RowKnown
  <2>. QED
    BY <1>3, <2>1, <2>2, <2>3, StartStepKeepsInv DEF ReadOffset, retainVars, orderVars, faultVars
<1>. QED  BY <1>1, <1>2, <1>3

\* The create() or reopen() of sitting s ends: it is the last opener, or the row is gone.
LEMMA OpenRowKeepsInv ==
  ASSUME TypeOK, OwnershipInv, NEW s \in Sittings, OpenRow(s)
  PROVE  OwnershipInv'
<1>. USE DEF TypeOK, LifeOK, OwnershipInv
<1>1. /\ created[s] = "running" /\ created' = [created EXCEPT ![s] = IF row'.token = s THEN "opened" ELSE "gone"]
      /\ row' = Opened(s)
      /\ UNCHANGED <<pc, failed, retain, retrying, openFaults>>
  BY DEF OpenRow, retainVars, orderVars, faultVars
<1>2. /\ pc[s] \notin {"none", "offset", "live"}
      /\ \A r \in Sittings : r > s => pc[r] = "none" /\ created[r] = "none"
  BY <1>1, OpensLast
<1>3. \A r \in Sittings \ {s} : created'[r] = created[r]
  BY <1>1
<1>4. created'[s] \in {"opened", "gone"}
  BY <1>1
<1>5. Sequential'
  BY <1>1, <1>3, <1>4 DEF Sequential, Closed
<1>6. StepsInOrder'
  <2>1. ~(Closed(s) /\ ~failed[s]) /\ ~TeardownDone(s)
    BY <1>1 DEF StepsInOrder
  <2>. QED  BY <1>1, <1>2, <1>3, <1>4, <2>1 DEF StepsInOrder, Closed, TeardownDone, Unfinalized
<1>7. CASE s = 1 \/ RowExists
  <2>1. row'.status = "live" /\ row'.token = s /\ created'[s] = "opened"
    BY <1>1, <1>7 DEF Opened, StoresOK, Row
  <2>2. \A r \in Sittings : created'[r] # "gone"
    <3>. SUFFICES ASSUME NEW r \in Sittings, r # s, created[r] = "gone"
                  PROVE  FALSE
      BY <1>3, <2>1
    <3>1. row.status = "deleted"
      BY DEF RowKnown
    <3>2. s = 1 /\ r > s
      BY <1>7, <3>1 DEF RowExists, Sittings
    <3>. QED  BY <1>2, <3>2
  <2>3. RowKnown'
    BY <2>1, <2>2 DEF RowKnown
  <2>4. TokenIsLastOpener'
    <3>1. \A r \in Sittings : created'[r] = "opened" => r <= s
      BY <1>2, <1>3 DEF Sittings
    <3>2. openFaults = 0 => \A r \in Sittings : created'[r] # "error"
      BY <1>3, <2>1 DEF TokenIsLastOpener
    <3>. QED  BY <1>1, <2>1, <3>1, <3>2 DEF TokenIsLastOpener
  <2>5. ReadyMeansNobodyRecording'
    BY <2>1 DEF ReadyMeansNobodyRecording
  <2>. QED  BY <1>5, <1>6, <2>3, <2>4, <2>5
<1>8. CASE ~(s = 1 \/ RowExists)
  <2>1. row' = row /\ row.status = "deleted"
    <3>1. s > 1
      BY <1>8 DEF Sittings
    <3>. QED  BY <1>1, <1>2, <1>8, <3>1 DEF Opened, RowKnown, RowExists, StoresOK, Row
  <2>2. RowKnown'
    BY <2>1 DEF RowKnown
  <2>3. TokenIsLastOpener'
    <3>. SUFFICES ASSUME openFaults = 0
                  PROVE  /\ \A r \in Sittings : created'[r] # "error"
                         /\ row.token # None => created'[row.token] = "opened"
                         /\ \A r \in Sittings : created'[r] = "opened" => r <= row.token
      BY <1>1, <2>1 DEF TokenIsLastOpener
    <3>1. row.token # s
      <4>1. s # None
        BY DEF Sittings, None
      <4>. QED  BY <1>1, <4>1 DEF TokenIsLastOpener
    <3>2. created'[s] = "gone"
      BY <1>1, <2>1, <3>1
    <3>3. row.token # None => row.token \in Sittings \ {s}
      BY <3>1 DEF StoresOK, Row
    <3>. QED  BY <1>3, <3>2, <3>3 DEF TokenIsLastOpener
  <2>4. ReadyMeansNobodyRecording'
    BY <2>1 DEF ReadyMeansNobodyRecording
  <2>. QED  BY <1>5, <1>6, <2>2, <2>3, <2>4
<1>. QED  BY <1>7, <1>8

\* A create() or reopen() that raises, whatever it wrote.
LEMMA OpenFaultKeepsInv ==
  ASSUME TypeOK, OwnershipInv, NEW s \in Sittings, OpenFault(s)
  PROVE  OwnershipInv'
<1>. USE DEF TypeOK, LifeOK, OwnershipInv
<1>1. /\ created[s] = "running" /\ created' = [created EXCEPT ![s] = "error"]
      /\ row' \in {row, Opened(s)}
      /\ openFaults' = openFaults + 1
      /\ UNCHANGED <<pc, failed, retain, retrying>>
  BY DEF OpenFault, retainVars, orderVars
<1>2. /\ pc[s] \notin {"none", "offset", "live"}
      /\ \A r \in Sittings : r > s => pc[r] = "none" /\ created[r] = "none"
  BY <1>1, OpensLast
<1>3. created'[s] = "error" /\ \A r \in Sittings \ {s} : created'[r] = created[r]
  BY <1>1
<1>4. Sequential'
  BY <1>1, <1>3 DEF Sequential, Closed
<1>5. StepsInOrder'
  <2>1. ~(Closed(s) /\ ~failed[s]) /\ ~TeardownDone(s)
    BY <1>1 DEF StepsInOrder
  <2>. QED  BY <1>1, <1>2, <1>3, <2>1 DEF StepsInOrder, Closed, TeardownDone, Unfinalized
<1>6. RowKnown'
  <2>1. CASE row' = row
    BY <1>1, <1>3, <2>1 DEF RowKnown
  <2>2. CASE row' # row
    <3>1. row'.status = "live" /\ (s = 1 \/ RowExists)
      BY <1>1, <2>2 DEF Opened, StoresOK, Row
    <3>2. \A r \in Sittings : created'[r] # "gone"
      <4>. SUFFICES ASSUME NEW r \in Sittings, r # s, created[r] = "gone"
                    PROVE  FALSE
        BY <1>3
      <4>1. row.status = "deleted"
        BY DEF RowKnown
      <4>2. s = 1 /\ r > s
        BY <3>1, <4>1 DEF RowExists, Sittings
      <4>. QED  BY <1>2, <4>2
    <3>. QED  BY <3>1, <3>2 DEF RowKnown
  <2>. QED  BY <2>1, <2>2
<1>7. openFaults' # 0
  BY <1>1 DEF CountsOK
<1>. QED  BY <1>4, <1>5, <1>6, <1>7 DEF TokenIsLastOpener, ReadyMeansNobodyRecording

\* Session.ready, a failed start and a close move only the sitting's own pc.
LEMMA LifeStepKeepsInv ==
  ASSUME TypeOK, OwnershipInv, NEW s \in Sittings,
         Ready(s) \/ StartFails(s) \/ CloseLive(s)
  PROVE  OwnershipInv'
<1>. USE DEF TypeOK, LifeOK, OwnershipInv
<1>1. /\ UNCHANGED <<row, created, openFaults, retrying>>
      /\ \A r \in Sittings \ {s} : pc'[r] = pc[r] /\ failed'[r] = failed[r] /\ retain'[r] = retain[r]
  BY DEF Ready, StartFails, CloseLive, RetainOK, retainVars, orderVars, faultVars
<1>2. \/ /\ pc[s] = "open" /\ pc'[s] = "live" /\ created[s] = "opened"
         /\ failed'[s] = failed[s] /\ retain'[s] = retain[s]
      \/ /\ pc[s] \in {"offset", "open"} /\ pc'[s] = "first" /\ failed'[s]
      \/ /\ pc[s] = "live" /\ pc'[s] = "first" /\ failed'[s] = failed[s]
  BY DEF Ready, StartFails, CloseLive, retainVars
<1>3. Sequential'
  BY <1>1, <1>2 DEF Sequential, Closed
<1>4. StepsInOrder'
  <2>. SUFFICES ASSUME NEW r \in Sittings
                PROVE /\ retain'[r] # "idle" => pc'[r] \in {"first", "persist"}
                      /\ pc'[r] \in {"none", "offset"} => created'[r] = "none"
                      /\ pc'[r] \in {"finalize", "finish"} => created'[r] # "none"
                      /\ pc'[r] \in {"finalize", "finish"} \/ TeardownDone(r)' => created'[r] # "running"
                      /\ ~Closed(r)' => ~failed'[r] /\ retrying' # r
                      /\ pc'[r] = "live" \/ (Closed(r)' /\ ~failed'[r]) => created'[r] = "opened"
    BY DEF StepsInOrder
  <2>1. CASE r = s
    BY <1>1, <1>2, <2>1 DEF StepsInOrder, Closed, TeardownDone, Unfinalized
  <2>2. CASE r # s
    BY <1>1, <2>2 DEF StepsInOrder, Closed, TeardownDone, Unfinalized
  <2>. QED  BY <2>1, <2>2
<1>5. RowKnown'
  BY <1>1, <1>2 DEF RowKnown
<1>6. TokenIsLastOpener'
  BY <1>1 DEF TokenIsLastOpener
<1>7. ReadyMeansNobodyRecording'
  BY <1>1, <1>2 DEF ReadyMeansNobodyRecording, Recording
<1>. QED  BY <1>3, <1>4, <1>5, <1>6, <1>7

\* A step that leaves the sittings' progress alone and at most deletes the row.
LEMMA BystanderKeepsInv ==
  ASSUME TypeOK, OwnershipInv,
         UNCHANGED <<pc, created, failed, retain, retrying, openFaults>>,
         row' = row \/ row' = [row EXCEPT !.status = "deleted"]
  PROVE  OwnershipInv'
<1>. USE DEF TypeOK, OwnershipInv
<1>1. Sequential' /\ StepsInOrder'
  BY DEF Sequential, StepsInOrder, Closed, TeardownDone, Unfinalized
<1>2. row'.token = row.token /\ (row'.status = row.status \/ row'.status = "deleted")
  BY DEF StoresOK, Row
<1>3. RowKnown'
  BY <1>2 DEF RowKnown
<1>4. TokenIsLastOpener'
  BY <1>2 DEF TokenIsLastOpener
<1>5. ReadyMeansNobodyRecording'
  BY <1>2 DEF ReadyMeansNobodyRecording, Recording
<1>. QED  BY <1>1, <1>3, <1>4, <1>5

-----------------------------------------------------------------------------
\* The ownership of the row is an invariant, by one step per kind of action.
LEMMA OwnershipHolds == Spec => []OwnershipInv
<1>1. Init => OwnershipInv
  BY BoundsAssumption DEF Init, OwnershipInv, Sequential, StepsInOrder, RowKnown, TokenIsLastOpener,
         ReadyMeansNobodyRecording, Recording, Closed, TeardownDone, Unfinalized, Sittings
<1>2. TypeOK /\ OwnershipInv /\ [Next]_vars => OwnershipInv'
  <2>. SUFFICES ASSUME TypeOK, OwnershipInv, [Next]_vars PROVE OwnershipInv'
    OBVIOUS
  <2>1. ASSUME NEW s \in Sittings, Starting(s) PROVE OwnershipInv'
    BY <2>1, StartingKeepsInv, OpenRowKeepsInv, OpenFaultKeepsInv, LifeStepKeepsInv DEF Starting
  <2>2. ASSUME NEW s \in Sittings, Hear(s) PROVE OwnershipInv'
    BY <2>2, BystanderKeepsInv DEF Hear, lifeVars, retainVars, orderVars, faultVars
  <2>3. ASSUME NEW s \in Sittings, Close(s) \/ Shutdown(s) PROVE OwnershipInv'
    BY <2>3, LifeStepKeepsInv DEF Close, Shutdown
  <2>4. ASSUME NEW s \in Sittings, Storing(s) \/ Finalizing(s) \/ Faulting(s) PROVE OwnershipInv'
    <3>1. TeardownMove(s)
      BY <2>4, StoringMoves, FinalizingMoves DEF Storing, Finalizing, Faulting
    <3>. QED  BY <3>1, TeardownMoveKeepsInv
  <2>5. CASE Deleting
    BY <2>5, BystanderKeepsInv
    DEF Deleting, DeleteAudio, DeleteRow, DeleteFault, DeleteAudioAgain, lifeVars, retainVars,
        orderVars, faultVars
  <2>6. CASE UNCHANGED vars
    BY <2>6, BystanderKeepsInv DEF vars, lifeVars, retainVars, orderVars, faultVars
  <2>. QED  BY <2>1, <2>2, <2>3, <2>4, <2>5, <2>6 DEF Next, Rest
<1>. QED  BY <1>1, <1>2, TypeCorrect, PTL DEF Spec

\* Whatever teardowns, deferred retries, deletes and shutdowns interleave with, a conversation
\* whose create() and reopen() calls never raised is not shown as finished while a sitting
\* records into it: _resumed_live and finish()'s opened_at keep it so, for any number of
\* sittings, chunks and faults.
THEOREM ReadyIsSafe == Spec => []ReadyMeansNobodyRecording
<1>1. OwnershipInv => ReadyMeansNobodyRecording
  BY DEF OwnershipInv
<1>. QED  BY <1>1, OwnershipHolds, PTL

-----------------------------------------------------------------------------
\* A row that was ever written names its last opener, and a delete in progress found one.
Written ==
  /\ row.status # "absent" => row.token # None
  /\ deleting = "row" => row.status # "absent"

LEMMA WrittenHolds == Spec => []Written
<1>1. Init => Written
  BY DEF Init, Written
<1>2. TypeOK /\ OwnershipInv /\ Written /\ [Next]_vars => Written'
  <2>. SUFFICES ASSUME TypeOK, OwnershipInv, Written, [Next]_vars PROVE Written'
    OBVIOUS
  <2>. USE DEF TypeOK, StoresOK, Row, Written
  <2>1. ASSUME \/ row'.status = row.status
               \/ row.status # "absent" /\ row'.status # "absent",
               row'.token = row.token, UNCHANGED deleting
        PROVE Written'
    BY <2>1
  <2>2. ASSUME NEW s \in Sittings, row' \in {row, Opened(s)}, UNCHANGED deleting PROVE Written'
    <3>1. s # None
      BY DEF Sittings
    <3>. QED  BY <2>2, <3>1 DEF Opened, RowExists
  <2>3. ASSUME NEW s \in Sittings, Starting(s) PROVE Written'
    BY <2>2, <2>3
    DEF Starting, StartFresh, StartResume, ReadOffset, OpenRow, OpenFault, Ready, StartFails, deleteVars
  <2>4. ASSUME NEW s \in Sittings, Hear(s) \/ Close(s) \/ Shutdown(s) PROVE Written'
    BY <2>1, <2>4 DEF Hear, Close, Shutdown, CloseLive, deleteVars
  <2>5. ASSUME NEW s \in Sittings, Storing(s) \/ Finalizing(s) \/ Faulting(s) PROVE Written'
    <3>1. TeardownMove(s)
      BY <2>5, StoringMoves, FinalizingMoves DEF Storing, Finalizing, Faulting
    <3>2. \/ row'.status = row.status
          \/ row.status # "absent" /\ row'.status # "absent"
      BY <3>1 DEF TeardownMove, RowExists
    <3>3. UNCHANGED deleting
      BY <2>5
      DEF Storing, Finalizing, Faulting, AwaitPriorRetain, RetainNothing, RetainRead, RetainWrite,
          LinkKey, DropOrphan, Persist, AwaitCreate, Finalize, Finish, Retry, RetainFault, LinkFault,
          FinalizeFault, deleteVars
    <3>. QED  BY <2>1, <3>1, <3>2, <3>3 DEF TeardownMove
  <2>6. CASE Deleting
    BY <2>6 DEF Deleting, DeleteAudio, DeleteRow, DeleteFault, DeleteAudioAgain, RowExists
  <2>7. CASE UNCHANGED vars
    BY <2>1, <2>7 DEF vars, deleteVars
  <2>. QED  BY <2>3, <2>4, <2>5, <2>6, <2>7 DEF Next, Rest
<1>. QED  BY <1>1, <1>2, TypeCorrect, OwnershipHolds, PTL DEF Spec

-----------------------------------------------------------------------------
\* The refinement mapping's recorder is the one sitting recording.
RecorderKnown ==
  /\ \A s \in Sittings : Recording(s) => Recorder = s
  /\ (\A s \in Sittings : ~Recording(s)) => Recorder = None

LEMMA OneSittingRecords ==
  ASSUME TypeOK, OwnershipInv
  PROVE  RecorderKnown
<1>1. ASSUME NEW r \in Sittings, NEW s \in Sittings, Recording(r), Recording(s), r # s PROVE FALSE
  <2>1. r < s \/ s < r
    BY <1>1 DEF Sittings
  <2>. QED  BY <1>1, <2>1 DEF OwnershipInv, Sequential, Recording, Closed
<1>. QED  BY <1>1 DEF RecorderKnown, Recorder

\* A step after which the same sittings record leaves the recorder.
LEMMA SameRecorder ==
  ASSUME RecorderKnown, RecorderKnown', \A s \in Sittings : Recording(s)' <=> Recording(s)
  PROVE  Recorder' = Recorder
BY DEF RecorderKnown

\* What a step may assume of the states before and after it.
Known == TypeOK /\ OwnershipInv /\ Written /\ RecorderKnown /\ openFaults = 0

\* A sitting's create() or reopen() opens the conversation for it, or for nobody if its start
\* was given up, or finds it deleted.
LEMMA OpenRowTakes ==
  ASSUME Known, Known', NEW s \in Sittings, OpenRow(s)
  PROVE  [C!Next]_C!vars
<1>. USE DEF Known, TypeOK, LifeOK
<1>1. /\ created[s] = "running" /\ row' = Opened(s) /\ UNCHANGED pc
      /\ created' = [created EXCEPT ![s] = IF row'.token = s THEN "opened" ELSE "gone"]
  BY DEF OpenRow
<1>2. /\ pc[s] \notin {"none", "offset", "live"}
      /\ \A r \in Sittings : r > s => pc[r] = "none" /\ created[r] = "none"
  BY <1>1, OpensLast
<1>3. \A r \in Sittings : ~Recording(r)
  <2>. TAKE r \in Sittings
  <2>1. r < s \/ r = s \/ r > s
    BY DEF Sittings
  <2>2. r < s => Closed(r)
    BY <1>2 DEF OwnershipInv, Sequential
  <2>. QED  BY <1>1, <1>2, <2>1, <2>2 DEF Recording, Closed
<1>4. Recorder = None
  BY <1>3 DEF RecorderKnown
<1>5. CASE row.status = "deleted"
  <2>1. s > 1
    <3>1. /\ row.token \in Sittings /\ created[row.token] = "opened"
      BY <1>5 DEF StoresOK, Row, Written, OwnershipInv, TokenIsLastOpener
    <3>2. row.token # s /\ ~(row.token > s)
      BY <1>1, <1>2, <3>1
    <3>. QED  BY <3>1, <3>2 DEF Sittings
  <2>2. row' = row
    BY <1>1, <1>5, <2>1 DEF Opened, RowExists
  <2>3. row.token # s
    <3>1. s # None
      BY DEF Sittings
    <3>. QED  BY <1>1, <3>1 DEF OwnershipInv, TokenIsLastOpener
  <2>4. \A r \in Sittings : Recording(r)' <=> Recording(r)
    BY <1>1, <2>2, <2>3 DEF Recording
  <2>. QED  BY <2>2, <2>4, SameRecorder DEF C!vars
<1>6. CASE row.status # "deleted"
  <2>1. s = 1 \/ RowExists
    BY <1>1, <1>2, <1>6 DEF OwnershipInv, RowKnown, RowExists, StoresOK, Row, Sittings
  <2>2. row'.status = "live" /\ row'.token = s /\ created'[s] = "opened"
    BY <1>1, <2>1 DEF Opened, StoresOK, Row
  <2>3. CASE pc[s] = "open"
    <3>1. Recorder' = s
      BY <1>1, <2>2, <2>3 DEF RecorderKnown, Recording
    <3>2. C!Take(s)
      BY <1>4, <1>6, <2>2, <3>1 DEF C!Take
    <3>. QED  BY <3>2 DEF C!Next
  <2>4. CASE pc[s] # "open"
    <3>1. \A r \in Sittings : Recording(r)' <=> Recording(r)
      BY <1>1, <1>2, <1>3, <2>4 DEF Recording
    <3>2. Recorder' = Recorder
      BY <3>1, SameRecorder
    <3>3. C!TakeForNobody
      BY <1>4, <1>6, <2>2, <3>2 DEF C!TakeForNobody
    <3>. QED  BY <3>3 DEF C!Next
  <2>. QED  BY <2>3, <2>4
<1>. QED  BY <1>5, <1>6

\* A start that fails or a close gives the conversation up, if the sitting had it.
LEMMA EndingGivesUp ==
  ASSUME Known, Known', NEW s \in Sittings, StartFails(s) \/ CloseLive(s)
  PROVE  [C!Next]_C!vars
<1>. USE DEF Known, TypeOK, LifeOK
<1>1. /\ UNCHANGED <<row, created>>
      /\ pc' = [pc EXCEPT ![s] = "first"]
  BY DEF StartFails, CloseLive
<1>2. ~Recording(s)' /\ \A r \in Sittings \ {s} : Recording(r)' <=> Recording(r)
  BY <1>1 DEF Recording
<1>3. CASE Recording(s)
  <2>1. \A r \in Sittings : ~Recording(r)'
    <3>. TAKE r \in Sittings
    <3>1. Recording(r) => r = s
      BY <1>3 DEF RecorderKnown
    <3>. QED  BY <1>2, <3>1
  <2>2. Recorder = s /\ Recorder' = None /\ s # None
    BY <1>3, <2>1 DEF RecorderKnown, Sittings
  <2>. QED  BY <1>1, <2>2 DEF C!Next, C!GiveUp
<1>4. CASE ~Recording(s)
  <2>1. Recorder' = Recorder
    BY <1>2, <1>4, SameRecorder
  <2>. QED  BY <1>1, <2>1 DEF C!vars
<1>. QED  BY <1>3, <1>4

\* A step that leaves the row's status and everybody's part in it shows nothing.
LEMMA BystanderStutters ==
  ASSUME Known, Known', row'.status = row.status,
         \A s \in Sittings : Recording(s)' <=> Recording(s)
  PROVE  [C!Next]_C!vars
BY SameRecorder DEF Known, C!vars

\* A step of a teardown or of the retry loop shows the conversation as finished, once nobody
\* records, or nothing.
LEMMA TeardownFinishes ==
  ASSUME Known, Known', NEW s \in Sittings, TeardownMove(s)
  PROVE  [C!Next]_C!vars
<1>1. \A r \in Sittings : Recording(r)' <=> Recording(r)
  BY DEF TeardownMove, Recording, Closed
<1>2. CASE row'.status = row.status
  BY <1>1, <1>2, BystanderStutters
<1>3. CASE row'.status # row.status
  <2>1. row.status = "live" /\ row'.status = "ready"
    BY <1>3 DEF TeardownMove, RowExists
  <2>2. \A r \in Sittings : ~Recording(r)'
    BY <2>1 DEF Known, OwnershipInv, ReadyMeansNobodyRecording
  <2>3. Recorder = None /\ Recorder' = None
    BY <1>1, <2>2 DEF Known, RecorderKnown
  <2>. QED  BY <2>1, <2>3 DEF C!Next, C!Finish
<1>. QED  BY <1>2, <1>3

-----------------------------------------------------------------------------
\* A behaviour in which no create() or reopen() raises implements Conversation's safety: one
\* sitting at a time, ready only when nobody records, deleted for good.
THEOREM ImplementsSafely == Spec /\ [](openFaults = 0) => C!SafeSpec
<1>1. Init => C!Init
  BY DEF Init, C!Init, Recorder, Recording
<1>2. TypeOK /\ OwnershipInv => RecorderKnown
  BY OneSittingRecords
<1>3. Known /\ Known' /\ [Next]_vars => [C!Next]_C!vars
  <2>. SUFFICES ASSUME Known, Known', [Next]_vars PROVE [C!Next]_C!vars
    OBVIOUS
  <2>. USE DEF Known, TypeOK, LifeOK
  <2>1. ASSUME NEW s \in Sittings, (s = 1 /\ StartFresh) \/ StartResume(s) \/ ReadOffset(s)
        PROVE  [C!Next]_C!vars
    <3>1. row' = row /\ pc[s] \in {"none", "offset"} /\ pc'[s] \in {"offset", "open"}
      BY <2>1 DEF StartFresh, StartResume, ReadOffset, MayStart
    <3>2. \A r \in Sittings \ {s} : pc'[r] = pc[r] /\ created'[r] = created[r]
      BY <2>1 DEF StartFresh, StartResume, ReadOffset
    <3>3. created[s] = "none"
      BY <3>1 DEF OwnershipInv, StepsInOrder
    <3>4. created'[s] \in {"none", "running"}
      BY <2>1, <3>3 DEF StartFresh, StartResume, ReadOffset
    <3>5. \A r \in Sittings : Recording(r)' <=> Recording(r)
      BY <3>2, <3>3, <3>4 DEF Recording
    <3>. QED  BY <3>1, <3>5, BystanderStutters
  <2>2. ASSUME NEW s \in Sittings, Ready(s) PROVE [C!Next]_C!vars
    BY <2>2, BystanderStutters DEF Ready, Recording
  <2>3. ASSUME NEW s \in Sittings, OpenFault(s) PROVE FALSE
    BY <2>3 DEF OpenFault
  <2>4. ASSUME NEW s \in Sittings, Starting(s) PROVE [C!Next]_C!vars
    BY <2>1, <2>2, <2>3, <2>4, OpenRowTakes, EndingGivesUp DEF Starting
  <2>5. ASSUME NEW s \in Sittings, Hear(s) PROVE [C!Next]_C!vars
    BY <2>5, BystanderStutters DEF Hear, lifeVars, Recording
  <2>6. ASSUME NEW s \in Sittings, Close(s) \/ Shutdown(s) PROVE [C!Next]_C!vars
    BY <2>6, EndingGivesUp DEF Close, Shutdown
  <2>7. ASSUME NEW s \in Sittings, Storing(s) \/ Finalizing(s) \/ Faulting(s)
        PROVE  [C!Next]_C!vars
    <3>1. TeardownMove(s)
      BY <2>7, StoringMoves, FinalizingMoves DEF Storing, Finalizing, Faulting
    <3>. QED  BY <3>1, TeardownFinishes
  <2>8. CASE Deleting
    <3>1. \A r \in Sittings : Recording(r)' <=> Recording(r)
      BY <2>8
      DEF Deleting, DeleteAudio, DeleteRow, DeleteFault, DeleteAudioAgain, lifeVars, Recording
    <3>2. row'.status = row.status \/ (row.status \in {"live", "ready"} /\ row'.status = "deleted")
      BY <2>8
      DEF Deleting, DeleteAudio, DeleteRow, DeleteFault, DeleteAudioAgain, Written, StoresOK, Row
    <3>3. CASE row'.status = row.status
      BY <3>1, <3>3, BystanderStutters
    <3>4. CASE row.status \in {"live", "ready"} /\ row'.status = "deleted"
      <4>1. Recorder' = Recorder
        BY <3>1, SameRecorder
      <4>. QED  BY <3>4, <4>1 DEF C!Next, C!Delete
    <3>. QED  BY <3>2, <3>3, <3>4
  <2>9. CASE UNCHANGED vars
    BY <2>9, BystanderStutters DEF vars, lifeVars, Recording
  <2>. QED  BY <2>4, <2>5, <2>6, <2>7, <2>8, <2>9 DEF Next, Rest
<1>. QED
  BY <1>1, <1>2, <1>3, TypeCorrect, OwnershipHolds, WrittenHolds, PTL
  DEF Spec, C!SafeSpec, Known
=============================================================================
