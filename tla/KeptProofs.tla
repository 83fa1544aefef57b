----------------------------- MODULE KeptProofs -----------------------------
(***************************************************************************)
(* Theorems about what outlives a socket or an outage, for every value of  *)
(* the bounds.                                                             *)
(*                                                                         *)
(* HeldWrites: no write of a conversation is lost, doubled or out of order *)
(* (WritesAreSafe), and a sitting that finished the row adds nothing to it *)
(* (ReadyStays).  WritesSafe is not inductive.  HeldInv adds why it holds: *)
(* a sitting that has flushed for the last time has no writer and no lock  *)
(* (Lanes) and an empty queue but for late cues (Drained); only a sitting  *)
(* with a successor hands its row on, so a late cue always finds the       *)
(* sitting that records on (Chain); and what waits at a sitting was queued *)
(* after all that it has stored (InOrder).                                 *)
(*                                                                         *)
(* WarmResume: a client that caught up misses no recent turn               *)
(* (ResumesAreWhole).  ResumeInv accounts for every turn at every moment:  *)
(* it is with the client, in the batch a resume is sending, in the         *)
(* detached buffer, taken by the buffer's cap, or swallowed by a dead      *)
(* socket; and while a socket of a client that drops repeats is up, the    *)
(* last of these is no answer for a recent turn.                           *)
(*                                                                         *)
(* CaptionMerge: what the merger of a meeting returns of each snapshot     *)
(* keeps every segment of the meeting stored as the merger has it          *)
(* (EmittedIsStored).  Keeps says it of a merger half way through a        *)
(* snapshot: a segment it has changed is among those it will return.  Each *)
(* rule of the merge preserves it, in whatever order the rules are run.    *)
(***************************************************************************)
EXTENDS WarmResume, HeldWrites, CaptionMerge, SequenceTheorems, WellFoundedInduction, TLAPS

-----------------------------------------------------------------------------
(* Held writes: the inductive invariant.                                   *)

\* Who holds the write lock, and what a sitting that has flushed can no longer do.
Lanes ==
  /\ \A s \in Sittings : lock[s] = "writer" => writer[s]
  /\ \A s \in Sittings : lock[s] = "finalize" => stage[s] = "flush" /\ ~writer[s]
  /\ \A s \in Sittings : stage[s] \in {"finish", "deferred", "handed", "finished"} =>
                           lock[s] = "free" /\ ~writer[s]

\* The last flush left nothing; what has been queued since came late.
Drained ==
  \A s \in Sittings : stage[s] \in {"finish", "handed", "finished"} =>
    \A i \in DOMAIN unsaved[s] : unsaved[s][i] \in late

\* Sittings open one after another, and only one that has a successor hands its row on.
Chain ==
  /\ \A s \in Sittings : stage[s] = "none" <=> s > rowOpener
  /\ \A s \in Sittings : linked[s] => s < rowOpener
  /\ \A s \in Sittings : s < rowOpener => linked[s] \/ Settled(s)
  /\ \A s \in Sittings : stage[s] = "handed" => linked[s]
  /\ \A s \in Sittings : cue[s] => s <= rowOpener

\* What waits at a sitting was queued in order, after all that it stored.
InOrder ==
  /\ \A s \in Sittings : \A i \in DOMAIN unsaved[s] : unsaved[s][i] <= queued
  /\ \A s \in Sittings : \A i, j \in DOMAIN unsaved[s] : i < j => unsaved[s][i] < unsaved[s][j]
  /\ \A k \in DOMAIN stored : stored[k][2] <= queued
  /\ \A k \in DOMAIN stored : \A i \in DOMAIN unsaved[stored[k][1]] : stored[k][2] < unsaved[stored[k][1]][i]
  /\ WritesInOrder

\* Every write queued is somewhere.
Waits(n) == \E s \in Sittings : \E i \in DOMAIN unsaved[s] : unsaved[s][i] = n
Stored(n) == \E k \in DOMAIN stored : stored[k][2] = n
Kept == \A n \in 1..queued : n \in refused \/ Stored(n) \/ Waits(n)

\* The inductive invariant.
HeldInv == HeldTypeOK /\ Lanes /\ Drained /\ Chain /\ InOrder /\ Kept

-----------------------------------------------------------------------------
(* Sequences, and the first of a set of numbers.                            *)

\* A queue in terms of its positions.
LEMMA QueueShape ==
  ASSUME NEW S, NEW q \in Seq(S)
  PROVE  Len(q) \in Nat /\ DOMAIN q = 1..Len(q) /\ \A i \in 1..Len(q) : q[i] \in S
BY LenProperties, ElementOfSeq

\* What taking the head of a queue leaves.
LEMMA TakenShape ==
  ASSUME NEW S, NEW q \in Seq(S), q # <<>>
  PROVE  /\ Len(q) \in Nat \ {0} /\ Head(q) = q[1] /\ Head(q) \in S
         /\ Tail(q) \in Seq(S) /\ DOMAIN Tail(q) = 1..(Len(q) - 1)
         /\ \A i \in 1..(Len(q) - 1) : Tail(q)[i] = q[i + 1]
<1>1. Len(q) \in Nat \ {0}
  BY EmptySeq
<1>2. /\ Head(q) \in S /\ Tail(q) \in Seq(S) /\ Len(Tail(q)) = Len(q) - 1
      /\ \A i \in 1..Len(Tail(q)) : Tail(q)[i] = q[i + 1]
  BY HeadTailProperties
<1>3. DOMAIN Tail(q) = 1..(Len(q) - 1)
  BY <1>2, LenProperties
<1> QED BY <1>1, <1>2, <1>3

\* What a queue is after one more.
LEMMA QueuedShape ==
  ASSUME NEW S, NEW q \in Seq(S), NEW e \in S
  PROVE  /\ Append(q, e) \in Seq(S) /\ DOMAIN Append(q, e) = 1..(Len(q) + 1)
         /\ \A i \in 1..Len(q) : Append(q, e)[i] = q[i]
         /\ Append(q, e)[Len(q) + 1] = e
<1>1. /\ Append(q, e) \in Seq(S) /\ Len(Append(q, e)) = Len(q) + 1
      /\ \A i \in 1..Len(q) : Append(q, e)[i] = q[i]
      /\ Append(q, e)[Len(q) + 1] = e
  BY AppendProperties
<1> QED BY <1>1, LenProperties

\* A set of numbers that is not empty has a least one.
LEMMA Least ==
  ASSUME NEW T, T \subseteq Nat, T # {}
  PROVE  \E x \in T : \A y \in T : x <= y
<1> DEFINE R == OpToRel(<, Nat)
<1>1. IsWellFoundedOn(R, Nat)
  BY NatLessThanWellFounded
<1>2. \A x, y \in Nat : y < x => <<y, x>> \in R
  BY DEF OpToRel
<1> HIDE DEF R
<1>3. PICK x \in T : \A y \in T : <<y, x>> \notin R
  BY <1>1, WFMin
<1>4. \A y \in T : ~(y < x)
  BY <1>2, <1>3, Zenon
<1> QED BY <1>4

-----------------------------------------------------------------------------
(* What queueing a write, storing it and dropping it keep.                  *)

\* A write is queued behind the others of its sitting.
LEMMA Queues ==
  ASSUME HeldInv, NEW s \in Sittings, queued < MaxQueued, queued' = queued + 1,
         unsaved' = [unsaved EXCEPT ![s] = Append(@, queued')], UNCHANGED <<stored, refused>>
  PROVE  /\ unsaved' \in [Sittings -> Seq(1..MaxQueued)] /\ queued' \in 1..MaxQueued
         /\ \A t \in Sittings : t # s => unsaved'[t] = unsaved[t]
         /\ \A i \in DOMAIN unsaved'[s] :
              (i \in DOMAIN unsaved[s] /\ unsaved'[s][i] = unsaved[s][i]) \/ unsaved'[s][i] = queued'
         /\ InOrder' /\ Kept'
<1> USE HeldAssumption
<1>1. queued \in Nat /\ MaxQueued \in Nat /\ queued' \in 1..MaxQueued
      /\ unsaved \in [Sittings -> Seq(1..MaxQueued)] /\ unsaved[s] \in Seq(1..MaxQueued)
      /\ stored \in Seq(Sittings \X (1..MaxQueued))
  BY DEF HeldInv, HeldTypeOK
<1> DEFINE q == unsaved[s]
<1>2. /\ unsaved'[s] = Append(q, queued') /\ unsaved'[s] \in Seq(1..MaxQueued)
      /\ Len(q) \in Nat /\ DOMAIN q = 1..Len(q) /\ DOMAIN unsaved'[s] = 1..(Len(q) + 1)
      /\ \A i \in 1..Len(q) : unsaved'[s][i] = q[i]
      /\ unsaved'[s][Len(q) + 1] = queued'
  BY <1>1, QueueShape, QueuedShape
<1>3. \A t \in Sittings : t # s => unsaved'[t] = unsaved[t]
  BY <1>1
<1>4. unsaved' \in [Sittings -> Seq(1..MaxQueued)]
  BY <1>1, <1>2
<1>5. \A i \in DOMAIN unsaved'[s] :
        (i \in DOMAIN unsaved[s] /\ unsaved'[s][i] = unsaved[s][i]) \/ unsaved'[s][i] = queued'
  BY <1>2
<1>6. \A k \in DOMAIN stored : stored[k][1] \in Sittings /\ stored[k][2] \in 1..MaxQueued
  BY <1>1, QueueShape
<1>7. \A t \in Sittings : \A i \in DOMAIN unsaved[t] : unsaved[t][i] \in 1..MaxQueued
  BY <1>1, QueueShape
<1> HIDE DEF q
<1>8. InOrder'
  <2>0. InOrder /\ \A t \in Sittings : \A i \in DOMAIN unsaved[t] : unsaved[t][i] < queued'
    BY <1>1, <1>7 DEF HeldInv, InOrder
  <2>1. \A t \in Sittings : \A i \in DOMAIN unsaved'[t] : unsaved'[t][i] <= queued'
    BY <1>1, <1>3, <1>5, <1>7, <2>0
  <2>2. \A t \in Sittings : \A i, j \in DOMAIN unsaved'[t] : i < j => unsaved'[t][i] < unsaved'[t][j]
    <3>1. ASSUME NEW i \in DOMAIN unsaved'[s], NEW j \in DOMAIN unsaved'[s], i < j
          PROVE  unsaved'[s][i] < unsaved'[s][j]
      <4>1. i \in 1..Len(q)
        BY <1>2, <3>1
      <4>2. CASE j \in 1..Len(q)
        BY <1>2, <2>0, <3>1, <4>1, <4>2 DEF InOrder, q
      <4>3. CASE j = Len(q) + 1
        BY <1>2, <2>0, <4>1, <4>3 DEF q
      <4> QED BY <1>2, <4>2, <4>3, SMTT(30)
    <3> QED BY <1>3, <2>0, <3>1 DEF InOrder
  <2>3. \A k \in DOMAIN stored : stored[k][2] < queued'
    BY <1>1, <1>6, <2>0 DEF InOrder
  <2>4. \A k \in DOMAIN stored' : stored'[k][2] <= queued'
    BY <1>1, <1>6, <2>3
  <2>5. ASSUME NEW k \in DOMAIN stored', NEW i \in DOMAIN unsaved'[stored'[k][1]]
        PROVE  stored'[k][2] < unsaved'[stored'[k][1]][i]
    <3>1. k \in DOMAIN stored /\ stored' = stored /\ stored[k][1] \in Sittings
      BY <1>6, <2>5
    <3>2. CASE stored[k][1] = s /\ unsaved'[s][i] = queued'
      BY <2>3, <3>1, <3>2
    <3>3. CASE i \in DOMAIN unsaved[stored[k][1]] /\ unsaved'[stored[k][1]][i] = unsaved[stored[k][1]][i]
      BY <2>0, <3>1, <3>3 DEF InOrder
    <3> QED BY <1>3, <1>5, <2>5, <3>1, <3>2, <3>3
  <2>6. WritesInOrder'
    BY <2>0 DEF InOrder, WritesInOrder
  <2> QED BY <2>1, <2>2, <2>4, <2>5, <2>6 DEF InOrder
<1>9. Kept'
  <2>1. ASSUME NEW n \in 1..queued', n # queued'
        PROVE  (n \in refused \/ Stored(n) \/ Waits(n))'
    <3>1. n \in 1..queued /\ (n \in refused \/ Stored(n) \/ Waits(n))
      BY <1>1, <2>1 DEF HeldInv, Kept
    <3>2. CASE Waits(n)
      <4>0. PICK t \in Sittings : \E i \in DOMAIN unsaved[t] : unsaved[t][i] = n
        BY <3>2 DEF Waits
      <4>1. PICK i \in DOMAIN unsaved[t] : unsaved[t][i] = n
        BY <4>0
      <4>2. i \in DOMAIN unsaved'[t] /\ unsaved'[t][i] = n
        BY <1>2, <1>3, <4>1 DEF q
      <4> QED BY <4>2 DEF Waits
    <3>3. CASE n \in refused \/ Stored(n)
      BY <3>3 DEF Stored
    <3> QED BY <3>1, <3>2, <3>3
  <2>2. ASSUME NEW n \in 1..queued', n = queued'
        PROVE  (n \in refused \/ Stored(n) \/ Waits(n))'
    <3>1. Len(q) + 1 \in DOMAIN unsaved'[s] /\ unsaved'[s][Len(q) + 1] = n
      BY <1>2, <2>2
    <3> QED BY <3>1 DEF Waits
  <2> QED BY <2>1, <2>2 DEF Kept
<1> QED BY <1>1, <1>3, <1>4, <1>5, <1>8, <1>9

\* The first write of a sitting is stored, or dropped for an error of its own.
LEMMA Takes ==
  ASSUME HeldInv, NEW s \in Sittings, unsaved[s] # <<>>,
         unsaved' = [unsaved EXCEPT ![s] = Tail(@)], UNCHANGED queued,
         \/ stored' = Append(stored, <<s, Head(unsaved[s])>>) /\ UNCHANGED refused
         \/ refused' = refused \cup {Head(unsaved[s])} /\ UNCHANGED stored
  PROVE  /\ unsaved' \in [Sittings -> Seq(1..MaxQueued)]
         /\ stored' \in Seq(Sittings \X (1..MaxQueued)) /\ refused' \subseteq refused \cup 1..MaxQueued
         /\ \A t \in Sittings : \A i \in DOMAIN unsaved'[t] :
              \E j \in DOMAIN unsaved[t] : unsaved'[t][i] = unsaved[t][j]
         /\ InOrder' /\ Kept'
<1> USE HeldAssumption
<1>1. queued \in Nat /\ MaxQueued \in Nat
      /\ unsaved \in [Sittings -> Seq(1..MaxQueued)] /\ unsaved[s] \in Seq(1..MaxQueued)
      /\ stored \in Seq(Sittings \X (1..MaxQueued))
  BY DEF HeldInv, HeldTypeOK
<1> DEFINE q == unsaved[s]
           h == Head(q)
<1>2. /\ Len(q) \in Nat \ {0} /\ DOMAIN q = 1..Len(q) /\ h = q[1] /\ h \in 1..MaxQueued
      /\ unsaved'[s] = Tail(q) /\ unsaved'[s] \in Seq(1..MaxQueued)
      /\ DOMAIN unsaved'[s] = 1..(Len(q) - 1)
      /\ \A i \in 1..(Len(q) - 1) : unsaved'[s][i] = q[i + 1]
  BY <1>1, QueueShape, TakenShape
<1>3. \A t \in Sittings : t # s => unsaved'[t] = unsaved[t]
  BY <1>1
<1>4. unsaved' \in [Sittings -> Seq(1..MaxQueued)]
  BY <1>1, <1>2
<1>5. \A t \in Sittings : \A i \in DOMAIN unsaved[t] : unsaved[t][i] \in 1..MaxQueued
  BY <1>1, QueueShape
<1>6. Len(stored) \in Nat /\ DOMAIN stored = 1..Len(stored)
      /\ \A k \in DOMAIN stored : stored[k][1] \in Sittings /\ stored[k][2] \in 1..MaxQueued
  BY <1>1, QueueShape
<1>7. /\ stored' \in Seq(Sittings \X (1..MaxQueued))
      /\ \/ /\ DOMAIN stored' = 1..(Len(stored) + 1) /\ stored'[Len(stored) + 1] = <<s, h>>
            /\ \A k \in 1..Len(stored) : stored'[k] = stored[k]
            /\ refused' = refused
         \/ stored' = stored /\ refused' = refused \cup {h}
  <2>1. <<s, h>> \in Sittings \X (1..MaxQueued)
    BY <1>2
  <2> HIDE DEF h
  <2>2. CASE stored' = Append(stored, <<s, h>>) /\ UNCHANGED refused
    <3>1. /\ Append(stored, <<s, h>>) \in Seq(Sittings \X (1..MaxQueued))
          /\ DOMAIN Append(stored, <<s, h>>) = 1..(Len(stored) + 1)
          /\ \A i \in 1..Len(stored) : Append(stored, <<s, h>>)[i] = stored[i]
          /\ Append(stored, <<s, h>>)[Len(stored) + 1] = <<s, h>>
      BY <1>1, <2>1, QueuedShape
    <3> QED BY <2>2, <3>1
  <2>3. CASE refused' = refused \cup {h} /\ UNCHANGED stored
    BY <1>1, <2>3
  <2> QED BY <2>2, <2>3 DEF h
<1> HIDE DEF q, h
<1>8. \A i \in DOMAIN unsaved'[s] : i + 1 \in DOMAIN q /\ unsaved'[s][i] = q[i + 1] /\ i \in 1..(Len(q) - 1)
  <2>1. Len(q) \in Nat
    BY <1>2
  <2>2. \A i \in 1..(Len(q) - 1) : i + 1 \in 1..Len(q)
    BY <2>1
  <2> QED BY <1>2, <2>2
<1>9. \A t \in Sittings : \A i \in DOMAIN unsaved'[t] :
        \E j \in DOMAIN unsaved[t] : unsaved'[t][i] = unsaved[t][j]
  BY <1>3, <1>8 DEF q
<1>10. InOrder /\ 1 \in DOMAIN q /\ h <= queued /\ \A i \in DOMAIN unsaved'[s] : h < unsaved'[s][i]
  <2>1. InOrder /\ 1 \in DOMAIN q /\ h <= queued
    BY <1>2 DEF HeldInv, InOrder, q
  <2>2. ASSUME NEW i \in DOMAIN unsaved'[s]
        PROVE  h < unsaved'[s][i]
    <3>1. 1 < i + 1 /\ i + 1 \in DOMAIN q /\ unsaved'[s][i] = q[i + 1]
      BY <1>2, <1>8
    <3>2. q[1] < q[i + 1]
      BY <2>1, <3>1 DEF InOrder, q
    <3> QED BY <1>2, <3>1, <3>2
  <2> QED BY <2>1, <2>2
<1>11. \A k \in DOMAIN stored' : \/ k \in DOMAIN stored /\ stored'[k] = stored[k]
                                 \/ k = Len(stored) + 1 /\ stored'[k] = <<s, h>>
  BY <1>6, <1>7
<1>12. InOrder'
  <2>1. \A t \in Sittings : \A i \in DOMAIN unsaved'[t] : unsaved'[t][i] <= queued'
    BY <1>9, <1>10 DEF InOrder
  <2>2. \A t \in Sittings : \A i, j \in DOMAIN unsaved'[t] : i < j => unsaved'[t][i] < unsaved'[t][j]
    <3>1. ASSUME NEW i \in DOMAIN unsaved'[s], NEW j \in DOMAIN unsaved'[s], i < j
          PROVE  unsaved'[s][i] < unsaved'[s][j]
      <4>1. i + 1 < j + 1 /\ i + 1 \in DOMAIN q /\ j + 1 \in DOMAIN q
        BY <1>2, <1>8, <3>1
      <4> QED BY <1>8, <1>10, <3>1, <4>1 DEF InOrder, q
    <3> QED BY <1>3, <1>10, <3>1 DEF InOrder
  <2>3. \A k \in DOMAIN stored' : stored'[k][2] <= queued'
    BY <1>10, <1>11 DEF InOrder
  <2>4. ASSUME NEW k \in DOMAIN stored', NEW i \in DOMAIN unsaved'[stored'[k][1]]
        PROVE  stored'[k][2] < unsaved'[stored'[k][1]][i]
    <3>1. CASE k \in DOMAIN stored /\ stored'[k] = stored[k]
      <4>1. stored[k][1] \in Sittings
        BY <1>6, <3>1
      <4>2. PICK j \in DOMAIN unsaved[stored[k][1]] : unsaved'[stored[k][1]][i] = unsaved[stored[k][1]][j]
        BY <1>9, <2>4, <3>1, <4>1
      <4> QED BY <1>10, <3>1, <4>2 DEF InOrder
    <3>2. CASE stored'[k] = <<s, h>>
      BY <1>10, <2>4, <3>2
    <3> QED BY <1>11, <3>1, <3>2
  <2>5. WritesInOrder'
    <3> SUFFICES ASSUME NEW k \in DOMAIN stored', NEW m \in DOMAIN stored', k < m,
                        stored'[k][1] = stored'[m][1]
                 PROVE  stored'[k][2] < stored'[m][2]
      BY DEF WritesInOrder
    <3>1. k \in DOMAIN stored /\ stored'[k] = stored[k]
      BY <1>6, <1>7, SMTT(30)
    <3>2. CASE m \in DOMAIN stored /\ stored'[m] = stored[m]
      BY <1>10, <3>1, <3>2 DEF InOrder, WritesInOrder
    <3>3. CASE stored'[m] = <<s, h>>
      <4>1. k \in DOMAIN stored /\ stored[k][1] = s /\ 1 \in DOMAIN unsaved[s] /\ h = unsaved[s][1]
        BY <1>2, <1>10, <3>1, <3>3 DEF q
      <4>2. 1 \in DOMAIN unsaved[stored[k][1]]
        BY <4>1
      <4>3. stored[k][2] < unsaved[stored[k][1]][1]
        BY <1>10, <4>1, <4>2 DEF InOrder
      <4>4. stored'[m][2] = h
        BY <3>3
      <4> QED BY <3>1, <4>1, <4>3, <4>4
    <3> QED BY <1>11, <3>2, <3>3
  <2> QED BY <2>1, <2>2, <2>3, <2>4, <2>5 DEF InOrder
<1>13. Kept'
  <2> SUFFICES ASSUME NEW n \in 1..queued
               PROVE  (n \in refused \/ Stored(n) \/ Waits(n))'
    BY DEF Kept
  <2>0. n \in refused \/ Stored(n) \/ Waits(n)
    BY DEF HeldInv, Kept
  <2>1. CASE n \in refused
    BY <1>7, <2>1
  <2>2. CASE Stored(n)
    BY <1>6, <1>7, <2>2, SMTT(30) DEF Stored
  <2>3. CASE Waits(n)
    <3>0. PICK t \in Sittings : \E i \in DOMAIN unsaved[t] : unsaved[t][i] = n
      BY <2>3 DEF Waits
    <3>1. PICK i \in DOMAIN unsaved[t] : unsaved[t][i] = n
      BY <3>0
    <3>2. CASE t # s
      BY <1>3, <3>1, <3>2 DEF Waits
    <3>3. CASE t = s /\ i = 1
      <4>1. n = h
        BY <1>2, <3>1, <3>3 DEF q
      <4>2. CASE refused' = refused \cup {h}
        BY <4>1, <4>2
      <4>3. CASE Len(stored) + 1 \in DOMAIN stored' /\ stored'[Len(stored) + 1] = <<s, h>>
        BY <4>1, <4>3 DEF Stored
      <4> QED BY <1>6, <1>7, <4>2, <4>3
    <3>4. CASE t = s /\ i # 1
      <4>0. i \in 1..Len(q) /\ q[i] = n /\ Len(q) \in Nat
        BY <1>2, <3>1, <3>4 DEF q
      <4>a. i - 1 \in 1..(Len(q) - 1) /\ (i - 1) + 1 = i
        BY <3>4, <4>0
      <4>1. i - 1 \in DOMAIN unsaved'[s] /\ unsaved'[s][i - 1] = n
        BY <1>2, <4>0, <4>a
      <4> QED BY <4>1 DEF Waits
    <3> QED BY <3>2, <3>3, <3>4
  <2> QED BY <2>0, <2>1, <2>2, <2>3
<1>14. refused' \subseteq refused \cup 1..MaxQueued
  BY <1>2, <1>7
<1> QED BY <1>4, <1>7, <1>9, <1>12, <1>13, <1>14

-----------------------------------------------------------------------------
(* One lemma per action.                                                    *)

\* What leaves the queues and the store alone keeps their order and their content.
LEMMA Untouched ==
  ASSUME HeldInv, UNCHANGED <<unsaved, stored, queued, refused>>
  PROVE  InOrder' /\ Kept'
BY DEF HeldInv, InOrder, WritesInOrder, Kept, Waits, Stored

\* The next sitting opens the row.
LEMMA Opens ==
  ASSUME HeldInv, NEW s \in Sittings, OpenSitting(s)
  PROVE  HeldInv'
<1> USE HeldAssumption DEF HeldInv, OpenSitting, Sittings
<1>1. HeldTypeOK'
  BY DEF HeldTypeOK
<1>2. Lanes' /\ Drained'
  BY DEF Lanes, Drained, HeldTypeOK
<1>3. s = rowOpener + 1 /\ rowOpener \in Sittings /\ rowOpener' = s
  BY DEF Chain, HeldTypeOK
<1>4. Chain'
  <2>1. s - 1 \in Sittings /\ s \in Nat /\ (linked'[s - 1] <=> ~Settled(s - 1))
    <3>1. s - 1 \in Sittings /\ s \in Nat
      BY <1>3
    <3>2. linked'[s - 1] <=> ~Settled(s - 1)
      BY <3>1, Zenon DEF HeldTypeOK
    <3> QED BY <3>1, <3>2
  <2>2. \A t \in Sittings : t # s - 1 => (linked'[t] <=> linked[t])
    BY Zenon DEF HeldTypeOK
  <2>3. \A t \in Sittings : t # s => stage'[t] = stage[t]
    BY DEF HeldTypeOK
  <2>4. stage'[s] = "open" /\ stage[s] = "none"
    BY DEF HeldTypeOK
  <2>5. \A t \in Sittings : stage'[t] = "none" <=> t > rowOpener'
    BY <1>3, <2>3, <2>4 DEF Chain
  <2>6. \A t \in Sittings : t < rowOpener' => linked'[t] \/ Settled(t)'
    BY <1>3, <2>1, <2>2, <2>3 DEF Chain, Settled
  <2>7. \A t \in Sittings : (linked'[t] => t < rowOpener') /\ (stage'[t] = "handed" => linked'[t])
    BY <1>3, <2>1, <2>2, <2>3, <2>4 DEF Chain
  <2>8. \A t \in Sittings : cue'[t] => t <= rowOpener'
    BY <1>3 DEF Chain
  <2> QED BY <2>5, <2>6, <2>7, <2>8 DEF Chain
<1>5. InOrder' /\ Kept'
  BY Untouched
<1> QED BY <1>1, <1>2, <1>4, <1>5

\* A segment or a translation is queued.
LEMMA StoresTurn ==
  ASSUME HeldInv, NEW s \in Sittings, StoreTurn(s)
  PROVE  HeldInv'
<1>1. /\ unsaved' \in [Sittings -> Seq(1..MaxQueued)] /\ queued' \in 1..MaxQueued
      /\ \A t \in Sittings : t # s => unsaved'[t] = unsaved[t]
      /\ InOrder' /\ Kept'
  BY Queues DEF StoreTurn, Store
<1>2. HeldTypeOK'
  BY <1>1 DEF HeldInv, HeldTypeOK, StoreTurn, Store
<1>3. Lanes' /\ Drained' /\ Chain'
  BY <1>1 DEF HeldInv, HeldTypeOK, StoreTurn, Store, Lanes, Drained, Chain, Settled
<1> QED BY <1>1, <1>2, <1>3 DEF HeldInv

\* A sitting closes.
LEMMA Closes ==
  ASSUME HeldInv, NEW s \in Sittings, CloseSitting(s)
  PROVE  HeldInv'
<1> USE DEF HeldInv, CloseSitting
<1>1. HeldTypeOK' /\ Lanes' /\ Drained'
  BY DEF HeldTypeOK, Lanes, Drained
<1>2. Chain'
  BY DEF HeldTypeOK, Chain, Settled
<1>3. InOrder' /\ Kept'
  BY Untouched
<1> QED BY <1>1, <1>2, <1>3

\* The writer, or the finalize behind it, takes the write lock.
LEMMA TakesLock ==
  ASSUME HeldInv, NEW s \in Sittings, TakeLock(s)
  PROVE  HeldInv'
<1> USE DEF HeldInv, TakeLock
<1>1. HeldTypeOK' /\ Lanes' /\ Drained'
  BY DEF HeldTypeOK, Lanes, Drained
<1>2. Chain'
  BY DEF Chain, Settled
<1>3. InOrder' /\ Kept'
  BY Untouched
<1> QED BY <1>1, <1>2, <1>3

\* The first write is stored.
LEMMA StoresNext ==
  ASSUME HeldInv, NEW s \in Sittings, StoreNext(s)
  PROVE  HeldInv'
<1>1. /\ unsaved' \in [Sittings -> Seq(1..MaxQueued)]
      /\ stored' \in Seq(Sittings \X (1..MaxQueued))
      /\ \A t \in Sittings : \A i \in DOMAIN unsaved'[t] :
           \E j \in DOMAIN unsaved[t] : unsaved'[t][i] = unsaved[t][j]
      /\ InOrder' /\ Kept'
  BY Takes DEF StoreNext
<1>2. HeldTypeOK'
  BY <1>1 DEF HeldInv, HeldTypeOK, StoreNext
<1>3. Lanes' /\ Drained' /\ Chain'
  BY <1>1 DEF HeldInv, StoreNext, Lanes, Drained, Chain, Settled
<1> QED BY <1>1, <1>2, <1>3 DEF HeldInv

\* A flush has stored all there was.
LEMMA FlushIsOver ==
  ASSUME HeldInv, NEW s \in Sittings, Flushed(s)
  PROVE  HeldInv'
<1> USE DEF HeldInv, Flushed, FlushEnds
<1>1. AfterFlush(s) \in {"handed", "finish"} /\ (AfterFlush(s) = "handed" => linked[s])
  <2>1. LaterLive(s) => linked[s]
    <3> SUFFICES ASSUME LaterLive(s) PROVE linked[s]
      OBVIOUS
    <3>1. PICK t \in Sittings : t > s /\ \A u \in s..(t - 1) : linked[u]
      BY DEF LaterLive
    <3>2. s \in s..(t - 1)
      BY <3>1 DEF Sittings
    <3> QED BY <3>1, <3>2
  <2> QED BY <2>1 DEF AfterFlush
<1>2. HeldTypeOK'
  BY <1>1 DEF HeldTypeOK
<1>3. Lanes'
  BY <1>1 DEF HeldTypeOK, Lanes
<1>4. DOMAIN unsaved[s] = {}
  OBVIOUS
<1>5. Drained'
  BY <1>1, <1>4 DEF HeldTypeOK, Drained
<1>6. Chain'
  BY <1>1 DEF HeldTypeOK, Lanes, Chain, Settled
<1>7. InOrder' /\ Kept'
  BY Untouched
<1> QED BY <1>2, <1>3, <1>5, <1>6, <1>7

\* A write fails: it is dropped, or an outage holds it and those behind it.
LEMMA FailsWrite ==
  ASSUME HeldInv, NEW s \in Sittings, WriteFails(s)
  PROVE  HeldInv'
<1> USE HeldAssumption
<1>1. CASE DropWrite(s)
  <2>1. /\ unsaved' \in [Sittings -> Seq(1..MaxQueued)] /\ refused' \subseteq refused \cup 1..MaxQueued
        /\ \A t \in Sittings : \A i \in DOMAIN unsaved'[t] :
             \E j \in DOMAIN unsaved[t] : unsaved'[t][i] = unsaved[t][j]
        /\ InOrder' /\ Kept'
    BY <1>1, Takes DEF WriteFails, DropWrite
  <2>2. HeldTypeOK'
    <3>1. HeldTypeOK /\ stored' = stored /\ failures' \in 0..MaxFailures
      BY <1>1 DEF HeldInv, HeldTypeOK, WriteFails, DropWrite
    <3>. QED  BY <1>1, <2>1, <3>1 DEF HeldTypeOK, WriteFails, DropWrite
  <2>3. Lanes' /\ Drained' /\ Chain'
    BY <1>1, <2>1 DEF HeldInv, WriteFails, DropWrite, Lanes, Drained, Chain, Settled
  <2> QED BY <2>1, <2>2, <2>3 DEF HeldInv
<1>2. CASE HoldWrites(s)
  <2> USE <1>2 DEF HeldInv, WriteFails, HoldWrites, FlushEnds
  <2>1. HeldTypeOK'
    <3>1. /\ stage' = stage \/ stage' = [stage EXCEPT ![s] = "deferred"]
          /\ writer' = writer \/ writer' = [writer EXCEPT ![s] = FALSE]
          /\ lock' = [lock EXCEPT ![s] = "free"] /\ failures' = failures + 1
      OBVIOUS
    <3>2. failures' \in 0..MaxFailures
      BY DEF HeldTypeOK
    <3> QED BY <3>1, <3>2 DEF HeldTypeOK
  <2>2. Lanes' /\ Drained'
    <3>1. Lanes'
      BY DEF HeldTypeOK, Lanes
    <3>2. Drained'
      BY DEF HeldTypeOK, Drained
    <3> QED BY <3>1, <3>2
  <2>3. Chain'
    BY DEF HeldTypeOK, Lanes, Chain, Settled
  <2>4. InOrder' /\ Kept'
    BY Untouched
  <2> QED BY <2>1, <2>2, <2>3, <2>4
<1> QED BY <1>1, <1>2 DEF WriteFails

\* _finalize begins, or begins again.
LEMMA Finalizes ==
  ASSUME HeldInv, NEW s \in Sittings, BeginFinalize(s)
  PROVE  HeldInv'
<1> USE DEF HeldInv, BeginFinalize
<1>1. HeldTypeOK' /\ Lanes' /\ Drained'
  BY DEF HeldTypeOK, Lanes, Drained
<1>2. Chain'
  BY DEF HeldTypeOK, Chain, Settled
<1>3. InOrder' /\ Kept'
  BY Untouched
<1> QED BY <1>1, <1>2, <1>3

\* finish() marks the row, or leaves it to the sitting that opened it since.
LEMMA Finishes ==
  ASSUME HeldInv, NEW s \in Sittings, Finish(s)
  PROVE  HeldInv'
<1> USE DEF HeldInv, Finish
<1>1. rowReady' \in BOOLEAN
  BY Zenon DEF HeldTypeOK
<1>2. stage' = [stage EXCEPT ![s] = IF rowReady' THEN "finished" ELSE "handed"]
      /\ (~rowReady' => rowOpener # s)
  OBVIOUS
<1>3. PICK r \in {"finished", "handed"} : stage' = [stage EXCEPT ![s] = r] /\ (r = "handed" => rowOpener # s)
  BY <1>1, <1>2
<1>4. HeldTypeOK'
  BY <1>1, <1>3 DEF HeldTypeOK
<1>5. Lanes' /\ Drained'
  BY <1>3 DEF HeldTypeOK, Lanes, Drained
<1>6. Chain'
  <2>1. r = "handed" => linked[s]
    BY <1>3 DEF HeldTypeOK, Chain, Settled, Sittings
  <2> QED BY <1>3, <2>1 DEF HeldTypeOK, Chain, Settled
<1>7. InOrder' /\ Kept'
  BY Untouched
<1> QED BY <1>4, <1>5, <1>6, <1>7

\* finish() cannot reach the database.
LEMMA FailsFinish ==
  ASSUME HeldInv, NEW s \in Sittings, FinishFails(s)
  PROVE  HeldInv'
<1> USE HeldAssumption DEF HeldInv, FinishFails
<1>1. HeldTypeOK' /\ Lanes' /\ Drained'
  BY DEF HeldTypeOK, Lanes, Drained
<1>2. Chain'
  BY DEF HeldTypeOK, Chain, Settled
<1>3. InOrder' /\ Kept'
  BY Untouched
<1> QED BY <1>1, <1>2, <1>3

\* A cue is asked for.
LEMMA AsksCue ==
  ASSUME HeldInv, NEW s \in Sittings, CueStarts(s)
  PROVE  HeldInv'
<1> USE DEF HeldInv, CueStarts
<1>1. HeldTypeOK' /\ Lanes' /\ Drained'
  BY DEF HeldTypeOK, Lanes, Drained
<1>2. Chain'
  BY DEF HeldTypeOK, Chain, Settled, Sittings
<1>3. InOrder' /\ Kept'
  BY Untouched
<1> QED BY <1>1, <1>2, <1>3

\* A late cue finds the first sitting that has not handed the row on, and it has begun.
LEMMA HeirIs ==
  ASSUME HeldInv, NEW s \in Sittings, cue[s]
  PROVE  Heir(s) \in Sittings /\ stage[Heir(s)] \notin {"none", "handed"}
<1> DEFINE Ends(t) == t \in Sittings /\ t >= s /\ ~(stage[t] = "handed" /\ linked[t])
           T == {t \in Sittings : Ends(t)}
<1>1. Sittings \subseteq Nat /\ s \in Nat /\ rowOpener \in Sittings
  BY HeldAssumption DEF Sittings, HeldInv, HeldTypeOK
<1> USE HeldAssumption
<1>2. rowOpener \in T
  BY <1>1 DEF HeldInv, Chain
<1>3. PICK t \in T : \A u \in T : t <= u
  BY <1>1, <1>2, Least
<1>4. ASSUME NEW u \in s..(t - 1)
      PROVE  stage[u] = "handed" /\ linked[u]
  <2>1. u \in Sittings /\ u >= s /\ u < t
    BY <1>1, <1>3, <1>4 DEF Sittings
  <2>2. u \notin T
    BY <1>1, <1>3, <2>1
  <2> QED BY <2>1, <2>2
<1>5. \E x \in Sittings : /\ x >= s /\ \A u \in s..(x - 1) : stage[u] = "handed" /\ linked[u]
                          /\ ~(stage[x] = "handed" /\ linked[x])
  BY <1>3, <1>4
<1> DEFINE h == Heir(s)
<1>6. /\ h \in Sittings /\ h >= s /\ \A u \in s..(h - 1) : stage[u] = "handed" /\ linked[u]
      /\ ~(stage[h] = "handed" /\ linked[h])
  BY <1>5 DEF Heir
<1> HIDE DEF h
<1>7. stage[h] # "handed"
  BY <1>6 DEF HeldInv, Chain
<1>8. h <= rowOpener
  <2>1. CASE h = s
    BY <2>1 DEF HeldInv, Chain
  <2>2. CASE h # s
    <3>1. h - 1 \in s..(h - 1) /\ h - 1 \in Sittings
      BY <1>1, <1>6, <2>2 DEF Sittings
    <3>2. h - 1 < rowOpener
      BY <1>6, <3>1 DEF HeldInv, Chain
    <3> QED BY <1>1, <1>6, <3>2
  <2> QED BY <2>1, <2>2
<1>9. stage[h] # "none"
  BY <1>1, <1>6, <1>8 DEF HeldInv, Chain
<1> QED BY <1>6, <1>7, <1>9 DEF h

\* A cue comes back: dropped, left to a last flush, or queued as any write.
LEMMA CueLands ==
  ASSUME HeldInv, NEW s \in Sittings, CueArrives(s)
  PROVE  HeldInv'
<1> DEFINE owner == Heir(s)
<1>0. /\ cue[s] /\ cue' = [cue EXCEPT ![s] = FALSE]
      /\ UNCHANGED <<stage, lock, linked, rowOpener, rowReady, failures, stored, refused>>
  BY DEF CueArrives
<1>1. owner \in Sittings /\ stage[owner] \notin {"none", "handed"}
  BY <1>0, HeirIs
<1>2. Chain'
  BY <1>0 DEF HeldInv, HeldTypeOK, Chain, Settled
<1>3. CASE UNCHANGED <<unsaved, writer, queued, late>>
  <2>1. HeldTypeOK' /\ Lanes' /\ Drained'
    BY <1>0, <1>3 DEF HeldInv, HeldTypeOK, Lanes, Drained
  <2>2. InOrder' /\ Kept'
    BY <1>0, <1>3, Untouched
  <2> QED BY <1>2, <2>1, <2>2 DEF HeldInv
<1>4. ASSUME queued < MaxQueued, queued' = queued + 1,
             unsaved' = [unsaved EXCEPT ![owner] = Append(@, queued')],
             \/ late' = late \cup {queued'} /\ UNCHANGED writer
             \/ stage[owner] = "open" /\ writer' = [writer EXCEPT ![owner] = TRUE] /\ UNCHANGED late
      PROVE  HeldInv'
  <2> HIDE DEF owner
  <2>1. /\ unsaved' \in [Sittings -> Seq(1..MaxQueued)] /\ queued' \in 1..MaxQueued
        /\ \A t \in Sittings : t # owner => unsaved'[t] = unsaved[t]
        /\ \A i \in DOMAIN unsaved'[owner] :
             (i \in DOMAIN unsaved[owner] /\ unsaved'[owner][i] = unsaved[owner][i])
             \/ unsaved'[owner][i] = queued'
        /\ InOrder' /\ Kept'
    BY <1>0, <1>1, <1>4, Queues
  <2>2. HeldTypeOK'
    <3>1. refused' \cup late' \subseteq 1..MaxQueued
      BY <1>0, <1>4, <2>1 DEF HeldInv, HeldTypeOK
    <3>2. writer' \in [Sittings -> BOOLEAN] /\ cue' \in [Sittings -> BOOLEAN]
      BY <1>0, <1>4 DEF HeldInv, HeldTypeOK
    <3>3. queued' \in 0..MaxQueued
      BY <2>1
    <3> QED BY <1>0, <2>1, <3>1, <3>2, <3>3 DEF HeldInv, HeldTypeOK
  <2>3. Lanes'
    BY <1>0, <1>1, <1>4 DEF HeldInv, HeldTypeOK, Lanes
  <2>4. Drained'
    BY <1>0, <1>1, <1>4, <2>1 DEF HeldInv, HeldTypeOK, Drained
  <2> QED BY <1>2, <2>1, <2>2, <2>3, <2>4 DEF HeldInv
<1>5. CASE "finished" \notin {stage[s], stage[owner]} /\ ~QueuedOnly(owner)
  <2>1. stage[owner] = "open"
    BY <1>1, <1>5 DEF HeldInv, HeldTypeOK, QueuedOnly
  <2> QED BY <1>3, <1>4, <1>5, <2>1 DEF CueArrives, Store
<1>6. CASE ~("finished" \notin {stage[s], stage[owner]} /\ ~QueuedOnly(owner))
  BY <1>3, <1>4, <1>6 DEF CueArrives
<1> QED BY <1>5, <1>6

\* The first sitting opens an empty row.
LEMMA HeldBegins == HeldInit => HeldInv
<1> SUFFICES ASSUME HeldInit PROVE HeldInv
  OBVIOUS
<1> USE HeldAssumption DEF HeldInit, Sittings
<1>1. HeldTypeOK
  <2>1. <<>> \in Seq(1..MaxQueued) /\ <<>> \in Seq(Sittings \X (1..MaxQueued))
    BY EmptySeq
  <2>2. unsaved \in [Sittings -> Seq(1..MaxQueued)] /\ stored \in Seq(Sittings \X (1..MaxQueued))
    BY <2>1
  <2>3. queued \in 0..MaxQueued /\ failures \in 0..MaxFailures /\ rowOpener \in Sittings
    OBVIOUS
  <2>5. rowReady \in BOOLEAN /\ refused \cup late \subseteq 1..MaxQueued
    OBVIOUS
  <2>4. /\ stage \in [Sittings -> {"none", "open", "closed", "flush", "finish", "deferred", "handed", "finished"}]
        /\ lock \in [Sittings -> {"free", "writer", "finalize"}]
        /\ writer \in [Sittings -> BOOLEAN] /\ linked \in [Sittings -> BOOLEAN] /\ cue \in [Sittings -> BOOLEAN]
    OBVIOUS
  <2> QED BY <2>2, <2>3, <2>4, <2>5 DEF HeldTypeOK
<1>2. Lanes /\ Drained /\ Chain
  BY DEF Lanes, Drained, Chain, Settled
<1>3. InOrder /\ Kept
  BY DEF InOrder, WritesInOrder, Kept
<1> QED BY <1>1, <1>2, <1>3 DEF HeldInv

\* The invariant is inductive.
LEMMA HeldStep == HeldInv /\ [HeldNext]_heldVars => HeldInv'
<1> SUFFICES ASSUME HeldInv, [HeldNext]_heldVars PROVE HeldInv'
  OBVIOUS
<1>1. CASE HeldNext
  BY <1>1, Opens, StoresTurn, Closes, TakesLock, StoresNext, FlushIsOver, FailsWrite, Finalizes,
     Finishes, FailsFinish, AsksCue, CueLands DEF HeldNext
<1>2. CASE UNCHANGED heldVars
  <2>1. HeldTypeOK' /\ Lanes' /\ Drained' /\ Chain'
    BY <1>2 DEF HeldInv, HeldTypeOK, Lanes, Drained, Chain, Settled, heldVars
  <2>2. InOrder' /\ Kept'
    BY <1>2, Untouched DEF heldVars
  <2> QED BY <2>1, <2>2 DEF HeldInv
<1> QED BY <1>1, <1>2

\* What is claimed of the writes follows from it.
LEMMA WritesFromInv == HeldInv => WritesSafe
<1> SUFFICES ASSUME HeldInv PROVE WritesSafe
  OBVIOUS
<1>1. NothingLeftBehind
  <2>1. \A n \in 1..queued : n \in refused \/ Stored(n) \/ Waits(n)
    BY DEF HeldInv, Kept
  <2>2. \A s \in Sittings : Settled(s) => \A i \in DOMAIN unsaved[s] : unsaved[s][i] \in late
    BY DEF HeldInv, Drained, Settled
  <2> QED BY <2>1, <2>2 DEF NothingLeftBehind, Stored, Waits
<1> QED BY <1>1 DEF WritesSafe, HeldInv, InOrder

\* The writes of every sitting land in the order they were queued, each of them lands, waits or was
\* refused for an error of its own, and a settled sitting has none waiting but late cues: for any
\* number of sittings, writes and outages.
THEOREM WritesAreSafe == HeldSpec => []WritesSafe
<1>1. HeldInit => HeldInv
  BY HeldBegins
<1>2. HeldInv /\ [HeldNext]_heldVars => HeldInv'
  BY HeldStep
<1>3. HeldInv => WritesSafe
  BY WritesFromInv
<1> QED BY <1>1, <1>2, <1>3, PTL DEF HeldSpec

\* A write lands only while its sitting has yet to settle the row.
LEMMA LandsUnfinished ==
  HeldInv /\ [HeldNext]_heldVars
    => [stored' # stored => stage[stored'[Len(stored')][1]] # "finished"]_heldVars
<1> SUFFICES ASSUME HeldInv, HeldNext, stored' # stored
             PROVE  stage[stored'[Len(stored')][1]] # "finished"
  BY DEF heldVars
<1>1. PICK s \in Sittings : StoreNext(s)
  BY DEF HeldNext, OpenSitting, StoreTurn, CloseSitting, TakeLock, Flushed, WriteFails, BeginFinalize,
         Finish, FinishFails, CueStarts, CueArrives
<1>2. stored \in Seq(Sittings \X (1..MaxQueued)) /\ <<s, Head(unsaved[s])>> \in Sittings \X (1..MaxQueued)
  <2>1. unsaved[s] \in Seq(1..MaxQueued) /\ unsaved[s] # <<>>
    BY <1>1 DEF StoreNext, HeldInv, HeldTypeOK
  <2>2. Head(unsaved[s]) \in 1..MaxQueued
    BY <2>1, TakenShape
  <2> QED BY <2>2 DEF HeldInv, HeldTypeOK
<1>3. Len(stored') = Len(stored) + 1 /\ stored'[Len(stored) + 1] = <<s, Head(unsaved[s])>>
  BY <1>1, <1>2, AppendProperties DEF StoreNext
<1>4. stage[s] # "finished"
  BY <1>1 DEF StoreNext, HeldInv, Lanes
<1> QED BY <1>3, <1>4

\* What History shows as finished does not change under it.
THEOREM ReadyStays == HeldSpec => ReadyIsFinal
<1>1. HeldInit => HeldInv
  BY HeldBegins
<1>2. HeldInv /\ [HeldNext]_heldVars => HeldInv'
  BY HeldStep
<1>3. HeldInv /\ [HeldNext]_heldVars
        => [stored' # stored => stage[stored'[Len(stored')][1]] # "finished"]_heldVars
  BY LandsUnfinished
<1> QED BY <1>1, <1>2, <1>3, PTL DEF HeldSpec, ReadyIsFinal

-----------------------------------------------------------------------------
(* A resumed session: its inductive invariant.                             *)

\* A frame of the first `finals` finals and the first `songs` songs.
GoodFrame(f, finals, songs) ==
  \/ \E n \in 1..finals : f = Final(n)
  \/ \E n \in 1..songs : f \in {SongOf(n), SongDone(n)}
GoodFrames(fs, finals, songs) == \A i \in DOMAIN fs : GoodFrame(fs[i], finals, songs)

\* Final n is with the client, on its way to it, or taken by the buffer's cap.
Among(n, fs) == \E i \in DOMAIN fs : fs[i] = Final(n)
Accounted(n) == Holds(n) \/ n \in capped \/ Among(n, replay) \/ Among(n, buffer)

ResumeInv ==
  /\ ResumeTypeOK
  /\ GoodFrames(buffer, Len(made), played) /\ GoodFrames(replay, Len(made), played)
  /\ \A i, j \in DOMAIN made : i <= j => made[i] <= made[j]
  /\ \A i \in DOMAIN made : made[i] <= now
  /\ replay # <<>> => sendTo = "catchUp"
  /\ sendTo = "socket" => buffer = <<>>
  /\ \A n \in DOMAIN made : Accounted(n) \/ drops[n] > 0
  /\ dedupe /\ link = "up" => \A n \in DOMAIN made : made[n] >= givenUp.time - Window => Accounted(n)
  /\ sendTo = "buffer" => \A n \in DOMAIN made : n > givenUp.finals => n \in capped \/ Among(n, buffer)

-----------------------------------------------------------------------------
(* A resumed session: frames, and what sending one does.                   *)

\* A good frame is typed, and a final says which.
LEMMA FrameFacts ==
  ASSUME NEW finals \in Nat, NEW songs \in Nat, NEW f, GoodFrame(f, finals, songs)
  PROVE  /\ f \in Frames
         /\ f.kind = "final" => f.n \in 1..finals /\ f = Final(f.n)
         /\ f.kind # "final" => f.n \in 1..songs
         /\ \A n : f = Final(n) => f.kind = "final" /\ f.n = n
BY DEF GoodFrame, Frames, Final, SongOf, SongDone

\* The numbers of a session, and of the finals it has made.
LEMMA ResumeFacts ==
  ASSUME ResumeTypeOK
  PROVE  /\ MaxMade \in Nat /\ MaxTime \in Nat /\ MaxPlayed \in Nat /\ Window \in Nat /\ BufferMax \in Nat \ {0}
         /\ made \in Seq(0..MaxTime) /\ Len(made) \in Nat /\ Len(made) <= MaxMade /\ DOMAIN made = 1..Len(made)
         /\ played \in Nat /\ played \in 0..MaxPlayed /\ song \in 0..played /\ now \in Nat /\ now \in 0..MaxTime
         /\ buffer \in Seq(Frames) /\ replay \in Seq(Frames) /\ Len(buffer) \in Nat
<1>1. MaxMade \in Nat /\ MaxTime \in Nat /\ MaxPlayed \in Nat /\ Window \in Nat /\ BufferMax \in Nat \ {0}
  BY ResumeAssumption
<1>2. /\ made \in Seq(0..MaxTime) /\ Len(made) <= MaxMade /\ song \in 0..played /\ played \in 0..MaxPlayed
      /\ now \in 0..MaxTime /\ buffer \in Seq(Frames) /\ replay \in Seq(Frames)
  BY Zenon DEF ResumeTypeOK
<1>3. Len(made) \in Nat /\ DOMAIN made = 1..Len(made) /\ Len(buffer) \in Nat
  BY <1>2
<1>4. played \in Nat /\ now \in Nat
  BY <1>1, <1>2
<1>. QED  BY <1>1, <1>2, <1>3, <1>4

\* A frame that the reducer of the client gets, or that a dead socket swallows.
LEMMA WriteKeeps ==
  ASSUME ResumeTypeOK, NEW finals \in Len(made)..MaxMade, NEW songs \in Nat, played <= songs,
         NEW m, GoodFrame(m, finals, songs), Write(m)
  PROVE  /\ turns' \in Seq(1..finals) /\ shown' \in 0..songs /\ drops' \in [1..MaxMade -> 0..2]
         /\ \A n : Holds(n) => Holds(n)'
         /\ \A n \in 1..MaxMade : drops[n] > 0 => drops'[n] > 0
         /\ \A n \in 1..finals : m = Final(n) =>
              /\ link = "up" => Holds(n)'
              /\ Holds(n)' \/ drops'[n] > 0
<1>. USE DEF ResumeTypeOK
<1>0. MaxMade \in Nat /\ finals \in Nat /\ Len(made) \in Nat /\ finals <= MaxMade /\ Len(made) <= finals
      /\ played \in Nat
  <2>. HIDE DEF ResumeTypeOK
  <2>. QED  BY ResumeFacts
<1>f. /\ m.kind = "final" => m.n \in 1..finals
      /\ m.kind # "final" => m.n \in 1..songs
      /\ \A n : m = Final(n) => m.kind = "final" /\ m.n = n
  BY <1>0, FrameFacts
<1>1. CASE link = "up"
  <2>. /\ Receive(m) /\ drops' = drops
    BY <1>1 DEF Write
  <2>1. turns \in Seq(1..finals) /\ shown \in 0..songs
    BY <1>0
  <2>0. turns' = turns \/ (turns' = Append(turns, m.n) /\ m.n \in 1..finals)
    BY <1>f DEF Receive
  <2>2. /\ turns' \in Seq(1..finals)
        /\ \A i \in DOMAIN turns : i \in DOMAIN turns' /\ turns'[i] = turns[i]
    <3>1. CASE turns' = turns
      BY <2>1, <3>1
    <3>2. CASE turns' = Append(turns, m.n) /\ m.n \in 1..finals
      BY <2>1, <3>2, SMTT(30)
    <3>. QED  BY <2>0, <3>1, <3>2
  <2>5. shown' \in 0..songs
    <3>1. shown' = shown \/ shown' = 0 \/ (shown' = m.n /\ m.kind = "song")
      BY Zenon DEF Receive
    <3>. QED  BY <3>1, <2>1, <1>0, <1>f
  <2>3. ASSUME NEW n, Holds(n) PROVE Holds(n)'
    <3>. PICK i \in DOMAIN turns : turns[i] = n
      BY <2>3 DEF Holds
    <3>. QED  BY <2>2 DEF Holds
  <2>4. ASSUME NEW n \in 1..finals, m = Final(n) PROVE Holds(n)'
    <3>1. m.kind = "final" /\ m.n = n
      BY <1>f, <2>4
    <3>2. CASE turns' = Append(turns, n)
      <4>1. Len(turns) + 1 \in DOMAIN turns' /\ turns'[Len(turns) + 1] = n
        BY <2>1, <3>2
      <4>. QED  BY <4>1 DEF Holds
    <3>3. CASE turns' # Append(turns, n)
      BY <3>1, <3>3 DEF Receive, Holds
    <3>. QED  BY <3>2, <3>3
  <2>. QED  BY <1>0, <2>2, <2>3, <2>4, <2>5
<1>2. CASE link # "up"
  <2>. Swallowed(<<m>>) /\ turns' = turns /\ shown' = shown
    BY <1>2 DEF Write, clientVars
  <2>1. turns \in Seq(1..finals) /\ shown \in 0..songs
    BY <1>0
  <2>2. drops' \in [1..MaxMade -> 0..2] /\ \A n \in 1..MaxMade : drops[n] > 0 => drops'[n] > 0
    <3>1. DOMAIN drops = 1..MaxMade /\ DOMAIN drops' = 1..MaxMade
      BY DEF Swallowed
    <3>2. ASSUME NEW n \in 1..MaxMade
          PROVE  drops'[n] \in 0..2 /\ (drops[n] > 0 => drops'[n] > 0)
      <4>1. drops[n] \in 0..2
        OBVIOUS
      <4>2. drops'[n] = drops[n] \/ (drops[n] < 2 /\ drops'[n] = drops[n] + 1)
        BY <3>1, Zenon DEF Swallowed
      <4>. QED  BY <4>1, <4>2
    <3>3. drops' = [n \in 1..MaxMade |-> drops'[n]]
      BY <3>1, Zenon DEF Swallowed
    <3>. QED  BY <3>2, <3>3
  <2>3. ASSUME NEW n \in 1..finals, m = Final(n) PROVE drops'[n] > 0
    <3>1. \E i \in DOMAIN <<m>> : <<m>>[i] = Final(n)
      BY <2>3
    <3>2. n \in 1..MaxMade /\ drops[n] \in 0..2
      BY <1>0
    <3>. QED  BY <3>1, <3>2 DEF Swallowed
  <2>. QED  BY <1>2, <2>1, <2>2, <2>3 DEF Holds
<1>. QED  BY <1>1, <1>2

\* What the buffer's cap takes is the oldest frame, and is remembered.
LEMMA BufferKeeps ==
  ASSUME ResumeTypeOK, NEW finals \in Len(made)..MaxMade, NEW songs \in Nat, played <= songs,
         GoodFrames(buffer, Len(made), played),
         NEW m, GoodFrame(m, finals, songs), BufferSend(m)
  PROVE  /\ buffer' \in Seq(Frames) /\ Len(buffer') <= BufferMax
         /\ GoodFrames(buffer', finals, songs) /\ capped' \subseteq 1..finals
         /\ \A n : n \in capped \/ Among(n, buffer) => n \in capped' \/ Among(n, buffer')
         /\ \A n : m = Final(n) => Among(n, buffer')
<1>0. MaxMade \in Nat /\ finals \in Nat /\ Len(made) \in Nat /\ finals <= MaxMade /\ Len(made) <= finals
      /\ played \in Nat /\ BufferMax \in Nat \ {0} /\ Len(buffer) \in Nat
      /\ buffer \in Seq(Frames) /\ Len(buffer) <= BufferMax /\ capped \subseteq 1..Len(made)
  BY ResumeFacts DEF ResumeTypeOK
<1>f. m \in Frames
  BY <1>0, FrameFacts
<1>g. \A i \in DOMAIN buffer : GoodFrame(buffer[i], finals, songs)
  <2>1. \A f : GoodFrame(f, Len(made), played) => GoodFrame(f, finals, songs)
    <3>1. 1..Len(made) \subseteq 1..finals /\ 1..played \subseteq 1..songs
      BY <1>0
    <3>. QED  BY <3>1 DEF GoodFrame
  <2>. QED  BY <2>1 DEF GoodFrames
<1>1. CASE Len(buffer) < BufferMax
  <2>1. buffer' = Append(buffer, m) /\ capped' = capped
    BY <1>1 DEF BufferSend
  <2>2. /\ buffer' \in Seq(Frames) /\ Len(buffer') = Len(buffer) + 1
        /\ \A i \in 1..Len(buffer) : buffer'[i] = buffer[i]
        /\ buffer'[Len(buffer) + 1] = m
    BY <1>0, <1>f, <2>1
  <2>3. GoodFrames(buffer', finals, songs)
    <3>1. ASSUME NEW i \in DOMAIN buffer' PROVE GoodFrame(buffer'[i], finals, songs)
      <4>1. i = Len(buffer) + 1 \/ (i \in 1..Len(buffer) /\ i \in DOMAIN buffer)
        BY <1>0, <2>2
      <4>. QED  BY <1>g, <2>2, <4>1
    <3>. QED  BY <3>1 DEF GoodFrames
  <2>4. capped' \subseteq 1..finals
    BY <1>0, <2>1
  <2>5. ASSUME NEW n, Among(n, buffer) \/ m = Final(n) PROVE Among(n, buffer')
    <3>0. DOMAIN buffer = 1..Len(buffer) /\ DOMAIN buffer' = 1..(Len(buffer) + 1)
      BY <2>2
    <3>1. \A i \in DOMAIN buffer : i \in DOMAIN buffer' /\ buffer'[i] = buffer[i]
      BY <1>0, <2>2, <3>0
    <3>2. Len(buffer) + 1 \in DOMAIN buffer'
      BY <1>0, <2>2
    <3>. QED  BY <2>2, <2>5, <3>1, <3>2 DEF Among
  <2>. QED  BY <1>0, <1>1, <2>1, <2>2, <2>3, <2>4, <2>5
<1>2. CASE ~(Len(buffer) < BufferMax)
  <2>0. buffer # <<>> /\ Len(buffer) = BufferMax
    BY <1>0, <1>2
  <2>1. /\ buffer' = Append(Tail(buffer), m)
        /\ capped' = IF Head(buffer).kind = "final" THEN capped \cup {Head(buffer).n} ELSE capped
    BY <1>2 DEF BufferSend
  <2>2. /\ Tail(buffer) \in Seq(Frames) /\ Len(Tail(buffer)) = Len(buffer) - 1
        /\ \A i \in 1..(Len(buffer) - 1) : Tail(buffer)[i] = buffer[i + 1]
        /\ Head(buffer) = buffer[1]
    BY <1>0, <2>0
  <2>3. /\ buffer' \in Seq(Frames) /\ Len(buffer') = Len(buffer)
        /\ \A i \in 1..(Len(buffer) - 1) : buffer'[i] = buffer[i + 1]
        /\ buffer'[Len(buffer)] = m
    BY <1>f, <1>0, <2>0, <2>1, <2>2
  <2>4. GoodFrames(buffer', finals, songs)
    <3>1. ASSUME NEW i \in DOMAIN buffer' PROVE GoodFrame(buffer'[i], finals, songs)
      <4>1. CASE i = Len(buffer)
        BY <2>3, <4>1
      <4>2. CASE i # Len(buffer)
        <5>1. i \in 1..(Len(buffer) - 1) /\ i + 1 \in DOMAIN buffer
          BY <1>0, <2>3, <4>2, SMTT(30)
        <5>. QED  BY <1>g, <2>3, <5>1
      <4>. QED  BY <4>1, <4>2
    <3>. QED  BY <3>1 DEF GoodFrames
  <2>5. Head(buffer).kind = "final" => Head(buffer).n \in 1..Len(made) /\ Head(buffer) = Final(Head(buffer).n)
    <3>1. 1 \in DOMAIN buffer
      BY <1>0, <2>0
    <3>2. GoodFrame(Head(buffer), Len(made), played)
      BY <2>2, <3>1 DEF GoodFrames
    <3>. QED  BY <1>0, <3>2, FrameFacts
  <2>6. capped' \subseteq 1..finals
    <3>1. 1..Len(made) \subseteq 1..finals /\ capped \subseteq 1..Len(made)
      BY <1>0
    <3>2. capped' = capped \/ (capped' = capped \cup {Head(buffer).n} /\ Head(buffer).n \in 1..Len(made))
      BY <2>1, <2>5
    <3>. QED  BY <3>1, <3>2
  <2>7. ASSUME NEW n, Among(n, buffer) PROVE n \in capped' \/ Among(n, buffer')
    <3>. PICK i \in DOMAIN buffer : buffer[i] = Final(n)
      BY <2>7 DEF Among
    <3>1. CASE i = 1
      <4>1. Head(buffer).kind = "final" /\ Head(buffer).n = n
        BY <2>2, <3>1 DEF Final
      <4>. QED  BY <2>1, <4>1
    <3>2. CASE i # 1
      <4>1. i - 1 \in 1..(Len(buffer) - 1) /\ i - 1 \in DOMAIN buffer' /\ (i - 1) + 1 = i
        BY <1>0, <2>3, <3>2, SMTT(30)
      <4>2. buffer'[i - 1] = Final(n)
        BY <2>3, <4>1
      <4>. QED  BY <4>1, <4>2 DEF Among
    <3>. QED  BY <3>1, <3>2
  <2>8. ASSUME NEW n, m = Final(n) PROVE Among(n, buffer')
    <3>1. Len(buffer) \in DOMAIN buffer'
      BY <1>0, <2>0, <2>3
    <3>. QED  BY <2>3, <2>8, <3>1 DEF Among
  <2>. QED  BY <1>0, <2>0, <2>1, <2>3, <2>4, <2>6, <2>7, <2>8
<1>. QED  BY <1>1, <1>2
-----------------------------------------------------------------------------
(* A resumed session: its steps.                                           *)

\* What sending a frame keeps, wherever the session sends it.
LEMMA SendKeeps ==
  ASSUME ResumeInv, NEW finals \in Len(made)..MaxMade, NEW songs \in Nat, played <= songs,
         NEW m, GoodFrame(m, finals, songs), Send(m), replay' = replay
  PROVE  /\ turns' \in Seq(1..finals) /\ shown' \in 0..songs /\ drops' \in [1..MaxMade -> 0..2]
         /\ buffer' \in Seq(Frames) /\ Len(buffer') <= BufferMax
         /\ GoodFrames(buffer', finals, songs) /\ capped' \subseteq 1..finals
         /\ \A n : Accounted(n) => Accounted(n)'
         /\ \A n \in 1..MaxMade : drops[n] > 0 => drops'[n] > 0
         /\ \A n : n \in capped \/ Among(n, buffer) => n \in capped' \/ Among(n, buffer')
         /\ \A n \in 1..finals : m = Final(n) =>
              /\ link = "up" => Accounted(n)'
              /\ Accounted(n)' \/ drops'[n] > 0
              /\ sendTo = "buffer" => Among(n, buffer')
         /\ sendTo = "socket" => buffer' = <<>>
<1>0. Len(made) \in Nat /\ finals \in Nat /\ Len(made) <= finals /\ played \in Nat /\ ResumeTypeOK
  BY ResumeFacts DEF ResumeInv
<1>1. CASE sendTo = "socket"
  <2>1. Write(m) /\ buffer' = buffer /\ capped' = capped
    BY <1>1 DEF Send
  <2>2. buffer' = <<>> /\ buffer' \in Seq(Frames) /\ Len(buffer') <= BufferMax
    BY <1>1, <2>1 DEF ResumeInv, ResumeTypeOK
  <2>3. GoodFrames(buffer', finals, songs) /\ capped' \subseteq 1..finals
    BY <1>0, <2>1, <2>2 DEF GoodFrames, ResumeTypeOK
  <2>. HIDE DEF ResumeInv, GoodFrame, Write
  <2>4. /\ turns' \in Seq(1..finals) /\ shown' \in 0..songs /\ drops' \in [1..MaxMade -> 0..2]
        /\ \A n : Holds(n) => Holds(n)'
        /\ \A n \in 1..MaxMade : drops[n] > 0 => drops'[n] > 0
        /\ \A n \in 1..finals : m = Final(n) =>
             /\ link = "up" => Holds(n)'
             /\ Holds(n)' \/ drops'[n] > 0
    BY <1>0, <2>1, WriteKeeps
  <2>. QED  BY <1>1, <2>1, <2>2, <2>3, <2>4, Zenon DEF Accounted
<1>2. CASE sendTo # "socket"
  <2>1. BufferSend(m) /\ turns' = turns /\ shown' = shown /\ drops' = drops
    BY <1>2 DEF Send, clientVars
  <2>2. turns' \in Seq(1..finals) /\ shown' \in 0..songs /\ drops' \in [1..MaxMade -> 0..2]
    BY <1>0, <2>1 DEF ResumeTypeOK
  <2>3. GoodFrames(buffer, Len(made), played)
    BY DEF ResumeInv
  <2>4. /\ buffer' \in Seq(Frames) /\ Len(buffer') <= BufferMax
        /\ GoodFrames(buffer', finals, songs) /\ capped' \subseteq 1..finals
        /\ \A n : n \in capped \/ Among(n, buffer) => n \in capped' \/ Among(n, buffer')
        /\ \A n : m = Final(n) => Among(n, buffer')
    BY <1>0, <2>1, <2>3, BufferKeeps
  <2>5. \A n : Holds(n) => Holds(n)'
    BY <2>1 DEF Holds
  <2>. QED  BY <1>2, <2>1, <2>2, <2>4, <2>5, Zenon DEF Accounted
<1>. QED  BY <1>1, <1>2

\* A step that produces a frame, and with a final a turn.
LEMMA ProducingKeeps ==
  ASSUME ResumeInv, NEW finals \in Len(made)..MaxMade, NEW songs \in 0..MaxPlayed, played <= songs,
         NEW m, GoodFrame(m, finals, songs), Send(m),
         UNCHANGED <<now, link, deadSince, sendTo, givenUp, replay, answers, dedupe>>,
         made' \in Seq(0..MaxTime), Len(made') = finals, played' = songs, song' \in 0..songs,
         \A i \in 1..Len(made) : made'[i] = made[i],
         \A i \in 1..finals : i <= Len(made) \/ (made'[i] = now /\ m = Final(i))
  PROVE  ResumeInv'
<1>0. /\ Len(made) \in Nat /\ finals \in Nat /\ Len(made) <= finals /\ finals <= MaxMade
      /\ MaxMade \in Nat /\ MaxTime \in Nat /\ MaxPlayed \in Nat /\ songs \in Nat
      /\ played \in Nat /\ now \in Nat /\ now \in 0..MaxTime
      /\ DOMAIN made = 1..Len(made) /\ DOMAIN made' = 1..finals
  <2>1. ResumeTypeOK
    BY DEF ResumeInv
  <2>. QED  BY <2>1, ResumeFacts
<1>1. /\ turns' \in Seq(1..finals) /\ shown' \in 0..songs /\ drops' \in [1..MaxMade -> 0..2]
      /\ buffer' \in Seq(Frames) /\ Len(buffer') <= BufferMax
      /\ GoodFrames(buffer', finals, songs) /\ capped' \subseteq 1..finals
      /\ \A n : Accounted(n) => Accounted(n)'
      /\ \A n \in 1..MaxMade : drops[n] > 0 => drops'[n] > 0
      /\ \A n : n \in capped \/ Among(n, buffer) => n \in capped' \/ Among(n, buffer')
      /\ \A n \in 1..finals : m = Final(n) =>
           /\ link = "up" => Accounted(n)'
           /\ Accounted(n)' \/ drops'[n] > 0
           /\ sendTo = "buffer" => Among(n, buffer')
      /\ sendTo = "socket" => buffer' = <<>>
  BY <1>0, SendKeeps
<1>2. ResumeTypeOK'
  <2>1. givenUp' \in [time : 0..now, finals : 0..finals]
    <3>1. givenUp \in [time : 0..now, finals : 0..Len(made)]
      BY DEF ResumeInv, ResumeTypeOK
    <3>2. 0..Len(made) \subseteq 0..finals
      BY <1>0
    <3>. QED  BY <3>1, <3>2
  <2>. QED  BY <1>0, <1>1, <2>1 DEF ResumeInv, ResumeTypeOK
<1>3. GoodFrames(replay', finals, songs)
  <2>1. GoodFrames(replay, Len(made), played)
    BY DEF ResumeInv
  <2>. QED  BY <2>1, <1>0 DEF GoodFrames, GoodFrame
<1>4. \A i \in 1..finals : (i <= Len(made) /\ made'[i] = made[i] /\ made[i] <= now /\ made[i] \in Nat)
                           \/ (i > Len(made) /\ made'[i] = now)
  <2>1. \A i \in 1..Len(made) : made[i] <= now /\ made[i] \in Nat
    <3>1. \A i \in 1..Len(made) : made[i] \in 0..MaxTime
      <4>1. made \in Seq(0..MaxTime)
        BY DEF ResumeInv, ResumeTypeOK
      <4>. QED  BY <4>1, ElementOfSeq
    <3>2. \A i \in 1..Len(made) : made[i] <= now
      BY <1>0 DEF ResumeInv
    <3>. QED  BY <1>0, <3>1, <3>2
  <2>. QED  BY <1>0, <2>1
<1>5. \A i, j \in 1..finals : i <= j => made'[i] <= made'[j]
  <2>1. \A i, j \in 1..Len(made) : i <= j => made[i] <= made[j]
    BY <1>0 DEF ResumeInv
  <2>2. ASSUME NEW i \in 1..finals, NEW j \in 1..finals, i <= j
        PROVE  made'[i] <= made'[j]
    <3>1. i \in Nat /\ j \in Nat /\ 1 <= i /\ 1 <= j
      BY <1>0, <2>2
    <3>2. CASE j <= Len(made)
      <4>1. i \in 1..Len(made) /\ j \in 1..Len(made)
        BY <1>0, <2>2, <3>1, <3>2
      <4>2. made[i] <= made[j]
        BY <2>1, <2>2, <4>1
      <4>. QED  BY <1>4, <2>2, <3>2, <4>1, <4>2
    <3>3. CASE ~(j <= Len(made))
      <4>1. made'[j] = now
        BY <1>4, <3>3
      <4>2. made'[i] <= now
        BY <1>0, <1>4
      <4>. QED  BY <4>1, <4>2
    <3>. QED  BY <3>2, <3>3
  <2>. QED  BY <2>2
<1>6. \A i \in 1..finals : made'[i] <= now
  BY <1>0, <1>4
<1>7. ASSUME NEW n \in 1..finals
      PROVE  /\ Accounted(n)' \/ drops'[n] > 0
             /\ dedupe /\ link = "up" /\ made'[n] >= givenUp.time - Window => Accounted(n)'
             /\ sendTo = "buffer" /\ n > givenUp.finals => n \in capped' \/ Among(n, buffer')
  <2>0. n \in 1..MaxMade
    BY <1>0
  <2>1. CASE n <= Len(made)
    <3>1. n \in DOMAIN made /\ made'[n] = made[n]
      BY <1>0, <2>1
    <3>2. /\ Accounted(n) \/ drops[n] > 0
          /\ dedupe /\ link = "up" /\ made[n] >= givenUp.time - Window => Accounted(n)
          /\ sendTo = "buffer" /\ n > givenUp.finals => n \in capped \/ Among(n, buffer)
      BY <3>1 DEF ResumeInv
    <3>. QED  BY <1>1, <2>0, <3>1, <3>2
  <2>2. CASE ~(n <= Len(made))
    <3>1. m = Final(n)
      BY <2>2
    <3>. QED  BY <1>1, <3>1
  <2>. QED  BY <2>1, <2>2
<1>8. /\ replay' # <<>> => sendTo' = "catchUp"
      /\ sendTo' = "socket" => buffer' = <<>>
  BY <1>1 DEF ResumeInv
<1>. QED
  BY <1>0, <1>1, <1>2, <1>3, <1>5, <1>6, <1>7, <1>8 DEF ResumeInv
\* A step that writes to the socket what a resume still owes it.
LEMMA DeliveringKeeps ==
  ASSUME ResumeInv,
         UNCHANGED <<now, made, song, played, link, deadSince, givenUp, buffer, dedupe, capped>>,
         turns' \in Seq(1..Len(made)), shown' \in 0..played, drops' \in [1..MaxMade -> 0..2],
         \A n : Holds(n) => Holds(n)',
         \A n \in 1..MaxMade : drops[n] > 0 => drops'[n] > 0,
         replay' \in Seq(Frames), GoodFrames(replay', Len(made), played),
         \A n \in DOMAIN made : Among(n, replay) => \/ Among(n, replay')
                                                    \/ (/\ link = "up" => Holds(n)'
                                                        /\ Holds(n)' \/ drops'[n] > 0),
         sendTo' \in {"socket", "catchUp"}, sendTo' = "socket" => buffer = <<>>,
         replay' # <<>> => sendTo' = "catchUp",
         answers' \in {<<>>, <<"asides">>, <<"ready", "asides">>}
  PROVE  ResumeInv'
<1>1. ResumeTypeOK'
  BY DEF ResumeInv, ResumeTypeOK
<1>2. \A n \in DOMAIN made : n \in 1..MaxMade
  <2>1. /\ made \in Seq(0..MaxTime) /\ Len(made) \in Nat /\ Len(made) <= MaxMade
        /\ DOMAIN made = 1..Len(made) /\ MaxMade \in Nat
    BY ResumeFacts DEF ResumeInv
  <2>. QED  BY <2>1
<1>3. ASSUME NEW n \in DOMAIN made
      PROVE  /\ Accounted(n)' \/ drops'[n] > 0
             /\ dedupe /\ link = "up" /\ made[n] >= givenUp.time - Window => Accounted(n)'
  <2>1. /\ Accounted(n) \/ drops[n] > 0
        /\ dedupe /\ link = "up" /\ made[n] >= givenUp.time - Window => Accounted(n)
    BY DEF ResumeInv
  <2>. QED  BY <2>1, <1>2 DEF Accounted
<1>. QED  BY <1>1, <1>3 DEF ResumeInv

\* A frame of the batch that a resume took.
LEMMA ReplayFrameKeeps == ASSUME ResumeInv, ReplayFrame PROVE ResumeInv'
<1>0. /\ replay \in Seq(Frames) /\ replay # <<>> /\ Write(Head(replay)) /\ replay' = Tail(replay)
      /\ Len(made) \in Nat /\ MaxMade \in Nat /\ Len(made) \in Len(made)..MaxMade /\ played \in Nat
      /\ ResumeTypeOK
  <2>1. ResumeTypeOK
    BY DEF ResumeInv
  <2>2. replay # <<>> /\ Write(Head(replay)) /\ replay' = Tail(replay)
    BY DEF ReplayFrame
  <2>. QED  BY <2>1, <2>2, ResumeFacts
<1>1. /\ Len(replay) \in Nat /\ Len(replay) > 0 /\ replay' \in Seq(Frames)
      /\ Len(replay') = Len(replay) - 1 /\ DOMAIN replay' = 1..(Len(replay) - 1)
      /\ DOMAIN replay = 1..Len(replay)
      /\ \A i \in 1..(Len(replay) - 1) : replay'[i] = replay[i + 1]
      /\ Head(replay) = replay[1]
  BY <1>0
<1>2. \A i \in 1..Len(replay) : GoodFrame(replay[i], Len(made), played)
  BY <1>1 DEF ResumeInv, GoodFrames
<1>3. GoodFrame(Head(replay), Len(made), played)
  BY <1>1, <1>2
<1>4. GoodFrames(replay', Len(made), played)
  BY <1>1, <1>2 DEF GoodFrames
<1>5. /\ turns' \in Seq(1..Len(made)) /\ shown' \in 0..played /\ drops' \in [1..MaxMade -> 0..2]
      /\ \A n : Holds(n) => Holds(n)'
      /\ \A n \in 1..MaxMade : drops[n] > 0 => drops'[n] > 0
      /\ \A n \in 1..Len(made) : Head(replay) = Final(n) =>
           /\ link = "up" => Holds(n)'
           /\ Holds(n)' \/ drops'[n] > 0
  BY <1>0, <1>3, WriteKeeps
<1>6. ASSUME NEW n, Among(n, replay) PROVE Among(n, replay') \/ Head(replay) = Final(n)
  <2>. PICK i \in 1..Len(replay) : replay[i] = Final(n)
    BY <1>1, <1>6 DEF Among
  <2>1. CASE i = 1
    BY <1>1, <2>1
  <2>2. CASE i # 1
    <3>1. i - 1 \in DOMAIN replay' /\ (i - 1) + 1 = i /\ i - 1 \in 1..(Len(replay) - 1)
      BY <1>1, <2>2
    <3>2. replay'[i - 1] = Final(n)
      BY <1>1, <3>1
    <3>. QED  BY <3>1, <3>2 DEF Among
  <2>. QED  BY <2>1, <2>2
<1>7. DOMAIN made = 1..Len(made)
  BY <1>0 DEF ResumeTypeOK
<1>. QED
  <2>1. /\ UNCHANGED <<now, made, song, played, link, deadSince, givenUp, buffer, dedupe, capped>>
        /\ sendTo' = "catchUp" /\ answers' \in {<<>>, <<"asides">>, <<"ready", "asides">>}
    BY DEF ReplayFrame, ResumeInv, ResumeTypeOK
  <2>2. \A n \in DOMAIN made : Among(n, replay) => \/ Among(n, replay')
                                                   \/ (/\ link = "up" => Holds(n)'
                                                       /\ Holds(n)' \/ drops'[n] > 0)
    BY <1>5, <1>6, <1>7
  <2>. QED  BY <1>1, <1>4, <1>5, <2>1, <2>2, DeliveringKeeps

\* What a resume says of songs: the live one, and the one that ended.
LEMMA SayingKeeps ==
  ASSUME ResumeInv, CaughtUp \/ Answer PROVE ResumeInv'
<1>0. /\ Len(made) \in Nat /\ MaxMade \in Nat /\ Len(made) \in Len(made)..MaxMade /\ played \in Nat
      /\ ResumeTypeOK /\ DOMAIN made = 1..Len(made) /\ MaxMade >= Len(made) /\ song \in 0..played
      /\ replay \in Seq(Frames)
  <2>1. ResumeTypeOK
    BY DEF ResumeInv
  <2>. QED  BY <2>1, ResumeFacts
<1>1. \/ (song # 0 /\ Write(SongOf(song)))
      \/ (played # 0 /\ Write(SongDone(played)))
      \/ UNCHANGED <<clientVars, drops>>
  BY Zenon DEF CaughtUp, Answer, RepeatsSongDone
<1>. DEFINE Delivered == /\ turns' \in Seq(1..Len(made)) /\ shown' \in 0..played
                         /\ drops' \in [1..MaxMade -> 0..2]
                         /\ \A n : Holds(n) => Holds(n)'
                         /\ \A n \in 1..MaxMade : drops[n] > 0 => drops'[n] > 0
<1>2. Delivered
  <2>1. ASSUME NEW m, GoodFrame(m, Len(made), played), Write(m) PROVE Delivered
    BY <1>0, <2>1, WriteKeeps
  <2>2. CASE song # 0 /\ Write(SongOf(song))
    <3>1. GoodFrame(SongOf(song), Len(made), played)
      BY <1>0, <2>2 DEF GoodFrame
    <3>. QED  BY <2>1, <2>2, <3>1
  <2>3. CASE played # 0 /\ Write(SongDone(played))
    <3>1. GoodFrame(SongDone(played), Len(made), played)
      BY <1>0, <2>3 DEF GoodFrame
    <3>. QED  BY <2>1, <2>3, <3>1
  <2>4. CASE UNCHANGED <<clientVars, drops>>
    BY <2>4 DEF clientVars, Holds, ResumeInv, ResumeTypeOK
  <2>. QED  BY <1>1, <2>2, <2>3, <2>4
<1>3. /\ UNCHANGED <<now, made, song, played, link, deadSince, givenUp, buffer, replay, dedupe, capped>>
      /\ sendTo' = "socket" /\ buffer = <<>> /\ replay' = <<>>
  BY DEF CaughtUp, Answer, ResumeInv
<1>4. answers' \in {<<>>, <<"asides">>, <<"ready", "asides">>}
  <2>1. answers' = <<"ready", "asides">> \/ (answers # <<>> /\ answers' = Tail(answers))
    BY DEF CaughtUp, Answer
  <2>2. answers \in {<<>>, <<"asides">>, <<"ready", "asides">>}
    BY <1>0 DEF ResumeTypeOK
  <2>3. Tail(<<"asides">>) = <<>> /\ Tail(<<"ready", "asides">>) = <<"asides">>
    OBVIOUS
  <2>. QED  BY <2>1, <2>2, <2>3
<1>5. GoodFrames(replay', Len(made), played) /\ replay' \in Seq(Frames)
  BY <1>0, <1>3 DEF ResumeInv
<1>. QED  BY <1>2, <1>3, <1>4, <1>5, DeliveringKeeps
\* detach(): what a failed resume had taken was swallowed.
LEMMA DetachKeeps == ASSUME ResumeInv, Detach PROVE ResumeInv'
<1>0. /\ ResumeTypeOK /\ now \in Nat /\ Len(made) \in Nat /\ Len(made) <= MaxMade /\ MaxMade \in Nat
      /\ DOMAIN made = 1..Len(made)
  BY ResumeFacts DEF ResumeInv
<1>1. /\ UNCHANGED <<now, link, deadSince, made, song, played, buffer, dedupe, turns, shown, capped>>
      /\ link = "dead" /\ sendTo' = "buffer" /\ givenUp' = [time |-> now, finals |-> Len(made)]
      /\ replay' = <<>> /\ answers' = <<>> /\ Swallowed(replay)
  BY DEF Detach, clientVars
<1>2. /\ drops' \in [1..MaxMade -> 0..2]
      /\ \A n \in 1..MaxMade : (drops[n] > 0 \/ Among(n, replay)) => drops'[n] > 0
  <2>1. DOMAIN drops = 1..MaxMade /\ DOMAIN drops' = 1..MaxMade /\ drops' = [n \in 1..MaxMade |-> drops'[n]]
    BY <1>0, <1>1, Zenon DEF Swallowed, ResumeTypeOK
  <2>2. ASSUME NEW n \in 1..MaxMade
        PROVE  drops'[n] \in 0..2 /\ ((drops[n] > 0 \/ Among(n, replay)) => drops'[n] > 0)
    <3>1. drops[n] \in 0..2
      BY <1>0 DEF ResumeTypeOK
    <3>2. drops'[n] = IF Among(n, replay) /\ drops[n] < 2 THEN drops[n] + 1 ELSE drops[n]
      BY <1>1, <2>1, Zenon DEF Swallowed, Among
    <3>. QED  BY <3>1, <3>2
  <2>. QED  BY <2>1, <2>2
<1>3. ResumeTypeOK'
  <2>1. givenUp' \in [time : 0..now, finals : 0..Len(made)]
    BY <1>0, <1>1
  <2>. QED  BY <1>0, <1>1, <1>2, <2>1 DEF ResumeTypeOK
<1>4. GoodFrames(replay', Len(made), played)
  BY <1>1 DEF GoodFrames
<1>5. ASSUME NEW n \in DOMAIN made PROVE Accounted(n)' \/ drops'[n] > 0
  <2>1. n \in 1..MaxMade /\ (Accounted(n) \/ drops[n] > 0)
    BY <1>0 DEF ResumeInv
  <2>. QED  BY <1>1, <1>2, <2>1 DEF Accounted, Holds
<1>6. \A n \in DOMAIN made : ~(n > givenUp'.finals)
  BY <1>0, <1>1
<1>. QED  BY <1>0, <1>1, <1>3, <1>4, <1>5, <1>6 DEF ResumeInv

\* rebind(): _recent, from the Window before the socket was given up on.
LEMMA ReplayedIsRecent ==
  ASSUME ResumeInv, NEW gave \in [time : 0..now, finals : 0..Len(made)]
  PROVE  LET again == Replayed(gave, Recent(gave)) IN
         /\ again \in Seq(Frames) /\ GoodFrames(again, Len(made), played)
         /\ \A n \in Recent(gave) : Among(n, again)
<1>. DEFINE upto == gave.finals
            recent == Recent(gave)
            Skips(k) == recent = (k + 1)..upto
<1>0. upto \in Nat /\ upto <= Len(made) /\ Len(made) \in Nat /\ DOMAIN made = 1..Len(made)
      /\ gave.time \in Nat /\ Window \in Nat /\ \A i \in 1..upto : made[i] \in Nat
  <2>1. made \in Seq(0..MaxTime) /\ now \in 0..MaxTime /\ Window \in Nat /\ MaxTime \in Nat
    BY ResumeFacts DEF ResumeInv
  <2>2. upto \in Nat /\ upto <= Len(made) /\ gave.time \in Nat /\ Len(made) \in Nat /\ DOMAIN made = 1..Len(made)
    BY <2>1
  <2>3. \A i \in 1..Len(made) : made[i] \in Nat
    BY <2>1
  <2>. QED  BY <2>1, <2>2, <2>3
<1>1. \A i, j \in 1..upto : i <= j => made[i] <= made[j]
  BY <1>0 DEF ResumeInv
<1>2. \A n : n \in recent <=> n \in 1..upto /\ gave.time - Window <= made[n]
  BY DEF Recent
<1>3. \E k \in 0..upto : Skips(k)
  <2>1. CASE recent = {}
    <3>1. Skips(upto)
      BY <1>0, <2>1
    <3>. QED  BY <1>0, <3>1
  <2>2. CASE recent # {}
    <3>1. recent \subseteq Nat
      BY <1>0, <1>2
    <3>2. PICK m \in recent : \A n \in recent : m <= n
      BY <2>2, <3>1, Least
    <3>3. m - 1 \in 0..upto /\ (m - 1) + 1 = m /\ m \in 1..upto /\ gave.time - Window <= made[m]
      BY <1>0, <1>2, <3>2
    <3>4. ASSUME NEW n PROVE n \in recent <=> n \in m..upto
      <4>1. n \in recent => n \in m..upto
        BY <1>0, <1>2, <3>2, <3>3
      <4>2. ASSUME n \in m..upto PROVE n \in recent
        <5>1. n \in 1..upto /\ m <= n
          BY <1>0, <3>3, <4>2
        <5>2. /\ made[m] <= made[n] /\ made[m] \in Nat /\ made[n] \in Nat
              /\ gave.time \in Nat /\ Window \in Nat /\ gave.time - Window <= made[m]
          BY <1>0, <1>1, <3>3, <5>1
        <5>3. gave.time - Window <= made[n]
          BY <5>2
        <5>. QED  BY <1>2, <5>1, <5>3
      <4>. QED  BY <4>1, <4>2
    <3>5. Skips(m - 1)
      BY <3>3, <3>4
    <3>. QED  BY <3>3, <3>5
  <2>. QED  BY <2>1, <2>2
<1>4. PICK k \in 0..upto : /\ Skips(k)
                           /\ Replayed(gave, recent) = [i \in 1..(upto - k) |-> Final(k + i)]
  <2>1. /\ (CHOOSE j \in 0..upto : Skips(j)) \in 0..upto
        /\ Skips(CHOOSE j \in 0..upto : Skips(j))
    BY <1>3
  <2>. QED  BY <2>1 DEF Replayed
<1>5. /\ Replayed(gave, recent) \in Seq(Frames)
      /\ DOMAIN Replayed(gave, recent) = 1..(upto - k)
      /\ \A i \in 1..(upto - k) : Replayed(gave, recent)[i] = Final(k + i) /\ k + i \in 1..Len(made)
  <2>1. \A i \in 1..(upto - k) : Final(k + i) \in Frames /\ k + i \in 1..Len(made)
    BY <1>0 DEF Final, Frames
  <2>2. upto - k \in Nat
    BY <1>0
  <2>. QED  BY <1>4, <2>1, <2>2
<1>6. GoodFrames(Replayed(gave, recent), Len(made), played)
  BY <1>5 DEF GoodFrames, GoodFrame
<1>7. ASSUME NEW n \in recent PROVE Among(n, Replayed(gave, recent))
  <2>1. n - k \in 1..(upto - k) /\ k + (n - k) = n
    BY <1>0, <1>4
  <2>. QED  BY <1>5, <2>1 DEF Among
<1>. QED  BY <1>5, <1>6, <1>7

\* A new socket: every recent turn is with the client, taken by the cap, replayed or buffered.
LEMMA RebindKeeps == ASSUME ResumeInv, Rebind PROVE ResumeInv'
<1>. DEFINE gave == IF sendTo = "buffer" THEN givenUp ELSE [time |-> now, finals |-> Len(made)]
<1>0. /\ ResumeTypeOK /\ now \in Nat /\ Len(made) \in Nat /\ DOMAIN made = 1..Len(made)
  BY ResumeFacts DEF ResumeInv
<1>1. /\ UNCHANGED <<now, made, song, played, buffer, answers, dedupe, turns, shown, drops, capped>>
      /\ link' = "up" /\ deadSince' = 0 /\ sendTo' = "catchUp" /\ givenUp' = gave
      /\ replay' = IF dedupe THEN Replayed(gave, Recent(gave)) ELSE <<>>
      /\ sendTo \in {"socket", "buffer"}
  BY DEF Rebind, clientVars
<1>2. gave \in [time : 0..now, finals : 0..Len(made)]
  BY <1>0 DEF ResumeTypeOK
<1>3. replay' \in Seq(Frames) /\ GoodFrames(replay', Len(made), played)
  <2>1. CASE dedupe
    BY <1>1, <1>2, <2>1, ReplayedIsRecent
  <2>2. CASE ~dedupe
    BY <1>1, <2>2 DEF GoodFrames
  <2>. QED  BY <2>1, <2>2
<1>4. ResumeTypeOK'
  BY <1>0, <1>1, <1>2, <1>3 DEF ResumeTypeOK
<1>5. replay = <<>>
  BY <1>1 DEF ResumeInv
<1>6. ASSUME NEW n \in DOMAIN made PROVE Accounted(n)' \/ drops'[n] > 0
  <2>1. Accounted(n) \/ drops[n] > 0
    BY DEF ResumeInv
  <2>. QED  BY <1>1, <1>5, <2>1 DEF Accounted, Holds, Among
<1>7. ASSUME dedupe, NEW n \in DOMAIN made, made[n] >= gave.time - Window PROVE Accounted(n)'
  <2>1. CASE n <= gave.finals
    <3>1. n \in Recent(gave)
      <4>1. n \in 1..gave.finals
        BY <1>0, <1>2, <2>1
      <4>2. gave.time - Window <= made[n]
        BY <1>7
      <4>. QED  BY <4>1, <4>2 DEF Recent
    <3>2. Among(n, replay')
      BY <1>1, <1>2, <1>7, <3>1, ReplayedIsRecent
    <3>. QED  BY <3>2 DEF Accounted
  <2>2. CASE ~(n <= gave.finals)
    <3>1. sendTo = "buffer" /\ gave = givenUp
      BY <1>0, <2>2
    <3>2. n > givenUp.finals
      BY <1>0, <1>2, <2>2, <3>1
    <3>3. n \in capped \/ Among(n, buffer)
      BY <3>1, <3>2 DEF ResumeInv
    <3>. QED  BY <1>1, <3>3 DEF Accounted
  <2>. QED  BY <2>1, <2>2
<1>. QED  BY <1>0, <1>1, <1>3, <1>4, <1>6, <1>7 DEF ResumeInv

\* The rest of a resume's and a socket's life moves no frame but the buffer as a whole.
LEMMA OthersKeep ==
  ASSUME ResumeInv, LinkDies \/ GraceClose \/ TakeBuffer \/ Tick \/ UNCHANGED resumeVars
  PROVE  ResumeInv'
<1>0. /\ ResumeTypeOK /\ now \in Nat /\ MaxTime \in Nat /\ Len(made) \in Nat /\ DOMAIN made = 1..Len(made)
  BY ResumeFacts DEF ResumeInv
<1>1. CASE LinkDies
  BY <1>0, <1>1 DEF LinkDies, ResumeInv, ResumeTypeOK, Accounted, Holds, serverVars, clientVars
<1>2. CASE GraceClose
  BY <1>0, <1>2 DEF GraceClose, ResumeInv, ResumeTypeOK, Accounted, Holds, clientVars
<1>3. CASE TakeBuffer
  <2>1. /\ UNCHANGED <<now, link, deadSince, made, song, played, sendTo, givenUp, answers, dedupe,
                       turns, shown, drops, capped>>
        /\ replay = <<>> /\ replay' = buffer /\ buffer' = <<>> /\ sendTo = "catchUp"
    BY <1>3 DEF TakeBuffer, clientVars
  <2>2. ResumeTypeOK'
    BY <1>0, <2>1, ResumeAssumption DEF ResumeTypeOK
  <2>3. GoodFrames(buffer', Len(made), played) /\ GoodFrames(replay', Len(made), played)
    BY <2>1 DEF ResumeInv, GoodFrames
  <2>4. \A n : Accounted(n) => Accounted(n)'
    BY <2>1 DEF Accounted, Holds, Among
  <2>. QED  BY <2>1, <2>2, <2>3, <2>4 DEF ResumeInv
<1>4. CASE Tick
  <2>1. UNCHANGED <<link, deadSince, made, song, played, sendTo, givenUp, buffer, replay, answers,
                    dedupe, turns, shown, drops, capped>> /\ now' = now + 1 /\ now < MaxTime
    BY <1>4 DEF Tick, serverVars, clientVars
  <2>2. ResumeTypeOK'
    <3>1. givenUp \in [time : 0..(now + 1), finals : 0..Len(made)]
      <4>1. givenUp \in [time : 0..now, finals : 0..Len(made)] /\ 0..now \subseteq 0..(now + 1)
        BY <1>0 DEF ResumeTypeOK
      <4>. QED  BY <4>1
    <3>2. deadSince \in 0..(now + 1) /\ now + 1 \in 0..MaxTime
      BY <1>0, <2>1 DEF ResumeTypeOK
    <3>. QED  BY <1>0, <2>1, <3>1, <3>2 DEF ResumeTypeOK
  <2>3. \A i \in DOMAIN made : made[i] <= now + 1
    <3>1. \A i \in DOMAIN made : made[i] \in Nat
      BY <1>0 DEF ResumeTypeOK
    <3>. QED  BY <1>0, <3>1 DEF ResumeInv
  <2>4. \A n : Accounted(n) <=> Accounted(n)'
    BY <2>1 DEF Accounted, Holds
  <2>. QED  BY <2>1, <2>2, <2>3, <2>4 DEF ResumeInv
<1>5. CASE UNCHANGED resumeVars
  BY <1>5 DEF resumeVars, serverVars, clientVars, ResumeInv, ResumeTypeOK, Accounted, Holds
<1>. QED  BY <1>1, <1>2, <1>3, <1>4, <1>5

\* Every step of a session and its client keeps the invariant.
LEMMA ResumeStep == ResumeInv /\ [ResumeNext]_resumeVars => ResumeInv'
<1>. SUFFICES ASSUME ResumeInv, [ResumeNext]_resumeVars PROVE ResumeInv'
  OBVIOUS
<1>0. /\ Len(made) \in Nat /\ MaxMade \in Nat /\ played \in Nat /\ song \in 0..played
      /\ played \in 0..MaxPlayed /\ MaxPlayed \in Nat /\ made \in Seq(0..MaxTime) /\ now \in 0..MaxTime
      /\ Len(made) <= MaxMade
  BY ResumeFacts DEF ResumeInv
<1>1. CASE ProduceFinal
  <2>. DEFINE finals == Len(made) + 1
              m == Final(finals)
  <2>1. finals \in Len(made)..MaxMade /\ played \in 0..MaxPlayed /\ GoodFrame(m, finals, played)
    BY <1>0, <1>1 DEF ProduceFinal, GoodFrame
  <2>2. /\ UNCHANGED <<now, link, deadSince, sendTo, givenUp, replay, answers, dedupe, song, played>>
        /\ Send(m) /\ made' = Append(made, now)
    BY <1>1 DEF ProduceFinal
  <2>3. /\ made' \in Seq(0..MaxTime) /\ Len(made') = finals
        /\ \A i \in 1..Len(made) : made'[i] = made[i]
        /\ made'[finals] = now
    BY <1>0, <2>2
  <2>4. \A i \in 1..finals : i <= Len(made) \/ (made'[i] = now /\ m = Final(i))
    BY <1>0, <2>3
  <2>. HIDE DEF finals, m
  <2>. QED  BY <1>0, <2>1, <2>2, <2>3, <2>4, ProducingKeeps
<1>2. CASE SongOpens
  <2>1. played + 1 \in 0..MaxPlayed /\ GoodFrame(SongOf(played + 1), Len(made), played + 1)
    BY <1>0, <1>2 DEF SongOpens, GoodFrame
  <2>2. /\ UNCHANGED <<now, link, deadSince, sendTo, givenUp, replay, answers, dedupe, made>>
        /\ Send(SongOf(played + 1)) /\ song' = played + 1 /\ played' = played + 1
    BY <1>2 DEF SongOpens
  <2>3. Len(made) \in Len(made)..MaxMade /\ played <= played + 1 /\ song' \in 0..(played + 1)
    BY <1>0, <2>2
  <2>. QED  BY <1>0, <2>1, <2>2, <2>3, ProducingKeeps
<1>3. CASE SongCloses
  <2>1. GoodFrame(SongDone(song), Len(made), played)
    BY <1>0, <1>3 DEF SongCloses, GoodFrame
  <2>2. /\ UNCHANGED <<now, link, deadSince, sendTo, givenUp, replay, answers, dedupe, made, played>>
        /\ Send(SongDone(song)) /\ song' = 0
    BY <1>3 DEF SongCloses
  <2>3. Len(made) \in Len(made)..MaxMade /\ played <= played /\ song' \in 0..played
    BY <1>0, <2>2
  <2>. QED  BY <1>0, <2>1, <2>2, <2>3, ProducingKeeps
<1>. QED
  BY <1>1, <1>2, <1>3, ReplayFrameKeeps, SayingKeeps, DetachKeeps, RebindKeeps, OthersKeep DEF ResumeNext

\* However many sockets fail, at whatever moments of a replay, a client that has caught up has
\* every turn of the Window before the last of them was given up and every turn since, but what
\* the buffer's cap took and, for a client without dedupe, what a dead socket swallowed: _recent
\* and the detached buffer leave no gap between them (rebind, detach, _remember, _buffer_send).
THEOREM ResumesAreWhole == ResumeSpec => []RecentIsHeld
<1>1. ResumeInit => ResumeInv
  <2>. SUFFICES ASSUME ResumeInit PROVE ResumeInv
    OBVIOUS
  <2>1. /\ now = 0 /\ made = <<>> /\ song = 0 /\ played = 0 /\ shown = 0 /\ link = "up" /\ deadSince = 0
        /\ sendTo = "socket" /\ buffer = <<>> /\ replay = <<>> /\ answers = <<>> /\ dedupe \in BOOLEAN
        /\ turns = <<>> /\ capped = {}
    BY DEF ResumeInit
  <2>2. givenUp \in [time : 0..now, finals : 0..Len(made)]
    BY <2>1 DEF ResumeInit
  <2>3. drops \in [1..MaxMade -> 0..2]
    BY DEF ResumeInit
  <2>4. ResumeTypeOK
    BY <2>1, <2>2, <2>3, ResumeAssumption DEF ResumeTypeOK
  <2>. QED  BY <2>1, <2>4 DEF ResumeInv, GoodFrames
<1>2. ResumeInv => RecentIsHeld
  <2>. SUFFICES ASSUME ResumeInv, CaughtUpNow, NEW n \in DOMAIN made, made[n] >= givenUp.time - Window
                PROVE  Holds(n) \/ n \in capped \/ (~dedupe /\ drops[n] > 0)
    BY DEF RecentIsHeld, ResumeInv
  <2>1. replay = <<>> /\ buffer = <<>>
    BY DEF ResumeInv, CaughtUpNow
  <2>2. Accounted(n) => Holds(n) \/ n \in capped
    BY <2>1 DEF Accounted, Among
  <2>. QED  BY <2>2 DEF ResumeInv, CaughtUpNow
<1>. QED  BY <1>1, <1>2, ResumeStep, PTL DEF ResumeSpec

-----------------------------------------------------------------------------
(* The caption merger: what it changes, it returns.                        *)

\* A merger while it takes a snapshot: what it changed of a segment is among what it returns.
Records == {"known", "line", "segment", "new", "next", "folds", "last", "rows", "out"}
IsSegment(g) == g = [text |-> g.text, name |-> g.name, start |-> g.start]
Keeps(s) ==
  /\ DOMAIN s = Records
  /\ DOMAIN s.line = Lines /\ DOMAIN s.segment = Lines
  /\ \A i \in Lines : "final" \in DOMAIN s.line[i] /\ IsSegment(s.segment[i])
  /\ \A i \in Lines : i \notin s.out => s.segment[i] = segment[i]

LEMMA FinalizedKeeps ==
  ASSUME NEW s, Keeps(s), NEW I
  PROVE  Keeps(Finalized(s, I))
<1> DEFINE f == Finalized(s, I)
<1>1. DOMAIN f = Records
  BY DEF Finalized, Keeps
<1>2. /\ f.line = [i \in Lines |-> IF i \in I THEN [s.line[i] EXCEPT !.final = TRUE] ELSE s.line[i]]
      /\ f.segment = [i \in Lines |-> IF i \in I THEN SegmentOf(s.line[i]) ELSE s.segment[i]]
      /\ f.out = s.out \union I
  BY DEF Finalized, Keeps, Records
<1>. HIDE DEF f
<1>3. \A i \in Lines : "final" \in DOMAIN f.line[i]
  BY <1>2 DEF Keeps
<1>4. \A i \in Lines : IsSegment(f.segment[i])
  BY <1>2 DEF Keeps, IsSegment, SegmentOf
<1>5. \A i \in Lines : i \notin f.out => f.segment[i] = segment[i]
  BY <1>2 DEF Keeps
<1>6. DOMAIN f.line = Lines /\ DOMAIN f.segment = Lines
  BY <1>2
<1>7. Keeps(f)
  BY <1>1, <1>3, <1>4, <1>5, <1>6 DEF Keeps
<1>. QED  BY <1>7 DEF f

LEMMA RetextKeeps ==
  ASSUME NEW s, Keeps(s), NEW t, NEW i, NEW x
  PROVE  Keeps(Retext(s, t, i, x))
<1> DEFINE g == [s EXCEPT !.line[i].text = x, !.line[i].changed = t,
                          !.segment[i].text = IF s.line[i].final THEN x ELSE @]
           read == IF s.line[i].final THEN x ELSE s.segment[i].text
<1>1. Retext(s, t, i, x) = IF x = s.line[i].text THEN s ELSE Emit(g, i)
  BY DEF Retext
<1>2. DOMAIN g = Records /\ g.out = s.out /\ DOMAIN g.line = Lines /\ DOMAIN g.segment = Lines
  BY DEF Keeps, Records
<1>3. \A k \in Lines : "final" \in DOMAIN g.line[k] /\ g.line[k].final = s.line[k].final
  BY DEF Keeps, Records
<1>4. \A k \in Lines : g.segment[k] = IF k = i THEN [s.segment[i] EXCEPT !.text = read] ELSE s.segment[k]
  BY DEF Keeps, Records
<1>. HIDE DEF g
<1>5. \A k \in Lines : IsSegment(g.segment[k])
  BY <1>4 DEF Keeps, IsSegment
<1>6. \A k \in Lines : k # i \/ ~s.line[i].final => g.segment[k] = s.segment[k]
  BY <1>4 DEF Keeps, IsSegment
<1>7. CASE g.line[i].final
  <2> DEFINE e == [g EXCEPT !.out = g.out \union {i}]
  <2>1. Emit(g, i) = e
    BY <1>7 DEF Emit
  <2>2. e.line = g.line /\ e.segment = g.segment /\ e.out = s.out \union {i} /\ DOMAIN e = Records
    BY <1>2 DEF Records
  <2>. HIDE DEF e
  <2>3. Keeps(e)
    BY <1>2, <1>3, <1>5, <1>6, <2>2 DEF Keeps
  <2>. QED  BY <1>1, <2>1, <2>3
<1>8. CASE ~g.line[i].final
  <2>1. Emit(g, i) = g
    BY <1>8 DEF Emit
  <2>2. \A k \in Lines : g.segment[k] = s.segment[k]
    BY <1>3, <1>6, <1>8
  <2>3. Keeps(g)
    BY <1>2, <1>3, <1>5, <2>2 DEF Keeps
  <2>. QED  BY <1>1, <2>1, <2>3
<1>. QED  BY <1>7, <1>8

LEMMA DropKeeps ==
  ASSUME NEW s, Keeps(s), NEW I
  PROVE  Keeps(Drop(s, I))
BY DEF Keeps, Records, IsSegment, Drop

LEMMA RewordedKeeps ==
  ASSUME NEW s, Keeps(s), NEW t, NEW I
  PROVE  Keeps(Reworded(s, t, I))
BY DEF Keeps, Records, IsSegment, Reworded

LEMMA PlaceAboveKeeps ==
  ASSUME NEW s, Keeps(s), NEW i, NEW at
  PROVE  Keeps(PlaceAbove(s, i, at))
BY DEF Keeps, Records, IsSegment, PlaceAbove

LEMMA EmitKeeps ==
  ASSUME NEW s, Keeps(s), NEW i
  PROVE  Keeps(Emit(s, i))
BY DEF Keeps, Records, IsSegment, Emit

LEMMA MergeAboveKeeps ==
  ASSUME NEW s, Keeps(s), NEW t, NEW i, NEW n
  PROVE  Keeps(MergeAbove(s, t, i, n))
BY RetextKeeps, EmitKeeps, DropKeeps, Zenon DEF MergeAbove

\* Fields that what is kept of a segment does not depend on may change.
LEMMA SeenKeeps ==
  ASSUME NEW s, Keeps(s), NEW i, NEW t, NEW r
  PROVE  Keeps([s EXCEPT !.line[i].seen = t, !.rows = r])
BY DEF Keeps, Records, IsSegment

LEMMA RowsKeep ==
  ASSUME NEW s, Keeps(s), NEW r
  PROVE  Keeps([s EXCEPT !.rows = r])
BY DEF Keeps, Records, IsSegment

LEMMA FoldsKeep ==
  ASSUME NEW s, Keeps(s), NEW F
  PROVE  Keeps([s EXCEPT !.folds = F])
BY DEF Keeps, Records, IsSegment

LEMMA LastKeeps ==
  ASSUME NEW s, Keeps(s), NEW r
  PROVE  Keeps([s EXCEPT !.last = r])
BY DEF Keeps, Records, IsSegment

LEMMA KnownKeeps ==
  ASSUME NEW s, Keeps(s), NEW q, NEW r
  PROVE  Keeps([s EXCEPT !.known = q, !.rows = r])
BY DEF Keeps, Records, IsSegment

LEMMA MadeKeeps ==
  ASSUME NEW s, Keeps(s), NEW i, NEW a, NEW b, NEW n, NEW m
  PROVE  Keeps([s EXCEPT !.line[i] = NewLine(a, b), !.next = n, !.new = m])
BY DEF Keeps, Records, IsSegment, NewLine

LEMMA RenamedKeeps ==
  ASSUME NEW s, Keeps(s), NEW t, NEW moved
  PROVE  Keeps(Renamed(s, t, moved))
BY DEF Keeps, Records, IsSegment, Renamed

LEMMA AddLineKeeps ==
  ASSUME NEW s, Keeps(s), NEW t, NEW f, NEW k
  PROVE  Keeps(AddLine(s, t, f, k))
<1> DEFINE i == OldLines + s.new + 1
           first == FirstMs(s, t)
           shownBelow == {h \in (k + 1)..Len(f) : f[h].as \in {"known", "revised"}}
           below == IF shownBelow = {} THEN 0 ELSE f[Min(shownBelow)].at
           at == IF below = 0 THEN Len(s.known) + 1 ELSE At(s.known, below)
           opened == [s EXCEPT !.line[i] = NewLine(first, t), !.next = first + 1, !.new = @ + 1]
           placed == IF below = 0 \/ Old(below) THEN opened ELSE PlaceAbove(opened, i, at)
           q == InsertAt(placed.known, at, i)
           r == Append(placed.rows, i)
<1>1. Keeps(opened)
  <2> DEFINE n == first + 1
             m == s.new + 1
  <2>1. opened = [s EXCEPT !.line[i] = NewLine(first, t), !.next = n, !.new = m]
    OBVIOUS
  <2> HIDE DEF first, i, opened, n, m
  <2>2. QED
    BY <2>1, MadeKeeps
<1>2. Keeps(placed)
  <2> HIDE DEF opened, at, below, i
  <2>1. QED
    BY <1>1, PlaceAboveKeeps
<1>3. AddLine(s, t, f, k) = [placed EXCEPT !.known = q, !.rows = r]
  BY DEF AddLine
<1> HIDE DEF placed, q, r
<1>4. Keeps([placed EXCEPT !.known = q, !.rows = r])
  BY <1>2, KnownKeeps
<1>5. QED
  BY <1>3, <1>4

LEMMA TakeRowKeeps ==
  ASSUME NEW s, Keeps(s), NEW t, NEW f, NEW k
  PROVE  Keeps(TakeRow(s, t, f, k))
<1> DEFINE r == f[k]
           z == Retext(s, t, r.at, r.text)
           read == [z EXCEPT !.line[r.at].seen = t, !.rows = Append(z.rows, r.at)]
           none == [s EXCEPT !.rows = Append(s.rows, 0)]
<1>1. Keeps(read)
  <2>1. Keeps(z)
    BY RetextKeeps
  <2> DEFINE q == Append(z.rows, r.at)
             i == r.at
  <2>2. read = [z EXCEPT !.line[i].seen = t, !.rows = q]
    OBVIOUS
  <2> HIDE DEF z, q, i, read
  <2>3. QED
    BY <2>1, <2>2, SeenKeeps
<1>2. Keeps(none)
  BY RowsKeep
<1>3. Keeps(AddLine(s, t, f, k))
  BY AddLineKeeps
<1>4. TakeRow(s, t, f, k) \in {read, none, AddLine(s, t, f, k)}
  BY DEF TakeRow
<1> HIDE DEF read, none
<1>5. QED
  BY <1>1, <1>2, <1>3, <1>4

\* The walk over a snapshot's rows, as far as row k.
IsWalk(u, s, t, f, k) ==
  u = [n \in 0..k |-> IF n = 0 THEN [s EXCEPT !.rows = <<>>] ELSE TakeRow(u[n - 1], t, f, n)]

LEMMA WalksAre ==
  ASSUME NEW s, NEW t, NEW f, NEW k \in Nat
  PROVE  \E u : IsWalk(u, s, t, f, k)
<1> DEFINE T == {m \in Nat : ~\E u : IsWalk(u, s, t, f, m)}
           start == [s EXCEPT !.rows = <<>>]
<1>1. SUFFICES ASSUME T # {} PROVE FALSE
  OBVIOUS
<1>2. PICK x \in T : \A y \in T : x <= y
  <2>1. T \subseteq Nat
    OBVIOUS
  <2> HIDE DEF T
  <2>2. QED
    BY <1>1, <2>1, Least
<1>3. x # 0
  <2> DEFINE u == [n \in 0..0 |-> start]
  <2>1. u = [n \in 0..0 |-> IF n = 0 THEN start ELSE TakeRow(u[n - 1], t, f, n)]
    OBVIOUS
  <2>2. IsWalk(u, s, t, f, 0)
    BY <2>1 DEF IsWalk
  <2>3. QED
    BY <2>2
<1> HIDE DEF start
<1>4. x \in Nat /\ x - 1 \in Nat /\ ~(x <= x - 1)
  BY <1>3
<1>5. PICK g : IsWalk(g, s, t, f, x - 1)
  BY <1>2, <1>4
<1> DEFINE h == [n \in 0..x |-> IF n = x THEN TakeRow(g[x - 1], t, f, x) ELSE g[n]]
<1>6. \A n \in 0..x - 1 : g[n] = IF n = 0 THEN start ELSE TakeRow(g[n - 1], t, f, n)
  <2> DEFINE r == [n \in 0..x - 1 |-> IF n = 0 THEN start ELSE TakeRow(g[n - 1], t, f, n)]
  <2>1. g = r
    BY <1>5 DEF IsWalk, start
  <2>2. \A n \in 0..x - 1 : r[n] = IF n = 0 THEN start ELSE TakeRow(g[n - 1], t, f, n)
    OBVIOUS
  <2> HIDE DEF r
  <2>3. QED
    BY <2>1, <2>2
<1>7. ASSUME NEW n \in 0..x PROVE h[n] = IF n = 0 THEN start ELSE TakeRow(h[n - 1], t, f, n)
  <2>1. CASE n = x
    <3>1. h[n] = TakeRow(g[x - 1], t, f, x) /\ n # 0
      BY <1>3, <2>1
    <3>2. x - 1 \in 0..x /\ x - 1 # x
      BY <1>4
    <3>3. h[x - 1] = g[x - 1]
      BY <3>2
    <3>4. QED
      BY <2>1, <3>1, <3>3
  <2>2. CASE n # x
    <3>1. n \in 0..x - 1 /\ h[n] = g[n]
      BY <1>4, <2>2
    <3>2. n # 0 => n - 1 \in 0..x /\ n - 1 # x
      BY <1>4
    <3>3. n # 0 => h[n - 1] = g[n - 1]
      BY <3>2
    <3>4. QED
      BY <1>6, <3>1, <3>3
  <2>3. QED
    BY <2>1, <2>2
<1>8. h = [n \in 0..x |-> IF n = 0 THEN start ELSE TakeRow(h[n - 1], t, f, n)]
  <2> DEFINE r == [n \in 0..x |-> IF n = 0 THEN start ELSE TakeRow(h[n - 1], t, f, n)]
  <2>1. \A n \in 0..x : r[n] = h[n]
    BY <1>7
  <2>2. h = [n \in 0..x |-> h[n]]
    OBVIOUS
  <2>3. r = [n \in 0..x |-> r[n]]
    OBVIOUS
  <2> HIDE DEF r, h
  <2>4. h = r
    BY <2>1, <2>2, <2>3
  <2>5. QED
    BY <2>4 DEF r
<1> HIDE DEF h
<1>9. IsWalk(h, s, t, f, x)
  BY <1>8 DEF IsWalk, start
<1>10. QED
  BY <1>2, <1>9

LEMMA WalkedKeeps ==
  ASSUME NEW s, Keeps(s), NEW t, NEW f, Len(f) \in Nat
  PROVE  Keeps(Walked(s, t, f))
<1> DEFINE N == Len(f)
           start == [s EXCEPT !.rows = <<>>]
           u == CHOOSE u : IsWalk(u, s, t, f, N)
<1>1. Walked(s, t, f) = u[N]
  BY DEF Walked, IsWalk
<1>2. Keeps(start)
  BY RowsKeep
<1>3. N \in Nat
  OBVIOUS
<1> HIDE DEF N, start
<1>4. IsWalk(u, s, t, f, N)
  BY <1>3, WalksAre
<1> HIDE DEF u
<1> DEFINE r == [n \in 0..N |-> IF n = 0 THEN start ELSE TakeRow(u[n - 1], t, f, n)]
<1>5. u = r
  BY <1>4 DEF IsWalk, start
<1>6. \A n \in 0..N : r[n] = IF n = 0 THEN start ELSE TakeRow(u[n - 1], t, f, n)
  OBVIOUS
<1> HIDE DEF r
<1>7. \A n \in 0..N : u[n] = IF n = 0 THEN start ELSE TakeRow(u[n - 1], t, f, n)
  BY <1>5, <1>6
<1> DEFINE T == {n \in 0..N : ~Keeps(u[n])}
<1>8. T = {}
  <2>1. SUFFICES ASSUME T # {} PROVE FALSE
    OBVIOUS
  <2>2. PICK x \in T : \A y \in T : x <= y
    <3>1. T \subseteq Nat
      BY <1>3
    <3> HIDE DEF T
    <3>2. QED
      BY <2>1, <3>1, Least
  <2>3. x # 0
    BY <1>2, <1>7, <1>3
  <2>4. x \in 0..N /\ x - 1 \in 0..N /\ ~(x <= x - 1)
    BY <1>3, <2>3
  <2>5. Keeps(u[x - 1])
    BY <2>2, <2>4
  <2>6. u[x] = TakeRow(u[x - 1], t, f, x)
    BY <1>7, <2>3, <2>4
  <2>7. Keeps(u[x])
    BY <2>5, <2>6, TakeRowKeeps
  <2>8. QED
    BY <2>2, <2>7
<1>9. Keeps(u[N])
  BY <1>3, <1>8
<1>10. QED
  BY <1>1, <1>9

\* What a row's growth makes of the mergers M, and the growths as far as row k.
Grows(M, t, f, k) ==
  UNION {{m} \union (IF MayGrow(m, t, f[k])
                      THEN {MergeAbove(m, t, f[k].at, n) : n \in Absorbed(m, t, f, f[k].at)}
                           \union (IF Old(f[k].at) THEN {}
                                   ELSE {Retext(m, t, f[k].at, Reread(m.line[f[k].at].text))})
                      ELSE {}) : m \in M}
IsGrowth(u, s, t, f, k) ==
  u = [n \in 0..k |-> IF n = 0 THEN {s} ELSE Grows(u[n - 1], t, f, n)]

LEMMA GrowthsAre ==
  ASSUME NEW s, NEW t, NEW f, NEW k \in Nat
  PROVE  \E u : IsGrowth(u, s, t, f, k)
<1> DEFINE T == {m \in Nat : ~\E u : IsGrowth(u, s, t, f, m)}
           start == {s}
<1>1. SUFFICES ASSUME T # {} PROVE FALSE
  OBVIOUS
<1>2. PICK x \in T : \A y \in T : x <= y
  <2>1. T \subseteq Nat
    OBVIOUS
  <2> HIDE DEF T
  <2>2. QED
    BY <1>1, <2>1, Least
<1>3. x # 0
  <2> DEFINE u == [n \in 0..0 |-> start]
  <2>1. u = [n \in 0..0 |-> IF n = 0 THEN start ELSE Grows(u[n - 1], t, f, n)]
    OBVIOUS
  <2>2. IsGrowth(u, s, t, f, 0)
    BY <2>1 DEF IsGrowth
  <2>3. QED
    BY <2>2
<1> HIDE DEF start
<1>4. x \in Nat /\ x - 1 \in Nat /\ ~(x <= x - 1)
  BY <1>3
<1>5. PICK g : IsGrowth(g, s, t, f, x - 1)
  BY <1>2, <1>4
<1> DEFINE h == [n \in 0..x |-> IF n = x THEN Grows(g[x - 1], t, f, x) ELSE g[n]]
<1>6. \A n \in 0..x - 1 : g[n] = IF n = 0 THEN start ELSE Grows(g[n - 1], t, f, n)
  <2> DEFINE r == [n \in 0..x - 1 |-> IF n = 0 THEN start ELSE Grows(g[n - 1], t, f, n)]
  <2>1. g = r
    BY <1>5 DEF IsGrowth, start
  <2>2. \A n \in 0..x - 1 : r[n] = IF n = 0 THEN start ELSE Grows(g[n - 1], t, f, n)
    OBVIOUS
  <2> HIDE DEF r
  <2>3. QED
    BY <2>1, <2>2
<1>7. ASSUME NEW n \in 0..x PROVE h[n] = IF n = 0 THEN start ELSE Grows(h[n - 1], t, f, n)
  <2>1. CASE n = x
    <3>1. h[n] = Grows(g[x - 1], t, f, x) /\ n # 0
      BY <1>3, <2>1
    <3>2. x - 1 \in 0..x /\ x - 1 # x
      BY <1>4
    <3>3. h[x - 1] = g[x - 1]
      BY <3>2
    <3>4. QED
      BY <2>1, <3>1, <3>3
  <2>2. CASE n # x
    <3>1. n \in 0..x - 1 /\ h[n] = g[n]
      BY <1>4, <2>2
    <3>2. n # 0 => n - 1 \in 0..x /\ n - 1 # x
      BY <1>4
    <3>3. n # 0 => h[n - 1] = g[n - 1]
      BY <3>2
    <3>4. QED
      BY <1>6, <3>1, <3>3
  <2>3. QED
    BY <2>1, <2>2
<1>8. h = [n \in 0..x |-> IF n = 0 THEN start ELSE Grows(h[n - 1], t, f, n)]
  <2> DEFINE r == [n \in 0..x |-> IF n = 0 THEN start ELSE Grows(h[n - 1], t, f, n)]
  <2>1. \A n \in 0..x : r[n] = h[n]
    BY <1>7
  <2>2. h = [n \in 0..x |-> h[n]]
    OBVIOUS
  <2>3. r = [n \in 0..x |-> r[n]]
    OBVIOUS
  <2> HIDE DEF r, h
  <2>4. h = r
    BY <2>1, <2>2, <2>3
  <2>5. QED
    BY <2>4 DEF r
<1> HIDE DEF h
<1>9. IsGrowth(h, s, t, f, x)
  BY <1>8 DEF IsGrowth, start
<1>10. QED
  BY <1>2, <1>9

LEMMA GrowsKeep ==
  ASSUME NEW M, \A m \in M : Keeps(m), NEW t, NEW f, NEW k
  PROVE  \A m \in Grows(M, t, f, k) : Keeps(m)
<1>1. SUFFICES ASSUME NEW m \in M,
                      NEW z \in {m} \union {MergeAbove(m, t, f[k].at, n) : n \in Absorbed(m, t, f, f[k].at)}
                                    \union {Retext(m, t, f[k].at, Reread(m.line[f[k].at].text))}
               PROVE  Keeps(z)
  BY DEF Grows
<1>2. QED
  BY <1>1, MergeAboveKeeps, RetextKeeps, Zenon

LEMMA GrownKeeps ==
  ASSUME NEW s, Keeps(s), NEW t, NEW f, Len(f) \in Nat
  PROVE  \A m \in Grown(s, t, f) : Keeps(m)
<1> DEFINE N == Len(f)
           u == CHOOSE u : IsGrowth(u, s, t, f, N)
<1>1. Grown(s, t, f) = u[N]
  BY DEF Grown, IsGrowth, Grows
<1>3. N \in Nat
  OBVIOUS
<1> HIDE DEF N
<1>4. IsGrowth(u, s, t, f, N)
  BY <1>3, GrowthsAre
<1> HIDE DEF u
<1> DEFINE r == [n \in 0..N |-> IF n = 0 THEN {s} ELSE Grows(u[n - 1], t, f, n)]
<1>5. u = r
  BY <1>4 DEF IsGrowth
<1>6. \A n \in 0..N : r[n] = IF n = 0 THEN {s} ELSE Grows(u[n - 1], t, f, n)
  OBVIOUS
<1> HIDE DEF r
<1>7. \A n \in 0..N : u[n] = IF n = 0 THEN {s} ELSE Grows(u[n - 1], t, f, n)
  BY <1>5, <1>6
<1> DEFINE T == {n \in 0..N : ~\A m \in u[n] : Keeps(m)}
<1>8. T = {}
  <2>1. SUFFICES ASSUME T # {} PROVE FALSE
    OBVIOUS
  <2>2. PICK x \in T : \A y \in T : x <= y
    <3>1. T \subseteq Nat
      BY <1>3
    <3> HIDE DEF T
    <3>2. QED
      BY <2>1, <3>1, Least
  <2>3. x # 0
    BY <1>7, <1>3
  <2>4. x \in 0..N /\ x - 1 \in 0..N /\ ~(x <= x - 1)
    BY <1>3, <2>3
  <2>5. \A m \in u[x - 1] : Keeps(m)
    BY <2>2, <2>4
  <2>6. u[x] = Grows(u[x - 1], t, f, x)
    BY <1>7, <2>3, <2>4
  <2>7. \A m \in u[x] : Keeps(m)
    BY <2>5, <2>6, GrowsKeep
  <2>8. QED
    BY <2>2, <2>7
<1>9. \A m \in u[N] : Keeps(m)
  BY <1>3, <1>8
<1>10. QED
  BY <1>1, <1>9

LEMMA FoldedKeep ==
  ASSUME NEW s, Keeps(s), NEW t, NEW f
  PROVE  \A d \in Folded(s, t, f) : Keeps(d)
<1> DEFINE dropped == Drop(s, {i \in s.folds \intersect ToSet(s.known) : s.line[i].seen # t})
<1>1. Keeps(dropped)
  BY DropKeeps
<1>2. \A d \in Folded(s, t, f) : \E F : d = [dropped EXCEPT !.folds = F]
  BY DEF Folded
<1> HIDE DEF dropped
<1>3. QED
  BY <1>1, <1>2, FoldsKeep

LEMMA ReflowedKeep ==
  ASSUME NEW s, Keeps(s), NEW t, NEW f
  PROVE  \A d \in Reflowed(s, t, f) : Keeps(d)
<1>1. SUFFICES ASSUME NEW d \in Reflowed(s, t, f), d # s PROVE Keeps(d)
  OBVIOUS
<1>2. \E I, D : d = Drop(Reworded(s, t, I), D)
  <2> DEFINE Reworks(e, D) == {Drop(Reworded(s, t, I), D) : I \in SUBSET (Span(s, e) \ D)}
             Ends(e) == UNION {Reworks(e, D) : D \in SUBSET Stale(s, t, e)}
  <2>1. d \in UNION {Ends(e) : e \in EntryEnds(s, f)}
    BY <1>1, Zenon DEF Reflowed
  <2>2. PICK e : d \in Ends(e)
    <3> HIDE DEF Ends
    <3>1. QED
      BY <2>1
  <2>3. PICK D : d \in Reworks(e, D)
    <3> HIDE DEF Reworks
    <3>1. QED
      BY <2>2
  <2>4. QED
    BY <2>3
<1>3. QED
  BY <1>2, RewordedKeeps, DropKeeps, Zenon

LEMMA SaidOnKeep ==
  ASSUME NEW s, Keeps(s), NEW f
  PROVE  \A d \in SaidOn(s, f) : Keeps(d)
BY FinalizedKeeps, Zenon DEF SaidOn

\* All that a snapshot may leave of a merger.
LEMMA MergesKeep ==
  ASSUME NEW s, Keeps(s), NEW t
  PROVE  \A z \in Merges(s, t) : Keeps(z)
<1>1. SUFFICES ASSUME NEW m \in Merges(s, t) PROVE Keeps(m)
  OBVIOUS
<1> DEFINE Ended(z) == SettledAt([z EXCEPT !.last = [ts |-> t, rows |-> z.rows]], t)
           Said(g, f) == {Ended(z) : z \in SaidOn(g, f)}
           Grew(r, f) == UNION {Said(g, f) : g \in Grown(r, t, f)}
           Flowed(d, f) == UNION {Grew(r, f) : r \in Reflowed(d, t, f)}
           Frame(f) == UNION {Flowed(d, f) : d \in Folded(Walked(s, t, f), t, f)}
<1>2. m \in UNION {Frame(f) : f \in Snapshots(s, t)}
  BY <1>1, Zenon DEF Merges
<1>3. PICK f \in Snapshots(s, t) : m \in Frame(f)
  <2> HIDE DEF Frame
  <2>1. QED
    BY <1>2
<1>4. Len(f) \in Nat
  <2>1. Len(f) \in 0..MaxShown
    BY <1>3 DEF Snapshots
  <2>2. QED
    BY <2>1, MergeBounds
<1>5. PICK d \in Folded(Walked(s, t, f), t, f) : m \in Flowed(d, f)
  <2> HIDE DEF Flowed
  <2>1. QED
    BY <1>3
<1>6. Keeps(d)
  <2>1. Keeps(Walked(s, t, f))
    BY <1>4, WalkedKeeps
  <2>2. QED
    BY <1>5, <2>1, FoldedKeep, Zenon
<1>7. PICK r \in Reflowed(d, t, f) : m \in Grew(r, f)
  <2> HIDE DEF Grew
  <2>1. QED
    BY <1>5
<1>8. Keeps(r)
  BY <1>6, <1>7, ReflowedKeep, Zenon
<1>9. PICK g \in Grown(r, t, f) : m \in Said(g, f)
  <2> HIDE DEF Said
  <2>1. QED
    BY <1>7
<1>10. Keeps(g)
  BY <1>4, <1>8, <1>9, GrownKeeps, Zenon
<1>11. PICK z \in SaidOn(g, f) : m = Ended(z)
  <2> HIDE DEF Ended
  <2>1. QED
    BY <1>9
<1>12. Keeps(z)
  BY <1>10, <1>11, SaidOnKeep, Zenon
<1>13. Keeps([z EXCEPT !.last = [ts |-> t, rows |-> z.rows]])
  <2> DEFINE q == [ts |-> t, rows |-> z.rows]
  <2> HIDE DEF q
  <2>1. Keeps([z EXCEPT !.last = q])
    BY <1>12, LastKeeps
  <2>2. QED
    BY <2>1 DEF q
<1>14. QED
  BY <1>11, <1>13, FinalizedKeeps, Zenon DEF SettledAt

MergeIInv == Keeps(Merger) /\ StoreFollows

\* Whatever keeps what it does not return may be left.
LEMMA LeaveKeeps ==
  ASSUME MergeIInv, NEW s, Keeps(s), Leave(s)
  PROVE  MergeIInv'
<1>1. Keeps(Merger)'
  BY DEF Keeps, Records, IsSegment, Merger, Leave
<1>2. StoreFollows'
  <2>1. SUFFICES ASSUME NEW i \in Lines, ~Old(i) PROVE storeCopy'[i] = segment'[i]
    BY DEF StoreFollows, Lines, Old
  <2>2. storeCopy'[i] = IF i \in s.out THEN s.segment[i] ELSE storeCopy[i]
    BY <2>1 DEF Leave
  <2>3. segment' = s.segment
    BY DEF Leave
  <2>4. i \notin s.out => s.segment[i] = segment[i]
    BY <2>1 DEF Keeps
  <2>5. storeCopy[i] = segment[i]
    BY <2>1 DEF MergeIInv, StoreFollows
  <2>6. QED
    BY <2>2, <2>3, <2>4, <2>5
<1>3. QED
  BY <1>1, <1>2 DEF MergeIInv

LEMMA MergeStarts == MergeInit => MergeIInv
<1>1. SUFFICES ASSUME MergeInit PROVE MergeIInv
  OBVIOUS
<1>2. Keeps(Merger)
  BY <1>1 DEF MergeInit, Keeps, Records, IsSegment, Merger, Copy, NewLine, SegmentOf, NoSegment
<1>3. StoreFollows
  BY <1>1 DEF MergeInit, StoreFollows, NoSegment
<1>4. QED
  BY <1>2, <1>3 DEF MergeIInv

LEMMA MergeKept == MergeIInv /\ [MergeNext]_mergeVars => MergeIInv'
<1>1. SUFFICES ASSUME MergeIInv, [MergeNext]_mergeVars PROVE MergeIInv'
  OBVIOUS
<1>2. Keeps(Merger)
  BY <1>1 DEF MergeIInv
<1>3. CASE Feed
  <2>1. PICK t : FeedHeld(t) \/ FeedRenamed(t) \/ FeedMerged(t) \/ FeedBoth(t) \/ FeedRefused
    BY <1>3 DEF Feed
  <2>2. CASE FeedHeld(t)
    <3>1. Leave(SettledAt(Merger, t))
      BY <2>2 DEF FeedHeld
    <3>2. Keeps(SettledAt(Merger, t))
      BY <1>2, FinalizedKeeps DEF SettledAt
    <3>3. QED
      BY <1>1, <3>1, <3>2, LeaveKeeps
  <2>3. CASE FeedRenamed(t)
    <3>1. Leave(SettledAt(Renamed(Merger, t, pendingFrame.moved), t))
      BY <2>3 DEF FeedRenamed
    <3>2. Keeps(SettledAt(Renamed(Merger, t, pendingFrame.moved), t))
      BY <1>2, RenamedKeeps, FinalizedKeeps, Zenon DEF SettledAt
    <3>3. QED
      BY <1>1, <3>1, <3>2, LeaveKeeps
  <2>4. CASE FeedMerged(t)
    <3>1. PICK s \in Merges(Merger, t) : Leave(s)
      BY <2>4 DEF FeedMerged
    <3>2. QED
      BY <1>1, <1>2, <3>1, MergesKeep, LeaveKeeps
  <2>5. CASE FeedBoth(t)
    <3>1. PICK s \in Merges(Merger, pendingFrame.ts) : Leave(s) \/ \E z \in Merges(s, t) : Leave(z)
      BY <2>5 DEF FeedBoth
    <3>2. Keeps(s)
      BY <1>2, MergesKeep
    <3>3. \A z \in Merges(s, t) : Keeps(z)
      BY <3>2, MergesKeep
    <3>4. QED
      BY <1>1, <3>1, <3>2, <3>3, LeaveKeeps
  <2>6. CASE FeedRefused
    BY <1>1, <1>2, <2>6, LeaveKeeps DEF FeedRefused
  <2>7. QED
    BY <2>1, <2>2, <2>3, <2>4, <2>5, <2>6
<1>4. CASE FlushMerger
  <2> DEFINE s == Finalized(Merger, {i \in ToSet(known) : ~line[i].final})
  <2>1. Leave(s)
    BY <1>4 DEF FlushMerger
  <2>2. Keeps(s)
    BY <1>2, FinalizedKeeps
  <2> HIDE DEF s
  <2>3. QED
    BY <1>1, <2>1, <2>2, LeaveKeeps
<1>5. CASE UNCHANGED mergeVars
  BY <1>1, <1>5 DEF mergeVars, MergeIInv, Keeps, Merger, StoreFollows
<1>6. QED
  BY <1>1, <1>3, <1>4, <1>5 DEF MergeNext

\* What a meeting's merger emits leaves every segment of that meeting stored as the merger has it,
\* whatever the snapshots read (screen/merge.py).
THEOREM EmittedIsStored == MergeSpec => []StoreFollows
<1>1. MergeIInv => StoreFollows
  BY DEF MergeIInv
<1>2. QED
  BY <1>1, MergeStarts, MergeKept, PTL DEF MergeSpec
=============================================================================
