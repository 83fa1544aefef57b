------------------------------- MODULE SqlStore -------------------------------
(***************************************************************************)
(* The database's store of conversations (postgres.py, the class           *)
(* SqlConversationStore over schema.sql): one row per conversation, child  *)
(* tables that a delete empties by cascade, and calls that are one         *)
(* statement each, except that create() and reopen() read the row again on *)
(* a connection of their own while other calls run.                        *)
(*                                                                         *)
(* Times are utcnow()'s, taken as the statement runs.  Items arrive in the *)
(* order of their places: a session's writes are queued (HeldWrites).      *)
(***************************************************************************)
EXTENDS Naturals, Sequences, FiniteSets
LOCAL INSTANCE SequencesExt

CONSTANTS
  Ids, Sitters, Owners, Meetings, Absent,   \* as in ConversationStore
  MaxClock,    \* bound: calls that take the time
  MaxWrites,   \* bound: calls that write into a conversation
  Written      \* bound: that conversation

ASSUME SqlBounds == MaxClock \in Nat /\ MaxWrites \in Nat /\ Written \in Ids

VARIABLES
  conversations,   \* a row for each id, Absent where there is none
  items,           \* rows of segments, cues and songs
  participants,
  clock,
  opening,            \* a sitter's create() or reopen() that has yet to read its row back
  openedAt,           \* what its last one returned
  writes,          \* writes so far; also the time at which names are seen
  written          \* bound: the table that they write

sqlVars == <<conversations, items, participants, clock, opening, openedAt, writes, written>>

SqlRows == {id \in Ids : conversations[id] # Absent}
NotOpening == [id |-> Absent, opened |-> Absent]
ItemKinds == {"segment", "card"}

SqlInit ==
  /\ conversations \in {[id \in Ids |-> Absent]} \cup
       {[id \in Ids |-> IF id = old
           THEN [status |-> "ready", owner |-> o, meeting |-> m, started |-> 1, ended |-> 1,
                 opened |-> Absent, audio |-> FALSE, titled |-> FALSE, delivery |-> Absent,
                 error |-> Absent]
           ELSE Absent] : old \in Ids, o \in Owners, m \in Meetings}
  /\ items = {} /\ participants = {} /\ clock = 1 /\ writes = 0
  /\ written \in {"items", "participants", "conversations"}
  /\ opening = [s \in Sitters |-> NotOpening] /\ openedAt = [s \in Sitters |-> Absent]

-----------------------------------------------------------------------------
(* Calls that open, close and delete conversations.                         *)

SetLive(row, now) == [row EXCEPT !.status = "live", !.ended = Absent, !.opened = now]

\* INSERT ... ON CONFLICT (id) DO UPDATE
Upserted(id, o, m) ==
  [conversations EXCEPT ![id] =
    IF id \in SqlRows THEN SetLive(@, clock')
    ELSE [status |-> "live", owner |-> o, meeting |-> m, started |-> clock', ended |-> Absent,
          opened |-> clock', audio |-> FALSE, titled |-> FALSE,
          delivery |-> IF m = Absent THEN Absent ELSE "pending", error |-> Absent]]

\* The time is taken.
TakeTime == clock < MaxClock /\ clock' = clock + 1

SqlCreate(s, id, o, m) ==
  /\ opening[s] = NotOpening /\ TakeTime
  /\ conversations' = Upserted(id, o, m)
  /\ opening' = [opening EXCEPT ![s] = [id |-> id, opened |-> clock']]
  /\ UNCHANGED <<items, participants, openedAt, writes, written>>

SqlReopen(s, id) ==
  /\ opening[s] = NotOpening /\ TakeTime /\ id \in SqlRows
  /\ conversations' = [conversations EXCEPT ![id] = SetLive(@, clock')]
  /\ opening' = [opening EXCEPT ![s] = [id |-> id, opened |-> clock']]
  /\ UNCHANGED <<items, participants, openedAt, writes, written>>

\* Mutant: the caller gets the row as it reads now, and the token with it.
TokenRead(s) == conversations[opening[s].id].opened

\* `got.opened_at = row[0]`: the statement's own token.
OwnToken(s) == opening[s].opened

\* The row is read back.  One deleted meanwhile fails the call.
ReadBack(s) ==
  /\ opening[s] # NotOpening
  /\ openedAt' = [openedAt EXCEPT ![s] = IF opening[s].id \in SqlRows THEN OwnToken(s) ELSE Absent]
  /\ opening' = [opening EXCEPT ![s] = NotOpening]
  /\ UNCHANGED <<conversations, items, participants, clock, writes, written>>

\* The connection is lost while the row is read.
CallFails(s) ==
  /\ opening[s] # NotOpening
  /\ openedAt' = [openedAt EXCEPT ![s] = Absent]
  /\ opening' = [opening EXCEPT ![s] = NotOpening]
  /\ UNCHANGED <<conversations, items, participants, clock, writes, written>>

\* UPDATE ... WHERE opened_at = the caller's, if it has one
SqlFinish(s, id) ==
  /\ opening[s] = NotOpening /\ id \in SqlRows
  /\ openedAt[s] = Absent \/ conversations[id].opened = openedAt[s]
  /\ conversations' = [conversations EXCEPT ![id].status = "ready", ![id].ended = clock]
  /\ UNCHANGED <<items, participants, clock, opening, openedAt, writes, written>>

\* The child tables cascade.
SqlDelete(id) ==
  /\ id \in SqlRows
  /\ conversations' = [conversations EXCEPT ![id] = Absent]
  /\ items' = {r \in items : r.id # id}
  /\ participants' = {r \in participants : r.id # id}
  /\ UNCHANGED <<clock, opening, openedAt, writes, written>>

\* The end of a dead sitting: the end of its last segment, which is before now, but not before
\* the sitting was opened.
StaleEnds(id) == IF \E r \in items : r.id = id /\ r.kind = "segment"
                 THEN conversations[id].opened..clock ELSE {conversations[id].opened}
SqlFinishStale ==
  LET live == {id \in SqlRows : conversations[id].status = "live"} IN
  /\ live # {}
  /\ \E ended \in [live -> 1..MaxClock] :
       /\ \A id \in live : ended[id] \in StaleEnds(id)
       /\ conversations' = [id \in Ids |->
            IF id \in live THEN [conversations[id] EXCEPT !.status = "ready", !.ended = ended[id]]
                           ELSE conversations[id]]
  /\ UNCHANGED <<items, participants, clock, opening, openedAt, writes, written>>

-----------------------------------------------------------------------------
(* Calls that write into one.                                               *)

SqlWrites(table) == /\ written = table /\ writes < MaxWrites /\ writes' = writes + 1
                 /\ UNCHANGED <<written, clock, opening, openedAt>>

\* INSERT ... ON CONFLICT (segment_id) DO UPDATE; without its conversation the foreign key
\* refuses the row.
Placed(id, k) == {r.at : r \in {x \in items : x.id = id /\ x.kind = k}}
SqlAddItem(id, k, at, text) ==
  /\ SqlWrites("items")
  /\ \A earlier \in 1..(at - 1) : earlier \in Placed(id, k)
  /\ items' = IF id \notin SqlRows THEN items
              ELSE {r \in items : ~(r.id = id /\ r.kind = k /\ r.at = at)}
                     \cup {[id |-> id, kind |-> k, at |-> at, text |-> text, translated |-> FALSE]}
  /\ UNCHANGED <<conversations, participants>>

SqlSetTranslation(id, at) ==
  /\ SqlWrites("items")
  /\ items' = {IF r.id = id /\ r.kind = "segment" /\ r.at = at
               THEN [r EXCEPT !.translated = TRUE] ELSE r : r \in items}
  /\ UNCHANGED <<conversations, participants>>

SqlUpdate(id, row) ==
  /\ SqlWrites("conversations") /\ id \in SqlRows
  /\ conversations' = [conversations EXCEPT ![id] = row]
  /\ UNCHANGED <<items, participants>>
SqlSetMeetingTitle(id) == SqlUpdate(id, [conversations[id] EXCEPT !.titled = TRUE])
SqlSetAudioKey(id, there) == SqlUpdate(id, [conversations[id] EXCEPT !.audio = there])
SqlSetDelivery(id, state, error) ==
  /\ id \in SqlRows /\ conversations[id].meeting # Absent
  /\ SqlUpdate(id, [conversations[id] EXCEPT !.delivery = state, !.error = error])

\* INSERT ... SELECT ... WITH ORDINALITY ... ON CONFLICT (conversation_id, name) DO NOTHING
SqlAddParticipants(id, names) ==
  /\ SqlWrites("participants") /\ id \in SqlRows
  /\ participants' = participants \cup
       {[id |-> id, name |-> names[i], seen |-> writes, position |-> i] :
          i \in {j \in DOMAIN names : \A r \in participants : ~(r.id = id /\ r.name = names[j])}}
  /\ UNCHANGED <<conversations, items>>

SqlRequeueFailed(reason) ==
  /\ SqlWrites("conversations")
  /\ conversations' = [id \in Ids |->
       IF id \in SqlRows /\ conversations[id].meeting # Absent /\ conversations[id].delivery = "failed"
            /\ conversations[id].error = reason
       THEN [conversations[id] EXCEPT !.delivery = "pending"] ELSE conversations[id]]
  /\ UNCHANGED <<items, participants>>

-----------------------------------------------------------------------------

SqlLifecycle ==
  \/ \E s \in Sitters : ReadBack(s) \/ CallFails(s)
  \/ \E s \in Sitters, id \in Ids :
       \/ SqlReopen(s, id) \/ SqlFinish(s, id)
       \/ \E o \in Owners, m \in Meetings \cup {Absent} : SqlCreate(s, id, o, m)
  \/ \E id \in Ids : SqlDelete(id)
  \/ SqlFinishStale

SqlWriting ==
  \E id \in {Written} :
    \/ \E k \in ItemKinds, at \in 1..2, text \in 1..2 :
         (k = "card" => at = 1 /\ text = 1) /\ SqlAddItem(id, k, at, text)
    \/ \E at \in 1..2 : SqlSetTranslation(id, at)
    \/ SqlSetMeetingTitle(id) \/ \E there \in BOOLEAN : SqlSetAudioKey(id, there)
    \/ \E names \in {<<"p">>, <<"q">>, <<"q", "p">>} : SqlAddParticipants(id, names)
    \/ SqlSetDelivery(id, "sent", Absent)
    \/ \E e \in {"refused", "unreachable"} : SqlSetDelivery(id, "failed", e)
    \/ SqlRequeueFailed("refused")

SqlNext == SqlLifecycle \/ SqlWriting
SqlSpec == SqlInit /\ [][SqlNext]_sqlVars

-----------------------------------------------------------------------------
(* What a conversation reads as (_assemble), and the contract.              *)

\* ORDER BY start_ms / at_ms: a row comes after as many rows as are before it.
ItemsOf(id, k) ==
  LET mine == {r \in items : r.id = id /\ r.kind = k}
      row(i) == CHOOSE r \in mine : Cardinality({x \in mine : x.at < r.at}) = i - 1
  IN [i \in 1..Cardinality(mine) |-> [at |-> row(i).at, text |-> row(i).text,
                                      translated |-> row(i).translated]]

\* ORDER BY first_seen_ms, position, name
PeopleOf(id) ==
  LET mine == {r \in participants : r.id = id}
      before(r) == {x \in mine : x.seen < r.seen \/ (x.seen = r.seen /\ x.position < r.position)}
  IN [i \in 1..Cardinality(mine) |-> (CHOOSE r \in mine : Cardinality(before(r)) = i - 1).name]

Assembled(id) ==
  LET c == conversations[id] IN
  IF c = Absent THEN Absent
  ELSE [status |-> c.status, owner |-> c.owner, meeting |-> c.meeting, started |-> c.started,
        ended |-> c.ended, opened |-> c.opened, audio |-> c.audio, titled |-> c.titled,
        delivery |-> c.delivery, error |-> c.error, items |-> [k \in ItemKinds |-> ItemsOf(id, k)],
        people |-> PeopleOf(id)]

\* A call that has yet to read its row back has opened it already.
Returned == [s \in Sitters |-> IF opening[s] = NotOpening THEN openedAt[s] ELSE opening[s].opened]

Contract == INSTANCE ConversationStore WITH kept <- [id \in Ids |-> Assembled(id)], token <- Returned

-----------------------------------------------------------------------------
(* The queries.                                                             *)

\* WHERE household [AND owner], ORDER BY started_at DESC, id, cut into pages
SqlList(o, meetingsOnly) ==
  SetToSortSeq({id \in SqlRows : /\ o = Absent \/ conversations[id].owner = o
                              /\ meetingsOnly => conversations[id].meeting # Absent},
               LAMBDA a, b : conversations[a].started > conversations[b].started)

\* SELECT DISTINCT ON (org_site_key) ... ORDER BY org_site_key, started_at DESC
SqlOrgs(o) ==
  LET met == {id \in SqlRows : conversations[id].meeting # Absent
                            /\ (o = Absent \/ conversations[id].owner = o)}
  IN IF met = {} THEN {}
     ELSE {conversations[SetToSortSeq(met, LAMBDA a, b : conversations[a].started
                                                         > conversations[b].started)[1]].meeting}

\* COALESCE(delivery_state, 'pending') = 'pending'
SqlOwed(id) == conversations[id].delivery \in {Absent, "pending"}

\* ORDER BY ended_at, of ready screen meetings only
SqlPending ==
  [t \in 1..clock |-> {id \in SqlRows : /\ conversations[id].status = "ready"
                                     /\ conversations[id].meeting # Absent
                                     /\ SqlOwed(id) /\ conversations[id].ended = t}]

\* delivery_summary's failures: `ended_at >= since`, of ready rows
SqlFailedSince(t) ==
  {id \in SqlRows : /\ conversations[id].status = "ready" /\ conversations[id].delivery = "failed"
                 /\ conversations[id].ended # Absent /\ conversations[id].ended >= t}

ReadsAgree ==
  /\ \A o \in Owners \cup {Absent} : /\ \A b \in BOOLEAN : SqlList(o, b) = Contract!List(o, b)
                                      /\ SqlOrgs(o) = Contract!Orgs(o)
  /\ SqlPending = Contract!PendingDeliveries
  /\ \A t \in 1..clock : SqlFailedSince(t) = Contract!FailedSince(t)

\* The two stores are one to their callers: whatever statements of other calls fall between the
\* two of a create() or a reopen(), each call has the effect it has in memory, the sitter gets
\* the token of its own statement, and every query gives the same answer ("Keeps the API
\* contract identical across backends").
SqlIsStore == /\ Contract!Init
              /\ [][UNCHANGED sqlVars \/ Contract!Next]_(Contract!storeVars)
              /\ []ReadsAgree
=============================================================================
