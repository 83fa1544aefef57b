-------------------------- MODULE ConversationStore --------------------------
(***************************************************************************)
(* What the store of conversations promises to sessions and to History, as *)
(* the in-memory store keeps it (conversations.py): every call is one step *)
(* under one lock.  SqlStore is shown to keep the same promise.            *)
(*                                                                         *)
(* One household: calls of another one find nothing.  A stored item is its *)
(* place on the transcript and which of the texts written for it stands.   *)
(***************************************************************************)
EXTENDS Naturals, Sequences, FiniteSets
LOCAL INSTANCE SequencesExt

CONSTANTS
  Ids,        \* conversation ids
  Sitters,    \* sessions that open, feed and finish conversations
  Owners,
  Meetings,   \* display names of the one org that screen meetings are read from
  Absent     \* no value: SQL's NULL, Python's None

VARIABLES
  kept,       \* the stored conversations, Absent where there is none
  clock,      \* utcnow(), which ticks as conversations are opened
  token       \* opened_at as each sitter's last create() or reopen() returned it

storeVars == <<kept, clock, token>>

\* A card is a cue or a song: they are stored alike.
Kinds == {"segment", "card"}
Stored == {id \in Ids : kept[id] # Absent}

Init ==
  /\ kept \in {[id \in Ids |-> Absent]} \cup
       \* a screen meeting finished before deliveries were recorded
       {[id \in Ids |-> IF id = old
           THEN [status |-> "ready", owner |-> o, meeting |-> m, started |-> 1, ended |-> 1,
                 opened |-> Absent, audio |-> FALSE, titled |-> FALSE, delivery |-> Absent,
                 error |-> Absent, items |-> [k \in Kinds |-> <<>>], people |-> <<>>]
           ELSE Absent] : old \in Ids, o \in Owners, m \in Meetings}
  /\ clock = 1 /\ token = [s \in Sitters |-> Absent]

Reopened(row, now) == [row EXCEPT !.status = "live", !.ended = Absent, !.opened = now]

\* create(): a conversation that exists is reopened, and keeps its owner.
Create(s, id, o, m) ==
  /\ clock' = clock + 1
  /\ token' = [token EXCEPT ![s] = clock']
  /\ kept' = [kept EXCEPT ![id] =
       IF id \in Stored THEN Reopened(@, clock')
       ELSE [status |-> "live", owner |-> o, meeting |-> m, started |-> clock', ended |-> Absent,
             opened |-> clock', audio |-> FALSE, titled |-> FALSE,
             delivery |-> IF m = Absent THEN Absent ELSE "pending", error |-> Absent,
             items |-> [k \in Kinds |-> <<>>], people |-> <<>>]]

Reopen(s, id) ==
  /\ id \in Stored
  /\ clock' = clock + 1
  /\ token' = [token EXCEPT ![s] = clock']
  /\ kept' = [kept EXCEPT ![id] = Reopened(@, clock')]

\* The caller is told of an error, or that the conversation is gone, whatever was stored.
AnswerLost(s) == token' = [token EXCEPT ![s] = Absent] /\ UNCHANGED <<kept, clock>>

Change(id, row) == id \in Stored /\ kept' = [kept EXCEPT ![id] = row] /\ UNCHANGED <<clock, token>>

\* add_segment, add_cue, add_song: an item that is there is replaced where it stands.
Put(list, item) ==
  IF \E i \in DOMAIN list : list[i].at = item.at
  THEN [i \in DOMAIN list |-> IF list[i].at = item.at THEN item ELSE list[i]]
  ELSE Append(list, item)
AddItem(id, k, item) == Change(id, [kept[id] EXCEPT !.items[k] = Put(@, item)])

SetTranslation(id, at) ==
  Change(id, [kept[id] EXCEPT !.items["segment"] =
    [i \in DOMAIN @ |-> IF @[i].at = at THEN [@[i] EXCEPT !.translated = TRUE] ELSE @[i]]])

SetMeetingTitle(id) == Change(id, [kept[id] EXCEPT !.titled = TRUE])

AddParticipants(id, names) ==
  Change(id, [kept[id] EXCEPT !.people =
    FoldLeft(LAMBDA known, n : IF n \in ToSet(known) THEN known ELSE Append(known, n), @, names)])

SetAudioKey(id, there) == Change(id, [kept[id] EXCEPT !.audio = there])

\* finish() with a token closes the conversation only while it is the sitter's.
Finish(s, id) ==
  /\ id \in Stored
  /\ token[s] = Absent \/ kept[id].opened = token[s]
  /\ kept' = [kept EXCEPT ![id].status = "ready", ![id].ended = clock]
  /\ UNCHANGED <<clock, token>>

Delete(id) == id \in Stored /\ kept' = [kept EXCEPT ![id] = Absent] /\ UNCHANGED <<clock, token>>

\* finish_stale(): nobody knows when a dead process's sitting ended, only that it had begun.
FinishStale ==
  LET live == {id \in Stored : kept[id].status = "live"} IN
  \E ended \in [live -> 1..clock] :
    /\ \A id \in live : ended[id] >= kept[id].opened
    /\ kept' = [id \in Ids |-> IF id \in live
                               THEN [kept[id] EXCEPT !.status = "ready", !.ended = ended[id]]
                               ELSE kept[id]]
    /\ UNCHANGED <<clock, token>>

SetDelivery(id, state, error) ==
  /\ id \in Stored /\ kept[id].meeting # Absent
  /\ Change(id, [kept[id] EXCEPT !.delivery = state, !.error = error])

RequeueFailed(reason) ==
  /\ kept' = [id \in Ids |->
       IF id \in Stored /\ kept[id].delivery = "failed" /\ kept[id].error = reason
       THEN [kept[id] EXCEPT !.delivery = "pending"] ELSE kept[id]]
  /\ UNCHANGED <<clock, token>>

\* What callers pass: items not translated yet, tile names, and the hub's errors.
Items == [at : 1..2, text : 1..2, translated : {FALSE}]
NameLists == {<<"p">>, <<"q">>, <<"q", "p">>}
Errors == {"refused", "unreachable"}
Next ==
  \/ \E s \in Sitters, id \in Ids : \/ Reopen(s, id) \/ Finish(s, id) \/ AnswerLost(s)
                                    \/ \E o \in Owners, m \in Meetings \cup {Absent} : Create(s, id, o, m)
  \/ \E id \in Ids : \/ \E k \in Kinds, item \in Items : AddItem(id, k, item)
                     \/ \E at \in 1..2 : SetTranslation(id, at)
                     \/ \E names \in NameLists : AddParticipants(id, names)
                     \/ SetMeetingTitle(id) \/ Delete(id) \/ \E there \in BOOLEAN : SetAudioKey(id, there)
                     \/ \E state \in {"pending", "sent", "failed"}, e \in Errors \cup {Absent} :
                          SetDelivery(id, state, e)
  \/ FinishStale \/ \E e \in Errors : RequeueFailed(e)

Spec == Init /\ [][Next]_storeVars

-----------------------------------------------------------------------------
(* What the store answers.                                                  *)

\* _owned: an admin asks as nobody in particular and sees everything.
Owned(id, o) == o = Absent \/ kept[id].owner = o
Visible(o) == {id \in Stored : Owned(id, o)}

Get(id, o) == IF id \in Visible(o) THEN kept[id] ELSE Absent

\* list(), newest first, of one org's meetings or of everything.
List(o, meetingsOnly) ==
  SetToSortSeq({id \in Visible(o) : meetingsOnly => kept[id].meeting # Absent},
               LAMBDA a, b : kept[a].started > kept[b].started)

\* orgs(): the org goes by the name its most recent meeting gives it.
Orgs(o) ==
  LET met == {id \in Visible(o) : kept[id].meeting # Absent}
  IN {kept[id].meeting : id \in {a \in met : \A b \in met : kept[a].started >= kept[b].started}}

Owed(id) == kept[id].status = "ready" /\ kept[id].meeting # Absent
            /\ kept[id].delivery \in {Absent, "pending"}
EndOf(id) == IF kept[id].ended # Absent THEN kept[id].ended ELSE kept[id].started

\* pending_deliveries(): whoever ended first is first; each end with those that share it.
PendingDeliveries == [t \in 1..clock |-> {id \in Stored : Owed(id) /\ EndOf(id) = t}]

\* delivery_summary()
FailedSince(t) == {id \in Stored : kept[id].status = "ready" /\ kept[id].delivery = "failed"
                                   /\ EndOf(id) >= t}
=============================================================================
