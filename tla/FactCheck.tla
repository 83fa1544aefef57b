------------------------------- MODULE FactCheck -------------------------------
(***************************************************************************)
(* The encyclopedia check of cues about to be shown (cue/factcheck.py:     *)
(* FactChecker; Session._cue_contradicted).  A check asks the model for    *)
(* titles, reads them from Kiwix side by side and asks the model for a     *)
(* verdict, all within a budget; the session shows the cue once it has     *)
(* waited longer than that, and the check's thread goes on to its end,     *)
(* beside the session's next check.  All sessions share the read slots and *)
(* a backoff that a failing Kiwix switches on: this is one of them, the    *)
(* others hold slots and see Kiwix fail.                                   *)
(*                                                                         *)
(* Time is what is left of a check's budget: enough for Kiwix's own full   *)
(* limit, less than that, or nothing.                                      *)
(***************************************************************************)
EXTENDS Naturals, FiniteSets

CONSTANTS
  Checks,           \* bound: numbers of the checks that may be going on at once
  Titles,           \* titles the model names, at most _MAX_TITLES
  ReadSlots         \* _KIWIX_READS

ASSUME FactConstants ==
  /\ IsFiniteSet(Checks) /\ Checks \subseteq Nat
  /\ IsFiniteSet(Titles) /\ Titles # {} /\ ReadSlots \in Nat \ {0}

VARIABLES
  checks,       \* each check: where it is, what is left of its budget, its reads
  content,      \* whether the checker has cached the path of a snapshot (_content)
  lastFull,     \* whether _last_timeout is Kiwix's full limit
  freeReads,    \* read slots nobody holds
  othersRead,   \* those that other sessions hold
  backoff,      \* _kiwix_down()
  kiwix,        \* what Kiwix does: "answers", "fails" or "hangs"
  wronglyDown   \* a trip that was not Kiwix's fault

factVars == <<checks, content, lastFull, freeReads, othersRead, backoff, kiwix, wronglyDown>>

ReadStates == {"none", "wait", "full", "short", "page", "missing", "failed", "late"}
Reading == {"full", "short"}   \* by how long the read may take
NoCheck == [at |-> "idle", left |-> "full", waited |-> FALSE,
            read |-> [t \in Titles |-> "none"]]

FactTypeOK ==
  /\ checks \in [Checks ->
       [at : {"idle", "propose", "full", "short", "reads", "verdict"},
        left : {"full", "short", "none"}, waited : BOOLEAN,
        read : [Titles -> ReadStates]]]
  /\ content \in BOOLEAN /\ lastFull \in BOOLEAN
  /\ {freeReads, othersRead} \subseteq 0..ReadSlots /\ backoff \in BOOLEAN /\ wronglyDown \in BOOLEAN
  /\ kiwix \in {"answers", "fails", "hangs"}

FactInit ==
  /\ checks = [c \in Checks |-> NoCheck]
  /\ content = FALSE /\ lastFull = TRUE
  /\ freeReads = ReadSlots /\ othersRead = 0 /\ backoff = FALSE /\ wronglyDown = FALSE
  /\ kiwix = "answers"

Over(c) == checks' = [checks EXCEPT ![c] = NoCheck]
Moves(c, to) == checks' = [checks EXCEPT ![c].at = to]
SharedKept == UNCHANGED <<freeReads, othersRead, backoff, wronglyDown>>

\* _trip: checks are skipped for a while.  `fault` says whether Kiwix had its full limit (or the
\* check is one nobody waits for, whose _last_timeout the checker's next one may have set).
Trip(fault) == backoff' = TRUE /\ wronglyDown' = (wronglyDown \/ ~fault)

-----------------------------------------------------------------------------
(* contradiction(), up to the reads.                                       *)

\* A session has one cue in the making, so it waits for one check at a time.
StartCheck(c) ==
  /\ checks[c].at = "idle" /\ ~backoff
  /\ \A d \in Checks : d < c => checks[d].at # "idle"
  /\ \A d \in Checks : ~checks[d].waited
  /\ checks' = [checks EXCEPT ![c].at = "propose", ![c].waited = TRUE]
  /\ UNCHANGED <<content, lastFull, kiwix>> /\ SharedKept

WithRoot(c) ==
  checks' = [checks EXCEPT ![c].at = "reads", ![c].read = [t \in Titles |-> "wait"]]

\* The model names no titles, or fails: the cue is shown.
NoTitles(c) ==
  /\ checks[c].at = "propose"
  /\ Over(c)
  /\ UNCHANGED <<content, lastFull, kiwix>> /\ SharedKept

\* It names some, and _book_path has the cached path or asks the catalog within what is left.
Propose(c) ==
  /\ checks[c].at = "propose"
  /\ \/ content /\ WithRoot(c) /\ UNCHANGED lastFull
     \/ ~content /\ checks[c].left = "none" /\ Over(c) /\ UNCHANGED lastFull
     \/ /\ ~content /\ checks[c].left # "none" /\ Moves(c, checks[c].left)
        /\ lastFull' = (checks[c].left = "full")
  /\ UNCHANGED <<content, kiwix>> /\ SharedKept

CatalogAnswers(c) ==
  /\ checks[c].at \in Reading /\ kiwix = "answers"
  /\ WithRoot(c)
  /\ content' = TRUE
  /\ UNCHANGED <<lastFull, kiwix>> /\ SharedKept

CatalogFails(c) ==
  /\ checks[c].at \in Reading /\ kiwix = "fails"
  /\ Over(c) /\ Trip(TRUE)
  /\ UNCHANGED <<content, lastFull, freeReads, othersRead, kiwix>>

\* A timeout is Kiwix's fault only at its full limit, of which the checker remembers the last.
CatalogTimesOut(c) ==
  /\ checks[c].at = "short" \/ (checks[c].at = "full" /\ kiwix = "hangs")
  /\ Over(c)
  /\ IF lastFull THEN Trip(checks[c].at = "full" \/ ~checks[c].waited)
     ELSE UNCHANGED <<backoff, wronglyDown>>
  /\ UNCHANGED <<content, lastFull, freeReads, othersRead, kiwix>>

-----------------------------------------------------------------------------
(* _reference: the reads, each in a thread of its own.                     *)

ReadIs(c, t, state) == checks' = [checks EXCEPT ![c].read[t] = state]

\* What a read that found its slot but not the time, or Kiwix switched off meanwhile, does to
\* the slots: its `finally` gives the slot back.
SlotLost == freeReads - 1
SlotReturned == freeReads

TakeSlot(c, t) ==
  /\ checks[c].read[t] = "wait" /\ freeReads > 0
  /\ IF backoff \/ checks[c].left = "none"
     THEN ReadIs(c, t, "late") /\ freeReads' = SlotReturned
     ELSE ReadIs(c, t, checks[c].left) /\ freeReads' = freeReads - 1
  /\ UNCHANGED <<content, lastFull, othersRead, backoff, wronglyDown, kiwix>>

\* A busy Kiwix is not a failing one.
NoSlotInTime(c, t) ==
  /\ checks[c].read[t] = "wait" /\ checks[c].left = "none"
  /\ ReadIs(c, t, "late")
  /\ UNCHANGED <<content, lastFull, kiwix>> /\ SharedKept

\* A title may be missing, and all are in a snapshot that the weekly updater replaced.
ReadAnswered(c, t) ==
  /\ checks[c].read[t] \in Reading /\ kiwix = "answers"
  /\ ReadIs(c, t, "page") \/ ReadIs(c, t, "missing")
  /\ freeReads' = freeReads + 1
  /\ UNCHANGED <<content, lastFull, othersRead, backoff, wronglyDown, kiwix>>

ReadErrs(c, t) ==
  /\ checks[c].read[t] \in Reading /\ kiwix = "fails"
  /\ ReadIs(c, t, "failed") /\ freeReads' = freeReads + 1
  /\ UNCHANGED <<content, lastFull, othersRead, backoff, wronglyDown, kiwix>>

ReadTimesOut(c, t) ==
  /\ checks[c].read[t] = "short" \/ (checks[c].read[t] = "full" /\ kiwix = "hangs")
  /\ ReadIs(c, t, IF checks[c].read[t] = "full" THEN "failed" ELSE "late")
  /\ freeReads' = freeReads + 1
  /\ UNCHANGED <<content, lastFull, othersRead, backoff, wronglyDown, kiwix>>

\* All reads are over.  If no title is there, the snapshot may have been replaced; if every
\* read failed, Kiwix is failing.
Judge(c) ==
  LET results == {checks[c].read[t] : t \in Titles} IN
  /\ checks[c].at = "reads" /\ results \subseteq {"page", "missing", "failed", "late"}
  /\ content' = IF results = {"missing"} THEN FALSE ELSE content
  /\ IF results = {"failed"} THEN Trip(TRUE) ELSE UNCHANGED <<backoff, wronglyDown>>
  /\ \/ "page" \in results /\ checks[c].left # "none" /\ Moves(c, "verdict")
     \/ Over(c)   \* no page, no time, or nothing about the cue on the pages
  /\ UNCHANGED <<lastFull, freeReads, othersRead, kiwix>>

Verdict(c) ==
  /\ checks[c].at = "verdict"
  /\ Over(c)
  /\ UNCHANGED <<content, lastFull, kiwix>> /\ SharedKept

-----------------------------------------------------------------------------
(* Time, the sessions' patience, and Kiwix.                                *)

Elapse(c) ==
  /\ checks[c].at # "idle" /\ checks[c].left # "none"
  /\ checks' = [checks EXCEPT ![c].left = IF @ = "full" THEN "short" ELSE "none"]
  /\ UNCHANGED <<content, lastFull, kiwix>> /\ SharedKept

\* _cue_contradicted waits half a second longer than the budget; a request may overrun that.
ShowUnchecked(c) ==
  /\ checks[c].at # "idle" /\ checks[c].waited /\ checks[c].left = "none"
  /\ checks' = [checks EXCEPT ![c].waited = FALSE]
  /\ UNCHANGED <<content, lastFull, kiwix>> /\ SharedKept

\* Reads and trips of the other sessions.
OthersTake ==
  /\ freeReads > 0 /\ ~backoff
  /\ freeReads' = freeReads - 1 /\ othersRead' = othersRead + 1
  /\ UNCHANGED <<checks, content, lastFull, backoff, wronglyDown, kiwix>>
OthersReturn ==
  /\ othersRead > 0
  /\ freeReads' = freeReads + 1 /\ othersRead' = othersRead - 1
  /\ UNCHANGED <<checks, content, lastFull, backoff, wronglyDown, kiwix>>
OthersTrip ==
  /\ kiwix # "answers" /\ Trip(TRUE)
  /\ UNCHANGED <<checks, content, lastFull, freeReads, othersRead, kiwix>>

KiwixRetried ==
  /\ backoff /\ backoff' = FALSE
  /\ UNCHANGED <<checks, content, lastFull, freeReads, othersRead, wronglyDown, kiwix>>

KiwixChanges ==
  /\ \E does \in {"answers", "fails", "hangs"} \ {kiwix} : kiwix' = does
  /\ UNCHANGED <<checks, content, lastFull>> /\ SharedKept

ReadStep(c, t) ==
  TakeSlot(c, t) \/ NoSlotInTime(c, t) \/ ReadAnswered(c, t) \/ ReadErrs(c, t) \/ ReadTimesOut(c, t)
CheckStep(c) ==
  \/ NoTitles(c) \/ Propose(c) \/ CatalogAnswers(c) \/ CatalogFails(c) \/ CatalogTimesOut(c)
  \/ Judge(c) \/ Verdict(c)

FactNext ==
  \/ \E c \in Checks : \/ CheckStep(c) \/ Elapse(c) \/ ShowUnchecked(c)
                       \/ StartCheck(c)
                       \/ \E t \in Titles : ReadStep(c, t)
  \/ OthersTake \/ OthersReturn \/ OthersTrip \/ KiwixRetried \/ KiwixChanges

\* Threads run, requests end at their limits, and time passes.
FactFair == \A c \in Checks :
  WF_factVars(CheckStep(c) \/ Elapse(c) \/ \E t \in Titles : ReadStep(c, t))

FactSpec == FactInit /\ [][FactNext]_factVars /\ FactFair

-----------------------------------------------------------------------------
\* Every slot is free or held by the one read it was given to.
HeldReads == {read \in Checks \X Titles : checks[read[1]].read[read[2]] \in Reading}
SlotsKept == freeReads + othersRead + Cardinality(HeldReads) = ReadSlots

\* Only a Kiwix that fails or hangs switches the checks off: neither the wait for a slot nor a
\* read cut short by its check's budget does.
DownIsKiwixs == ~wronglyDown

FactSafe == SlotsKept /\ DownIsKiwixs

\* Every check ends, also one that no session waits for any more.
ChecksEnd == \A c \in Checks : checks[c].at # "idle" ~> checks[c].at = "idle"

\* Checks share the slots and the backoff fairly, and end.
ChecksSettle == [](FactTypeOK /\ FactSafe) /\ ChecksEnd
=============================================================================
