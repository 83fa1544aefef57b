-------------------------- MODULE MeetingDelivery --------------------------
(***************************************************************************)
(* Posting finished screen meetings to the Turma hub (screen/turma.py):    *)
(* one loop of passes over every pending row, its backoff, what it does    *)
(* with each kind of answer, giving up, and the re-queue at boot.  The     *)
(* hub is external: it keeps a meeting it takes (a repeat changes nothing), *)
(* and how it answers one is fixed at the start, so a meeting it never     *)
(* answers stands beside one it takes.  Time counts in units of            *)
(* BASE_DELAY_SECONDS.                                                     *)
(***************************************************************************)
EXTENDS Integers, Sequences, SequencesExt, FiniteSets

CONSTANTS Finished,      \* the meetings
          Poll,          \* POLL_SECONDS
          RetryMax,      \* API_TURMA_RETRY_MAX_SECONDS
          GiveUp,        \* API_TURMA_GIVE_UP_SECONDS
          MaxStrikes     \* bound: restarts of the process, posts that arrive and whose answer
                         \* is lost, and store calls that raise, in all

ASSUME DeliveryBounds ==
  /\ {Poll, RetryMax, GiveUp} \subseteq Nat \ {0}
  /\ MaxStrikes \in Nat

VARIABLES hub,        \* meeting -> how the hub answers a post of it
          delivery,   \* meeting -> delivery_state of its row, "open" before, "gone" after a delete
          refusal,    \* meeting -> delivery_error
          endedOrder, \* the ready meetings, oldest end first
          hubHolds,   \* the meetings the hub has
          backoff,    \* meeting -> failed attempts and time until the next may be made
          waited,     \* meeting -> time since it ended or the process booted
          pass,       \* what is left of this pass's list, and where the attempt is
          asked,      \* _titled: meetings a title was asked for
          idleFor,    \* time since the last pass ended
          woken,      \* _wake is set
          strikes     \* how much of MaxStrikes is used

deliveryVars == <<hub, delivery, refusal, endedOrder, hubHolds, backoff, waited, pass, asked,
                  idleFor, woken, strikes>>

Fresh == [failures |-> 0, due |-> 0]
NoPass == [list |-> <<>>, at |-> "idle", answer |-> "none", deferred |-> FALSE]
Least(i, j) == IF i < j THEN i ELSE j
Exists(m) == delivery[m] \notin {"open", "gone"}
Due == Head(pass.list)

\* It takes the meeting, is not there, answers "not now" (404, 409, 429, 5xx), 401 or 403
\* until the token is fixed, or refuses what is in it (400, 413).
HubAnswers == {"takes", "silent", "busy", "barred", "refused"}
ForGood == {"barred", "refused"}   \* PERMANENT

DeliveryInit ==
  /\ hub \in [Finished -> HubAnswers]
  /\ delivery = [m \in Finished |-> "open"]
  /\ refusal = [m \in Finished |-> "none"]
  /\ endedOrder = <<>>
  /\ hubHolds = {}
  /\ backoff = [m \in Finished |-> Fresh]
  /\ waited = [m \in Finished |-> 0]
  /\ pass = NoPass
  /\ asked = {}
  /\ idleFor = 0 /\ woken = FALSE
  /\ strikes = 0

---------------------------------------------------------------------------
\* A tracker (or the stale sweep) marks the row ready.
MeetingEnded(m) ==
  /\ delivery[m] = "open"
  /\ delivery' = [delivery EXCEPT ![m] = "pending"]
  /\ endedOrder' = Append(endedOrder, m)
  /\ waited' = [waited EXCEPT ![m] = 0]
  /\ woken' = TRUE
  /\ UNCHANGED <<hub, refusal, hubHolds, backoff, pass, asked, idleFor, strikes>>

\* Its owner deletes it from History.
MeetingDeleted(m) ==
  /\ Exists(m)
  /\ delivery' = [delivery EXCEPT ![m] = "gone"]
  /\ UNCHANGED <<hub, woken, refusal, endedOrder, hubHolds, backoff, waited, pass, asked, idleFor, strikes>>

\* Time passes while the loop waits for its next pass.
Elapse ==
  /\ pass.at = "idle" /\ idleFor < Poll
  /\ idleFor' = idleFor + 1
  /\ backoff' = [m \in Finished |-> [backoff[m] EXCEPT !.due = IF @ > 0 THEN @ - 1 ELSE 0]]
  /\ waited' = [m \in Finished |-> Least(GiveUp, waited[m] + 1)]
  /\ UNCHANGED <<hub, woken, delivery, refusal, endedOrder, hubHolds, pass, asked, strikes>>

\* The loop is woken or has waited a poll.  run_once: every pending row, oldest first;
\* the backoff of any other is forgotten.
StartPass ==
  /\ pass.at = "idle" /\ (woken \/ idleFor = Poll)
  /\ woken' = FALSE
  /\ LET pending == SelectSeq(endedOrder, LAMBDA m : delivery[m] = "pending")
     IN /\ pending # <<>>
        /\ pass' = [NoPass EXCEPT !.list = pending, !.at = "next"]
        /\ backoff' = [m \in Finished |-> IF m \in ToSet(pending) THEN backoff[m] ELSE Fresh]
  /\ UNCHANGED <<hub, delivery, refusal, endedOrder, hubHolds, waited, asked, idleFor, strikes>>

\* The rest of a pass's list, or none where it has run out.
Rest(p) == IF Len(p.list) <= 1 THEN NoPass
           ELSE [p EXCEPT !.list = Tail(@), !.at = "next", !.answer = "none"]
EndIdle == idleFor' = IF pass'.at = "idle" THEN 0 ELSE idleFor

\* Not due yet, or its org (that of the busy ones) was refused in this pass.
PassOver ==
  /\ pass.at = "next"
  /\ backoff[Due].due > 0 \/ (hub[Due] = "busy" /\ pass.deferred)
  /\ pass' = Rest(pass) /\ EndIdle
  /\ UNCHANGED <<hub, woken, delivery, refusal, endedOrder, hubHolds, backoff, waited, asked, strikes>>

\* _deliver reads the row; the first attempt asks for a title before it posts.
ReadRow ==
  /\ pass.at = "next"
  /\ backoff[Due].due = 0 /\ ~(hub[Due] = "busy" /\ pass.deferred)
  /\ \/ /\ delivery[Due] # "pending"
        /\ pass' = Rest(pass)
        /\ backoff' = IF delivery[Due] = "gone" THEN [backoff EXCEPT ![Due] = Fresh] ELSE backoff
        /\ UNCHANGED asked
     \/ /\ delivery[Due] = "pending" /\ Due \notin asked
        /\ asked' = asked \union {Due}
        /\ pass' = [pass EXCEPT !.at = "titling"]
        /\ UNCHANGED backoff
     \/ /\ delivery[Due] = "pending" /\ Due \in asked
        /\ pass' = [pass EXCEPT !.at = "posting"]
        /\ UNCHANGED <<asked, backoff>>
  /\ EndIdle
  /\ UNCHANGED <<hub, woken, delivery, refusal, endedOrder, hubHolds, waited, strikes>>

\* The title came or did not; the row is read again, for it may be gone by now.
ReadAgain ==
  /\ pass.at = "titling"
  /\ \/ /\ delivery[Due] = "pending"
        /\ pass' = [pass EXCEPT !.at = "posting"]
        /\ UNCHANGED <<asked, backoff>>
     \/ /\ delivery[Due] # "pending"
        /\ asked' = asked \ {Due}
        /\ backoff' = [backoff EXCEPT ![Due] = Fresh]
        /\ pass' = Rest(pass)
  /\ EndIdle
  /\ UNCHANGED <<hub, woken, delivery, refusal, endedOrder, hubHolds, waited, strikes>>

\* The request: what the hub makes of it, and what of that reaches the loop.
Post ==
  /\ pass.at = "posting"
  /\ \/ /\ hub[Due] = "silent"
        /\ pass' = [pass EXCEPT !.at = "answered", !.answer = "unreachable"]
        /\ UNCHANGED <<hubHolds, strikes>>
     \/ /\ hub[Due] \in ForGood \union {"busy"}
        /\ pass' = [pass EXCEPT !.at = "answered", !.answer = hub[Due]]
        /\ UNCHANGED <<hubHolds, strikes>>
     \/ /\ hub[Due] = "takes"
        /\ hubHolds' = hubHolds \union {Due}
        /\ \/ /\ pass' = [pass EXCEPT !.at = "answered", !.answer = "ok"]
              /\ UNCHANGED strikes
           \/ /\ strikes < MaxStrikes
              /\ strikes' = strikes + 1
              /\ pass' = [pass EXCEPT !.at = "answered", !.answer = "unreachable"]
  /\ UNCHANGED <<hub, woken, delivery, refusal, endedOrder, backoff, waited, asked, idleFor>>

\* set_delivery: nothing where the row is gone.
SetDelivery(m, state, error) ==
  /\ delivery' = IF Exists(m) THEN [delivery EXCEPT ![m] = state] ELSE delivery
  /\ refusal' = IF Exists(m) THEN [refusal EXCEPT ![m] = error] ELSE refusal

\* Mutant: a 409 is taken to say that the hub has the meeting.
SettleAttemptConflict ==
  /\ pass.at = "answered" /\ pass.answer \in ForGood \union {"ok", "busy"}
  /\ IF pass.answer \in ForGood THEN SetDelivery(Due, "failed", pass.answer)
                                ELSE SetDelivery(Due, "sent", "none")
  /\ backoff' = [backoff EXCEPT ![Due] = Fresh]
  /\ asked' = asked \ {Due}
  /\ pass' = Rest(pass) /\ EndIdle
  /\ UNCHANGED <<hub, woken, endedOrder, hubHolds, waited, strikes>>

\* Taken, or refused for good: the attempt is over and nothing of it is kept.
SettleAttempt ==
  /\ pass.at = "answered" /\ pass.answer \in ForGood \union {"ok"}
  /\ IF pass.answer = "ok" THEN SetDelivery(Due, "sent", "none")
                           ELSE SetDelivery(Due, "failed", pass.answer)
  /\ backoff' = [backoff EXCEPT ![Due] = Fresh]
  /\ asked' = asked \ {Due}
  /\ pass' = Rest(pass) /\ EndIdle
  /\ UNCHANGED <<hub, woken, endedOrder, hubHolds, waited, strikes>>

NextTry(n) == [failures |-> Least(RetryMax, n + 1), due |-> Least(RetryMax, 2 ^ n)]

\* API_TURMA_GIVE_UP_SECONDS have passed since the meeting ended, or since the boot.
WindowOver == waited[Due] >= GiveUp

\* An answer that may change keeps its org out of what is left of this pass, given up or not.
Deferring == IF pass.answer = "busy" THEN [pass EXCEPT !.deferred = TRUE] ELSE pass

\* How the pass goes on when the meeting is kept for later: no answer at all ends it.
AfterRefusal == IF pass.answer = "busy" THEN Rest(Deferring) ELSE NoPass

\* Try again later, twice as late as the last time.
Postpone ==
  /\ pass.at = "answered" /\ pass.answer \in {"busy", "unreachable"} /\ ~WindowOver
  /\ backoff' = [backoff EXCEPT ![Due] = NextTry(@.failures)]
  /\ SetDelivery(Due, "pending", pass.answer)
  /\ pass' = AfterRefusal /\ EndIdle
  /\ UNCHANGED <<hub, woken, endedOrder, hubHolds, waited, asked, strikes>>

\* The window is over: "gave up retrying".  The pass goes on, even where no answer came.
GiveUpOn ==
  /\ pass.at = "answered" /\ pass.answer \in {"busy", "unreachable"} /\ WindowOver
  /\ SetDelivery(Due, "failed", "gave up")
  /\ backoff' = [backoff EXCEPT ![Due] = Fresh]
  /\ asked' = asked \ {Due}
  /\ pass' = Rest(Deferring) /\ EndIdle
  /\ UNCHANGED <<hub, woken, endedOrder, hubHolds, waited, strikes>>

\* A store call of the pass raises: the pass is abandoned.  What was set before the call stays set:
\* _fail has forgotten the meeting by then, a postponed one has its new backoff.
PassAborted ==
  LET unanswered == pass.answer \in {"busy", "unreachable"}
      failing == pass.at = "answered" /\ (pass.answer \in ForGood \/ (unanswered /\ WindowOver))
      postponing == pass.at = "answered" /\ unanswered /\ ~WindowOver
  IN /\ pass.at \in {"next", "titling", "answered"} /\ strikes < MaxStrikes
     /\ strikes' = strikes + 1
     /\ pass' = NoPass /\ EndIdle
     /\ backoff' = [backoff EXCEPT ![Due] = IF failing THEN Fresh
                                            ELSE IF postponing THEN NextTry(@.failures) ELSE @]
     /\ asked' = IF failing THEN asked \ {Due} ELSE asked
     /\ UNCHANGED <<hub, woken, delivery, refusal, endedOrder, hubHolds, waited>>

\* The process starts again: only the rows survive, those failed for a reason a restart
\* can change are pending once more, and each pending one has a whole window.
Restart ==
  /\ strikes < MaxStrikes
  /\ strikes' = strikes + 1
  /\ backoff' = [m \in Finished |-> Fresh]
  /\ waited' = [m \in Finished |-> 0]
  /\ pass' = NoPass /\ asked' = {} /\ idleFor' = 0 /\ woken' = FALSE
  /\ delivery' = [m \in Finished |->
       IF delivery[m] = "failed" /\ refusal[m] \in {"barred", "gave up"} THEN "pending"
       ELSE delivery[m]]
  /\ UNCHANGED <<hub, refusal, endedOrder, hubHolds>>

PassStep == StartPass \/ PassOver \/ ReadRow \/ ReadAgain \/ Post \/ SettleAttempt
              \/ Postpone \/ GiveUpOn

DeliveryNext ==
  \/ \E m \in Finished : MeetingEnded(m) \/ MeetingDeleted(m)
  \/ Elapse \/ PassStep \/ PassAborted \/ Restart

\* The loop always comes round again, and time passes.
DeliveryFairness == WF_deliveryVars(PassStep) /\ WF_deliveryVars(Elapse)

DeliverySpec == DeliveryInit /\ [][DeliveryNext]_deliveryVars
DeliveryFairSpec == DeliverySpec /\ DeliveryFairness

---------------------------------------------------------------------------
\* The shape of the state.
DeliveryTypeOK ==
  /\ hub \in [Finished -> HubAnswers]
  /\ delivery \in [Finished -> {"open", "pending", "sent", "failed", "gone"}]
  /\ refusal \in [Finished -> {"none", "busy", "unreachable", "barred", "refused", "gave up"}]
  /\ ToSet(endedOrder) = {m \in Finished : delivery[m] # "open"}
  /\ backoff \in [Finished -> [failures : 0..RetryMax, due : 0..RetryMax]]
  /\ waited \in [Finished -> 0..GiveUp]
  /\ pass.at \in {"idle", "next", "titling", "posting", "answered"}
  /\ asked \subseteq Finished /\ idleFor \in 0..Poll /\ strikes \in 0..MaxStrikes

\* A row that says "sent" is a meeting the hub has.
SentIsHeld == \A m \in Finished : delivery[m] = "sent" => m \in hubHolds

\* A meeting the hub would take reaches it, or is deleted first, however often the hub
\* ignores or refuses the meetings that ended before it.
OthersArrive ==
  \A m \in Finished :
    delivery[m] = "pending" /\ hub[m] = "takes" ~> m \in hubHolds \/ delivery[m] = "gone"

\* No meeting stays pending for ever: it is sent, failed with a reason, or gone.
DeliverySettles == \A m \in Finished : delivery[m] = "pending" ~> delivery[m] # "pending"

\* Whatever the hub answers, or does not, each meeting comes to its end, and none that is marked
\* sent was not taken.
DeliveryEnds == [](DeliveryTypeOK /\ SentIsHeld) /\ OthersArrive /\ DeliverySettles
=============================================================================
