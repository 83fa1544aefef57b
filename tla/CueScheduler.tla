---------------------------- MODULE CueScheduler ----------------------------
(***************************************************************************)
(* Cue attempts of one session (session.py, _consider_cue to               *)
(* _cue_catch_up): which finalized turn starts a call of the cue model, how *)
(* a turn that comes too early is set aside, and what is checked again     *)
(* after each await before a cue is shown.                                 *)
(*                                                                         *)
(* A cue is a subject and an angle on it: its title is the pair, and two   *)
(* titles share a distinctive word when their subjects are the same (the   *)
(* substance fingerprint is a finer test of the same kind).  Turns are     *)
(* numbered; the timers are flags that time clears.                        *)
(***************************************************************************)
EXTENDS Integers, Sequences

CONSTANTS Subjects, Angles,
          MaxFinals      \* bound: finalized turns

ASSUME CueAssumption == MaxFinals \in Nat

VARIABLES
  final,     \* turns finalized so far
  seen,      \* the latest turn in the window of a call
  floor,     \* within attempt_interval_ms of the last attempt's start
  timer,     \* _cue_floor_timer is set
  held,      \* _cue_held_at_ms: the newest turn held by the floor, 0 for None
  missed,    \* _cue_missed_at_ms: the newest turn that came during a call, 0 for None
  call,      \* the call in flight: where it awaits, and the cue it has
  interval,  \* within min_interval_ms of the last cue shown
  busy,      \* a translation run or a song has the box (TranslationRun, MusicRun)
  ending,    \* the session: "open", "closed", "finished" (the row was marked ready)
  checker,   \* a fact checker is configured
  norms,     \* _surfaced_cue_norms: titles never to be offered again
  subjects,  \* _surfaced_cue_subjects
  shown      \* history: the cues sent, in order

cueVars == <<final, seen, floor, timer, held, missed, call, interval, busy, ending, checker,
             norms, subjects, shown>>

Cues   == [subject : Subjects, angle : Angles]
NoCall == [at |-> "none", cue |-> {}]

CueInit ==
  /\ final = 0 /\ seen = 0 /\ floor = FALSE /\ timer = FALSE /\ held = 0 /\ missed = 0
  /\ call = NoCall /\ interval = FALSE /\ busy = FALSE /\ ending = "open"
  /\ checker \in BOOLEAN /\ norms = {} /\ subjects = {} /\ shown = <<>>

\* _start_cue: the call's window holds every turn so far, so nothing waits on the floor.
StartCall(latest) ==
  /\ call' = [at |-> "model", cue |-> {}] /\ seen' = latest
  /\ floor' = TRUE /\ held' = 0 /\ timer' = FALSE

\* _consider_cue: a turn inside the floor is held for its timer, one during a call is missed.
ConsiderFinal ==
  /\ final < MaxFinals /\ final' = final + 1
  /\ IF ending # "open" \/ busy THEN UNCHANGED <<seen, floor, timer, held, missed, call>>
     ELSE IF floor THEN held' = final' /\ timer' = TRUE /\ UNCHANGED <<seen, floor, missed, call>>
     ELSE IF call # NoCall THEN missed' = final' /\ UNCHANGED <<seen, floor, timer, held, call>>
     ELSE IF interval THEN UNCHANGED <<seen, floor, timer, held, missed, call>>
     ELSE StartCall(final') /\ UNCHANGED missed
  /\ UNCHANGED <<interval, busy, ending, checker, norms, subjects, shown>>

\* _cue_catch_up, when a call ends or the floor lapses without one.
MayCatchUp(turn) == turn # 0 /\ ending = "open" /\ ~busy
CatchUp(turn, justShown) ==
  /\ missed' = 0
  /\ IF MayCatchUp(turn) /\ ~justShown THEN StartCall(final)
     ELSE call' = NoCall /\ UNCHANGED <<seen, floor, timer, held>>
CallEnds == CatchUp(missed, interval) /\ UNCHANGED final

FloorPasses    == floor /\ floor' = FALSE
                  /\ UNCHANGED <<final, seen, timer, held, missed, call, interval, busy, ending,
                                 checker, norms, subjects, shown>>
IntervalPasses == interval /\ interval' = FALSE
                  /\ UNCHANGED <<final, seen, floor, timer, held, missed, call, busy, ending,
                                 checker, norms, subjects, shown>>

\* The call in flight will catch up on the turn held until now.
HandOver == timer' = FALSE /\ held' = 0 /\ missed' = (IF held = 0 THEN missed ELSE held)

\* _cue_floor_lapsed: the held turn goes the catch-up's way, now or when the call ends.
TimerFires ==
  /\ timer /\ ~floor
  /\ IF call # NoCall
     THEN HandOver /\ UNCHANGED <<seen, floor, call>>
     ELSE /\ missed' = 0 /\ timer' = FALSE /\ held' = 0
          /\ IF MayCatchUp(held) /\ ~interval
             THEN call' = [at |-> "model", cue |-> {}] /\ seen' = final /\ floor' = TRUE
             ELSE UNCHANGED <<call, seen, floor>>
  /\ UNCHANGED <<final, interval, busy, ending, checker, norms, subjects, shown>>

\* Mutant: only the exact title counts as a repetition.
RepeatsByTitle(cue) == cue \in norms
\* The cue was already surfaced, or another angle on a subject that was.
Repeats(cue) == cue \in norms \/ cue.subject \in subjects
MayShow == ending # "finished" /\ ~busy

Show(cue) ==
  /\ call' = [at |-> "send", cue |-> {cue}]
  /\ norms' = norms \cup {cue} /\ subjects' = subjects \cup {cue.subject}
  /\ shown' = Append(shown, cue) /\ interval' = TRUE
  /\ UNCHANGED <<final, seen, floor, timer, held, missed>>

\* The evidence and the model came back: with nothing, with an error, or with a cue.
ModelAnswers ==
  /\ call.at = "model"
  /\ \/ CallEnds /\ UNCHANGED <<interval, norms, subjects, shown>>
     \/ \E cue \in Cues :
          /\ MayShow /\ ~Repeats(cue)
          /\ IF checker
             THEN call' = [at |-> "check", cue |-> {cue}]
                  /\ UNCHANGED <<final, seen, floor, timer, held, missed, interval, norms, subjects, shown>>
             ELSE Show(cue)
  /\ UNCHANGED <<busy, ending, checker>>

\* The fact check came back.  A contradicted title is never offered again; a check that fails
\* or times out shows the cue, unless the recording ended or a run opened meanwhile.
Checked ==
  /\ call.at = "check"
  /\ \E cue \in call.cue :
       \/ norms' = norms \cup {cue} /\ CallEnds /\ UNCHANGED <<interval, subjects, shown>>
       \/ MayShow /\ Show(cue)
       \/ ~MayShow /\ CallEnds /\ UNCHANGED <<interval, norms, subjects, shown>>
  /\ UNCHANGED <<busy, ending, checker>>

Sent == /\ call.at = "send" /\ CallEnds
        /\ UNCHANGED <<interval, busy, ending, checker, norms, subjects, shown>>

BoxChanges == /\ busy' = ~busy
              /\ UNCHANGED <<final, seen, floor, timer, held, missed, call, interval, ending,
                             checker, norms, subjects, shown>>
SessionEnds ==
  /\ \/ ending = "open" /\ ending' = "closed"
     \/ ending = "closed" /\ ending' = "finished"
  /\ UNCHANGED <<final, seen, floor, timer, held, missed, call, interval, busy, checker, norms,
                 subjects, shown>>

CueNext == ConsiderFinal \/ FloorPasses \/ IntervalPasses \/ TimerFires \/ ModelAnswers
           \/ Checked \/ Sent \/ BoxChanges \/ SessionEnds

CueSpec == CueInit /\ [][CueNext]_cueVars

\* Time passes, timers fire and the calls of the models end.
CueFairness == /\ WF_cueVars(FloorPasses) /\ WF_cueVars(TimerFires)
               /\ WF_cueVars(ModelAnswers \/ Checked \/ Sent)
CueFairSpec == CueSpec /\ CueFairness

-----------------------------------------------------------------------------
(* Properties.                                                              *)

CueTypeOK ==
  /\ final \in 0..MaxFinals /\ seen \in 0..MaxFinals /\ held \in 0..MaxFinals /\ missed \in 0..MaxFinals
  /\ {floor, timer, interval, busy, checker} \subseteq BOOLEAN
  /\ call \in [at : {"none", "model", "check", "send"}, cue : SUBSET Cues]
  /\ ending \in {"open", "closed", "finished"}
  /\ norms \subseteq Cues /\ subjects \subseteq Subjects /\ shown \in Seq(Cues)

\* A turn set aside always has somebody who will attempt on it: the floor's timer, or the call
\* in flight.  Without one it would wait for the next final, or forever once speech stops.
SetAsideIsOwned == (held # 0 => timer) /\ (missed # 0 => call # NoCall)

\* You pay per attempt: two calls never start within the floor of each other, whichever of a
\* final, the floor's timer or a call's end starts them (XERK-2411).
AttemptsAreApart == [][(call'.at = "model" /\ call.at # "model") => ~floor]_cueVars

\* One subject, one cue per conversation, whatever came back meanwhile (XERK-102).
NoSubjectTwice == \A i, j \in DOMAIN shown : shown[i].subject = shown[j].subject => i = j

\* No cue reaches the client over a run's or a song's box, or after the recording was marked
\* ready, however many awaits ago its call was let through (XERK-160, XERK-184).
ShownInTheOpen == [][shown' # shown => ~busy /\ ending # "finished"]_cueVars

\* Cues are bounded in number, variety and place, and no turn is set aside for nobody.
CueSafe == CueTypeOK /\ SetAsideIsOwned /\ NoSubjectTwice

\* A turn held by the floor gets its attempt unless its chance is gone: the box was taken, a cue
\* was just shown, or the session is closing.
HeldIsAttempted ==
  \A n \in 1..MaxFinals : (held = n) ~> (seen >= n \/ ending # "open" \/ busy \/ interval)

\* Attempts crowd neither each other nor a box, and none that is owed is forgotten.
CueTiming == AttemptsAreApart /\ ShownInTheOpen /\ HeldIsAttempted
=============================================================================
