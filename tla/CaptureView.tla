----------------------------- MODULE CaptureView -----------------------------
(***************************************************************************)
(* What a capture client shows (captureSession.ts: reduce, advanceCues and *)
(* the release timer of CaptureSession): the turns said so far, and one    *)
(* cue at a time in a band above them, the next ones waiting behind it.  A *)
(* cue has the band for a window of wall-clock time and then sits in the   *)
(* transcript, after the turn that was last when it came.                  *)
(*                                                                         *)
(* Handlers run one at a time, to their end.  Times are relative to now.   *)
(***************************************************************************)
EXTENDS Integers, Sequences

CONSTANTS
  Turns,       \* ids of turns, and
  Cues,        \* of cues, that the api sends
  Ttl,         \* CUE_TTL_MS
  MaxWaiting,  \* MAX_QUEUED_CUES
  MaxReleased, \* MAX_PAST_CUES
  MaxLyrics,   \* bound: lines of a song's lyrics
  MaxOpening   \* bound: calls of start() awaiting at once

ASSUME ViewAssumption ==
  /\ Ttl \in Nat \ {0} /\ MaxWaiting \in Nat \ {0} /\ MaxReleased \in Nat \ {0}
  /\ MaxLyrics \in Nat /\ MaxOpening \in Nat
  /\ "none" \notin Cues /\ "none" \notin Turns

VARIABLES
  isRunning,  \* CaptureState.isRunning
  opening,    \* calls of start() that await the permission or the resume id
  heard,      \* an ApiClient delivers messages
  segments,   \* the turns held, by id
  partial,    \* a hypothesis is shown
  song,       \* a song's lyrics are
  active,     \* activeCue, or "none"
  closesIn,   \* activeCueEndsAt from now, 0 without an active cue
  waiting,    \* queuedCues
  released,   \* pastCues
  after,      \* afterSegmentId of each cue
  timerIn     \* cueTimerFor from now, where a timer is armed

bandVars == <<active, closesIn, waiting, released, after, timerIn>>
viewVars == <<isRunning, opening, heard, segments, partial, song, bandVars>>

NoTimer == [armed |-> FALSE, at |-> 0]
Armed(t) == [armed |-> TRUE, at |-> t]

\* How late a timer can be to matter: by then every window is over.
Floor == 0 - (MaxWaiting + 1) * Ttl

ViewInit ==
  /\ isRunning = FALSE /\ opening = 0 /\ heard = FALSE
  /\ segments = <<>> /\ partial = FALSE /\ song = FALSE
  /\ active = "none" /\ closesIn = 0 /\ waiting = <<>> /\ released = <<>>
  /\ after = [c \in Cues |-> "none"]
  /\ timerIn = NoTimer

Holds(s, x) == \E i \in DOMAIN s : s[i] = x
Shown(c) == active = c \/ Holds(waiting, c) \/ Holds(released, c)

-----------------------------------------------------------------------------
(* start() and stop().                                                     *)

\* start() does nothing while capturing, but that is checked before its awaits.
BeginStart ==
  /\ ~isRunning /\ opening < MaxOpening
  /\ opening' = opening + 1
  /\ UNCHANGED <<isRunning, heard, segments, partial, song, bandVars>>

\* The permission is denied.
Denied ==
  /\ opening > 0
  /\ opening' = opening - 1
  /\ UNCHANGED <<isRunning, heard, segments, partial, song, bandVars>>

\* "start": the view is cleared.
Cleared ==
  /\ isRunning' = TRUE
  /\ segments' = <<>> /\ partial' = FALSE /\ song' = FALSE
  /\ active' = "none" /\ closesIn' = 0 /\ waiting' = <<>> /\ released' = <<>>
  /\ after' = [c \in Cues |-> "none"]

\* A client is built, whose handlers feed the view.  A timer stays armed.
StartView ==
  /\ opening > 0
  /\ opening' = opening - 1
  /\ Cleared /\ heard' = TRUE
  /\ UNCHANGED timerIn

\* "stop": the transcript stays on screen, with the cues that are in it already.
Emptied ==
  /\ isRunning' = FALSE
  /\ partial' = FALSE /\ song' = FALSE
  /\ active' = "none" /\ closesIn' = 0 /\ waiting' = <<>>
  /\ UNCHANGED <<segments, released, after>>

\* stop(), once the microphone is off.  Only the session's current client is closed: one whose
\* start() overlapped another, or this stop(), goes on delivering.
StopView ==
  /\ heard' \in {FALSE, heard}
  /\ timerIn' = NoTimer
  /\ Emptied
  /\ UNCHANGED opening

TogglePause ==
  /\ isRunning
  /\ partial' = FALSE
  /\ UNCHANGED <<isRunning, opening, heard, segments, song, bandVars>>

-----------------------------------------------------------------------------
(* Messages: turns and songs.                                              *)

Partial ==
  /\ heard
  /\ partial' = TRUE
  /\ UNCHANGED <<isRunning, opening, heard, segments, song, bandVars>>

\* A turn that is held already is a re-delivery.
Final(t) ==
  /\ heard /\ ~Holds(segments, t)
  /\ segments' = Append(segments, t) /\ partial' = FALSE
  /\ UNCHANGED <<isRunning, opening, heard, song, bandVars>>

\* A session.ready that is not warm drops the song, whose end was lost with the old socket.
Ready ==
  /\ heard /\ song' \in {song, FALSE}
  /\ UNCHANGED <<isRunning, opening, heard, segments, partial, bandVars>>

SongStarts ==
  /\ heard /\ song' = TRUE
  /\ UNCHANGED <<isRunning, opening, heard, segments, partial, bandVars>>
SongStops ==
  /\ heard /\ song' = FALSE
  /\ UNCHANGED <<isRunning, opening, heard, segments, partial, bandVars>>

-----------------------------------------------------------------------------
(* Cues: showCue, syncCues and the release timer.                          *)

\* appendPastCue: once each, and the oldest falls off.
WithReleased(past, c) ==
  IF Holds(past, c) THEN past
  ELSE IF Len(past) = MaxReleased THEN Append(Tail(past), c)
  ELSE Append(past, c)

\* The next window opens where the last one closed, also when that was long ago.
NextWindow(ends) == ends + Ttl

\* One round of advanceCues: a window that is over is the next cue's.
Due(b) == b.active # "none" /\ b.closesIn <= 0
Release(b) ==
  IF b.waiting = <<>>
  THEN [active |-> "none", closesIn |-> 0, waiting |-> <<>>, released |-> WithReleased(b.released, b.active)]
  ELSE [active |-> Head(b.waiting), closesIn |-> NextWindow(b.closesIn), waiting |-> Tail(b.waiting),
        released |-> WithReleased(b.released, b.active)]

Advanced ==
  LET band == [active |-> active, closesIn |-> closesIn, waiting |-> waiting, released |-> released]
      round[n \in 0..MaxWaiting + 1] ==
        IF n = 0 THEN band ELSE LET b == round[n - 1] IN IF Due(b) THEN Release(b) ELSE b
  IN round[MaxWaiting + 1]

\* syncCueTimer, given the band it finds.
TimerKept(b) == IF b.active = "none" THEN NoTimer ELSE IF timerIn.armed THEN timerIn ELSE Armed(b.closesIn)
TimerFor(b) == IF b.active = "none" THEN NoTimer ELSE Armed(b.closesIn)

Shows(band) == \E b \in {band} :
  /\ active' = b.active /\ closesIn' = b.closesIn /\ waiting' = b.waiting /\ released' = b.released
  /\ timerIn' = TimerFor(b)

\* Too many waiting: the stalest goes.
WithWaiting(queue, c) ==
  IF Len(queue) = MaxWaiting THEN Append(Tail(queue), c) ELSE Append(queue, c)

\* A new cue takes an empty band, or waits.
Placed(b, c) ==
  IF b.active = "none" THEN [b EXCEPT !.active = c, !.closesIn = Ttl]
  ELSE [b EXCEPT !.waiting = WithWaiting(@, c)]

\* A cue that is shown already, or in the transcript, is a re-delivery.
CueArrives(c) ==
  /\ heard /\ ~Shown(c)
  /\ Shows(Placed(Advanced, c))
  /\ after' = [after EXCEPT ![c] = IF segments = <<>> THEN "none" ELSE segments[Len(segments)]]
  /\ UNCHANGED <<isRunning, opening, heard, segments, partial, song>>

\* cueTick: the schedule is reconciled.
Tick == Shows(Advanced) /\ UNCHANGED <<isRunning, opening, heard, segments, partial, song, after>>
TimerFires == timerIn.armed /\ timerIn.at <= 0 /\ Tick
Foreground == Tick   \* syncCues: the app comes back

\* Time passes; a timer of an app in the background fires late, or once it is back.
Later(t) == IF t > Floor THEN t - 1 ELSE t
ViewElapse ==
  /\ closesIn' = IF active = "none" THEN 0 ELSE Later(closesIn)
  /\ timerIn' = IF timerIn.armed THEN Armed(Later(timerIn.at)) ELSE NoTimer
  /\ UNCHANGED <<isRunning, opening, heard, segments, partial, song,
                 active, waiting, released, after>>

ViewNext ==
  \/ BeginStart \/ Denied \/ StartView \/ StopView \/ TogglePause
  \/ Partial \/ Ready \/ SongStarts \/ SongStops
  \/ \E t \in Turns : Final(t)
  \/ \E c \in Cues : CueArrives(c)
  \/ TimerFires \/ Foreground \/ ViewElapse

\* Time passes and a timer that is due fires.
ViewFairness == WF_viewVars(ViewElapse) /\ WF_viewVars(TimerFires)
ViewSpec == ViewInit /\ [][ViewNext]_viewVars
ViewFairSpec == ViewSpec /\ ViewFairness

-----------------------------------------------------------------------------
(* The lyrics on show, around the line that is sung.                       *)

LinesBefore == 1   \* LYRIC_LINES_BEFORE
LinesAfter  == 2   \* LYRIC_LINES_AFTER
WindowSize  == LinesBefore + 1 + LinesAfter

\* The first line on show of n, around the one with this index; -1 before the first is sung.
AtLeast(a, b) == IF a < b THEN b ELSE a
AtMost(a, b) == IF a > b THEN b ELSE a
WindowStart(n, index) ==
  IF index < 0 THEN 0
  ELSE AtMost(AtLeast(index - LinesBefore, 0), AtLeast(n - WindowSize, 0))
WindowEnd(n, index) == AtMost(WindowStart(n, index) + WindowSize, n)   \* exclusive
CurrentRow(n, index) == IF n = 0 \/ index < 0 THEN -1 ELSE index - WindowStart(n, index)

-----------------------------------------------------------------------------
(* Properties.                                                             *)

ViewTypeOK ==
  /\ isRunning \in BOOLEAN /\ opening \in 0..MaxOpening /\ heard \in BOOLEAN
  /\ segments \in Seq(Turns) /\ partial \in BOOLEAN /\ song \in BOOLEAN
  /\ active \in Cues \cup {"none"} /\ closesIn \in Floor..Ttl
  /\ waiting \in Seq(Cues) /\ Len(waiting) <= MaxWaiting
  /\ released \in Seq(Cues) /\ Len(released) <= MaxReleased
  /\ after \in [Cues -> Turns \cup {"none"}]
  /\ timerIn \in [armed : BOOLEAN, at : Floor..Ttl]

\* The cues of the view in the order they came, from the transcript to the end of the queue.
Line == released \o (IF active = "none" THEN <<>> ELSE <<active>>) \o waiting

\* However often a resume re-delivers it, a cue is in one place at a time.
NoCueTwice == \A i, j \in DOMAIN Line : Line[i] = Line[j] => i = j

\* liveTranscript: a cue is shown right after its turn, and before all turns without one.
Position(c) == IF Holds(segments, after[c]) THEN CHOOSE i \in DOMAIN segments : segments[i] = after[c] ELSE 0

\* The transcript shows the cues in the order in which they had the band, and no cue's turn is
\* gone from it: only a new start drops turns, and their cues with them.
CuesInOrder ==
  \A i, j \in DOMAIN Line :
    /\ i < j => Position(Line[i]) <= Position(Line[j])
    /\ after[Line[i]] # "none" => Holds(segments, after[Line[i]])

\* A cue that waits has one before it, and a cue in the band has the one timer armed for the end
\* of its window: a missed one would leave it there for good.
BandIsTimed ==
  /\ active = "none" => waiting = <<>>
  /\ active # "none" => timerIn = Armed(closesIn)

\* A session that was stopped, with all of its clients, shows nothing live.
StoppedIsQuiet == ~isRunning /\ ~heard => active = "none" /\ waiting = <<>> /\ ~partial /\ ~song

\* The line that is sung is on show and lit, with the one before it and the two after it as far
\* as there are any, and the box is full when there are lines enough.
LyricsInView ==
  \A n \in 0..MaxLyrics : \A index \in -1..n-1 :
    LET first == WindowStart(n, index)
        end   == WindowEnd(n, index)
    IN  /\ 0 <= first /\ end <= n
        /\ end - first = AtMost(n, WindowSize)
        /\ index >= 0 => /\ first + CurrentRow(n, index) = index
                         /\ first <= AtLeast(index - LinesBefore, 0)
                         /\ end >= AtMost(index + 1 + LinesAfter, n)

\* What the view keeps at every moment.
ViewSafe ==
  /\ NoCueTwice /\ CuesInOrder /\ BandIsTimed /\ StoppedIsQuiet
  /\ LyricsInView

\* Every cue whose window is over leaves the band, on time or after a spell in the background.
CuesLeave == []<>(active = "none" \/ closesIn > 0)

\* The band shows each cue in its turn.
CuesTakeTurns == [](ViewTypeOK /\ ViewSafe) /\ CuesLeave
=============================================================================
