--------------------------- MODULE ScreenMeetings ---------------------------
(***************************************************************************)
(* One captured window's meeting (screen/meetings.py, screen/ws.py): the   *)
(* sockets that feed it, their lanes, the tracker that outlives them, the  *)
(* lock the lanes and the sweep share, and the rows the meetings become.   *)
(* Caption lines are numbered as they appear on the window; what counts    *)
(* two readings as the same line is the merger's (merge.py) and is taken   *)
(* as right.  A full frame only takes the tracker and its lock here: its   *)
(* roster and its captions-off warning change no row.                      *)
(***************************************************************************)
EXTENDS Integers, Sequences, SequencesExt, FiniteSets

CONSTANTS Sockets,      \* the capture client's connections that may overlap
          Regions,      \* the lanes of a socket: {"caption"} or {"caption", "full"}
          MaxLines,     \* bound: caption lines that appear
          MaxFrames,    \* bound: frames that reach a tracker
          MaxCloses,    \* bound: sockets that go away
          MaxStoreErrors, \* bound: store calls that fail
          MaxLostAcks   \* bound: finish() calls that commit and still raise

VARIABLES onScreen,     \* lines that have appeared on the window
          spent,        \* how much of each bound is used
          connected,    \* sockets that are up
          tracker,      \* slot -> MeetingTracker
          kept,         \* the slot in ScreenMeetings._trackers, or 0
          carried,      \* ScreenMeetings._carries: lines of the meeting that ended last
          lane,         \* socket, region -> where its task is
          holder,       \* slot -> who holds the tracker's lock, or NoTask
          waiters,      \* slot -> who waits for it, in the order they came
          sweeper,      \* the sweep: where it is, and on which tracker
          meetingRow,   \* meeting -> "absent", "live" or "ready"
          meetingLines, \* meeting -> the lines its row holds
          cutLines      \* lines nobody holds: their handler was cancelled, or their start failed

lockVars == <<holder, waiters>>
meetingVars == <<onScreen, spent, connected, tracker, kept, carried, lane, lockVars,
                 sweeper, meetingRow, meetingLines, cutLines>>

Slots == 1..3
Lanes == Sockets \X Regions
MeetingIds == 1..(MaxLines + MaxCloses + MaxStoreErrors)
NoSocket == "none"
SweepTask == <<"sweep", "loop">>  \* the sweep, at a tracker's lock
NoTask == <<>>

ASSUME MeetingBounds ==
  /\ {MaxLines, MaxFrames, MaxCloses, MaxStoreErrors, MaxLostAcks} \subseteq Nat
  /\ NoSocket \notin Sockets /\ "sweep" \notin Sockets

\* A CaptionMerger: the lines it knows without storing them, has seen, has counted final.
Merger(from) == [from |-> from, seen |-> from, final |-> from]

\* Mutant: a tracker that is made again does not know the lines of the meeting that ended.
IdleTrackerForgets(ended) ==
  [open |-> 0, merger |-> Merger(0), unsaved |-> <<>>, notify |-> NoSocket,
   captions |-> "coming", ended |-> 0]

\* A MeetingTracker between meetings; `ended` stands for its _ended_lines.
IdleTracker(ended) ==
  [open |-> 0, merger |-> Merger(ended), unsaved |-> <<>>, notify |-> NoSocket,
   captions |-> "coming", ended |-> ended]

IdleLane == [at |-> "idle", on |-> 0, merger |-> Merger(0), segs |-> <<>>]

FromTo(i, j) == [k \in 1..(j - i) |-> i + k]
Spend(what) == spent' = [spent EXCEPT ![what] = @ + 1]

MeetingInit ==
  /\ onScreen = 0
  /\ spent = [frames |-> 0, closes |-> 0, errors |-> 0, acks |-> 0]
  /\ connected = Sockets
  /\ tracker = [t \in Slots |-> IdleTracker(0)]
  /\ kept = 0
  /\ carried = 0
  /\ lane = [l \in Lanes |-> IdleLane]
  /\ holder = [t \in Slots |-> NoTask] /\ waiters = [t \in Slots |-> <<>>]
  /\ sweeper = [at |-> "idle", on |-> 0]
  /\ meetingRow = [m \in MeetingIds |-> "absent"]
  /\ meetingLines = [m \in MeetingIds |-> {}]
  /\ cutLines = {}

\* A slot no lane and no sweep refers to: a tracker object of its own.
Unused(t) == /\ t # kept
             /\ \A l \in Lanes : lane[l].on # t
             /\ sweeper.on # t

\* asyncio.Lock: it is taken if it is free, else its waiters get it in turn.
Holds(who, t) == holder[t] = who
Ask(who, t) ==
  IF holder[t] = NoTask THEN holder' = [holder EXCEPT ![t] = who] /\ UNCHANGED waiters
                        ELSE waiters' = [waiters EXCEPT ![t] = Append(@, who)] /\ UNCHANGED holder
First(line) == IF line = <<>> THEN NoTask ELSE Head(line)
Others(line) == IF line = <<>> THEN <<>> ELSE Tail(line)
Release(t) == /\ holder' = [holder EXCEPT ![t] = First(waiters[t])]
              /\ waiters' = [waiters EXCEPT ![t] = Others(@)]

\* The id of the next meeting: there are enough for every start that the bounds allow.
NextMeeting == {m \in MeetingIds : /\ meetingRow[m] = "absent"
                                   /\ \A n \in MeetingIds : meetingRow[n] = "absent" => m <= n}

---------------------------------------------------------------------------
\* Somebody speaks: the panel shows one more line.
Speak ==
  /\ onScreen < MaxLines
  /\ onScreen' = onScreen + 1
  /\ UNCHANGED <<spent, connected, tracker, kept, carried, lane, lockVars, sweeper,
                 meetingRow, meetingLines, cutLines>>

\* No caption for API_SCREEN_MEETING_END_SECONDS.
FallQuiet ==
  /\ kept # 0 /\ tracker[kept].open # 0 /\ tracker[kept].captions = "coming"
  /\ tracker' = [tracker EXCEPT ![kept].captions = "gone"]
  /\ UNCHANGED <<onScreen, spent, connected, kept, carried, lane, lockVars, sweeper,
                 meetingRow, meetingLines, cutLines>>

\* read_frame up to the tracker's lock: tracker_for, which makes and registers a
\* tracker where there is none, and the socket that now hears its cadence.
TakeTracker(l) ==
  /\ l[1] \in connected /\ lane[l].at = "idle" /\ spent.frames < MaxFrames
  /\ Spend("frames")
  /\ \E t \in Slots :
       /\ IF kept # 0 THEN t = kept
                      ELSE Unused(t) /\ \A u \in Slots : Unused(u) => t <= u
       /\ kept' = t
       /\ tracker' = [tracker EXCEPT ![t] =
            [(IF kept # 0 THEN @ ELSE IdleTracker(carried)) EXCEPT !.notify = l[1]]]
       /\ carried' = IF kept # 0 THEN carried ELSE 0
       /\ lane' = [lane EXCEPT ![l].at = "locking", ![l].on = t]
       /\ Ask(l, t)
  /\ UNCHANGED <<onScreen, connected, sweeper, meetingRow, meetingLines, cutLines>>

\* on_full: the roster, the people, the warning.
FullFrame(l) ==
  /\ lane[l].at = "locking" /\ l[2] = "full" /\ Holds(l, lane[l].on)
  /\ lane' = [lane EXCEPT ![l] = IdleLane]
  /\ Release(lane[l].on)
  /\ UNCHANGED <<onScreen, spent, connected, tracker, kept, carried, sweeper,
                 meetingRow, meetingLines, cutLines>>

\* on_caption drops a crop with no text, one that is not the panel, one over the CPU budget.
IgnoreCaption(l) ==
  /\ lane[l].at = "locking" /\ l[2] = "caption" /\ Holds(l, lane[l].on)
  /\ lane' = [lane EXCEPT ![l] = IdleLane]
  /\ Release(lane[l].on)
  /\ UNCHANGED <<onScreen, spent, connected, tracker, kept, carried, sweeper,
                 meetingRow, meetingLines, cutLines>>

\* What a feed does to a merger: it has seen the panel, and counts some lines final.
Fed(merger) == {[merger EXCEPT !.seen = onScreen, !.final = f] :
                  f \in merger.final..onScreen}

\* A pool thread runs merger.feed on the frame (on_caption): the open meeting's
\* merger, or a fresh one that knows the ended meeting's lines.
Feed(l) ==
  LET t == lane[l].on
      merger == IF tracker[t].open # 0 THEN tracker[t].merger ELSE Merger(tracker[t].ended)
  IN /\ lane[l].at = "locking" /\ l[2] = "caption" /\ Holds(l, t)
     /\ \E fed \in Fed(merger) :
          /\ lane' = [lane EXCEPT ![l].at = "fed", ![l].merger = fed,
                                  ![l].segs = FromTo(merger.final, fed.final)]
          /\ tracker' = IF tracker[t].open # 0 THEN [tracker EXCEPT ![t].merger = fed]
                                               ELSE tracker
     /\ UNCHANGED <<onScreen, spent, connected, kept, carried, lockVars, sweeper,
                    meetingRow, meetingLines, cutLines>>

\* on_caption gets the feed's lines: the frame holds the meeting open, and its lines
\* join the unsaved ones, or it shows nothing new and starts nothing, or _start
\* goes on to create the row.
TakeFed(l) ==
  LET t == lane[l].on
  IN /\ lane[l].at = "fed"
     /\ \/ /\ tracker[t].open # 0
           /\ tracker' = [tracker EXCEPT ![t].captions = "coming",
                                         ![t].unsaved = @ \o lane[l].segs]
           /\ lane' = [lane EXCEPT ![l].at = "storing", ![l].segs = <<>>]
           /\ UNCHANGED lockVars
        \/ /\ tracker[t].open = 0 /\ lane[l].merger.seen = lane[l].merger.from
           /\ tracker' = [tracker EXCEPT ![t].captions = "coming"]
           /\ lane' = [lane EXCEPT ![l] = IdleLane]
           /\ Release(t)
        \/ /\ tracker[t].open = 0 /\ lane[l].merger.seen > lane[l].merger.from
           /\ tracker' = [tracker EXCEPT ![t].captions = "coming"]
           /\ lane' = [lane EXCEPT ![l].at = "creating"]
           /\ UNCHANGED lockVars
     /\ UNCHANGED <<onScreen, spent, connected, kept, carried, sweeper,
                    meetingRow, meetingLines, cutLines>>

\* _start: the row is created, then the tracker knows its meeting, with nothing to store yet.
Create(l) ==
  LET t == lane[l].on
  IN /\ lane[l].at = "creating"
     /\ \E m \in NextMeeting :
          /\ meetingRow' = [meetingRow EXCEPT ![m] = "live"]
          /\ tracker' = [tracker EXCEPT ![t].open = m, ![t].merger = lane[l].merger,
                                        ![t].unsaved = <<>>]
     /\ lane' = [lane EXCEPT ![l].at = "started"]
     /\ UNCHANGED <<onScreen, spent, connected, kept, carried, lockVars, sweeper,
                    meetingLines, cutLines>>

\* The people are stored and the cadence is told: _store gets the first feed's lines.
TakeStarted(l) ==
  /\ lane[l].at = "started"
  /\ tracker' = [tracker EXCEPT ![lane[l].on].unsaved = @ \o lane[l].segs]
  /\ lane' = [lane EXCEPT ![l].at = "storing", ![l].segs = <<>>]
  /\ UNCHANGED <<onScreen, spent, connected, kept, carried, lockVars, sweeper,
                 meetingRow, meetingLines, cutLines>>

\* The people cannot be stored: the frame fails with a meeting open and a merger that has
\* counted lines final which nobody will store.
StartFails(l) ==
  /\ lane[l].at = "started" /\ spent.errors < MaxStoreErrors
  /\ Spend("errors")
  /\ cutLines' = cutLines \union ToSet(lane[l].segs)
  /\ lane' = [lane EXCEPT ![l] = IdleLane]
  /\ Release(lane[l].on)
  /\ UNCHANGED <<onScreen, connected, tracker, kept, carried, sweeper,
                 meetingRow, meetingLines>>

\* The create fails: the next caption starts the meeting again.
CreateFails(l) ==
  /\ lane[l].at = "creating" /\ spent.errors < MaxStoreErrors
  /\ Spend("errors")
  /\ lane' = [lane EXCEPT ![l] = IdleLane]
  /\ Release(lane[l].on)
  /\ UNCHANGED <<onScreen, connected, tracker, kept, carried, sweeper,
                 meetingRow, meetingLines, cutLines>>

\* _store's loop: the oldest unsaved line is written, then forgotten.
StoreNext(t) ==
  /\ tracker[t].unsaved # <<>>
  /\ meetingLines' = [meetingLines EXCEPT ![tracker[t].open] = @ \union {Head(tracker[t].unsaved)}]
  /\ tracker' = [tracker EXCEPT ![t].unsaved = Tail(@)]

StoreLine(l) ==
  /\ lane[l].at = "storing" /\ StoreNext(lane[l].on)
  /\ UNCHANGED <<onScreen, spent, connected, kept, carried, lane, lockVars, sweeper,
                 meetingRow, cutLines>>

\* Every line is written, or one write failed and the rest wait for the next frame.
DoneStoring(l) ==
  /\ lane[l].at = "storing"
  /\ \/ tracker[lane[l].on].unsaved = <<>> /\ UNCHANGED spent
     \/ /\ tracker[lane[l].on].unsaved # <<>> /\ spent.errors < MaxStoreErrors
        /\ Spend("errors")
  /\ lane' = [lane EXCEPT ![l] = IdleLane]
  /\ Release(lane[l].on)
  /\ UNCHANGED <<onScreen, connected, tracker, kept, carried, sweeper,
                 meetingRow, meetingLines, cutLines>>

\* The socket's handler ends: its lanes are cancelled wherever they are, and it is
\* detached from the trackers it fed.  A create already in a thread still commits,
\* and so does a write; a feed that ran has changed the merger.
CloseSocket(s) ==
  LET gone == {l \in Lanes : l[1] = s}
      lostFeed == {l \in gone : lane[l].at \in {"fed", "started"} /\ tracker[lane[l].on].open # 0}
      left == [t \in Slots |-> SelectSeq(waiters[t], LAMBDA w : w \notin gone)]
      creating == {l \in gone : lane[l].at = "creating"}
      writing == {l \in gone : lane[l].at = "storing" /\ tracker[lane[l].on].unsaved # <<>>}
  IN /\ s \in connected /\ spent.closes < MaxCloses
     /\ Spend("closes")
     /\ connected' = connected \ {s}
     /\ lane' = [l \in Lanes |-> IF l \in gone THEN IdleLane ELSE lane[l]]
     /\ holder' = [t \in Slots |-> IF holder[t] \in gone THEN First(left[t]) ELSE holder[t]]
     /\ waiters' = [t \in Slots |-> IF holder[t] \in gone THEN Others(left[t]) ELSE left[t]]
     /\ tracker' = [t \in Slots |-> IF t = kept /\ tracker[t].notify = s
                                    THEN [tracker[t] EXCEPT !.notify = NoSocket]
                                    ELSE tracker[t]]
     /\ cutLines' = cutLines \union UNION {ToSet(lane[l].segs) : l \in lostFeed}
     /\ \/ /\ creating # {}
           /\ \E m \in NextMeeting : meetingRow' = [meetingRow EXCEPT ![m] = "live"]
        \/ UNCHANGED meetingRow
     /\ \/ \E l \in writing : LET t == tracker[lane[l].on] IN
             meetingLines' = [meetingLines EXCEPT ![t.open] = @ \union {Head(t.unsaved)}]
        \/ UNCHANGED meetingLines
     /\ UNCHANGED <<onScreen, kept, carried, sweeper>>

Reconnect(s) ==
  /\ s \notin connected
  /\ connected' = connected \union {s}
  /\ UNCHANGED <<onScreen, spent, tracker, kept, carried, lane, lockVars, sweeper,
                 meetingRow, meetingLines, cutLines>>

---------------------------------------------------------------------------
\* The sweep asks for the tracker's lock.
SweepTakes ==
  /\ sweeper.at = "idle" /\ kept # 0
  /\ sweeper' = [at |-> "locking", on |-> kept]
  /\ Ask(SweepTask, kept)
  /\ UNCHANGED <<onScreen, spent, connected, tracker, kept, carried, lane,
                 meetingRow, meetingLines, cutLines>>

\* end(): the meeting is quiet for long enough, so every line still open is flushed.
SweepEnds ==
  LET t == sweeper.on
  IN /\ sweeper.at = "locking" /\ Holds(SweepTask, t)
     /\ tracker[t].open # 0 /\ tracker[t].captions = "gone"
     /\ tracker' = [tracker EXCEPT
          ![t].unsaved = @ \o FromTo(tracker[t].merger.final, tracker[t].merger.seen),
          ![t].merger.final = tracker[t].merger.seen]
     /\ sweeper' = [sweeper EXCEPT !.at = "ending"]
     /\ UNCHANGED <<onScreen, spent, connected, kept, carried, lane, lockVars,
                    meetingRow, meetingLines, cutLines>>

SweepStores ==
  /\ sweeper.at = "ending" /\ StoreNext(sweeper.on)
  /\ UNCHANGED <<onScreen, spent, connected, kept, carried, lane, lockVars, sweeper,
                 meetingRow, cutLines>>

\* Mutant: a tracker that no socket hears is dropped with its meeting still open.
DropIdleOpen(t, after) ==
  IF after.notify = NoSocket
  THEN /\ kept' = IF kept = t THEN 0 ELSE kept
       /\ carried' = IF after.ended > 0 THEN after.ended ELSE carried
  ELSE UNCHANGED <<kept, carried>>

\* _drop where the tracker is idle and no socket hears it; its lines are carried.
DropIdle(t, after) ==
  IF after.open = 0 /\ after.notify = NoSocket
  THEN /\ kept' = IF kept = t THEN 0 ELSE kept
       /\ carried' = IF after.ended > 0 THEN after.ended ELSE carried
  ELSE UNCHANGED <<kept, carried>>

\* Everything is stored: the row is marked ready and the tracker forgets its meeting.
SweepFinishes ==
  LET t == sweeper.on
      after == [IdleTracker(tracker[t].merger.seen) EXCEPT !.notify = tracker[t].notify]
  IN /\ sweeper.at = "ending" /\ tracker[t].unsaved = <<>>
     /\ meetingRow' = [meetingRow EXCEPT ![tracker[t].open] = "ready"]
     /\ tracker' = [tracker EXCEPT ![t] = after]
     /\ DropIdle(t, after)
     /\ sweeper' = [at |-> "idle", on |-> 0]
     /\ Release(t)
     /\ UNCHANGED <<onScreen, spent, connected, lane, meetingLines, cutLines>>

\* A write or the finish fails: the meeting stays open for the next sweep.  finish()
\* reads the row back after its update, and may raise having marked it ready.
SweepFails ==
  LET t == sweeper.on
  IN /\ sweeper.at = "ending"
     /\ \/ spent.errors < MaxStoreErrors /\ Spend("errors") /\ UNCHANGED meetingRow
        \/ /\ tracker[t].unsaved = <<>> /\ spent.acks < MaxLostAcks /\ Spend("acks")
           /\ meetingRow' = [meetingRow EXCEPT ![tracker[t].open] = "ready"]
     /\ sweeper' = [at |-> "idle", on |-> 0]
     /\ Release(t)
     /\ UNCHANGED <<onScreen, connected, tracker, kept, carried, lane, meetingLines, cutLines>>

\* Nothing has expired: an idle tracker without a socket is dropped.
SweepPasses ==
  LET t == sweeper.on
  IN /\ sweeper.at = "locking" /\ Holds(SweepTask, t)
     /\ tracker[t].open = 0 \/ tracker[t].captions = "coming"
     /\ DropIdle(t, tracker[t])
     /\ sweeper' = [at |-> "idle", on |-> 0]
     /\ Release(t)
     /\ UNCHANGED <<onScreen, spent, connected, tracker, lane, meetingRow, meetingLines,
                    cutLines>>

LaneStep(l) == FullFrame(l) \/ Feed(l) \/ TakeFed(l) \/ Create(l) \/ TakeStarted(l)
               \/ StoreLine(l) \/ DoneStoring(l)
SweepStep == SweepTakes \/ SweepEnds \/ SweepStores \/ SweepFinishes \/ SweepPasses

MeetingNext ==
  \/ Speak \/ FallQuiet
  \/ \E l \in Lanes : TakeTracker(l) \/ LaneStep(l) \/ IgnoreCaption(l)
                       \/ CreateFails(l) \/ StartFails(l)
  \/ \E s \in Sockets : CloseSocket(s) \/ Reconnect(s)
  \/ SweepStep \/ SweepFails

\* The loop runs every ready task, the sweep comes round every 5 s, and time passes.
MeetingFairness ==
  /\ WF_meetingVars(FallQuiet)
  /\ WF_meetingVars(SweepStep)
  /\ \A l \in Lanes : WF_meetingVars(LaneStep(l))

MeetingSpec == MeetingInit /\ [][MeetingNext]_meetingVars
MeetingFairSpec == MeetingSpec /\ MeetingFairness

---------------------------------------------------------------------------
MergerType == [from : 0..MaxLines, seen : 0..MaxLines, final : 0..MaxLines]

\* The shape of the state: one tracker object per slot, tasks at its lock.
MeetingTypeOK ==
  /\ onScreen \in 0..MaxLines
  /\ connected \subseteq Sockets
  /\ \A t \in Slots :
       /\ tracker[t].open \in MeetingIds \union {0}
       /\ tracker[t].merger \in MergerType
       /\ tracker[t].unsaved \in Seq(1..MaxLines)
       /\ tracker[t].notify \in Sockets \union {NoSocket}
       /\ {holder[t]} \union ToSet(waiters[t]) \subseteq Lanes \union {SweepTask, NoTask}
  /\ kept \in Slots \union {0} /\ carried \in 0..MaxLines
  /\ meetingRow \in [MeetingIds -> {"absent", "live", "ready"}]
  /\ meetingLines \in [MeetingIds -> SUBSET (1..MaxLines)]
  /\ cutLines \subseteq 1..MaxLines

\* No caption line is stored in two meetings, however often sockets drop, trackers are
\* dropped and made again, and the panel of an ended meeting is read once more.  It takes
\* one thing: the socket that a tracker notifies leaves no frame of another socket behind.
StoredOnce ==
  \A m, n \in MeetingIds : m # n => meetingLines[m] \intersect meetingLines[n] = {}

\* A line an open meeting's merger has counted final is stored, waits in _unsaved, or
\* is on its way to it with the handler that fed it; a handler cancelled right after
\* its feed, and a start that could not store the people, are the exceptions.
FinalIsOwed ==
  \A t \in Slots : tracker[t].open # 0 =>
    \A i \in (tracker[t].merger.from + 1)..tracker[t].merger.final :
      \/ i \in meetingLines[tracker[t].open] \union ToSet(tracker[t].unsaved) \union cutLines
      \/ \E l \in Lanes : lane[l].on = t /\ i \in ToSet(lane[l].segs)

\* An open meeting whose captions have stopped ends, whatever the store refuses on the way.
OpenOnesEnd ==
  \A m \in MeetingIds : (kept # 0 /\ tracker[kept].open = m) ~> meetingRow[m] = "ready"

\* No line of a meeting is lost or stored twice, and no meeting stays open.
MeetingsEnd == [](MeetingTypeOK /\ StoredOnce /\ FinalIsOwed) /\ OpenOnesEnd
=============================================================================
